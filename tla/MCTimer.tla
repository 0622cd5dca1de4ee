------------------------------- MODULE MCTimer -------------------------------
(* Timer for TLC: two timers, so that the callback of one acts on the other.   *)
EXTENDS Timer, TLC

CONSTANTS t1, t2

MCTimers == {t1, t2}
MCIntervals == {0, 5, 9}
MCSymmetry == Permutations(MCTimers)

=============================================================================
