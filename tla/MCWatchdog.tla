------------------------------ MODULE MCWatchdog ------------------------------
(* Watchdog for TLC: callbacks two deep, an alarm every second tick, and budgets *)
(* of nothing, which the first alarm finds spent, and of two ticks, which the    *)
(* first alarm finds unspent and the second spent.                               *)
EXTENDS Watchdog

MCBudgets == {0, 2}

=============================================================================
