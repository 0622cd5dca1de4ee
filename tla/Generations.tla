----------------------------- MODULE Generations -----------------------------
(* What the host promises a script: whatever it hooked into the compositor acts *)
(* only while the generation that hooked it is the current one, and nothing     *)
(* acts while the plugin is detached.  Host.tla implements it.                  *)
EXTENDS Naturals

VARIABLES
    gen,       \* the current generation
    attached,  \* scripts can run
    live       \* the generations with a hook in the compositor

vars == <<gen, attached, live>>

Init == gen = 0 /\ ~attached /\ live = {}

\* A generation starts with nothing hooked.
Attach ==
    /\ ~attached
    /\ attached' = TRUE
    /\ gen' = gen + 1
    /\ UNCHANGED live

Detach ==
    /\ attached
    /\ attached' = FALSE
    /\ live' = {}
    /\ UNCHANGED gen

\* A reload takes every hook away; the next generation follows if it was built.
Renew ==
    /\ attached
    /\ live' = {}
    /\ gen' \in {gen, gen + 1}
    /\ UNCHANGED attached

\* Only the current generation hooks anything.
Hook ==
    /\ attached
    /\ live' = live \cup {gen}
    /\ UNCHANGED <<gen, attached>>

Unhook ==
    /\ live' \in SUBSET live
    /\ UNCHANGED <<gen, attached>>

Next == Attach \/ Detach \/ Renew \/ Hook \/ Unhook

Spec == Init /\ [][Next]_vars

\* A hook belongs to the current generation of an attached plugin.
OnlyTheCurrentActs == live \subseteq (IF attached THEN {gen} ELSE {})

=============================================================================
