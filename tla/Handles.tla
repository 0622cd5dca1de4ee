-------------------------------- MODULE Handles --------------------------------
(***************************************************************************)
(* Handles.hpp and Handles.cpp: what Scheme holds of a compositor object.  *)
(* A handle is a foreign object around one weak reference.  The object     *)
(* dies without asking; the handle dies in three steps: Scheme drops its   *)
(* last reference, the collector queues the finalizer, and the after-gc    *)
(* hook runs the queue on the compositor's thread.                         *)
(*                                                                         *)
(* An object is a slot (its address) and a life number: the allocator      *)
(* gives an address out again, and the weak reference must not follow.     *)
(***************************************************************************)
EXTENDS Naturals, FiniteSets

CONSTANTS Slots,      \* addresses of compositor objects
          Family,     \* the family each slot's objects belong to
          MaxHandles, \* how many handles may exist at a time (the bound)
          MaxLives,   \* MaxLives[s]: how often s is given out (the bound)
          Nothing     \* a null reference

ASSUME HandlesAssumption ==
    /\ Nothing \notin Slots
    /\ MaxHandles \in Nat
    /\ DOMAIN Family = Slots
    /\ MaxLives \in [Slots -> Nat]

HandleIds == 1..MaxHandles

VARIABLES lives,   \* lives[s]: the number of objects s has held so far
          alive,   \* the slots whose current object exists
          handle,  \* handle[h]: the object h was made for, and its phase
          unmapped \* objects that exist but that no list shows (windows)

handleVars == <<lives, alive, handle, unmapped>>

Phases == {"held", "dropped", "queued"}
Free == [slot |-> Nothing, life |-> 0, phase |-> "free"]

HandlesInit ==
    /\ lives = [s \in Slots |-> 0]
    /\ alive = {}
    /\ handle = [h \in HandleIds |-> Free]
    /\ unmapped = {}

Held == {h \in HandleIds : handle[h].phase = "held"}
Exists(h) == handle[h].phase # "free"

\* The object a handle is for, dead or alive.
Target(h) == <<handle[h].slot, handle[h].life>>

\* wp.lock(): the object, or null once it has died -- also when another
\* object has the address now.
LockOf(h) == IF handle[h].slot \in alive /\ lives[handle[h].slot] = handle[h].life
             THEN handle[h].slot ELSE Nothing

\* unwrapHandle: the type check comes before anything else.
Unwraps(h, family) == h \in Held /\ Family[handle[h].slot] = family

\* wrapHandle, for each of a set of objects: a fresh foreign object each, even
\* where an equal handle exists.  A handle has the first number that is free.
Wrapped(S) ==
    LET free == {h \in HandleIds : ~Exists(h)}
        ids  == {h \in free : Cardinality({i \in free : i < h}) < Cardinality(S)}
    IN  {[h \in HandleIds |->
            IF h \in ids THEN [slot |-> f[h], life |-> lives'[f[h]], phase |-> "held"]
            ELSE handle[h]] :
         f \in {g \in [ids -> S] : \A s \in S : \E i \in ids : g[i] = s}}

Wrap(S) == handle' \in Wrapped(S)

-------------------------------------------------------------------------------
(* The compositor: objects come and go whatever handles there are.         *)

Born(s) ==
    /\ s \notin alive /\ lives[s] < MaxLives[s]
    /\ lives' = [lives EXCEPT ![s] = @ + 1]
    /\ alive' = alive \cup {s}

\* Mutant: an object that dies unmapped is still listed as such.
DieKeeps(s) ==
    /\ s \in alive
    /\ alive' = alive \ {s}
    /\ UNCHANGED <<lives, handle, unmapped>>

Die(s) ==
    /\ s \in alive
    /\ alive' = alive \ {s}
    /\ unmapped' = unmapped \ {s}
    /\ UNCHANGED <<lives, handle>>

Unmap(s) ==
    /\ s \in alive /\ Family[s] = "window"
    /\ unmapped' = unmapped \cup {s}
    /\ UNCHANGED <<lives, alive, handle>>

-------------------------------------------------------------------------------
(* Reads.  What a field says is not modelled.                              *)

Related(family) == {s \in alive : Family[s] = family}

\* A getter of a field answers #f for a dead object, and changes nothing.
Read(h, family) ==
    /\ Unwraps(h, family)
    /\ UNCHANGED handleVars

\* A getter whose answer is another object: the workspace, monitor, group,
\* swallowed window or column of a window, of a workspace, of a monitor, ...
\* #f where there is none.
ObjectGetter(h, family) ==
    /\ LockOf(h) # Nothing
    /\ UNCHANGED <<lives, alive, unmapped>>
    /\ \E s \in Related(family) : Wrap({s})

\* windowMatchesSelector refuses a window that is not mapped, whatever is asked.
WindowMatches(s) == s \notin unmapped

\* What a selector may match.
Matching(family) == SUBSET {s \in Related(family) : WindowMatches(s)}

\* The focused, last or urgent object, the one at a place, the first that
\* matches; #f where there is none.
Query(family) ==
    /\ UNCHANGED <<lives, alive, unmapped>>
    /\ \E S \in Matching(family) : Cardinality(S) = 1 /\ Wrap(S)

\* hl-windows, hl-workspaces, hl-monitors, hl-layers, group members: a fresh
\* handle for every object that matches.
List(family) ==
    /\ UNCHANGED <<lives, alive, unmapped>>
    /\ \E S \in Matching(family) \ {{}} : Wrap(S)

\* An event hands its object over as a weak reference; window.destroy and
\* workspace.removed come when the object is gone, so the handle is born dead.
EventHandle(s) ==
    /\ lives[s] > 0
    /\ UNCHANGED <<lives, alive, unmapped>>
    /\ Wrap({s})

-------------------------------------------------------------------------------
(* The end of a handle.                                                    *)

Drop(h) ==
    /\ h \in Held
    /\ handle' = [handle EXCEPT ![h].phase = "dropped"]
    /\ UNCHANGED <<lives, alive, unmapped>>

\* The collector finds some of the dropped handles (it is conservative).
Collect ==
    \E S \in SUBSET {h \in HandleIds : handle[h].phase = "dropped"} :
        /\ S # {}
        /\ handle' = [h \in HandleIds |->
                        IF h \in S THEN [handle[h] EXCEPT !.phase = "queued"] ELSE handle[h]]
        /\ UNCHANGED <<lives, alive, unmapped>>

Queue == {h \in HandleIds : handle[h].phase = "queued"}

\* runFinalizers: delete every queued handle.
RunFinalizers ==
    /\ Queue # {}
    /\ handle' = [h \in HandleIds |-> IF h \in Queue THEN Free ELSE handle[h]]
    /\ UNCHANGED <<lives, alive, unmapped>>

-------------------------------------------------------------------------------

HandlesTypeOK ==
    /\ lives \in [Slots -> Nat] /\ \A s \in Slots : lives[s] <= MaxLives[s]
    /\ alive \subseteq Slots
    /\ \A h \in HandleIds :
        \/ handle[h] = Free
        \/ /\ handle[h].slot \in Slots
           /\ handle[h].life \in 1..lives[handle[h].slot]
           /\ handle[h].phase \in Phases
    /\ unmapped \subseteq alive

(* A handle whose object has died reads as dead for good: no later object, *)
(* at the same address or not, ever answers through it.                    *)
DeadStaysDead ==
    [][\A h \in Held : h \in Held' /\ Target(h)' = Target(h) /\ LockOf(h) = Nothing
                        => LockOf(h)' = Nothing]_handleVars
===============================================================================
