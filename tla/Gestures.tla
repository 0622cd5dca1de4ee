-------------------------------- MODULE Gestures --------------------------------
(***************************************************************************)
(* Trackpad gestures (Gesture.cpp, gesture.scm).  An action is a recipe;   *)
(* registering it makes a gesture object, which a custom recipe's thunks   *)
(* travel in under a counted lock (SThunkRef.hpp).  The manager owns the   *)
(* object from birth and drops it when it refuses it, when it is removed   *)
(* by its spec, and at every reload; one that is being performed may       *)
(* outlive that.                                                           *)
(***************************************************************************)
EXTENDS Naturals, FiniteSets, Errors

CONSTANTS Shapes,       \* fingers, direction and modifiers
          Shadows,      \* pairs: the first leaves no room for the second
          Scales,       \* the rest of a spec
          Thunks,       \* what a custom recipe may hold
          NoThunk,      \* a phase the recipe has no thunk for
          MaxGestures   \* how many gesture objects there are (the bound)

ASSUME GesturesAssumption ==
    /\ Shadows \subseteq Shapes \X Shapes /\ \A s \in Shapes : <<s, s>> \in Shadows
    /\ NoThunk \notin Thunks /\ MaxGestures \in Nat

PhaseNames == {"start", "update", "finish"}
Recipes == [PhaseNames -> Thunks \cup {NoThunk}]
Objects == 1..MaxGestures
NoGesture == 0

VARIABLES gesture,    \* gesture[g]: spec and thunks of an object that exists
          registered, \* the objects the manager lists
          performed,  \* the object whose gesture is under way, or NoGesture
          protects,   \* protects[t]: Guile's protection count of the thunk
          fired       \* history: the thunk the manager has just called

gestureVars == <<gesture, registered, performed, protects, fired>>

Made == DOMAIN gesture
Carried(r, t) == Cardinality({p \in PhaseNames : r[p] = t})

GesturesInit ==
    /\ gesture = <<>>
    /\ registered = {} /\ performed = NoGesture
    /\ protects = [t \in Thunks |-> 0]
    /\ fired = NoThunk

\* Mutant: one unlock for each object, however often it carries the thunk.
UnlockOnce(S) == [t \in Thunks |->
    protects[t] - Cardinality({g \in S : \E p \in PhaseNames : gesture[g].thunks[p] = t})]

\* SThunkRef's constructor and destructor, for the three members of each of
\* the objects that come or go.
Lock(r) == [t \in Thunks |-> protects[t] + Carried(r, t)]
Unlock(S) == [t \in Thunks |->
    protects[t] - Cardinality({x \in S \X PhaseNames : gesture[x[1]].thunks[x[2]] = t})]

\* Mutant of Released: the locks of an object that was refused stay.
ReleasedNever(locks, r) == locks

\* An object that was made and is not kept gives its locks back.
Released(locks, r) == [t \in Thunks |-> locks[t] - Carried(r, t)]

\* Objects leave the manager's list; the one being performed may stay on until
\* it has ended.
Dropped(S) ==
    \E lost \in {S, S \ {performed}} :
        /\ registered' = registered \ S
        /\ gesture' = [g \in Made \ lost |-> gesture[g]]
        /\ protects' = Unlock(lost)
        /\ performed' = IF performed \in lost THEN NoGesture ELSE performed

-------------------------------------------------------------------------------

\* A direction, a modifier or a maker that is none: nothing is made.
GestureRefused ==
    /\ Fail("hl-gesture-add!") \/ Fail("hl-gesture-remove!")
    /\ fired' = NoThunk
    /\ UNCHANGED <<gesture, registered, performed, protects>>

\* CTrackpadGestures::addGesture.
Shadowed(shape) == \E g \in registered : <<gesture[g].shape, shape>> \in Shadows

\* hlSchemeGesture: the maker makes the object before the manager is asked.  A
\* refused one dies at once, and its locks with it.
GestureAdd(shape, scale, r) ==
    /\ \E g \in Objects \ Made :
        /\ \A h \in Objects \ Made : g <= h
        /\ IF Shadowed(shape)
           THEN /\ Fail("hl-gesture-add!")
                /\ protects' = Released(Lock(r), r)
                /\ UNCHANGED <<gesture, registered>>
           ELSE /\ gesture' = [h \in Made \cup {g} |->
                    IF h = g THEN [shape |-> shape, scale |-> scale, thunks |-> r] ELSE gesture[h]]
                /\ registered' = registered \cup {g}
                /\ protects' = Lock(r)
                /\ Fine
    /\ fired' = NoThunk
    /\ UNCHANGED performed

\* hlSchemeGestureRemove: whatever is registered under the spec; #f if none.
GestureRemove(shape, scale) ==
    /\ Dropped({g \in registered : gesture[g].shape = shape /\ gesture[g].scale = scale})
    /\ fired' = NoThunk
    /\ Fine

\* The config reload.
GesturesClear ==
    /\ Dropped(registered)
    /\ fired' = NoThunk
    /\ Fine

-------------------------------------------------------------------------------
(* The manager's input.                                                    *)

\* CSchemeGesture::begin, update, end, and fireSchemeGestureEvent.
Fire(g, phase) == fired' = gesture[g].thunks[phase]

Start ==
    /\ performed = NoGesture
    /\ \E g \in registered : performed' = g /\ Fire(g, "start")
    /\ Fine /\ UNCHANGED <<gesture, registered, protects>>

Update ==
    /\ performed # NoGesture
    /\ Fire(performed, "update")
    /\ Fine /\ UNCHANGED <<gesture, registered, performed, protects>>

\* The end lets go of an object that is registered no more.
Finish ==
    /\ performed # NoGesture
    /\ Fire(performed, "finish")
    /\ LET lost == {performed} \ registered IN
       /\ gesture' = [g \in Made \ lost |-> gesture[g]]
       /\ protects' = Unlock(lost)
    /\ performed' = NoGesture
    /\ Fine /\ UNCHANGED registered

GesturesNext ==
    \/ GestureRefused
    \/ \E s \in Shapes, x \in Scales :
        \/ GestureRemove(s, x)
        \/ \E r \in Recipes : GestureAdd(s, x, r)
    \/ GesturesClear
    \/ Start \/ Update \/ Finish

-------------------------------------------------------------------------------

GesturesTypeOK ==
    /\ Made \subseteq Objects /\ registered \subseteq Made
    /\ \A g \in Made : gesture[g] \in [shape : Shapes, scale : Scales, thunks : Recipes]
    /\ performed \in Made \cup {NoGesture}
    /\ protects \in [Thunks -> Nat]
    /\ \A g, h \in registered : gesture[g].shape = gesture[h].shape => g = h

(* A thunk is protected once for each place a living gesture carries it:   *)
(* neither a refused registration nor a removal, nor a reload in the       *)
(* middle of a gesture, leaks one or takes one from another registration   *)
(* of the same recipe; so no callback is called after it was let go, but   *)
(* for the finish that ended its object.                                   *)
ThunksLocked ==
    /\ \A t \in Thunks : protects[t] =
         Cardinality({x \in Made \X PhaseNames : gesture[x[1]].thunks[x[2]] = t})
    /\ performed # NoGesture /\ fired # NoThunk => protects[fired] > 0
===============================================================================
