--------------------------------- MODULE Groups ---------------------------------
(***************************************************************************)
(* Window groups (Group.cpp, group.scm, and the window-scoped lock of      *)
(* Window.cpp).  A group lives while it has members; its lock is a flag of *)
(* the group that each member's decoration draws, when it is told to.      *)
(***************************************************************************)
EXTENDS Windows, FiniteSets

CONSTANT MaxGroups  \* how many groups there are (the bound)

ASSUME GroupsAssumption == MaxGroups \in Nat

GroupIds == 1..MaxGroups
NoGroup == 0

VARIABLES member,     \* member[w]: the group of w, or NoGroup
          made,       \* the groups that have existed
          locked,     \* the groups whose lock flag is set
          denied,     \* the groups that deny new members
          drawn,      \* the members whose decoration draws a lock
          byWindow,   \* history: groups whose lock was last set through a window
          allLocked   \* the compositor's own switch

groupVars == <<member, made, locked, denied, drawn, byWindow, allLocked>>

Members(g) == {w \in Windows : member[w] = g}
GroupOf(h) == IF Members(h) # {} THEN h ELSE NoGroup   \* hl::groupOf
GroupHandles == made

GroupsInit ==
    /\ member = [w \in Windows |-> NoGroup]
    /\ made = {} /\ locked = {} /\ denied = {} /\ drawn = {} /\ byWindow = {}
    /\ allLocked = FALSE

GroupAsked(a) == asked' = [op |-> "group", args |-> {a}, answer |-> 0]
NotWindows == UNCHANGED <<windowLife, focused, marks, full>>

-------------------------------------------------------------------------------
(* The compositor's groups.                                                *)

Stay == UNCHANGED <<member, made, locked, denied, drawn, byWindow>>

\* Windows move to another group or to none; a group dies with its last member.
Move(S, g) ==
    /\ member' = [w \in Windows |-> IF w \in S THEN g ELSE member[w]]
    /\ LET dead == {h \in GroupIds : \A w \in Windows : member'[w] # h} IN
       /\ locked' = locked \ dead
       /\ denied' = denied \ dead
       /\ byWindow' = byWindow \ dead

\* A window joins a group; its decoration draws the lock as it is.
Joins(w, g) ==
    /\ Move({w}, g)
    /\ made' = made \cup {g}
    /\ drawn' = IF g \in locked THEN drawn \cup {w} ELSE drawn \ {w}

\* Windows leave their group.
Leave(S) ==
    /\ Move(S, NoGroup)
    /\ drawn' = drawn \ S
    /\ UNCHANGED made

\* toggleGroup: a group of its own, or the end of the one it is in.
ToggleGroup(w) ==
    IF w = NoWindow THEN Stay
    ELSE IF member[w] = NoGroup THEN Cardinality(made) < MaxGroups /\ Joins(w, Cardinality(made) + 1)
    ELSE Leave(Members(member[w]))

-------------------------------------------------------------------------------

\* hl-group-toggle! of group.scm's module surface.
GroupToggle(a) ==
    /\ a \in Arguments
    /\ ToggleGroup(ActsOn(ActionWindow(a)))
    /\ GroupAsked(a)
    /\ Fine /\ NotWindows /\ UNCHANGED allLocked

\* The same with a wish: nothing to do where it is so already.
GroupSet(a, on) ==
    /\ a \in Arguments
    /\ LET w == WindowOrFocused(a) IN
       IF w = NoWindow \/ (member[w] # NoGroup) = on
       THEN Stay ELSE ToggleGroup(w)
    /\ GroupAsked(a)
    /\ Fine /\ NotWindows /\ UNCHANGED allLocked

\* hl-group-cycle!, hl-group-window-active!: another member is shown (focused).
GroupCycle(a) ==
    /\ a \in Arguments
    /\ LET w == ActsOn(ActionWindow(a)) IN
       /\ w # NoWindow /\ member[w] # NoGroup
       /\ focused' \in {focused} \cup Members(member[w])
    /\ GroupAsked(a)
    /\ Fine /\ UNCHANGED <<windowLife, marks, full, groupVars>>

\* hl-group-window-move-next! ignores its window: the focused one changes its
\* place among the members, whose order is not kept here.
GroupMoveWindow(a) ==
    /\ a \in Arguments /\ focused # NoWindow /\ member[focused] # NoGroup
    /\ GroupAsked(a)
    /\ Fine /\ NotWindows /\ UNCHANGED groupVars

\* hl-window-deny-from-group! ignores its window too.
DenyFromGroup(a, act) ==
    /\ a \in Arguments /\ focused # NoWindow /\ member[focused] # NoGroup
    /\ denied' = Switched(denied, member[focused], act)
    /\ GroupAsked(a)
    /\ Fine /\ NotWindows /\ UNCHANGED <<member, made, locked, drawn, byWindow, allLocked>>

\* hl-group-lock-all-set!.
GroupLockAllSet(act) ==
    /\ allLocked' = (1 \in Switched(IF allLocked THEN {1} ELSE {}, 1, act))
    /\ asked' = Compositor
    /\ Fine /\ NotWindows /\ UNCHANGED <<member, made, locked, denied, drawn, byWindow>>

\* Mutant: the decorations are not told.
RefreshedNever(S) == UNCHANGED drawn

\* refreshValues of some windows' decorations.
Refreshed(S) ==
    drawn' = (drawn \ S) \cup {w \in S : member[w] \in locked'}

\* hl-group-lock-set!: every member is told.
GroupLockSet(h, act) ==
    /\ h \in GroupHandles
    /\ LET g == GroupOf(h) IN
       IF g = NoGroup THEN UNCHANGED <<locked, drawn, byWindow>>
       ELSE /\ locked' = Switched(locked, g, act)
            /\ Refreshed(Members(g))
            /\ byWindow' = byWindow \ {g}
    /\ asked' = Compositor
    /\ Fine /\ NotWindows /\ UNCHANGED <<member, made, denied, allLocked>>

\* hl-window-group-lock-set!: the window is told, the other members are not.
WindowGroupLock(a, act) ==
    /\ a \in Arguments
    /\ LET w == WindowOrFocused(a) IN
       IF w = NoWindow \/ member[w] = NoGroup THEN UNCHANGED <<locked, drawn, byWindow>>
       ELSE /\ locked' = Switched(locked, member[w], act)
            /\ Refreshed({w})
            /\ byWindow' = byWindow \cup {member[w]}
    /\ GroupAsked(a)
    /\ Fine /\ NotWindows /\ UNCHANGED <<member, made, denied, allLocked>>

\* canBeGroupedInto: not into a locked group.
CanBeGroupedInto(w, g) == g \notin locked /\ ~allLocked

\* hl-group-add!: a dead handle is refused without a reason.
GroupAdd(h, a) ==
    /\ h \in GroupHandles /\ a \in Arguments \ {Focused}
    /\ LET g == GroupOf(h)  w == WindowOf(a) IN
       IF g = NoGroup \/ w = NoWindow
       THEN FailSilently("hl-group-add!") /\ Stay
       ELSE IF member[w] = g THEN Fine /\ Stay
       ELSE IF g \in denied \/ ~CanBeGroupedInto(w, g)
       THEN Fail("hl-group-add!") /\ Stay
       ELSE Joins(w, g) /\ Fine
    /\ GroupAsked(a)
    /\ NotWindows /\ UNCHANGED allLocked

\* hl-group-remove!: a dead group without a reason, anything else with one.
GroupRemove(h, a) ==
    /\ h \in GroupHandles /\ a \in Arguments \ {Focused}
    /\ LET g == GroupOf(h)  w == WindowOf(a) IN
       IF g = NoGroup THEN FailSilently("hl-group-remove!") /\ Stay
       ELSE IF w = NoWindow \/ member[w] # g
       THEN Fail("hl-group-remove!") /\ Stay
       ELSE Leave({w}) /\ Fine
    /\ GroupAsked(a)
    /\ NotWindows /\ UNCHANGED allLocked

\* Windows come and go under the groups; a decoration is redrawn for reasons
\* of the compositor's own.
GroupComings ==
    /\ \E w \in Windows : \/ Map(w) /\ Stay
                          \/ Unborn(w) /\ Leave({w})
    /\ asked' = Compositor
    /\ Fine /\ UNCHANGED <<marks, full, allLocked>>

Redrawn ==
    /\ UNCHANGED locked
    /\ \E w \in Open : Refreshed({w})
    /\ asked' = Compositor
    /\ Fine /\ NotWindows /\ UNCHANGED <<member, made, denied, byWindow, allLocked>>

GroupsNext ==
    \/ \E a \in Arguments :
        \/ GroupToggle(a) \/ GroupCycle(a) \/ GroupMoveWindow(a)
        \/ \E on \in BOOLEAN : GroupSet(a, on)
        \/ \E act \in 0..2 : DenyFromGroup(a, act) \/ WindowGroupLock(a, act)
        \/ \E h \in GroupHandles : GroupAdd(h, a) \/ GroupRemove(h, a)
    \/ \E act \in 0..2 : GroupLockAllSet(act) \/ \E h \in GroupHandles : GroupLockSet(h, act)
    \/ GroupComings \/ Redrawn

-------------------------------------------------------------------------------

GroupsTypeOK ==
    /\ member \in [Windows -> GroupIds \cup {NoGroup}]
    /\ {member[w] : w \in Windows} \subseteq made \cup {NoGroup}
    /\ locked \cup denied \cup byWindow \subseteq made
    /\ drawn \subseteq {w \in Open : member[w] # NoGroup}
    /\ \A w \in Windows : member[w] # NoGroup => w \in Open

(* The lock every member of a group draws is the group's, whatever joined, *)
(* left or was redrawn since the lock was set through the group's handle.  *)
LockIsDrawn ==
    \A w \in Open : member[w] \notin byWindow \cup {NoGroup} =>
        (w \in drawn <=> member[w] \in locked)

(* The same for a lock set through a window (hl-window-group-lock-set!:    *)
(* "the same operation").  Refuted: the other members are not told.        *)
LockIsAlwaysDrawn ==
    \A w \in Open : member[w] # NoGroup => (w \in drawn <=> member[w] \in locked)

(* No call on a window changes the groups of another one.  Refuted:        *)
(* DenyFromGroup looks at the focused window, whatever it is given.        *)
ArgumentIsUsed ==
    [][\A g \in GroupIds : (g \in denied) # (g \in denied') =>
        \E a \in asked'.args : WindowOrFocused(a) # NoWindow /\ member[WindowOrFocused(a)] = g]_<<windowVars, groupVars>>
===============================================================================
