----------------------------- MODULE Families_proofs -----------------------------
(* Proofs about the families of entry points, as Families.tla runs them, for    *)
(* any number of windows, workspaces and monitors, any options, keymaps and     *)
(* thunks, and any depth of handlers: the windows a call acts on and the locks  *)
(* of groups, the calls that outlast a workspace handler, the reasons of what   *)
(* is refused, the locks of thunks and of notifications, the chords there and   *)
(* back, what calls write, and the types of it all.                             *)
EXTENDS Families, FiniteSetTheorems, SequenceTheorems, WellFoundedInduction, TLAPS

------------------------------------------------------------------------------
(* The windows.                                                               *)

WindowsTyped ==
    /\ focused \in Windows \cup {NoWindow}
    /\ marks \in [Windows -> SUBSET Ops]
    /\ full \in [Windows -> FullModes \X FullModes]

\* What every step but those on fullscreen keeps.
KeepsFull ==
    /\ WindowsTyped' /\ ActsOnArgument
    /\ asked'.op \notin {"sync", "fullscreen"}

LEMMA NamedIs ==
    ASSUME WindowsTyped, NEW a \in Arguments
    PROVE  /\ WindowOrFocused(a) \in Windows \cup {NoWindow}
           /\ ActsOn(ActionWindow(a)) = WindowOrFocused(a)
           /\ a # Focused => a \in Windows /\ WindowOrFocused(a) = WindowOf(a)
           /\ WindowOf(a) # NoWindow => a \in Windows /\ WindowOf(a) = a
  BY WindowsAssumption
  DEF WindowsTyped, Arguments, WindowOrFocused, WindowOf, ActsOn, ActionWindow, Open, Windows, NoWindow

\* A call that leaves marks and modes alone and the focus on a window.
LEMMA QuietKeeps ==
    ASSUME WindowsTyped, UNCHANGED <<marks, full>>, focused' \in Windows \cup {NoWindow},
           asked'.op \notin {"sync", "fullscreen"}
    PROVE  KeepsFull
  BY DEF WindowsTyped, ActsOnArgument, KeepsFull

\* A call that changes the marks of its argument.
LEMMA MarkKeeps ==
    ASSUME WindowsTyped, NEW a \in Arguments, NEW w, w = ActsOn(ActionWindow(a)),
           NEW new \in SUBSET Ops, Acted({a}, w, new), UNCHANGED <<full, focused>>
    PROVE  KeepsFull
  <1>1. w \in Windows \cup {NoWindow} /\ w = WindowOrFocused(a)
    BY NamedIs
  <1>2. asked'.args = {a} /\ asked'.op = "act"
    BY DEF Acted, Answer
  <1>3. w \in Named
    BY <1>1, <1>2 DEF Named
  <1>4. CASE w # NoWindow /\ marks' = [marks EXCEPT ![w] = new]
    BY <1>1, <1>2, <1>3, <1>4 DEF WindowsTyped, ActsOnArgument, KeepsFull
  <1>5. CASE UNCHANGED marks
    BY <1>2, <1>5 DEF WindowsTyped, ActsOnArgument, KeepsFull
  <1>6. QED
    BY <1>4, <1>5 DEF Acted

LEMMA ComingsKeep ==
    ASSUME WindowsTyped, NEW w \in Windows, Map(w) \/ Unborn(w), UNCHANGED <<marks, full>>,
           asked' = Compositor
    PROVE  KeepsFull
  <1>1. focused' \in Windows \cup {NoWindow}
    BY DEF WindowsTyped, Map, Unborn, Open
  <1>2. asked'.op = "none"
    BY DEF Compositor
  <1>3. QED
    BY <1>1, <1>2, QuietKeeps

LEMMA WindowsKeep ==
    ASSUME WindowsTyped, WindowsNext
    PROVE  KeepsFull
  <1>1. ASSUME NEW a \in Arguments,
               \/ Get(a) \/ GetFlag(a) \/ GetOptional(a) \/ GetOrFocused(a)
               \/ \E known \in BOOLEAN : PropGet(a, known)
               \/ \E b \in Arguments : Same(a, b)
               \/ Close(a) \/ Pass(a)
               \/ \E m \in BOOLEAN, k \in BOOLEAN : SendKey(a, m, k)
        PROVE  KeepsFull
    <2>1. asked'.op = "act" /\ UNCHANGED <<marks, full, focused>>
      BY <1>1 DEF Get, GetFlag, GetOptional, GetOrFocused, PropGet, Same, Close, Pass, SendKey,
                  NoActs, Answer
    <2>2. QED
      BY <2>1, QuietKeeps DEF WindowsTyped
  <1>2. ASSUME NEW a \in Arguments, Arrange(a) \/ Focus(a)
        PROVE  KeepsFull
    <2>1. asked'.op = "act" /\ UNCHANGED <<marks, full>>
      BY <1>2 DEF Arrange, Focus, Answer
    <2>2. focused' \in Windows \cup {NoWindow}
      BY <1>2, NamedIs DEF Arrange, Focus, WindowsTyped, Open
    <2>3. QED
      BY <2>1, <2>2, QuietKeeps
  <1>3. ASSUME NEW a \in Arguments, NEW op \in Ops, Dispatch(op, a)
        PROVE  KeepsFull
    <2> DEFINE w == ActsOn(ActionWindow(a))
    <2>1. w \in Windows \cup {NoWindow}
      BY NamedIs
    <2>2. (IF w = NoWindow THEN {} ELSE marks[w] \cup {op}) \in SUBSET Ops
      BY <2>1 DEF WindowsTyped
    <2>3. Acted({a}, w, IF w = NoWindow THEN {} ELSE marks[w] \cup {op}) /\ UNCHANGED <<full, focused>>
      BY <1>3 DEF Dispatch, NoActs
    <2>4. QED
      BY <2>2, <2>3, MarkKeeps
  <1>4. ASSUME NEW a \in Arguments, NEW op \in Ops, NEW act \in 0..2, Toggle(op, a, act)
        PROVE  KeepsFull
    <2> DEFINE w == ActsOn(ActionWindow(a))
    <2>1. w \in Windows \cup {NoWindow}
      BY NamedIs
    <2>2. (IF w = NoWindow THEN {} ELSE Switched(marks[w], op, act)) \in SUBSET Ops
      BY <2>1 DEF WindowsTyped, Switched
    <2>3. Acted({a}, w, IF w = NoWindow THEN {} ELSE Switched(marks[w], op, act))
          /\ UNCHANGED <<full, focused>>
      BY <1>4 DEF Toggle, NoActs
    <2>4. QED
      BY <2>2, <2>3, MarkKeeps
  <1>5. ASSUME NEW a \in Arguments, NEW o \in Arguments, SwapWith(a, o)
        PROVE  KeepsFull
    <2> DEFINE w == ActsOn(ActionWindow(a))
    <2>1. asked'.args = {a, o} /\ asked'.op = "act" /\ UNCHANGED <<full, focused>>
      BY <1>5 DEF SwapWith, NoActs, Answer
    <2>2. w \in Windows \cup {NoWindow} /\ w \in Named
      BY <2>1, NamedIs DEF Named
    <2>3. CASE UNCHANGED marks
      BY <2>1, <2>3, QuietKeeps DEF WindowsTyped
    <2>4. CASE /\ WindowOf(o) # NoWindow /\ w # NoWindow
               /\ marks' = [marks EXCEPT ![w] = marks[o], ![o] = marks[w]]
      <3>1. o \in Windows /\ o # Focused
        BY <2>4, <1>5, NamedIs DEF SwapWith
      <3>2. WindowOrFocused(o) = o
        BY <2>4, <3>1, NamedIs
      <3>3. o \in Named
        BY <2>1, <3>2 DEF Named
      <3>4. QED
        BY <2>1, <2>2, <2>4, <3>1, <3>3 DEF WindowsTyped, ActsOnArgument, KeepsFull
    <2>5. QED
      BY <1>5, <2>3, <2>4 DEF SwapWith
  <1>6. CASE FocusMoves \/ (\E on0 \in BOOLEAN : Command(on0)) \/ Exec
             \/ ClearCrashedLockscreen
    <2>1. asked'.op \in {"act", "none"} /\ UNCHANGED <<marks, full>>
      BY <1>6 DEF FocusMoves, Command, Exec, ClearCrashedLockscreen, NoActs, Answer, Compositor
    <2>2. focused' \in Windows \cup {NoWindow}
      BY <1>6 DEF FocusMoves, Command, Exec, ClearCrashedLockscreen, NoActs, WindowsTyped, Open
    <2>3. QED
      BY <2>1, <2>2, QuietKeeps
  <1>7. CASE Comings
    BY <1>7, ComingsKeep DEF Comings
  <1>8. QED
    BY <1>1, <1>2, <1>3, <1>4, <1>5, <1>6, <1>7 DEF WindowsNext

LEMMA GroupsKeep ==
    ASSUME WindowsTyped, GroupsNext
    PROVE  KeepsFull
  <1>1. ASSUME NEW a \in Arguments,
               \/ GroupToggle(a) \/ GroupMoveWindow(a)
               \/ \E on0 \in BOOLEAN : GroupSet(a, on0)
               \/ \E act \in 0..2 : DenyFromGroup(a, act) \/ WindowGroupLock(a, act)
               \/ \E h \in GroupHandles : GroupAdd(h, a) \/ GroupRemove(h, a)
        PROVE  KeepsFull
    <2>1. asked'.op = "group" /\ UNCHANGED <<marks, full, focused>>
      BY <1>1 DEF GroupToggle, GroupMoveWindow, GroupSet, DenyFromGroup, WindowGroupLock,
                  GroupAdd, GroupRemove, GroupAsked, NotWindows
    <2>2. QED
      BY <2>1, QuietKeeps DEF WindowsTyped
  <1>2. ASSUME NEW a \in Arguments, GroupCycle(a)
        PROVE  KeepsFull
    <2>1. asked'.op = "group" /\ UNCHANGED <<marks, full>>
      BY <1>2 DEF GroupCycle, GroupAsked
    <2>2. focused' \in Windows \cup {NoWindow}
      BY <1>2 DEF GroupCycle, Members, WindowsTyped
    <2>3. QED
      BY <2>1, <2>2, QuietKeeps
  <1>3. CASE Redrawn \/ \E act \in 0..2 :
                GroupLockAllSet(act) \/ \E h \in GroupHandles : GroupLockSet(h, act)
    <2>1. asked'.op = "none" /\ UNCHANGED <<marks, full, focused>>
      BY <1>3 DEF Redrawn, GroupLockAllSet, GroupLockSet, NotWindows, Compositor
    <2>2. QED
      BY <2>1, QuietKeeps DEF WindowsTyped
  <1>4. CASE GroupComings
    BY <1>4, ComingsKeep DEF GroupComings
  <1>5. QED
    BY <1>1, <1>2, <1>3, <1>4 DEF GroupsNext

LEMMA WorkspacesKeep ==
    ASSUME WindowsTyped, WorkspacesNext
    PROVE  UNCHANGED windowVars \/ KeepsFull
  <1>1. CASE WindowComings
    <2>1. PICK w \in Windows : Map(w) \/ Unborn(w)
      BY <1>1, WorkspacesAssumption, WindowsAssumption DEF WindowComings, Windows
    <2>2. asked' = Compositor /\ UNCHANGED <<marks, full>>
      BY <1>1 DEF WindowComings
    <2>3. QED
      BY <2>1, <2>2, ComingsKeep
  <1>2. CASE ~WindowComings
    BY <1>2 DEF WorkspacesNext, MoveToWorkspace, WorkspaceToggleSpecial, WorkspaceSpecialSet,
                MonitorSetSpecial, GoesOn, FocusWorkspace, Rename, FocusMonitor, MoveMonitor,
                SwapMonitors, Sweep, Others
  <1>3. QED
    BY <1>1, <1>2

\* A call on fullscreen whose window is gone changes nothing, and no call changes another window.
LEMMA FullscreenTouches ==
    ASSUME WindowsTyped, NEW a \in Arguments, asked'.args = {a}, UNCHANGED <<focused, marks>>,
           NEW w, w = ActsOn(ActionWindow(a)),
           NEW new \in FullModes \X FullModes,
           full' = IF w = NoWindow THEN full ELSE [full EXCEPT ![w] = new]
    PROVE  WindowsTyped' /\ ActsOnArgument /\ \A v \in Named \ {NoWindow} : v = w /\ full'[w] = new
  <1>1. w \in Windows \cup {NoWindow} /\ w = WindowOrFocused(a)
    BY NamedIs
  <1>2. Named = {w}
    BY <1>1 DEF Named
  <1>3. QED
    BY <1>1, <1>2 DEF WindowsTyped, ActsOnArgument, NoWindow, Windows

LEMMA FullscreenByKeeps ==
    ASSUME WindowsTyped, NEW a \in Arguments, NEW mode \in FullModes,
           NEW action \in {"toggle", "set", "unset"}, FullscreenBy(a, mode, action)
    PROVE  WindowsTyped' /\ ActsOnArgument /\ FullscreenAsAsked
  <1> DEFINE w == ActsOn(ActionWindow(a))
             current == ModeOf(a, 1)
             target == CASE action = "set"    -> mode
                         [] action = "toggle" -> IF mode = current THEN NoMode ELSE mode
                         [] action = "unset"  -> IF mode = current THEN NoMode ELSE current
  <1>1. w \in Windows \cup {NoWindow} /\ w = WindowOrFocused(a)
    BY NamedIs
  <1>2. /\ asked'.op = "fullscreen" /\ asked'.args = {a}
        /\ asked'.mode = mode /\ asked'.action = action
        /\ UNCHANGED <<focused, marks>>
    BY DEF FullscreenBy
  <1>3. CASE w = NoWindow
    <2>1. full' = full
      BY <1>3 DEF FullscreenBy, FullscreenSet
    <2>2. PICK new \in FullModes \X FullModes : new = <<NoMode, NoMode>>
      BY WindowsAssumption
    <2>3. /\ WindowsTyped' /\ ActsOnArgument
          /\ \A v \in Named \ {NoWindow} : v = w
      BY <1>2, <1>3, <2>1, <2>2, FullscreenTouches
    <2>4. QED
      BY <1>3, <2>3 DEF FullscreenAsAsked
  <1>4. CASE w # NoWindow
    <2>1. w \in Windows /\ current = full[w][1] /\ full[w] \in FullModes \X FullModes
      BY <1>1, <1>4 DEF ModeOf, WindowsTyped
    <2>2. current \in FullModes /\ target \in FullModes /\ current # Keep
      BY <2>1, WindowsAssumption
    <2>3. <<target, target>> \in FullModes \X FullModes
      BY <2>2
    <2>4. full' = IF w = NoWindow THEN full ELSE [full EXCEPT ![w] = <<target, target>>]
      BY <2>2 DEF FullscreenBy, FullscreenSet
    <2>5. /\ WindowsTyped' /\ ActsOnArgument
          /\ \A v \in Named \ {NoWindow} : v = w /\ full'[w] = <<target, target>>
      <3> HIDE DEF w, target
      <3>1. QED
        BY <1>2, <2>3, <2>4, FullscreenTouches DEF w
    <2>6. Brought(full[w][1], target, mode, action)
      BY <2>1 DEF Brought
    <2>7. QED
      <3> HIDE DEF w, target
      <3>1. QED
        BY <1>2, <2>5, <2>6 DEF FullscreenAsAsked
  <1>5. QED
    BY <1>3, <1>4

\* What the guards of hl-window-fullscreen-sync! and the action behind them make of a
\* window's modes.
Becomes(old, new, want, action) ==
    /\ Synced(old, new, want, action)
    /\ Passed(old, want, action) = {} => new = old
    /\ \A pair \in Passed(old, want, action) : Assigned(old, pair) = new

LEMMA SyncedIs ==
    ASSUME NEW old \in FullModes \X FullModes,
           NEW want \in (FullModes \cup {Keep}) \X (FullModes \cup {Keep}),
           NEW action \in {"toggle", "set", "unset"}
    PROVE  \E new \in FullModes \X FullModes : Becomes(old, new, want, action)
  <1> DEFINE Modes == FullModes \X FullModes
             Wants == (FullModes \cup {Keep}) \X (FullModes \cup {Keep})
  <1>1. Keep \notin FullModes /\ NoMode \in FullModes /\ NoMode # Keep
    BY WindowsAssumption
  <1>2. /\ old = <<old[1], old[2]>> /\ old[1] \in FullModes /\ old[2] \in FullModes
        /\ want = <<want[1], want[2]>>
        /\ want[1] \in FullModes \cup {Keep} /\ want[2] \in FullModes \cup {Keep}
    OBVIOUS
  <1>3. ASSUME NEW pair \in Wants
        PROVE  /\ Assigned(old, pair) \in Modes
               /\ \A i \in 1..2 : Assigned(old, pair)[i] =
                      IF pair[i] = Keep THEN old[i]
                      ELSE IF Has(old, pair) THEN NoMode ELSE pair[i]
    <2>1. pair[1] \in FullModes \cup {Keep} /\ pair[2] \in FullModes \cup {Keep}
      BY <1>3
    <2> DEFINE side(i) == IF pair[i] = Keep THEN old[i] ELSE IF Has(old, pair) THEN NoMode ELSE pair[i]
    <2>2. Assigned(old, pair) = <<side(1), side(2)>>
      BY DEF Assigned
    <2>3. side(1) \in FullModes /\ side(2) \in FullModes
      BY <1>1, <1>2, <2>1
    <2>4. ASSUME NEW i \in 1..2 PROVE Assigned(old, pair)[i] = side(i)
      <3>1. i = 1 \/ i = 2
        OBVIOUS
      <3>2. QED
        BY <2>2, <3>1
    <2>5. QED
      BY <2>2, <2>3, <2>4
  <1>4. CASE action = "set"
    <2>1. CASE old = want
      <3>1. Passed(old, want, action) = {}
        BY <1>4, <2>1 DEF Passed
      <3>2. Synced(old, old, want, action)
        BY <1>4, <2>1 DEF Synced, Has
      <3>3. QED
        BY <3>1, <3>2 DEF Becomes
    <2>2. CASE old # want
      <3>1. Passed(old, want, action) = {want}
        BY <1>4, <2>2 DEF Passed
      <3>2. Synced(old, Assigned(old, want), want, action)
        <4>1. CASE Has(old, want)
          <5>1. want[1] = Keep \/ want[2] = Keep
            BY <1>2, <2>2, <4>1 DEF Has
          <5>2. QED
            BY <1>3, <1>4, <4>1, <5>1 DEF Synced
        <4>2. CASE ~Has(old, want)
          BY <1>3, <1>4, <4>2 DEF Synced, Has
        <4>3. QED
          BY <4>1, <4>2
      <3>3. QED
        BY <1>3, <3>1, <3>2 DEF Becomes
    <2>3. QED
      BY <2>1, <2>2
  <1>5. CASE action = "unset"
    <2>1. CASE old # want
      <3>1. Passed(old, want, action) = {}
        BY <1>5, <2>1 DEF Passed
      <3>2. Synced(old, old, want, action)
        BY <1>5, <2>1 DEF Synced
      <3>3. QED
        BY <3>1, <3>2 DEF Becomes
    <2>2. CASE old = want
      <3>1. Passed(old, want, action) = {want}
        BY <1>5, <2>2 DEF Passed
      <3>2. want[1] # Keep /\ want[2] # Keep /\ Has(old, want)
        BY <1>1, <1>2, <2>2 DEF Has
      <3>3. Assigned(old, want) = <<NoMode, NoMode>>
        BY <3>2 DEF Assigned
      <3>4. Synced(old, Assigned(old, want), want, action)
        <4>1. \A i \in 1..2 : want[i] # Keep
          BY <3>2
        <4>2. QED
          BY <1>5, <2>2, <3>3, <4>1 DEF Synced
      <3>5. QED
        BY <1>3, <3>1, <3>4 DEF Becomes
    <2>3. QED
      BY <2>1, <2>2
  <1>6. CASE action = "toggle"
    <2> DEFINE flip(i) == IF old[i] = want[i] THEN NoMode ELSE want[i]
               pair == <<flip(1), flip(2)>>
    <2>1. Passed(old, want, action) = {pair}
      BY <1>6 DEF Passed
    <2>2. pair \in Wants /\ \A i \in 1..2 : pair[i] = flip(i)
      <3>1. \A i \in 1..2 : i = 1 \/ i = 2
        OBVIOUS
      <3>2. QED
        BY <1>1, <1>2, <3>1
    <2>3. ASSUME NEW i \in 1..2
          PROVE  Assigned(old, pair)[i] = IF want[i] = Keep THEN old[i] ELSE flip(i)
      <3>1. old[i] \in FullModes /\ want[i] \in FullModes \cup {Keep}
        BY <1>2
      <3>2. want[i] = Keep <=> pair[i] = Keep
        BY <1>1, <2>2, <3>1
      <3>3. Has(old, pair) => pair[i] = Keep \/ pair[i] = NoMode
        BY <1>1, <2>2, <3>1 DEF Has
      <3>4. Assigned(old, pair)[i] = IF pair[i] = Keep THEN old[i]
                                     ELSE IF Has(old, pair) THEN NoMode ELSE pair[i]
        BY <1>3, <2>2
      <3>5. QED
        BY <2>2, <3>2, <3>3, <3>4
    <2>4. Synced(old, Assigned(old, pair), want, action)
      BY <1>6, <2>3 DEF Synced
    <2> HIDE DEF pair
    <2>5. QED
      BY <1>3, <2>1, <2>2, <2>4 DEF Becomes
  <1>7. QED
    BY <1>4, <1>5, <1>6

LEMMA FullscreenSyncKeeps ==
    ASSUME WindowsTyped, NEW a \in Arguments,
           NEW want \in (FullModes \cup {Keep}) \X (FullModes \cup {Keep}),
           NEW action \in {"toggle", "set", "unset"}, FullscreenSync(a, want, action)
    PROVE  WindowsTyped' /\ ActsOnArgument /\ FullscreenAsAsked
  <1> DEFINE w == ActsOn(ActionWindow(a))
             current == <<ModeOf(a, 1), ModeOf(a, 2)>>
  <1>1. w \in Windows \cup {NoWindow} /\ w = WindowOrFocused(a)
    BY NamedIs
  <1>2. /\ asked'.op = "sync" /\ asked'.args = {a} /\ asked'.want = want
        /\ asked'.action = action
        /\ UNCHANGED <<focused, marks>>
    BY DEF FullscreenSync
  <1>3. IF Passed(current, want, action) = {} THEN full' = full
        ELSE \E pair \in Passed(current, want, action) :
               full' = IF w = NoWindow THEN full ELSE [full EXCEPT ![w] = Assigned(@, pair)]
    BY DEF FullscreenSync, FullscreenState
  <1>4. CASE w = NoWindow
    <2>1. full' = full
      BY <1>3, <1>4
    <2>2. PICK new \in FullModes \X FullModes : new = <<NoMode, NoMode>>
      BY WindowsAssumption
    <2>3. /\ WindowsTyped' /\ ActsOnArgument
          /\ \A v \in Named \ {NoWindow} : v = w
      BY <1>2, <1>4, <2>1, <2>2, FullscreenTouches
    <2>4. QED
      BY <1>4, <2>3 DEF FullscreenAsAsked
  <1>5. CASE w # NoWindow
    <2>1. w \in Windows /\ full[w] \in FullModes \X FullModes /\ full \in [Windows -> FullModes \X FullModes]
      BY <1>1, <1>5 DEF WindowsTyped
    <2>2. current = full[w]
      BY <1>1, <1>5, <2>1 DEF ModeOf
    <2> HIDE DEF w, current
    <2>3. PICK new \in FullModes \X FullModes : Becomes(full[w], new, want, action)
      BY <2>1, SyncedIs
    <2>4. full' = IF w = NoWindow THEN full ELSE [full EXCEPT ![w] = new]
      <3>1. CASE Passed(full[w], want, action) = {}
        <4>1. full' = full /\ new = full[w]
          BY <1>3, <2>2, <2>3, <3>1 DEF Becomes
        <4>2. QED
          BY <1>5, <2>1, <4>1
      <3>2. CASE Passed(full[w], want, action) # {}
        <4>1. PICK pair \in Passed(full[w], want, action) :
                full' = IF w = NoWindow THEN full ELSE [full EXCEPT ![w] = Assigned(full[w], pair)]
          BY <1>3, <2>2, <3>2
        <4>2. Assigned(full[w], pair) = new
          BY <2>3, <3>2 DEF Becomes
        <4>3. QED
          BY <4>1, <4>2
      <3>3. QED
        BY <3>1, <3>2
    <2>5. /\ WindowsTyped' /\ ActsOnArgument
          /\ \A v \in Named \ {NoWindow} : v = w /\ full'[w] = new
      BY <1>2, <2>4, FullscreenTouches DEF w
    <2>6. QED
      BY <1>2, <2>3, <2>5 DEF FullscreenAsAsked, Becomes
  <1>6. QED
    BY <1>4, <1>5

LEMMA WindowsStep == WindowsTyped /\ [Next]_vars =>
    WindowsTyped' /\ [ActsOnArgument]_windowVars /\ [FullscreenAsAsked]_windowVars
  <1> SUFFICES ASSUME WindowsTyped, [Next]_vars
               PROVE  WindowsTyped' /\ [ActsOnArgument]_windowVars /\ [FullscreenAsAsked]_windowVars
    OBVIOUS
  <1>1. CASE KeepsFull
    BY <1>1 DEF KeepsFull, FullscreenAsAsked
  <1>2. CASE UNCHANGED windowVars
    BY <1>2 DEF windowVars, WindowsTyped
  <1>3. CASE WindowsAct
    <2>1. CASE FullscreenNext
      <3>1. CASE Comings
        BY <1>1, <1>3, <2>1, <3>1, ComingsKeep DEF Comings
      <3>2. CASE ~Comings
        BY <2>1, <3>2, FullscreenByKeeps, FullscreenSyncKeeps DEF FullscreenNext
      <3>3. QED
        BY <3>1, <3>2
    <2>2. CASE WindowsNext \/ GroupsNext \/ WorkspacesNext
      BY <1>1, <1>2, <2>2, WindowsKeep, GroupsKeep, WorkspacesKeep
    <2>3. QED
      BY <1>3, <2>1, <2>2 DEF WindowsAct
  <1>4. CASE NotificationActs \/ ConfigActs \/ InputActs \/ UNCHANGED vars
    BY <1>2, <1>4 DEF NotificationActs, ConfigActs, InputActs, vars
  <1>5. QED
    BY <1>3, <1>4 DEF Next

(* A call through a handle changes the windows it was given and no other,  *)
(* above all not the focused one in place of a dead one (actionWindow),    *)
(* and a fullscreen call leaves the window as its #:action says, 'keep     *)
(* among its modes or not, although Actions::fullscreenWindow clears what  *)
(* is there already.                                                       *)
THEOREM CallsOnArgument == Spec => CallsAsAsked
  <1>1. Init => WindowsTyped
    BY WindowsAssumption DEF Init, WindowsInit, WindowsTyped
  <1>2. QED
    BY <1>1, WindowsStep, PTL DEF Spec, CallsAsAsked

------------------------------------------------------------------------------
(* The locks of groups.                                                       *)

\* Groups are numbered as they are made, hold open windows, and only they have a lock.
GroupsSound ==
    /\ windowLife \in [Windows -> {"unborn", "live", "dead"}]
    /\ focused \in Open \cup {NoWindow}
    /\ \E n \in Nat : made = 1..n
    /\ member \in [Windows -> made \cup {NoGroup}]
    /\ \A w \in Windows : member[w] # NoGroup => w \in Open
    /\ locked \subseteq made /\ byWindow \subseteq made

\* What the step keeps: LockIsDrawn is inductive with it.
LockInv ==
    IF acting = "groups" THEN GroupsSound /\ LockIsDrawn
    ELSE \A w \in Windows : member[w] = NoGroup

LEMMA ActsOnOpen ==
    ASSUME GroupsSound, NEW a \in Arguments
    PROVE  /\ ActsOn(ActionWindow(a)) \in Open \cup {NoWindow}
           /\ WindowOrFocused(a) \in Open \cup {NoWindow}
           /\ WindowOf(a) \in Open \cup {NoWindow}
  BY DEF GroupsSound, ActsOn, ActionWindow, WindowOrFocused, WindowOf

LEMMA StayKeeps ==
    ASSUME GroupsSound, LockIsDrawn, Stay, NotWindows
    PROVE  GroupsSound' /\ LockIsDrawn'
  BY DEF GroupsSound, LockIsDrawn, Stay, NotWindows, Open

LEMMA JoinsKeeps ==
    ASSUME GroupsSound, LockIsDrawn, NotWindows, NEW w \in Open,
           NEW g, Joins(w, g),
           g \in made \/ (g \notin made /\ \E n \in Nat : made = 1..n /\ g = n + 1)
    PROVE  GroupsSound' /\ LockIsDrawn'
  <1> DEFINE dead == {h \in GroupIds : \A v \in Windows : member'[v] # h}
  <1>1. /\ member' = [v \in Windows |-> IF v \in {w} THEN g ELSE member[v]]
        /\ locked' = locked \ dead /\ byWindow' = byWindow \ dead
        /\ made' = made \cup {g}
        /\ drawn' = IF g \in locked THEN drawn \cup {w} ELSE drawn \ {w}
    BY DEF Joins, Move
  <1>2. Open' = Open /\ w \in Windows /\ UNCHANGED <<windowLife, focused>>
    BY DEF NotWindows, Open
  <1>3. \E n \in Nat : made' = 1..n
    <2>1. CASE g \in made
      BY <1>1, <2>1 DEF GroupsSound
    <2>2. CASE g \notin made
      <3>1. PICK n \in Nat : made = 1..n /\ g = n + 1
        BY <2>2
      <3>2. made' = 1..(n + 1)
        BY <1>1, <3>1
      <3>3. QED
        BY <3>2
    <2>3. QED
      BY <2>1, <2>2
  <1> HIDE DEF dead
  <1>4. GroupsSound'
    BY <1>1, <1>2, <1>3 DEF GroupsSound, NotWindows
  <1>5. LockIsDrawn'
    <2> SUFFICES ASSUME NEW v \in Open, member'[v] \notin byWindow' \cup {NoGroup}
                 PROVE  v \in drawn' <=> member'[v] \in locked'
      BY <1>2 DEF LockIsDrawn
    <2>1. v \in Windows /\ member'[v] \notin dead
      BY <1>1 DEF dead, Open
    <2>2. member'[v] \notin byWindow /\ (member'[v] \in locked' <=> member'[v] \in locked)
      BY <1>1, <2>1
    <2>3. CASE v = w
      BY <1>1, <1>2, <2>2, <2>3
    <2>4. CASE v # w
      <3>1. member'[v] = member[v]
        BY <1>1, <2>1, <2>4
      <3>2. v \in drawn <=> member[v] \in locked
        BY <2>2, <3>1 DEF LockIsDrawn
      <3>3. QED
        BY <1>1, <2>2, <2>4, <3>1, <3>2
    <2>5. QED
      BY <2>3, <2>4
  <1>6. QED
    BY <1>4, <1>5

\* Windows that leave may be gone with the same step.
LEMMA LeaveKeeps ==
    ASSUME GroupsSound, LockIsDrawn, NEW S, Leave(S),
           windowLife' \in [Windows -> {"unborn", "live", "dead"}],
           Open' \subseteq Open, Open \ S \subseteq Open',
           focused' \in Open' \cup {NoWindow}
    PROVE  GroupsSound' /\ LockIsDrawn'
  <1> DEFINE dead == {h \in GroupIds : \A v \in Windows : member'[v] # h}
  <1>1. /\ member' = [v \in Windows |-> IF v \in S THEN NoGroup ELSE member[v]]
        /\ locked' = locked \ dead /\ byWindow' = byWindow \ dead
        /\ made' = made /\ drawn' = drawn \ S
    BY DEF Leave, Move
  <1> HIDE DEF dead
  <1>2. GroupsSound'
    BY <1>1 DEF GroupsSound
  <1>3. LockIsDrawn'
    <2> SUFFICES ASSUME NEW v \in Open', member'[v] \notin byWindow' \cup {NoGroup}
                 PROVE  v \in drawn' <=> member'[v] \in locked'
      BY DEF LockIsDrawn
    <2>1. v \in Open /\ v \in Windows /\ member'[v] \notin dead
      BY DEF dead, Open
    <2>2. v \notin S /\ member'[v] = member[v]
      BY <1>1, <2>1
    <2>3. v \in drawn <=> member[v] \in locked
      BY <1>1, <2>1, <2>2 DEF LockIsDrawn
    <2>4. QED
      BY <1>1, <2>1, <2>2, <2>3
  <1>4. QED
    BY <1>2, <1>3

LEMMA ToggleGroupKeeps ==
    ASSUME GroupsSound, LockIsDrawn, NotWindows, NEW w \in Open \cup {NoWindow}, ToggleGroup(w)
    PROVE  GroupsSound' /\ LockIsDrawn'
  <1>1. CASE Stay
    BY <1>1, StayKeeps
  <1>2. CASE w # NoWindow /\ member[w] = NoGroup
    <2>1. PICK n \in Nat : made = 1..n
      BY DEF GroupsSound
    <2>2. Cardinality(made) = n
      <3>1. Cardinality(1..n) = IF 1 > n THEN 0 ELSE n - 1 + 1
        BY FS_Interval
      <3>2. QED
        BY <2>1, <3>1
    <2>3. n + 1 \notin made
      BY <2>1
    <2>4. Joins(w, n + 1)
      BY <1>2, <2>2 DEF ToggleGroup
    <2>5. QED
      BY <1>2, <2>1, <2>3, <2>4, JoinsKeeps
  <1>3. CASE w # NoWindow /\ member[w] # NoGroup
    <2>1. Leave(Members(member[w]))
      BY <1>3 DEF ToggleGroup
    <2>2. Open' = Open /\ UNCHANGED <<windowLife, focused>>
      BY DEF NotWindows, Open
    <2>3. QED
      BY <2>1, <2>2, LeaveKeeps DEF GroupsSound
  <1>4. QED
    BY <1>1, <1>2, <1>3 DEF ToggleGroup

\* Flags of groups that are there change, and some decorations are told.
LEMMA LockKeeps ==
    ASSUME GroupsSound, LockIsDrawn, NotWindows, UNCHANGED <<member, made>>,
           locked' \subseteq made, byWindow' \subseteq made,
           \A w \in Open : member[w] \notin byWindow' \cup {NoGroup} =>
               (w \in drawn' <=> member[w] \in locked')
    PROVE  GroupsSound' /\ LockIsDrawn'
  BY DEF GroupsSound, LockIsDrawn, NotWindows, Open

LEMMA LocksKeep ==
    ASSUME GroupsSound, LockIsDrawn, GroupsNext
    PROVE  GroupsSound' /\ LockIsDrawn'
  <1>1. ASSUME NEW a \in Arguments,
               GroupToggle(a) \/ \E on0 \in BOOLEAN : GroupSet(a, on0)
        PROVE  GroupsSound' /\ LockIsDrawn'
    <2>1. /\ NotWindows
          /\ \/ Stay
             \/ ToggleGroup(ActsOn(ActionWindow(a)))
             \/ ToggleGroup(WindowOrFocused(a))
      BY <1>1 DEF GroupToggle, GroupSet
    <2>2. QED
      BY <2>1, ActsOnOpen, StayKeeps, ToggleGroupKeeps
  <1>2. ASSUME NEW a \in Arguments, GroupCycle(a)
        PROVE  GroupsSound' /\ LockIsDrawn'
    <2>1. focused' \in Open \cup {NoWindow}
      BY <1>2 DEF GroupCycle, Members, GroupsSound
    <2>2. UNCHANGED windowLife /\ UNCHANGED groupVars
      BY <1>2 DEF GroupCycle
    <2>3. QED
      BY <2>1, <2>2 DEF GroupsSound, LockIsDrawn, groupVars, Open
  <1>3. CASE \/ \E a \in Arguments :
                GroupMoveWindow(a) \/ \E act \in 0..2 : DenyFromGroup(a, act)
             \/ \E act \in 0..2 : GroupLockAllSet(act)
    BY <1>3 DEF GroupMoveWindow, DenyFromGroup, GroupLockAllSet, NotWindows, groupVars,
                GroupsSound, LockIsDrawn, Open
  <1>4. ASSUME NEW a \in Arguments, NEW act \in 0..2, WindowGroupLock(a, act)
        PROVE  GroupsSound' /\ LockIsDrawn'
    <2> DEFINE w == WindowOrFocused(a)
    <2>1. NotWindows /\ UNCHANGED <<member, made>>
      BY <1>4 DEF WindowGroupLock
    <2>2. CASE UNCHANGED <<locked, drawn, byWindow>>
      BY <2>1, <2>2, LockKeeps DEF GroupsSound, LockIsDrawn
    <2>3. CASE /\ w # NoWindow /\ member[w] # NoGroup
               /\ locked' = Switched(locked, member[w], act)
               /\ Refreshed({w})
               /\ byWindow' = byWindow \cup {member[w]}
      <3>1. w \in Windows /\ member[w] \in made
        BY <2>3, ActsOnOpen DEF GroupsSound, Open
      <3>2. locked' \subseteq made /\ locked' \ {member[w]} = locked \ {member[w]}
        BY <2>3, <3>1 DEF Switched, GroupsSound
      <3>3. \A v \in Open : member[v] \notin byWindow' \cup {NoGroup} =>
                (v \in drawn' <=> member[v] \in locked')
        BY <2>3, <3>2 DEF Refreshed, LockIsDrawn
      <3>4. QED
        BY <2>1, <2>3, <3>1, <3>2, <3>3, LockKeeps DEF GroupsSound
    <2>4. QED
      BY <1>4, <2>2, <2>3 DEF WindowGroupLock
  <1>5. ASSUME NEW h \in GroupHandles, NEW act \in 0..2, GroupLockSet(h, act)
        PROVE  GroupsSound' /\ LockIsDrawn'
    <2> DEFINE g == GroupOf(h)
    <2>1. NotWindows /\ UNCHANGED <<member, made>>
      BY <1>5 DEF GroupLockSet
    <2>2. CASE UNCHANGED <<locked, drawn, byWindow>>
      BY <2>1, <2>2, LockKeeps DEF GroupsSound, LockIsDrawn
    <2>3. CASE /\ g # NoGroup
               /\ locked' = Switched(locked, g, act)
               /\ Refreshed(Members(g))
               /\ byWindow' = byWindow \ {g}
      <3>1. g \in made
        BY <2>3 DEF GroupOf, GroupHandles
      <3>2. locked' \subseteq made /\ locked' \ {g} = locked \ {g}
        BY <2>3, <3>1 DEF Switched, GroupsSound
      <3>3. ASSUME NEW v \in Open, member[v] \notin byWindow' \cup {NoGroup}
            PROVE  v \in drawn' <=> member[v] \in locked'
        <4>1. v \in Members(g) <=> member[v] = g
          BY DEF Members, Open
        <4>2. CASE member[v] = g
          BY <2>3, <4>1, <4>2 DEF Refreshed
        <4>3. CASE member[v] # g
          BY <2>3, <3>2, <3>3, <4>1, <4>3 DEF Refreshed, LockIsDrawn
        <4>4. QED
          BY <4>2, <4>3
      <3>4. QED
        BY <2>1, <2>3, <3>2, <3>3, LockKeeps DEF GroupsSound
    <2>4. QED
      BY <1>5, <2>2, <2>3 DEF GroupLockSet
  <1>6. ASSUME NEW a \in Arguments, NEW h \in GroupHandles, GroupAdd(h, a) \/ GroupRemove(h, a)
        PROVE  GroupsSound' /\ LockIsDrawn'
    <2>1. NotWindows
      BY <1>6 DEF GroupAdd, GroupRemove
    <2>2. Open' = Open /\ UNCHANGED <<windowLife, focused>>
      BY <2>1 DEF NotWindows, Open
    <2>3. CASE Stay
      BY <2>1, <2>3, StayKeeps
    <2>4. CASE GroupOf(h) # NoGroup /\ WindowOf(a) # NoWindow /\ Joins(WindowOf(a), GroupOf(h))
      <3>1. GroupOf(h) \in made /\ WindowOf(a) \in Open
        BY <2>4, ActsOnOpen DEF GroupOf, GroupHandles
      <3>2. QED
        BY <2>1, <2>4, <3>1, JoinsKeeps
    <2>5. CASE Leave({WindowOf(a)})
      BY <2>2, <2>5, LeaveKeeps DEF GroupsSound
    <2>6. QED
      BY <1>6, <2>3, <2>4, <2>5 DEF GroupAdd, GroupRemove
  <1>7. CASE GroupComings
    <2>1. ASSUME NEW w \in Windows, Map(w), Stay
          PROVE  GroupsSound' /\ LockIsDrawn'
      <3>1. /\ windowLife' \in [Windows -> {"unborn", "live", "dead"}]
            /\ Open' = Open \cup {w} /\ w \notin Open /\ focused' = w
        BY <2>1 DEF Map, GroupsSound, Open
      <3>2. member[w] = NoGroup
        BY <3>1 DEF GroupsSound
      <3>3. QED
        BY <2>1, <3>1, <3>2 DEF GroupsSound, LockIsDrawn, Stay
    <2>2. ASSUME NEW w \in Windows, Unborn(w), Leave({w})
          PROVE  GroupsSound' /\ LockIsDrawn'
      <3>1. /\ windowLife' \in [Windows -> {"unborn", "live", "dead"}]
            /\ Open' = Open \ {w}
        BY <2>2 DEF Unborn, GroupsSound, Open
      <3>2. focused' \in Open' \cup {NoWindow}
        BY <2>2, <3>1 DEF Unborn, GroupsSound
      <3>3. QED
        BY <2>2, <3>1, <3>2, LeaveKeeps
    <2>3. QED
      BY <1>7, <2>1, <2>2 DEF GroupComings
  <1>8. CASE Redrawn
    <2>1. PICK w \in Open : Refreshed({w})
      BY <1>8 DEF Redrawn
    <2>2. NotWindows /\ UNCHANGED <<member, made, byWindow, locked>>
      BY <1>8 DEF Redrawn
    <2>3. QED
      BY <2>1, <2>2, LockKeeps DEF Refreshed, GroupsSound, LockIsDrawn
  <1>9. QED
    BY <1>1, <1>2, <1>3, <1>4, <1>5, <1>6, <1>7, <1>8 DEF GroupsNext

LEMMA LocksAlways == Spec => []LockInv
  <1>1. Init => LockInv
    <2> SUFFICES ASSUME Init
                 PROVE  GroupsSound /\ LockIsDrawn /\ \A w \in Windows : member[w] = NoGroup
      BY DEF LockInv
    <2>1. /\ windowLife = [w \in Windows |-> "unborn"] /\ focused = NoWindow
          /\ member = [w \in Windows |-> NoGroup]
          /\ made = {} /\ locked = {} /\ byWindow = {}
      BY DEF Init, WindowsInit, GroupsInit
    <2>2. Open = {}
      BY <2>1 DEF Open
    <2>3. \E n \in Nat : made = 1..n
      <3>1. made = 1..0 /\ 0 \in Nat
        BY <2>1
      <3>2. QED
        BY <3>1
    <2>4. QED
      BY <2>1, <2>2, <2>3 DEF GroupsSound, LockIsDrawn
  <1>2. LockInv /\ [Next]_vars => LockInv'
    <2> SUFFICES ASSUME LockInv, [Next]_vars
                 PROVE  LockInv'
      OBVIOUS
    <2>1. acting' = acting
      BY DEF Next, NotificationActs, ConfigActs, WindowsAct, InputActs, vars
    <2>2. CASE WindowsAct /\ GroupsNext /\ acting = "groups"
      BY <2>1, <2>2, LocksKeep DEF LockInv
    <2>3. CASE UNCHANGED groupVars /\ acting # "groups"
      BY <2>1, <2>3 DEF groupVars, LockInv
    <2>4. CASE UNCHANGED <<groupVars, windowVars>>
      BY <2>1, <2>4 DEF groupVars, windowVars, LockInv, GroupsSound, LockIsDrawn, Open
    <2>5. QED
      BY <2>2, <2>3, <2>4 DEF Next, NotificationActs, ConfigActs, WindowsAct, InputActs, vars
  <1>3. QED
    BY <1>1, <1>2, PTL DEF Spec

(* For any number of windows and groups: what joins, leaves, dies or is    *)
(* redrawn after a lock was set through the group (hlGroupLockSet), every  *)
(* member draws the lock as it is.                                         *)
THEOREM LocksDrawn == Spec => []LockIsDrawn
  <1>1. LockInv => LockIsDrawn
    BY DEF LockInv, LockIsDrawn, Open
  <1>2. QED
    BY <1>1, LocksAlways, PTL

------------------------------------------------------------------------------
(* What waits for a workspace.created handler.                                *)

Overlays == [Monitors -> Specials \cup {NoSpace, Gone}]
Wishes == [on : BOOLEAN, ws : Spaces \cup {NoSpace}, at : Monitors \cup {NoSpace},
           undisturbed : BOOLEAN]
Calls ==
    [op : {"move"}, window : Windows, ws : Spaces, silent : BOOLEAN, view : Overlays \X Monitors]
    \cup [op : {"toggle"}, ws : Specials \cup {Gone}, wish : Wishes, view : Overlays \X Monitors]
    \cup [op : {"show"}, ws : Specials \cup {Gone}, at : Monitors, view : Overlays \X Monitors]

\* A window's workspace cannot be swept while the move waits, and a toggle was decided on the
\* view that its call remembers.
Waits(c) ==
    /\ c.op = "move" => c.ws \in exists \ flagged
    /\ c.op = "toggle" /\ c.wish.undisturbed =>
          /\ c.wish.at = c.view[2]
          /\ c.ws # Gone => /\ c.wish.ws = c.ws
                            /\ c.wish.on = (c.view[1][c.wish.at] # c.ws)

SpacesTyped ==
    /\ exists \subseteq Spaces /\ flagged \subseteq exists
    /\ home \in [Spaces -> Monitors \cup {NoSpace}]
    /\ \A s \in exists : home[s] \in Monitors
    /\ on = [w \in Windows |-> on[w]]
    /\ overlay \in Overlays /\ focusedMonitor \in Monitors
AllWait == calls \in Seq(Calls) /\ \A i \in 1..Len(calls) : Waits(calls[i])
SpacesSound == SpacesTyped /\ AllWait

\* What the step keeps: CallsOutlastHandlers is inductive with it.
SpaceInv ==
    IF acting = "workspaces" THEN SpacesSound /\ CallsOutlastHandlers
    ELSE on = [w \in Windows |-> NoSpace] /\ outcome = Unasked

\* A call that waits still does when no workspace is lost and none is flagged again.
LEMMA WaitsKeep ==
    ASSUME AllWait, UNCHANGED calls, exists \subseteq exists',
           flagged' \cap exists \subseteq flagged
    PROVE  AllWait'
  BY DEF AllWait, Waits

\* A new call waits after those that wait already.
LEMMA AppendWaits ==
    ASSUME AllWait, NEW c \in Calls, calls' = Append(calls, c), (Waits(c))',
           exists \subseteq exists', flagged' \cap exists \subseteq flagged
    PROVE  AllWait'
  <1>1. /\ calls' \in Seq(Calls) /\ Len(calls') = Len(calls) + 1 /\ Len(calls) \in Nat
        /\ \A i \in 1..Len(calls) : calls'[i] = calls[i]
        /\ calls'[Len(calls) + 1] = c
    BY AppendProperties, LenProperties DEF AllWait
  <1>2. ASSUME NEW i \in 1..Len(calls)
        PROVE  (Waits(calls[i]))'
    BY <1>1 DEF AllWait, Waits
  <1>3. ASSUME NEW i \in 1..Len(calls'), i \notin 1..Len(calls)
        PROVE  (Waits(calls[i]))'
    <2>1. i = Len(calls) + 1
      BY <1>1, <1>3
    <2>2. QED
      BY <1>1, <2>1 DEF Waits
  <1>4. QED
    BY <1>1, <1>2, <1>3 DEF AllWait

LEMMA FrontAndLast ==
    ASSUME NEW S, NEW s \in Seq(S), s # <<>>
    PROVE  /\ Len(s) \in Nat \ {0} /\ Last(s) = s[Len(s)] /\ Last(s) \in S
           /\ Front(s) \in Seq(S) /\ Len(Front(s)) = Len(s) - 1
           /\ \A i \in 1..(Len(s) - 1) : Front(s)[i] = s[i]
  <1>1. Len(s) \in Nat \ {0}
    BY EmptySeq, LenProperties
  <1> DEFINE k == Len(s) - 1
  <1>2. k \in Int /\ 1 \in Int /\ k \in Nat /\ 1..k \subseteq 1..Len(s)
    BY <1>1
  <1>3. \A i \in 1..Len(s) : s[i] \in S
    BY ElementOfSeq
  <1>4. \A i \in 1..k : s[i] \in S
    BY <1>2, <1>3
  <1> HIDE DEF k
  <1>5. /\ SubSeq(s, 1, k) \in Seq(S)
        /\ Len(SubSeq(s, 1, k)) = IF 1 <= k THEN k - 1 + 1 ELSE 0
        /\ \A i \in 1..(k - 1 + 1) : SubSeq(s, 1, k)[i] = s[1 + i - 1]
    BY <1>2, <1>4, SubSeqProperties
  <1>6. /\ Len(SubSeq(s, 1, k)) = k
        /\ \A i \in 1..k : SubSeq(s, 1, k)[i] = s[i]
    BY <1>2, <1>5
  <1>7. Front(s) = SubSeq(s, 1, k) /\ Last(s) = s[Len(s)]
    BY DEF Front, Last, k
  <1>8. QED
    BY <1>1, <1>3, <1>5, <1>6, <1>7 DEF k

\* The innermost call goes on; the others wait still.
LEMMA FrontWaits ==
    ASSUME AllWait, calls # <<>>, calls' = Front(calls), UNCHANGED exists,
           flagged' \subseteq flagged
    PROVE  AllWait' /\ Last(calls) \in Calls /\ Waits(Last(calls))
  <1>1. /\ Front(calls) \in Seq(Calls) /\ Len(Front(calls)) = Len(calls) - 1
        /\ \A i \in 1..Len(calls) - 1 : Front(calls)[i] = calls[i]
        /\ Len(calls) \in Nat \ {0} /\ Last(calls) = calls[Len(calls)]
        /\ Last(calls) \in Calls
    BY FrontAndLast DEF AllWait
  <1>2. Waits(Last(calls))
    BY <1>1 DEF AllWait
  <1>3. \A i \in 1..Len(calls') : i \in 1..Len(calls) /\ calls'[i] = calls[i]
    BY <1>1
  <1>4. \A i \in 1..Len(calls') : (Waits(calls[i]))'
    BY <1>3 DEF AllWait, Waits
  <1>5. QED
    BY <1>1, <1>2, <1>4 DEF AllWait

\* A special workspace is swept under the calls that wait for it; one that a window waits for is not.
LEMMA SweepWaits ==
    ASSUME AllWait, NEW s \in Spaces, s \in flagged \/ calls = <<>>,
           exists' = exists \ {s}, flagged' = flagged \ {s},
           calls' = [i \in DOMAIN calls |-> IF calls[i].ws = s THEN [calls[i] EXCEPT !.ws = Gone]
                                            ELSE calls[i]]
    PROVE  AllWait'
  <1> DEFINE left(c) == IF c.ws = s THEN [c EXCEPT !.ws = Gone] ELSE c
  <1>1. ASSUME NEW c \in Calls, Waits(c), calls # <<>>
        PROVE  left(c) \in Calls /\ (Waits(left(c)))'
    <2>1. s \in flagged /\ s # Gone
      BY <1>1, WorkspacesAssumption
    <2>2. CASE c.op = "move"
      <3>1. c.ws # s
        BY <1>1, <2>1, <2>2 DEF Waits
      <3>2. QED
        BY <1>1, <2>2, <3>1 DEF Waits
    <2>3. CASE c.op = "toggle" /\ c.ws = s
      <3>1. c \in [op : {"toggle"}, ws : Specials \cup {Gone}, wish : Wishes,
                   view : Overlays \X Monitors]
        BY <1>1, <2>3 DEF Calls
      <3>2. left(c) = [op |-> "toggle", ws |-> Gone, wish |-> c.wish, view |-> c.view]
        BY <2>3, <3>1
      <3>3. left(c) \in Calls
        BY <3>1, <3>2 DEF Calls
      <3>4. QED
        BY <1>1, <2>3, <3>2, <3>3 DEF Waits
    <2>4. CASE c.op = "show" /\ c.ws = s
      <3>1. c \in [op : {"show"}, ws : Specials \cup {Gone}, at : Monitors,
                   view : Overlays \X Monitors]
        BY <1>1, <2>4 DEF Calls
      <3>2. left(c) = [op |-> "show", ws |-> Gone, at |-> c.at, view |-> c.view]
        BY <2>4, <3>1
      <3>3. left(c) \in Calls
        BY <3>1, <3>2 DEF Calls
      <3>4. QED
        BY <3>2, <3>3 DEF Waits
    <2>5. CASE c.op # "move" /\ c.ws # s
      BY <1>1, <2>5 DEF Waits
    <2>6. c.op \in {"move", "toggle", "show"}
      BY <1>1 DEF Calls
    <2>7. QED
      BY <2>2, <2>3, <2>4, <2>5, <2>6
  <1>2. calls = [i \in 1..Len(calls) |-> calls[i]] /\ Len(calls) \in Nat /\ DOMAIN calls = 1..Len(calls)
    BY LenProperties DEF AllWait
  <1>3. ASSUME NEW i \in 1..Len(calls)
        PROVE  calls[i] \in Calls /\ Waits(calls[i]) /\ calls # <<>>
    BY <1>2 DEF AllWait
  <1> HIDE DEF left
  <1>4. calls' = [i \in 1..Len(calls) |-> left(calls[i])]
    BY <1>2 DEF left
  <1>5. calls' \in Seq(Calls) /\ Len(calls') = Len(calls)
    <2>1. \A i \in 1..Len(calls) : left(calls[i]) \in Calls
      BY <1>1, <1>3
    <2>2. QED
      BY <1>2, <1>4, <2>1
  <1>6. ASSUME NEW i \in 1..Len(calls')
        PROVE  (Waits(calls[i]))'
    <2>1. i \in 1..Len(calls) /\ calls'[i] = left(calls[i])
      BY <1>4, <1>5, <1>6
    <2>2. PICK c \in Calls : c = calls[i] /\ Waits(c) /\ calls # <<>>
      BY <1>3, <2>1
    <2>3. (Waits(left(c)))'
      BY <1>1, <2>2
    <2>4. calls'[i] = left(c)
      BY <2>1, <2>2
    <2>5. QED
      BY <2>3, <2>4 DEF Waits
  <1>7. QED
    BY <1>5, <1>6 DEF AllWait

\* The views: what the compositor's operations leave is typed, and a toggle flips.
LEMMA ShownIs ==
    ASSUME SpacesTyped, NEW m \in Monitors, NEW s \in Specials \cup {Gone}
    PROVE  Shown(m, s) \in Overlays /\ Shown(m, s)[m] = s
  BY DEF SpacesTyped, Shown, Overlays

LEMMA ToggledFlips ==
    ASSUME SpacesTyped, NEW s \in Specials \cup {Gone}
    PROVE  /\ Toggled(s) \in Overlays
           /\ s # Gone => (Toggled(s)[focusedMonitor] = s) = (overlay[focusedMonitor] # s)
  <1>1. NoSpace \notin Specials
    BY WorkspacesAssumption
  <1>2. CASE overlay[focusedMonitor] = s
    BY <1>1, <1>2 DEF SpacesTyped, Toggled, Overlays
  <1>3. CASE overlay[focusedMonitor] # s
    BY <1>3, ShownIs DEF SpacesTyped, Toggled
  <1>4. QED
    BY <1>2, <1>3

LEMMA CreateIs ==
    ASSUME SpacesTyped, NEW s \in Spaces \ exists, NEW m \in Monitors, NEW empty \in BOOLEAN,
           Create(s, m, empty)
    PROVE  /\ exists' = exists \cup {s} /\ flagged' \cap exists \subseteq flagged
           /\ ~empty => s \notin flagged'
           /\ flagged' \subseteq exists' /\ exists' \subseteq Spaces
           /\ home' \in [Spaces -> Monitors \cup {NoSpace}]
           /\ \A t \in exists' : home'[t] \in Monitors
  BY DEF SpacesTyped, Create

LEMMA LandsIs ==
    ASSUME SpacesTyped, NEW w \in Windows, NEW s \in exists, NEW silent \in BOOLEAN,
           Lands(w, s, silent), UNCHANGED <<exists, home>>
    PROVE  /\ SpacesTyped' /\ flagged' \subseteq flagged
           /\ on' = [on EXCEPT ![w] = s]
  <1>1. s \in Spaces /\ s # Gone /\ home[s] \in Monitors
    BY WorkspacesAssumption DEF SpacesTyped
  <1>2. s \in Specials => Shown(home[s], s) \in Overlays
    BY <1>1, ShownIs
  <1>3. QED
    BY <1>1, <1>2 DEF SpacesTyped, Lands

\* An action that leaves windows where they are, or puts one on a workspace, and wishes nothing.
LEMMA PlacesKeep ==
    ASSUME MovesLand, UNCHANGED windowLife, exists \subseteq exists', outcome' = Unasked,
           \/ UNCHANGED on
           \/ on = [w \in Windows |-> on[w]]
              /\ \E v \in Windows, s \in exists' : on' = [on EXCEPT ![v] = s]
    PROVE  CallsOutlastHandlers'
  BY DEF MovesLand, CallsOutlastHandlers, SpecialAsAsked, Unasked, Open

LEMMA MoveKeeps ==
    ASSUME SpacesSound, CallsOutlastHandlers, NEW a \in Arguments, NEW s \in Selectors,
           NEW silent \in BOOLEAN, MoveToWorkspace(a, s, silent),
           focused \in Windows \cup {NoWindow}
    PROVE  SpacesSound' /\ CallsOutlastHandlers'
  <1> DEFINE w == WindowOrFocused(a)
  <1>1. outcome' = Unasked /\ UNCHANGED windowLife
    BY DEF MoveToWorkspace, Others, windowVars
  <1>2. w \in Windows \cup {NoWindow}
    BY DEF WindowOrFocused, WindowOf, Open
  <1>3. MovesLand /\ SpacesTyped /\ AllWait
    BY DEF CallsOutlastHandlers, SpacesSound
  <1>4. CASE UNCHANGED <<exists, flagged, home, on, overlay, focusedMonitor, calls>>
    BY <1>1, <1>3, <1>4, PlacesKeep, WaitsKeep DEF SpacesSound, SpacesTyped
  <1>5. CASE s \in exists /\ w # NoWindow /\ Lands(w, s, silent) /\ UNCHANGED <<exists, home, calls>>
    <2>1. SpacesTyped' /\ flagged' \subseteq flagged /\ on' = [on EXCEPT ![w] = s]
      BY <1>2, <1>3, <1>5, LandsIs
    <2>2. AllWait'
      BY <1>3, <1>5, <2>1, WaitsKeep
    <2>3. CallsOutlastHandlers'
      BY <1>1, <1>2, <1>3, <1>5, <2>1, PlacesKeep DEF SpacesTyped
    <2>4. QED
      BY <2>1, <2>2, <2>3 DEF SpacesSound
  <1>6. CASE /\ s \in Spaces \ exists /\ w # NoWindow
             /\ Create(s, IF on[w] \in exists THEN home[on[w]] ELSE focusedMonitor, FALSE)
             /\ calls' = Append(calls, [op |-> "move", window |-> w, ws |-> s,
                                        silent |-> silent, view |-> View])
             /\ UNCHANGED <<on, overlay, focusedMonitor>>
    <2> DEFINE m == IF on[w] \in exists THEN home[on[w]] ELSE focusedMonitor
    <2>1. m \in Monitors
      BY <1>3 DEF SpacesTyped
    <2> HIDE DEF m
    <2>2. Create(s, m, FALSE) /\ s \in Spaces \ exists
      BY <1>6 DEF m
    <2>3. /\ exists' = exists \cup {s} /\ flagged' \cap exists \subseteq flagged
          /\ s \notin flagged' /\ flagged' \subseteq exists' /\ exists' \subseteq Spaces
          /\ home' \in [Spaces -> Monitors \cup {NoSpace}]
          /\ \A t \in exists' : home'[t] \in Monitors
      BY <1>3, <2>1, <2>2, CreateIs
    <2>4. SpacesTyped'
      BY <1>3, <1>6, <2>3 DEF SpacesTyped
    <2>5. PICK c \in Calls :
            c = [op |-> "move", window |-> w, ws |-> s, silent |-> silent, view |-> View]
      <3>1. View \in Overlays \X Monitors
        BY <1>3 DEF View, SpacesTyped
      <3>2. QED
        BY <1>2, <1>6, <3>1 DEF Calls
    <2>6. (Waits(c))'
      BY <2>3, <2>5 DEF Waits
    <2>7. AllWait'
      BY <1>3, <1>6, <2>3, <2>5, <2>6, AppendWaits
    <2>8. QED
      BY <1>1, <1>3, <1>6, <2>3, <2>4, <2>7, PlacesKeep DEF SpacesSound
  <1>7. QED
    BY <1>4, <1>5, <1>6 DEF MoveToWorkspace

LEMMA ToggleKeeps ==
    ASSUME SpacesSound, MovesLand, UNCHANGED <<windowLife, on, focusedMonitor>>,
           NEW s \in Specials \cup {NoSpace}, NEW wish \in Wishes, ToggleSpecial(s, wish),
           wish = Unasked \/ (/\ wish.undisturbed /\ wish.ws = s /\ wish.at = focusedMonitor
                              /\ s # NoSpace => wish.on = (overlay[focusedMonitor] # s))
    PROVE  SpacesSound' /\ CallsOutlastHandlers'
  <1>1. SpacesTyped /\ AllWait
    BY DEF SpacesSound
  <1>2. MovesLand' \/ ~(exists \subseteq exists')
    BY DEF MovesLand, Open
  <1>3. Unasked \in Wishes /\ ~Unasked.undisturbed /\ NoSpace \notin Specials /\ Gone \notin Specials
    BY WorkspacesAssumption DEF Wishes, Unasked
  <1>4. CASE s = NoSpace
    <2>1. UNCHANGED <<exists, flagged, home, overlay, calls>> /\ outcome' = Unasked
      BY <1>4 DEF ToggleSpecial
    <2>2. QED
      BY <1>1, <1>2, <1>3, <2>1, WaitsKeep
      DEF SpacesSound, SpacesTyped, CallsOutlastHandlers, SpecialAsAsked
  <1>5. CASE s # NoSpace /\ s \in exists
    <2>1. /\ overlay' = Toggled(s) /\ outcome' = wish
          /\ UNCHANGED <<exists, flagged, home, calls>>
      BY <1>5 DEF ToggleSpecial
    <2>2. overlay' \in Overlays /\ (overlay'[focusedMonitor] = s) = (overlay[focusedMonitor] # s)
      BY <1>1, <1>3, <1>5, <2>1, ToggledFlips
    <2>3. SpacesSound'
      BY <1>1, <2>1, <2>2, WaitsKeep DEF SpacesSound, SpacesTyped
    <2>4. SpecialAsAsked'
      BY <1>3, <1>5, <2>1, <2>2 DEF SpecialAsAsked
    <2>5. QED
      BY <1>2, <2>1, <2>3, <2>4 DEF CallsOutlastHandlers
  <1>6. CASE s # NoSpace /\ s \notin exists
    <2>1. /\ Create(s, focusedMonitor, TRUE) /\ outcome' = Unasked /\ UNCHANGED overlay
          /\ calls' = Append(calls, [op |-> "toggle", ws |-> s, wish |-> wish, view |-> View])
      BY <1>6 DEF ToggleSpecial
    <2>2. s \in Spaces \ exists /\ s \in Specials /\ focusedMonitor \in Monitors
      BY <1>1, <1>6, WorkspacesAssumption DEF SpacesTyped
    <2>3. /\ exists' = exists \cup {s} /\ flagged' \cap exists \subseteq flagged
          /\ flagged' \subseteq exists' /\ exists' \subseteq Spaces
          /\ home' \in [Spaces -> Monitors \cup {NoSpace}]
          /\ \A t \in exists' : home'[t] \in Monitors
      BY <1>1, <2>1, <2>2, CreateIs
    <2>4. SpacesTyped'
      BY <1>1, <2>1, <2>3 DEF SpacesTyped
    <2>5. PICK c \in Calls : c = [op |-> "toggle", ws |-> s, wish |-> wish, view |-> View]
      <3>1. View \in Overlays \X Monitors
        BY <1>1 DEF View, SpacesTyped
      <3>2. QED
        BY <2>2, <3>1 DEF Calls
    <2>6. (Waits(c))'
      <3>1. c.wish = wish /\ c.ws = s /\ c.op = "toggle" /\ c.view[1] = overlay
            /\ c.view[2] = focusedMonitor
        BY <2>5 DEF View
      <3>2. QED
        BY <1>3, <1>6, <3>1 DEF Waits
    <2>7. AllWait'
      BY <1>1, <2>1, <2>3, <2>5, <2>6, AppendWaits
    <2>8. QED
      BY <1>2, <1>3, <2>1, <2>3, <2>4, <2>7
      DEF SpacesSound, CallsOutlastHandlers, SpecialAsAsked
  <1>7. QED
    BY <1>4, <1>5, <1>6

LEMMA SpecialKeeps ==
    ASSUME SpacesSound, CallsOutlastHandlers, NEW s \in Specials \cup {NoSpace},
           WorkspaceToggleSpecial(s) \/ \E b \in BOOLEAN : WorkspaceSpecialSet(s, b)
    PROVE  SpacesSound' /\ CallsOutlastHandlers'
  <1>1. MovesLand /\ UNCHANGED <<windowLife, on, focusedMonitor>>
    BY DEF CallsOutlastHandlers, WorkspaceToggleSpecial, WorkspaceSpecialSet, Others, windowVars
  <1>2. CASE WorkspaceToggleSpecial(s)
    <2>1. ToggleSpecial(s, Unasked) /\ Unasked \in Wishes
      BY <1>2 DEF WorkspaceToggleSpecial, Unasked, Wishes
    <2>2. QED
      BY <1>1, <2>1, ToggleKeeps
  <1>3. ASSUME NEW b \in BOOLEAN, WorkspaceSpecialSet(s, b)
        PROVE  SpacesSound' /\ CallsOutlastHandlers'
    <2> DEFINE wish == [on |-> b, ws |-> s, at |-> focusedMonitor, undisturbed |-> TRUE]
    <2>1. wish \in Wishes
      BY WorkspacesAssumption DEF Wishes, SpacesSound, SpacesTyped
    <2>2. CASE b = (overlay[focusedMonitor] = s /\ s # NoSpace)
      <3>1. outcome' = wish /\ UNCHANGED <<exists, flagged, home, overlay, calls>>
        BY <1>3, <2>2 DEF WorkspaceSpecialSet
      <3>2. SpacesSound'
        BY <1>1, <3>1, WaitsKeep DEF SpacesSound, SpacesTyped
      <3>3. QED
        BY <1>1, <2>2, <3>1, <3>2 DEF CallsOutlastHandlers, MovesLand, SpecialAsAsked, Open
    <2>3. CASE b # (overlay[focusedMonitor] = s /\ s # NoSpace)
      <3>1. ToggleSpecial(s, wish)
        BY <1>3, <2>3 DEF WorkspaceSpecialSet
      <3>2. /\ wish.undisturbed /\ wish.ws = s /\ wish.at = focusedMonitor
            /\ s # NoSpace => wish.on = (overlay[focusedMonitor] # s)
        BY <2>3
      <3> HIDE DEF wish
      <3>3. QED
        BY <1>1, <2>1, <3>1, <3>2, ToggleKeeps
    <2>4. QED
      BY <2>2, <2>3
  <1>4. QED
    BY <1>2, <1>3

LEMMA ShowKeeps ==
    ASSUME SpacesSound, CallsOutlastHandlers, NEW s \in Specials \cup {NoSpace},
           NEW m \in Monitors, MonitorSetSpecial(m, s)
    PROVE  SpacesSound' /\ CallsOutlastHandlers'
  <1>1. /\ SpacesTyped /\ AllWait /\ MovesLand
        /\ outcome' = Unasked /\ UNCHANGED <<windowLife, on, focusedMonitor>>
    BY DEF MonitorSetSpecial, Others, windowVars, SpacesSound, CallsOutlastHandlers
  <1>2. CASE s = NoSpace \/ s \in exists
    <2>1. UNCHANGED <<exists, flagged, home, calls>>
          /\ overlay' = IF s = NoSpace THEN [overlay EXCEPT ![m] = NoSpace] ELSE Shown(m, s)
      BY <1>2 DEF MonitorSetSpecial
    <2>2. overlay' \in Overlays
      BY <1>1, <2>1, ShownIs DEF SpacesTyped, Overlays
    <2>3. QED
      BY <1>1, <2>1, <2>2, WaitsKeep, PlacesKeep DEF SpacesSound, SpacesTyped
  <1>3. CASE s # NoSpace /\ s \notin exists
    <2>1. /\ Create(s, m, TRUE) /\ UNCHANGED overlay
          /\ calls' = Append(calls, [op |-> "show", ws |-> s, at |-> m, view |-> View])
      BY <1>3 DEF MonitorSetSpecial
    <2>2. s \in Spaces \ exists /\ s \in Specials
      BY <1>3, WorkspacesAssumption
    <2>3. /\ exists' = exists \cup {s} /\ flagged' \cap exists \subseteq flagged
          /\ flagged' \subseteq exists' /\ exists' \subseteq Spaces
          /\ home' \in [Spaces -> Monitors \cup {NoSpace}]
          /\ \A t \in exists' : home'[t] \in Monitors
      BY <1>1, <2>1, <2>2, CreateIs
    <2>4. SpacesTyped'
      BY <1>1, <2>1, <2>3 DEF SpacesTyped
    <2>5. PICK c \in Calls : c = [op |-> "show", ws |-> s, at |-> m, view |-> View]
      <3>1. View \in Overlays \X Monitors
        BY <1>1 DEF View, SpacesTyped
      <3>2. QED
        BY <2>2, <3>1 DEF Calls
    <2>6. (Waits(c))'
      BY <2>5 DEF Waits
    <2>7. AllWait'
      BY <1>1, <2>1, <2>3, <2>5, <2>6, AppendWaits
    <2>8. QED
      BY <1>1, <2>3, <2>4, <2>7, PlacesKeep DEF SpacesSound
  <1>4. QED
    BY <1>2, <1>3

LEMMA GoesOnKeeps ==
    ASSUME SpacesSound, CallsOutlastHandlers, GoesOn
    PROVE  SpacesSound' /\ CallsOutlastHandlers'
  <1>1. /\ SpacesTyped /\ AllWait /\ MovesLand
        /\ calls # <<>> /\ calls' = Front(calls) /\ UNCHANGED <<windowLife, exists, home>>
    BY DEF GoesOn, Others, windowVars, SpacesSound, CallsOutlastHandlers
  <1>2. PICK c \in Calls : c = Last(calls) /\ Waits(c)
    BY <1>1, FrontAndLast, LenProperties DEF AllWait
  <1>3. flagged' \subseteq flagged => AllWait'
    BY <1>1, FrontWaits
  <1>4. CASE c.op = "move"
    <2>1. Lands(c.window, c.ws, c.silent) /\ outcome' = Unasked
      BY <1>2, <1>4 DEF GoesOn
    <2>2. c.window \in Windows /\ c.ws \in exists /\ c.silent \in BOOLEAN
      BY <1>2, <1>4 DEF Calls, Waits
    <2>3. SpacesTyped' /\ flagged' \subseteq flagged /\ on' = [on EXCEPT ![c.window] = c.ws]
      BY <1>1, <2>1, <2>2, LandsIs
    <2>4. CallsOutlastHandlers'
      BY <1>1, <2>1, <2>2, <2>3, PlacesKeep DEF SpacesTyped
    <2>5. QED
      BY <1>3, <2>3, <2>4 DEF SpacesSound
  <1>5. CASE c.op = "toggle"
    <2>1. /\ overlay' = Toggled(c.ws) /\ UNCHANGED <<flagged, on, focusedMonitor>>
          /\ outcome' = [c.wish EXCEPT !.undisturbed = @ /\ c.view = View /\ c.ws # Gone]
      BY <1>2, <1>5 DEF GoesOn
    <2>2. c.ws \in Specials \cup {Gone} /\ c.wish \in Wishes
      BY <1>2, <1>5 DEF Calls
    <2>3. /\ Toggled(c.ws) \in Overlays
          /\ c.ws # Gone => (Toggled(c.ws)[focusedMonitor] = c.ws) = (overlay[focusedMonitor] # c.ws)
      BY <1>1, <2>2, ToggledFlips
    <2>4. SpacesSound'
      BY <1>1, <1>3, <2>1, <2>3 DEF SpacesSound, SpacesTyped
    <2>5. MovesLand'
      BY <1>1, <2>1 DEF MovesLand, Open
    <2>6. SpecialAsAsked'
      <3> SUFFICES ASSUME outcome'.undisturbed
                   PROVE  (outcome'.ws # NoSpace /\ overlay'[outcome'.at] = outcome'.ws) = outcome'.on
        BY DEF SpecialAsAsked
      <3>1. /\ c.wish.undisturbed /\ c.view = View /\ c.ws # Gone
            /\ outcome'.ws = c.wish.ws /\ outcome'.at = c.wish.at /\ outcome'.on = c.wish.on
        BY <2>1, <2>2 DEF Wishes
      <3>2. c.view[1] = overlay /\ c.view[2] = focusedMonitor
        BY <3>1 DEF View
      <3>3. /\ c.wish.at = focusedMonitor /\ c.wish.ws = c.ws
            /\ c.wish.on = (overlay[focusedMonitor] # c.ws)
        BY <1>2, <1>5, <3>1, <3>2 DEF Waits
      <3>4. c.ws # NoSpace
        BY <2>2, <3>1, WorkspacesAssumption
      <3>5. QED
        BY <2>1, <2>3, <3>1, <3>3, <3>4
    <2>7. QED
      BY <2>4, <2>5, <2>6 DEF CallsOutlastHandlers
  <1>6. CASE c.op = "show"
    <2>1. /\ overlay' = Shown(c.at, c.ws) /\ outcome' = Unasked
          /\ UNCHANGED <<flagged, on, focusedMonitor>>
      BY <1>2, <1>6 DEF GoesOn
    <2>2. c.ws \in Specials \cup {Gone} /\ c.at \in Monitors
      BY <1>2, <1>6 DEF Calls
    <2>3. SpacesSound'
      BY <1>1, <1>3, <2>1, <2>2, ShownIs DEF SpacesSound, SpacesTyped
    <2>4. QED
      BY <1>1, <2>1, <2>3, PlacesKeep
  <1>7. QED
    BY <1>4, <1>5, <1>6 DEF Calls

LEMMA RenameKeeps ==
    ASSUME SpacesSound, CallsOutlastHandlers, NEW s, NEW t, Rename(s, t)
    PROVE  SpacesSound' /\ CallsOutlastHandlers'
  <1> DEFINE named(x) == IF x = s THEN t ELSE x
  <1>1. /\ SpacesTyped /\ AllWait /\ MovesLand
        /\ outcome' = Unasked /\ UNCHANGED <<windowLife, overlay, focusedMonitor, calls>>
        /\ s \in exists \ Specials /\ t \in Spaces \ exists
        /\ \A i \in DOMAIN calls : calls[i].ws # s
        /\ exists' = {named(x) : x \in exists} /\ flagged' = {named(x) : x \in flagged}
        /\ on' = [w \in Windows |-> named(on[w])]
        /\ home' = [home EXCEPT ![t] = home[s], ![s] = NoSpace]
    BY DEF Rename, Others, windowVars, SpacesSound, CallsOutlastHandlers
  <1>2. exists' = (exists \ {s}) \cup {t} /\ flagged' \subseteq (flagged \ {s}) \cup {t}
    BY <1>1 DEF SpacesTyped
  <1>3. SpacesTyped'
    <2>1. flagged' \subseteq exists'
      BY <1>1 DEF SpacesTyped
    <2>2. QED
      BY <1>1, <1>2, <2>1 DEF SpacesTyped
  <1>4. AllWait'
    <2>1. DOMAIN calls = 1..Len(calls)
      BY <1>1, LenProperties DEF AllWait
    <2>2. QED
      BY <1>1, <1>2, <2>1 DEF AllWait, Waits
  <1>5. MovesLand'
    <2> SUFFICES ASSUME NEW w \in Open
                 PROVE  on'[w] \in exists' \cup {NoSpace}
      BY <1>1 DEF MovesLand, Open
    <2>1. on[w] \in exists \cup {NoSpace} /\ on'[w] = named(on[w])
      BY <1>1 DEF MovesLand, Open
    <2>2. QED
      BY <1>1, <1>2, <2>1, WorkspacesAssumption DEF SpacesTyped
  <1>6. QED
    BY <1>1, <1>3, <1>4, <1>5 DEF SpacesSound, CallsOutlastHandlers, SpecialAsAsked, Unasked

LEMMA ComposKeep ==
    ASSUME SpacesSound, CallsOutlastHandlers,
           \/ \E s \in Selectors : FocusWorkspace(s)
           \/ \E m \in Monitors : \/ FocusMonitor(m)
                                  \/ \E s \in Selectors : MoveMonitor(s, m)
                                  \/ \E n \in Monitors : SwapMonitors(m, n)
    PROVE  SpacesSound' /\ CallsOutlastHandlers'
  <1>1. /\ SpacesTyped /\ AllWait /\ MovesLand
        /\ outcome' = Unasked /\ UNCHANGED <<windowLife, on, overlay, calls>>
    BY DEF FocusWorkspace, FocusMonitor, MoveMonitor, SwapMonitors, Others, windowVars,
           SpacesSound, CallsOutlastHandlers
  <1>2. SpacesTyped' /\ exists \subseteq exists' /\ flagged' \cap exists \subseteq flagged
    <2>1. ASSUME NEW s \in Selectors, FocusWorkspace(s)
          PROVE  SpacesTyped' /\ exists \subseteq exists' /\ flagged' \cap exists \subseteq flagged
      <3>1. CASE UNCHANGED <<exists, flagged, home>> /\ focusedMonitor' \in {focusedMonitor, home[s]}
                 /\ (focusedMonitor' # focusedMonitor => s \in exists)
        BY <1>1, <3>1 DEF SpacesTyped
      <3>2. CASE s \in Spaces \ exists /\ Create(s, focusedMonitor, FALSE) /\ UNCHANGED focusedMonitor
        <4>1. /\ exists' = exists \cup {s} /\ flagged' \cap exists \subseteq flagged
              /\ flagged' \subseteq exists' /\ exists' \subseteq Spaces
              /\ home' \in [Spaces -> Monitors \cup {NoSpace}]
              /\ \A t \in exists' : home'[t] \in Monitors
          BY <1>1, <3>2, CreateIs DEF SpacesTyped
        <4>2. QED
          BY <1>1, <3>2, <4>1 DEF SpacesTyped
      <3>3. QED
        BY <2>1, <3>1, <3>2 DEF FocusWorkspace, Selectors
    <2>2. ASSUME NEW m \in Monitors, FocusMonitor(m)
          PROVE  SpacesTyped' /\ exists \subseteq exists' /\ flagged' \cap exists \subseteq flagged
      BY <1>1, <2>2 DEF FocusMonitor, SpacesTyped
    <2>3. ASSUME NEW m \in Monitors, NEW n \in Monitors, NEW s \in Selectors,
                 MoveMonitor(s, m) \/ SwapMonitors(m, n)
          PROVE  SpacesTyped' /\ exists \subseteq exists' /\ flagged' \cap exists \subseteq flagged
      <3>1. UNCHANGED <<exists, flagged, focusedMonitor>>
        BY <2>3 DEF MoveMonitor, SwapMonitors
      <3>2. home' \in [Spaces -> Monitors \cup {NoSpace}] /\ \A t \in exists : home'[t] \in Monitors
        BY <1>1, <2>3 DEF MoveMonitor, SwapMonitors, SpacesTyped
      <3>3. QED
        BY <1>1, <3>1, <3>2 DEF SpacesTyped
    <2>4. QED
      BY <2>1, <2>2, <2>3 DEF Selectors
  <1>3. AllWait' /\ CallsOutlastHandlers'
    BY <1>1, <1>2, WaitsKeep, PlacesKeep
  <1>4. QED
    BY <1>2, <1>3 DEF SpacesSound

LEMMA SweepKeeps ==
    ASSUME SpacesSound, CallsOutlastHandlers, NEW s \in Spaces, Sweep(s)
    PROVE  SpacesSound' /\ CallsOutlastHandlers'
  <1>1. /\ SpacesTyped /\ AllWait /\ MovesLand
        /\ outcome' = Unasked /\ UNCHANGED <<windowLife, on, overlay, focusedMonitor>>
        /\ exists' = exists \ {s} /\ flagged' = flagged \ {s}
        /\ home' = [home EXCEPT ![s] = NoSpace]
        /\ \A w \in Open : on[w] # s
    BY DEF Sweep, Others, windowVars, SpacesSound, CallsOutlastHandlers
  <1>2. AllWait'
    BY <1>1, SweepWaits DEF Sweep
  <1>3. SpacesTyped'
    BY <1>1 DEF SpacesTyped
  <1>4. CallsOutlastHandlers'
    BY <1>1 DEF CallsOutlastHandlers, MovesLand, SpecialAsAsked, Unasked, Open
  <1>5. QED
    BY <1>2, <1>3, <1>4 DEF SpacesSound

LEMMA PlacingKeeps ==
    ASSUME SpacesSound, CallsOutlastHandlers, WindowComings
    PROVE  SpacesSound' /\ CallsOutlastHandlers'
  <1>1. /\ SpacesTyped /\ AllWait /\ MovesLand /\ outcome' = Unasked
        /\ UNCHANGED <<exists, flagged, home, overlay, focusedMonitor, calls>>
    BY DEF WindowComings, SpacesSound, CallsOutlastHandlers
  <1>2. AllWait'
    BY <1>1, WaitsKeep
  <1>3. /\ on' = [w \in Windows |-> on'[w]]
        /\ \A w \in Open' : on'[w] \in exists \cup {NoSpace}
    <2>1. ASSUME NEW w \in 1..MaxPlaced, NEW s \in exists, Map(w), on' = [on EXCEPT ![w] = s]
          PROVE  <1>3!:
      <3>1. w \in Windows
        BY WorkspacesAssumption, WindowsAssumption DEF Windows
      <3>2. Open' \subseteq Open \cup {w}
        BY <2>1 DEF Map, Open
      <3>3. QED
        BY <1>1, <2>1, <3>1, <3>2 DEF SpacesTyped, MovesLand, Open
    <2>2. ASSUME NEW w \in Windows, Unborn(w), UNCHANGED on
          PROVE  <1>3!:
      <3>1. Open' \subseteq Open
        BY <2>2 DEF Unborn, Open
      <3>2. QED
        BY <1>1, <2>2, <3>1 DEF SpacesTyped, MovesLand
    <2>3. QED
      BY <2>1, <2>2 DEF WindowComings
  <1>4. QED
    BY <1>1, <1>2, <1>3
    DEF SpacesSound, SpacesTyped, CallsOutlastHandlers, MovesLand, SpecialAsAsked, Unasked

LEMMA SpacesKeep ==
    ASSUME SpacesSound, CallsOutlastHandlers, WindowsTyped, WorkspacesNext
    PROVE  SpacesSound' /\ CallsOutlastHandlers'
  <1>1. focused \in Windows \cup {NoWindow}
    BY DEF WindowsTyped
  <1>2. QED
    BY <1>1, MoveKeeps, SpecialKeeps, ShowKeeps, GoesOnKeeps, RenameKeeps, ComposKeep,
       SweepKeeps, PlacingKeeps
    DEF WorkspacesNext

SpacesInv == WindowsTyped /\ SpaceInv

LEMMA SpacesAlways == Spec => []SpacesInv
  <1>1. Init => SpacesInv
    <2> SUFFICES ASSUME Init
                 PROVE  SpacesInv
      OBVIOUS
    <2>1. /\ exists = {} /\ flagged = {} /\ home = [s \in Spaces |-> NoSpace]
          /\ on = [w \in Windows |-> NoSpace] /\ overlay = [m \in Monitors |-> NoSpace]
          /\ focusedMonitor \in Monitors /\ calls = <<>> /\ outcome = Unasked
      BY WorkspacesAssumption DEF Init, WorkspacesInit
    <2>2. SpacesTyped /\ AllWait
      BY <2>1 DEF SpacesTyped, AllWait, Overlays
    <2>3. CallsOutlastHandlers
      BY <2>1 DEF CallsOutlastHandlers, MovesLand, SpecialAsAsked, Unasked, Open
    <2>4. WindowsTyped
      BY WindowsAssumption DEF Init, WindowsInit, WindowsTyped
    <2>5. QED
      BY <2>1, <2>2, <2>3, <2>4 DEF SpacesInv, SpaceInv, SpacesSound
  <1>2. SpacesInv /\ [Next]_vars => SpacesInv'
    <2> SUFFICES ASSUME WindowsTyped, SpaceInv, [Next]_vars
                 PROVE  SpaceInv'
      BY WindowsStep DEF SpacesInv
    <2>1. acting' = acting
      BY DEF Next, NotificationActs, ConfigActs, WindowsAct, InputActs, vars
    <2>2. CASE WorkspacesNext /\ acting = "workspaces"
      BY <2>1, <2>2, SpacesKeep DEF SpaceInv
    <2>3. CASE UNCHANGED spaceVars /\ acting # "workspaces"
      BY <2>1, <2>3 DEF spaceVars, SpaceInv
    <2>4. CASE UNCHANGED <<spaceVars, windowVars>> /\ acting = "workspaces"
      BY <2>1, <2>4 DEF spaceVars, windowVars, SpaceInv, SpacesSound, SpacesTyped, AllWait, Waits,
                        CallsOutlastHandlers, MovesLand, SpecialAsAsked, Open
    <2>5. QED
      BY <2>2, <2>3, <2>4 DEF Next, NotificationActs, ConfigActs, WindowsAct, InputActs, vars
  <1>3. QED
    BY <1>1, <1>2, PTL DEF Spec

(* For any number of workspaces, monitors and nested handlers: a move      *)
(* lands on a workspace that is still there, and hl-workspace-special-set! *)
(* leaves it as asked unless the view was changed meanwhile -- because a   *)
(* workspace made for a window is not made empty, and so cannot be swept   *)
(* under the call (hlSchemeWindowMoveToWorkspace, specialWorkspaceFromName).*)
THEOREM HandlersOutlasted == Spec => []CallsOutlastHandlers
  <1>1. SpacesInv => CallsOutlastHandlers
    BY DEF SpacesInv, SpaceInv, CallsOutlastHandlers, MovesLand, SpecialAsAsked, Unasked, Open
  <1>2. QED
    BY <1>1, SpacesAlways, PTL

------------------------------------------------------------------------------
(* The string of the last error.                                              *)

\* What a step may do to the string and to what the script is shown.
Tells ==
    \/ Fine
    \/ \E who : Refuse(who) \/ Fail(who)
    \/ \E who \in Silent : FailSilently(who)

LEMMA ToldIsOwn ==
    ASSUME Tells
    PROVE  RaisedIsOwn'
  <1>1. CASE Fine
    BY <1>1 DEF Fine, NoRaise, RaisedIsOwn
  <1>2. ASSUME NEW who, Refuse(who) \/ Fail(who)
        PROVE  RaisedIsOwn'
    BY <1>2 DEF Refuse, Fail, NoRaise, RaisedIsOwn
  <1>3. ASSUME NEW who \in Silent, FailSilently(who)
        PROVE  RaisedIsOwn'
    BY <1>3 DEF FailSilently, RaisedIsOwn
  <1>4. QED
    BY <1>1, <1>2, <1>3 DEF Tells

LEMMA NotificationTells ==
    ASSUME NotificationNext
    PROVE  Tells
  <1>1. CASE NotificationAdd \/ Notify \/ NotificationList
    BY <1>1 DEF NotificationAdd, Notify, NotificationList, Tells
  <1>2. ASSUME NEW h \in HandleIds, NEW b \in BOOLEAN,
               NotificationSet(h, b) \/ NotificationPausedSet(h, b)
        PROVE  Tells
    BY <1>2 DEF NotificationSet, NotificationPausedSet, Tells
  <1>3. ASSUME NEW h \in HandleIds,
               NotificationPausedToggle(h) \/ NotificationGet(h) \/ NotificationDismiss(h)
        PROVE  Tells
    BY <1>3 DEF NotificationPausedToggle, NotificationPausedSet, NotificationGet,
                NotificationDismiss, Tells
  <1>4. ASSUME NEW s \in Notifications, Expire(s)
        PROVE  Tells
    BY <1>4 DEF Expire, Tells
  <1>5. CASE NotificationFinalizers \/ OtherObjects
    BY <1>5 DEF NotificationFinalizers, OtherObjects, Tells
  <1>6. QED
    BY <1>1, <1>2, <1>3, <1>4, <1>5 DEF NotificationNext

LEMMA TablesTell ==
    ASSUME TablesNext
    PROVE  Tells
  <1>1. CASE DeviceAdd
    BY <1>1 DEF DeviceAdd, Tells
  <1>2. CASE BezierCurveAdd \/ SpringCurveAdd \/ AnimationSet
    BY <1>2 DEF BezierCurveAdd, SpringCurveAdd, AnimationSet, Tells
  <1>3. CASE PermissionAdd \/ Launched \/ ScheduleRefresh \/ PropRefreshImmediately \/ RunRefresh
    BY <1>3 DEF PermissionAdd, Launched, ScheduleRefresh, PropRefreshImmediately, RunRefresh, Tells
  <1>4. QED
    BY <1>1, <1>2, <1>3 DEF TablesNext

LEMMA WindowsTell ==
    ASSUME WindowsNext \/ FullscreenNext
    PROVE  Tells
  <1>1. ASSUME NEW a \in Arguments,
               \/ Get(a) \/ GetFlag(a) \/ GetOptional(a) \/ GetOrFocused(a)
               \/ \E known \in BOOLEAN : PropGet(a, known)
               \/ \E b \in Arguments : Same(a, b)
               \/ Arrange(a) \/ Close(a) \/ Focus(a) \/ Pass(a)
        PROVE  Tells
    BY <1>1 DEF Get, GetFlag, GetOptional, GetOrFocused, PropGet, Same, Arrange, Close, Focus,
                Pass, NoActs, Tells
  <1>2. ASSUME NEW a \in Arguments, NEW op \in Ops, NEW act \in 0..2,
               Dispatch(op, a) \/ Toggle(op, a, act)
        PROVE  Tells
    BY <1>2 DEF Dispatch, Toggle, NoActs, Tells
  <1>3. ASSUME NEW a \in Arguments, NEW o \in Arguments, SwapWith(a, o)
        PROVE  Tells
    BY <1>3 DEF SwapWith, NoActs, Tells
  <1>4. ASSUME NEW a \in Arguments, NEW m \in BOOLEAN, NEW k \in BOOLEAN, SendKey(a, m, k)
        PROVE  Tells
    BY <1>4 DEF SendKey, Tells
  <1>5. CASE FocusMoves \/ (\E on0 \in BOOLEAN : Command(on0)) \/ Exec
             \/ ClearCrashedLockscreen \/ Comings
    BY <1>5 DEF FocusMoves, Command, Exec, ClearCrashedLockscreen, Comings, NoActs, Tells, Silent
  <1>6. CASE FullscreenNext
    BY <1>6 DEF FullscreenNext, FullscreenBy, FullscreenSync, Comings, Tells
  <1>7. QED
    BY <1>1, <1>2, <1>3, <1>4, <1>5, <1>6 DEF WindowsNext

LEMMA GroupsTell ==
    ASSUME GroupsNext
    PROVE  Tells
  <1>1. ASSUME NEW a \in Arguments, NEW h \in GroupHandles, GroupAdd(h, a) \/ GroupRemove(h, a)
        PROVE  Tells
    BY <1>1 DEF GroupAdd, GroupRemove, Tells, Silent
  <1>2. ASSUME NEW a \in Arguments,
               \/ GroupToggle(a) \/ GroupCycle(a) \/ GroupMoveWindow(a)
               \/ \E on0 \in BOOLEAN : GroupSet(a, on0)
               \/ \E act \in 0..2 : DenyFromGroup(a, act) \/ WindowGroupLock(a, act)
        PROVE  Tells
    BY <1>2 DEF GroupToggle, GroupCycle, GroupMoveWindow, GroupSet, DenyFromGroup,
                WindowGroupLock, Tells
  <1>3. CASE \E act \in 0..2 : GroupLockAllSet(act) \/ \E h \in GroupHandles : GroupLockSet(h, act)
    BY <1>3 DEF GroupLockAllSet, GroupLockSet, Tells
  <1>4. CASE GroupComings \/ Redrawn
    BY <1>4 DEF GroupComings, Redrawn, Tells
  <1>5. QED
    BY <1>1, <1>2, <1>3, <1>4 DEF GroupsNext

LEMMA WorkspacesTell ==
    ASSUME WorkspacesNext
    PROVE  Tells
  BY DEF WorkspacesNext, MoveToWorkspace, WorkspaceToggleSpecial, WorkspaceSpecialSet,
         MonitorSetSpecial, GoesOn, FocusWorkspace, Rename, FocusMonitor, MoveMonitor,
         SwapMonitors, Sweep, WindowComings, Others, Tells

LEMMA InputTells ==
    ASSUME GesturesNext \/ KeysNext
    PROVE  Tells
  <1>1. CASE GesturesNext
    BY <1>1 DEF GesturesNext, GestureRefused, GestureAdd, GestureRemove, GesturesClear, Start,
                Update, Finish, Tells
  <1>2. CASE KeysNext
    BY <1>2 DEF KeysNext, Convert, Forget, Tells
  <1>3. QED
    BY <1>1, <1>2

\* The call under way is one of the three kinds, its fields are fields, and every call for a
\* monitor has a parser.
CallTyped ==
    call # None =>
        /\ call = [op |-> call.op, name |-> call.name, fields |-> call.fields, left |-> call.left]
        /\ call.op \in {"option", "monitor", "gap"}
        /\ call.left \in Seq(Fields \X Values)
        /\ call.op = "gap" => call.left # <<>>
RulesTyped ==
    /\ monitor \in [Outputs -> Rules]
    /\ parser = None \/ parser \in [output : Outputs, rule : Rules]
ParserBegun == call # None /\ call.op # "option" => parser # None

\* The inductive invariant.
IInv == RaisedIsOwn /\ CallTyped /\ RulesTyped /\ ParserBegun

LEMMA ParserIsSome ==
    ASSUME NEW o \in Outputs, NEW r \in Rules
    PROVE  /\ [output |-> o, rule |-> r] \in [output : Outputs, rule : Rules]
           /\ [output |-> o, rule |-> r] # None
  BY ConfigAssumption

LEMMA GivenAreSequences ==
    ASSUME NEW fs \in Given
    PROVE  fs \in Seq(Fields \X Values)
  <1>1. PICK n \in 1..MaxFields : fs \in [1..n -> Fields \X Values]
    BY DEF Given
  <1>2. n \in Nat
    BY <1>1, ConfigAssumption
  <1>3. QED
    BY <1>1, <1>2

\* A field that is taken leaves the rest of the call's, and a parser.
LEMMA TakesKeeps ==
    ASSUME IInv, call # None, call.op # "option", call.left # <<>>,
           NEW f, NEW v, f = Head(call.left)[1], Takes(f, v)
    PROVE  Tells /\ CallTyped' /\ RulesTyped' /\ ParserBegun'
  <1>1. parser # None /\ parser \in [output : Outputs, rule : Rules]
    BY DEF IInv, ParserBegun, RulesTyped
  <1>2. monitor' = monitor
    BY DEF Takes, stores
  <1>3. CASE v \in Good
    <2>1. /\ parser' = [parser EXCEPT !.rule[f] = v]
          /\ call' = [call EXCEPT !.op = "monitor", !.left = Tail(@)]
          /\ Fine
      BY <1>1, <1>3 DEF Takes
    <2>2. parser' = [output |-> parser.output, rule |-> [parser.rule EXCEPT ![f] = v]]
      BY <1>1, <2>1
    <2>3. [parser.rule EXCEPT ![f] = v] \in Rules
      BY <1>1, <1>3 DEF Rules, Values
    <2>4. parser' \in [output : Outputs, rule : Rules] /\ parser' # None
      BY <1>1, <2>2, <2>3, ParserIsSome
    <2>5. call' = [op |-> "monitor", name |-> call.name, fields |-> call.fields,
                   left |-> Tail(call.left)]
      BY <2>1 DEF IInv, CallTyped
    <2>6. Tail(call.left) \in Seq(Fields \X Values)
      BY HeadTailProperties DEF IInv, CallTyped
    <2>7. CallTyped'
      BY <2>5, <2>6 DEF CallTyped
    <2>8. QED
      BY <1>2, <2>1, <2>4, <2>7 DEF IInv, RulesTyped, ParserBegun, Tells
  <1>4. CASE v \notin Good
    <2>1. Fail("hl-monitor-rule-add!") /\ call' = None /\ parser' = parser
      BY <1>1, <1>4 DEF Takes
    <2>2. QED
      BY <1>2, <2>1 DEF IInv, CallTyped, RulesTyped, ParserBegun, Tells
  <1>5. QED
    BY <1>3, <1>4

LEMMA StackKeeps ==
    ASSUME IInv, StackNext
    PROVE  Tells /\ CallTyped' /\ RulesTyped' /\ ParserBegun'
  <1>1. CASE ConfigAdd
    <2>1. PICK k \in Keys \cup {"unknown"}, v \in Values :
            call' = [op |-> "option", name |-> k, fields |-> <<<<None, v>>>>, left |-> <<>>]
      BY <1>1 DEF ConfigAdd
    <2>2. CallTyped' /\ ParserBegun'
      BY <2>1 DEF CallTyped, ParserBegun
    <2>3. QED
      BY <1>1, <2>2 DEF ConfigAdd, IInv, RulesTyped, stores, Tells
  <1>2. CASE ConfigSet
    BY <1>2 DEF ConfigSet, IInv, CallTyped, RulesTyped, ParserBegun, Tells
  <1>3. CASE ConfigGet
    BY <1>3 DEF ConfigGet, IInv, CallTyped, RulesTyped, ParserBegun, stores, Tells
  <1>4. CASE MonitorBegin
    <2>1. PICK o \in Outputs, fs \in Given :
            /\ parser' = Seeded(o)
            /\ call' = [op |-> "monitor", name |-> o, fields |-> fs, left |-> fs]
      BY <1>4 DEF MonitorBegin
    <2>2. monitor[o] \in Rules
      BY DEF IInv, RulesTyped
    <2>3. parser' \in [output : Outputs, rule : Rules] /\ parser' # None
      BY <2>1, <2>2, ParserIsSome DEF Seeded
    <2>4. CallTyped'
      BY <2>1, GivenAreSequences DEF CallTyped
    <2>5. QED
      BY <1>4, <2>3, <2>4 DEF MonitorBegin, IInv, RulesTyped, ParserBegun, stores, Tells
  <1>5. CASE MonitorUnnamed
    BY <1>5 DEF MonitorUnnamed, IInv, CallTyped, RulesTyped, ParserBegun, configVars, stores, Tells
  <1>6. CASE MonitorPushGap
    <2>1. /\ call # None /\ call.op = "monitor" /\ call' = [call EXCEPT !.op = "gap"]
          /\ Fine /\ parser' = parser /\ monitor' = monitor
      BY <1>6 DEF MonitorPushGap, CollectingField, stores
    <2>2. call.left # <<>>
      BY <1>6 DEF MonitorPushGap, CollectingField
    <2>3. call' = [op |-> "gap", name |-> call.name, fields |-> call.fields, left |-> call.left]
      BY <2>1 DEF IInv, CallTyped
    <2>4. CallTyped'
      BY <2>1, <2>2, <2>3 DEF IInv, CallTyped
    <2>5. QED
      BY <2>1, <2>4 DEF IInv, RulesTyped, ParserBegun, Tells
  <1>7. CASE MonitorFieldStr \/ MonitorFieldBool \/ MonitorFieldNum
    <2>1. /\ call # None /\ call.op # "option" /\ call.left # <<>>
          /\ \E v : Takes(Head(call.left)[1], v)
      BY <1>7 DEF MonitorFieldStr, MonitorFieldBool, MonitorFieldNum, NextIsPlain, CollectingField
    <2>2. QED
      BY <2>1, TakesKeeps
  <1>8. CASE MonitorFieldGap
    <2>1. /\ call # None /\ call.op # "option" /\ call.left # <<>>
          /\ Takes(Head(call.left)[1], Last(scratch))
      BY <1>8 DEF MonitorFieldGap, IInv, CallTyped
    <2>2. QED
      BY <2>1, TakesKeeps
  <1>9. CASE MonitorCommit
    <2>1. /\ call' = None /\ parser' = None /\ Fine /\ parser \in [output : Outputs, rule : Rules]
          /\ monitor' = [monitor EXCEPT ![parser.output] = parser.rule]
      BY <1>9 DEF MonitorCommit, IInv, RulesTyped
    <2>2. monitor' \in [Outputs -> Rules]
      BY <2>1 DEF IInv, RulesTyped
    <2>3. QED
      BY <2>1, <2>2 DEF CallTyped, RulesTyped, ParserBegun, Tells
  <1>10. CASE Abandon
    BY <1>10 DEF Abandon, IInv, CallTyped, RulesTyped, ParserBegun, stores, Tells
  <1>11. QED
    BY <1>1, <1>2, <1>3, <1>4, <1>5, <1>6, <1>7, <1>8, <1>9, <1>10 DEF StackNext

LEMMA InitIInv == Init => IInv
  BY DEF Init, ErrorsInit, ConfigInit, NoRaise, IInv, RaisedIsOwn, CallTyped, RulesTyped,
         ParserBegun, Rules, Empty

LEMMA StepIInv == IInv /\ [Next]_vars => IInv'
  <1> SUFFICES ASSUME IInv, [Next]_vars
               PROVE  IInv'
    OBVIOUS
  <1> DEFINE Config == CallTyped /\ RulesTyped /\ ParserBegun
  <1>1. UNCHANGED configVars => Config'
    BY DEF configVars, IInv, CallTyped, RulesTyped, ParserBegun
  <1>2. CASE NotificationActs
    BY <1>1, <1>2, NotificationTells, ToldIsOwn DEF NotificationActs, IInv
  <1>3. CASE ConfigActs
    <2>1. CASE StackNext
      BY <2>1, StackKeeps, ToldIsOwn DEF IInv
    <2>2. CASE TablesNext
      <3>1. call' = call /\ parser' = parser /\ monitor' = monitor
        BY <2>2 DEF TablesNext, DeviceAdd, BezierCurveAdd, SpringCurveAdd, AnimationSet,
                    PermissionAdd, Launched, ScheduleRefresh, PropRefreshImmediately,
                    RunRefresh, stores
      <3>2. Config'
        BY <3>1 DEF IInv, CallTyped, RulesTyped, ParserBegun
      <3>3. QED
        BY <2>2, <3>2, TablesTell, ToldIsOwn DEF IInv
    <2>3. QED
      BY <1>3, <2>1, <2>2 DEF ConfigActs
  <1>4. CASE WindowsAct
    BY <1>1, <1>4, WindowsTell, GroupsTell, WorkspacesTell, ToldIsOwn DEF WindowsAct, IInv
  <1>5. CASE InputActs
    BY <1>1, <1>5, InputTells, ToldIsOwn DEF InputActs, IInv
  <1>6. CASE UNCHANGED vars
    BY <1>1, <1>6 DEF vars, configVars, errorVars, IInv, RaisedIsOwn
  <1>7. QED
    BY <1>2, <1>3, <1>4, <1>5, <1>6 DEF Next

(* Whatever the script calls in whatever order, and whatever is left of    *)
(* calls that ended half way, a failure is shown with the reason its own   *)
(* entry point wrote (g_configError), but for the three silent ones.       *)
THEOREM OwnReason == Spec => []RaisedIsOwn
  <1>1. IInv => RaisedIsOwn
    BY DEF IInv
  <1>2. QED
    BY <1>1, InitIInv, StepIInv, PTL DEF Spec

------------------------------------------------------------------------------
(* The thunks of gestures.                                                    *)

\* The places in which the objects S carry a thunk.
Places(ges, S, t) == {x \in S \X PhaseNames : ges[x[1]].thunks[x[2]] = t}

\* The thunk that was called is one of the object that is being performed.
FiredIsPerformed ==
    performed # NoGesture /\ fired # NoThunk =>
        \E p \in PhaseNames : gesture[performed].thunks[p] = fired

\* The inductive invariant of the gestures.
GesturesSound ==
    /\ GesturesTypeOK /\ FiredIsPerformed
    /\ \A t \in Thunks : protects[t] = Cardinality(Places(gesture, Made, t))

LEMMA PhasesFinite == IsFiniteSet(PhaseNames)
  <1>1. PhaseNames = ({} \cup {"start"}) \cup {"update"} \cup {"finish"}
    BY DEF PhaseNames
  <1>2. QED
    BY <1>1, FS_EmptySet, FS_AddElement

LEMMA PlacesFinite ==
    ASSUME NEW ges, NEW S \in SUBSET Objects, NEW t
    PROVE  IsFiniteSet(Places(ges, S, t))
  <1>1. IsFiniteSet(Objects)
    BY GesturesAssumption, FS_Interval DEF Objects, GesturesAssumption
  <1>2. IsFiniteSet(S)
    BY <1>1, FS_Subset
  <1>3. IsFiniteSet(S \X PhaseNames)
    BY <1>2, PhasesFinite, FS_Product
  <1>4. QED
    BY <1>3, FS_Subset DEF Places

\* A thunk that some object carries is protected.
LEMMA CarriedIsLocked ==
    ASSUME NEW ges, NEW S \in SUBSET Objects, NEW g \in S, NEW p \in PhaseNames, NEW t,
           ges[g].thunks[p] = t
    PROVE  Cardinality(Places(ges, S, t)) > 0
  <1>1. <<g, p>> \in Places(ges, S, t)
    BY DEF Places
  <1>2. Places(ges, S, t) # {} /\ IsFiniteSet(Places(ges, S, t))
    BY <1>1, PlacesFinite
  <1>3. Cardinality(Places(ges, S, t)) \in Nat /\ Cardinality(Places(ges, S, t)) # 0
    BY <1>2, FS_EmptySet, FS_CardinalityType
  <1>4. QED
    BY <1>3

\* Objects that go give back what they carried.
LEMMA UnlockedPlaces ==
    ASSUME NEW M \in SUBSET Objects, NEW lost \in SUBSET M, NEW ges, NEW ges2,
           \A g \in M \ lost : ges2[g] = ges[g], NEW t
    PROVE  Cardinality(Places(ges2, M \ lost, t)) =
             Cardinality(Places(ges, M, t)) - Cardinality(Places(ges, lost, t))
  <1>1. Places(ges2, M \ lost, t) = Places(ges, M, t) \ Places(ges, lost, t)
    BY DEF Places
  <1>2. Places(ges, M, t) \cap Places(ges, lost, t) = Places(ges, lost, t)
    BY DEF Places
  <1>3. IsFiniteSet(Places(ges, M, t))
    BY PlacesFinite
  <1> DEFINE all == Places(ges, M, t)
             gone == Places(ges, lost, t)
  <1>4. Cardinality(all \ gone) = Cardinality(all) - Cardinality(all \cap gone)
    <2> HIDE DEF all, gone
    <2>1. QED
      BY <1>3, FS_Difference DEF all
  <1>5. QED
    BY <1>1, <1>2, <1>4

\* An object that is made takes as many locks as it carries thunks.
LEMMA LockedPlaces ==
    ASSUME NEW M \in SUBSET Objects, NEW g \in Objects \ M, NEW ges, NEW ges2,
           \A h \in M : ges2[h] = ges[h], NEW r, ges2[g].thunks = r, NEW t
    PROVE  Cardinality(Places(ges2, M \cup {g}, t)) = Cardinality(Places(ges, M, t)) + Carried(r, t)
  <1> DEFINE P == {p \in PhaseNames : r[p] = t}
             D == Places(ges2, {g}, t)
             f == [p \in P |-> <<g, p>>]
  <1>1. Places(ges2, M \cup {g}, t) = Places(ges, M, t) \cup D
    BY DEF Places
  <1>2. Places(ges, M, t) \cap D = {}
    BY DEF Places
  <1>3. f \in Bijection(P, D)
    <2>1. \A p \in P : f[p] = <<g, p>> /\ f[p] \in D
      BY DEF Places
    <2>2. f \in [P -> D]
      BY <2>1
    <2>3. \A a, b \in P : f[a] = f[b] => a = b
      BY <2>1
    <2>4. \A d \in D : \E p \in P : f[p] = d
      BY DEF Places
    <2> HIDE DEF f, P, D
    <2>5. QED
      BY <2>2, <2>3, <2>4 DEF Bijection, Injection, Surjection, IsInjective
  <1>4. IsFiniteSet(P)
    BY PhasesFinite, FS_Subset
  <1>5. IsFiniteSet(D) /\ Cardinality(D) = Carried(r, t)
    <2>1. ExistsBijection(P, D) /\ Carried(r, t) = Cardinality(P)
      BY <1>3 DEF ExistsBijection, Carried
    <2> HIDE DEF P, D
    <2>2. QED
      BY <1>4, <2>1, FS_Bijection
  <1> DEFINE Q == Places(ges, M, t)
  <1>6. IsFiniteSet(Q)
    BY PlacesFinite
  <1>7. Places(ges2, M \cup {g}, t) = Q \cup D /\ Q \cap D = {}
    BY <1>1, <1>2
  <1> HIDE DEF D, P, Q
  <1>8. Cardinality(Q \cup D) = Cardinality(Q) + Cardinality(D) - Cardinality({})
    BY <1>5, <1>6, <1>7, FS_Union
  <1>9. Cardinality(Q) \in Nat /\ Cardinality(D) \in Nat /\ Cardinality({}) = 0
    BY <1>5, <1>6, FS_CardinalityType, FS_EmptySet
  <1>10. Cardinality(Q \cup D) = Cardinality(Q) + Carried(r, t)
    BY <1>5, <1>8, <1>9
  <1>11. QED
    BY <1>7, <1>10 DEF Q

\* Objects go: from the manager's list, or when their gesture ends.
LEMMA LostKeep ==
    ASSUME GesturesSound, NEW lost \in SUBSET Made,
           gesture' = [g \in Made \ lost |-> gesture[g]], protects' = Unlock(lost),
           registered' \subseteq registered \ lost,
           performed' \in {NoGesture} \cup ({performed} \ lost),
           fired' = NoThunk \/ performed' = NoGesture
    PROVE  GesturesSound'
  <1>1. /\ Made \subseteq Objects /\ registered \subseteq Made
        /\ \A g \in Made : gesture[g] \in [shape : Shapes, scale : Scales, thunks : Recipes]
        /\ performed \in Made \cup {NoGesture}
        /\ \A g, h \in registered : gesture[g].shape = gesture[h].shape => g = h
        /\ \A t \in Thunks : protects[t] = Cardinality(Places(gesture, Made, t))
    BY DEF GesturesSound, GesturesTypeOK
  <1>2. Made' = Made \ lost /\ \A g \in Made' : gesture'[g] = gesture[g]
    BY DEF Made
  <1>3. \A t \in Thunks : protects'[t] = protects[t] - Cardinality(Places(gesture, lost, t))
    BY DEF Unlock, Places
  <1>4. \A t \in Thunks : protects'[t] = Cardinality(Places(gesture', Made', t))
    <2> HIDE DEF Made
    <2>1. QED
      BY <1>1, <1>2, <1>3, UnlockedPlaces
  <1>5. \A t \in Thunks : protects'[t] \in Nat
    BY <1>1, <1>2, <1>4, PlacesFinite, FS_CardinalityType
  <1>6. protects' \in [Thunks -> Nat]
    BY <1>5 DEF Unlock
  <1>7. GesturesTypeOK'
    BY <1>1, <1>2, <1>6 DEF GesturesTypeOK
  <1>8. FiredIsPerformed'
    BY DEF FiredIsPerformed
  <1>9. (\A t \in Thunks : protects[t] = Cardinality(Places(gesture, Made, t)))'
    BY <1>4
  <1>10. QED
    BY <1>7, <1>8, <1>9 DEF GesturesSound

LEMMA GesturesKeep ==
    ASSUME GesturesSound, GesturesNext
    PROVE  GesturesSound'
  <1>0. /\ Made \subseteq Objects /\ registered \subseteq Made
        /\ \A g \in Made : gesture[g] \in [shape : Shapes, scale : Scales, thunks : Recipes]
        /\ performed \in Made \cup {NoGesture}
        /\ \A g, h \in registered : gesture[g].shape = gesture[h].shape => g = h
        /\ protects \in [Thunks -> Nat]
        /\ \A t \in Thunks : protects[t] = Cardinality(Places(gesture, Made, t))
        /\ NoGesture \notin Objects
    BY DEF GesturesSound, GesturesTypeOK, NoGesture, Objects
  <1>1. ASSUME NEW S \in SUBSET registered, Dropped(S), fired' = NoThunk PROVE GesturesSound'
    <2>1. PICK lost \in {S, S \ {performed}} :
            /\ registered' = registered \ S
            /\ gesture' = [g \in Made \ lost |-> gesture[g]]
            /\ protects' = Unlock(lost)
            /\ performed' = IF performed \in lost THEN NoGesture ELSE performed
      BY <1>1 DEF Dropped
    <2>2. /\ lost \in SUBSET Made /\ registered' \subseteq registered \ lost
          /\ performed' \in {NoGesture} \cup ({performed} \ lost)
      BY <1>0, <2>1
    <2>3. QED
      BY <1>1, <2>1, <2>2, LostKeep
  <1>2. ASSUME UNCHANGED <<gesture, registered, protects>>,
               \/ performed' = performed /\ fired' = NoThunk
               \/ performed' \in registered /\ Fire(performed', "start")
               \/ performed' = performed /\ performed # NoGesture /\ Fire(performed, "update")
        PROVE  GesturesSound'
    <2>1. Made' = Made
      BY <1>2 DEF Made
    <2>2. GesturesTypeOK'
      BY <1>0, <1>2, <2>1 DEF GesturesTypeOK
    <2>3. FiredIsPerformed'
      BY <1>2 DEF FiredIsPerformed, Fire, PhaseNames
    <2>4. (\A t \in Thunks : protects[t] = Cardinality(Places(gesture, Made, t)))'
      BY <1>0, <1>2, <2>1
    <2>5. QED
      BY <2>2, <2>3, <2>4 DEF GesturesSound
  <1>3. CASE GestureRefused
    BY <1>2, <1>3 DEF GestureRefused
  <1>4. ASSUME NEW s \in Shapes, NEW x \in Scales, GestureRemove(s, x) PROVE GesturesSound'
    BY <1>1, <1>4 DEF GestureRemove
  <1>5. CASE GesturesClear
    BY <1>1, <1>5 DEF GesturesClear
  <1>6. ASSUME NEW s \in Shapes, NEW x \in Scales, NEW r \in Recipes, GestureAdd(s, x, r)
        PROVE  GesturesSound'
    <2>0. Released(Lock(r), r) = protects
      <3>1. \A t \in Thunks : Carried(r, t) \in Nat
        <4>1. \A t : {p \in PhaseNames : r[p] = t} \subseteq PhaseNames
          OBVIOUS
        <4>2. QED
          BY <4>1, PhasesFinite, FS_Subset, FS_CardinalityType DEF Carried
      <3>2. \A t \in Thunks : Released(Lock(r), r)[t] = protects[t]
        <4> SUFFICES ASSUME NEW t \in Thunks PROVE Released(Lock(r), r)[t] = protects[t]
          OBVIOUS
        <4>1. Released(Lock(r), r)[t] = (protects[t] + Carried(r, t)) - Carried(r, t)
          BY DEF Released, Lock
        <4>2. protects[t] \in Nat /\ Carried(r, t) \in Nat
          BY <1>0, <3>1
        <4>3. QED
          BY <4>1, <4>2
      <3>3. Released(Lock(r), r) = [t \in Thunks |-> Released(Lock(r), r)[t]]
        BY DEF Released
      <3>4. protects = [t \in Thunks |-> protects[t]]
        BY <1>0
      <3>5. QED
        BY <3>2, <3>3, <3>4
    <2>1. CASE UNCHANGED <<gesture, registered, protects>>
      BY <1>2, <1>6, <2>1 DEF GestureAdd
    <2>2. CASE ~UNCHANGED <<gesture, registered, protects>>
      <3>1. PICK g \in Objects \ Made :
              /\ ~Shadowed(s)
              /\ gesture' = [h \in Made \cup {g} |->
                    IF h = g THEN [shape |-> s, scale |-> x, thunks |-> r] ELSE gesture[h]]
              /\ registered' = registered \cup {g}
              /\ protects' = Lock(r)
        BY <1>6, <2>0, <2>2 DEF GestureAdd
      <3>2. /\ Made' = Made \cup {g} /\ \A h \in Made : gesture'[h] = gesture[h]
            /\ gesture'[g] = [shape |-> s, scale |-> x, thunks |-> r]
        BY <3>1 DEF Made
      <3>3. performed' = performed /\ fired' = NoThunk
        BY <1>6 DEF GestureAdd
      <3>4. \A h \in registered : gesture[h].shape # s
        BY <3>1, GesturesAssumption DEF Shadowed, GesturesAssumption
      <3>5. \A t \in Thunks : protects'[t] = Cardinality(Places(gesture', Made', t))
        <4>1. \A t \in Thunks : protects'[t] = protects[t] + Carried(r, t)
          BY <3>1 DEF Lock
        <4>2. gesture'[g].thunks = r
          BY <3>2
        <4>3. QED
          BY <1>0, <3>1, <3>2, <4>1, <4>2, LockedPlaces
      <3>6. protects' \in [Thunks -> Nat]
        <4>1. Made' \in SUBSET Objects
          BY <1>0, <3>2
        <4>2. \A t \in Thunks : protects'[t] \in Nat
          BY <3>5, <4>1, PlacesFinite, FS_CardinalityType
        <4>3. QED
          BY <3>1, <4>2 DEF Lock
      <3>7. GesturesTypeOK'
        <4>1. registered' \subseteq Made' /\ Made' \subseteq Objects
          BY <1>0, <3>1, <3>2
        <4>2. \A h \in Made' : gesture'[h] \in [shape : Shapes, scale : Scales, thunks : Recipes]
          BY <1>0, <3>2
        <4>3. performed' \in Made' \cup {NoGesture}
          BY <1>0, <3>2, <3>3
        <4>4. \A a, b \in registered' : gesture'[a].shape = gesture'[b].shape => a = b
          BY <1>0, <3>1, <3>2, <3>4
        <4>5. QED
          BY <3>6, <4>1, <4>2, <4>3, <4>4 DEF GesturesTypeOK
      <3>8. FiredIsPerformed'
        BY <3>3 DEF FiredIsPerformed
      <3>9. QED
        BY <3>5, <3>7, <3>8 DEF GesturesSound
    <2>3. QED
      BY <2>1, <2>2
  <1>7. CASE Start
    BY <1>2, <1>7 DEF Start
  <1>8. CASE Update
    BY <1>2, <1>8 DEF Update
  <1>9. CASE Finish
    <2> DEFINE lost == {performed} \ registered
    <2>1. /\ gesture' = [g \in Made \ lost |-> gesture[g]] /\ protects' = Unlock(lost)
          /\ performed' = NoGesture /\ registered' = registered /\ performed # NoGesture
      BY <1>9 DEF Finish
    <2>2. lost \in SUBSET Made /\ registered' \subseteq registered \ lost
      BY <1>0, <2>1
    <2>3. QED
      BY <2>1, <2>2, LostKeep
  <1>10. QED
    BY <1>3, <1>4, <1>5, <1>6, <1>7, <1>8, <1>9 DEF GesturesNext

LEMMA GesturesAlways == Spec => []GesturesSound
  <1>1. Init => GesturesSound
    <2> SUFFICES ASSUME Init PROVE GesturesSound
      OBVIOUS
    <2>1. /\ gesture = <<>> /\ registered = {} /\ performed = NoGesture /\ fired = NoThunk
          /\ protects = [t \in Thunks |-> 0]
      BY DEF Init, GesturesInit
    <2>2. Made = {}
      BY <2>1 DEF Made
    <2>3. \A t : Places(gesture, Made, t) = {}
      BY <2>2 DEF Places
    <2>4. QED
      BY <2>1, <2>2, <2>3, FS_EmptySet DEF GesturesSound, GesturesTypeOK, FiredIsPerformed
  <1>2. GesturesSound /\ [Next]_vars => GesturesSound'
    <2> SUFFICES ASSUME GesturesSound, [Next]_vars PROVE GesturesSound'
      OBVIOUS
    <2>1. CASE UNCHANGED gestureVars
      BY <2>1 DEF gestureVars, GesturesSound, GesturesTypeOK, FiredIsPerformed, Made
    <2>2. CASE GesturesNext
      BY <2>2, GesturesKeep
    <2>3. QED
      BY <2>1, <2>2 DEF Next, NotificationActs, ConfigActs, WindowsAct, InputActs, vars
  <1>3. QED
    BY <1>1, <1>2, PTL DEF Spec

(* A thunk is protected once for each place a living gesture carries it,   *)
(* for any shapes, recipes and order of registrations, removals, reloads   *)
(* and gestures (SThunkRef), and no callback is called that was let go.    *)
THEOREM ThunksStayLocked == Spec => []ThunksLocked
  <1>1. GesturesSound => ThunksLocked
    <2> SUFFICES ASSUME GesturesSound PROVE ThunksLocked
      OBVIOUS
    <2>1. \A t \in Thunks : protects[t] = Cardinality(Places(gesture, Made, t))
      BY DEF GesturesSound
    <2>2. ASSUME performed # NoGesture, fired # NoThunk PROVE protects[fired] > 0
      <3>1. performed \in Made /\ Made \subseteq Objects /\ gesture[performed].thunks \in Recipes
        BY <2>2 DEF GesturesSound, GesturesTypeOK
      <3>2. PICK p \in PhaseNames : gesture[performed].thunks[p] = fired
        BY <2>2 DEF GesturesSound, FiredIsPerformed
      <3>3. fired \in Thunks
        BY <2>2, <3>1, <3>2 DEF Recipes
      <3>4. Cardinality(Places(gesture, Made, fired)) > 0
        BY <3>1, <3>2, CarriedIsLocked
      <3>5. QED
        BY <2>1, <3>3, <3>4
    <2>3. QED
      BY <2>1, <2>2 DEF ThunksLocked, Places
  <1>2. QED
    BY <1>1, GesturesAlways, PTL

------------------------------------------------------------------------------
(* The locks of notifications.                                                *)

\* Handles, and that an object that exists has had a life.
HandlesSound ==
    /\ HandlesTypeOK
    /\ handle \in [HandleIds -> [slot : Slots, life : Nat, phase : Phases] \cup {Free}]
    /\ \A s \in alive : lives[s] > 0

\* The paused handles of the object at s.
Pauses(s) == {h \in paused : LockOf(h) = s}

\* The inductive invariant of the notifications.
NotificationsSound ==
    /\ HandlesSound /\ locks \in [Notifications -> Nat]
    /\ paused \subseteq {h \in HandleIds : Exists(h)}
    /\ \A s \in Live : locks[s] = Cardinality(Pauses(s))

LEMMA HandlesAreFinite == \A S \in SUBSET HandleIds : IsFiniteSet(S) /\ Cardinality(S) \in Nat
  <1>1. IsFiniteSet(HandleIds)
    BY HandlesAssumption, FS_Interval DEF HandleIds, HandlesAssumption
  <1>2. QED
    BY <1>1, FS_Subset, FS_CardinalityType

\* Fresh handles take numbers that were free.
LEMMA WrapKeeps ==
    ASSUME HandlesSound, NEW S \in SUBSET Slots, Wrap(S), \A s \in S : lives'[s] > 0,
           lives' \in [Slots -> Nat], \A s \in Slots : lives[s] <= lives'[s]
    PROVE  /\ handle' \in [HandleIds -> [slot : Slots, life : Nat, phase : Phases] \cup {Free}]
           /\ \A h \in HandleIds : Exists(h) => handle'[h] = handle[h]
           /\ \A h \in HandleIds :
                \/ handle'[h] = Free
                \/ /\ handle'[h].slot \in Slots
                   /\ handle'[h].life \in 1..lives'[handle'[h].slot]
                   /\ handle'[h].phase \in Phases
  <1> DEFINE free == {h \in HandleIds : ~Exists(h)}
             ids  == {h \in free : Cardinality({i \in free : i < h}) < Cardinality(S)}
  <1>1. PICK f \in [ids -> S] :
          handle' = [h \in HandleIds |->
                       IF h \in ids THEN [slot |-> f[h], life |-> lives'[f[h]], phase |-> "held"]
                       ELSE handle[h]]
    BY DEF Wrap, Wrapped
  <1>2. \A h \in ids : h \in HandleIds /\ ~Exists(h)
    OBVIOUS
  <1> HIDE DEF ids
  <1>3. ASSUME NEW h \in HandleIds
        PROVE  /\ handle'[h] \in [slot : Slots, life : Nat, phase : Phases] \cup {Free}
               /\ Exists(h) => handle'[h] = handle[h]
               /\ \/ handle'[h] = Free
                  \/ /\ handle'[h].slot \in Slots
                     /\ handle'[h].life \in 1..lives'[handle'[h].slot]
                     /\ handle'[h].phase \in Phases
    <2>1. CASE h \in ids
      <3>1. handle'[h] = [slot |-> f[h], life |-> lives'[f[h]], phase |-> "held"]
        BY <1>1, <2>1
      <3>2. f[h] \in Slots /\ lives'[f[h]] \in Nat /\ lives'[f[h]] > 0 /\ "held" \in Phases
        BY <2>1 DEF Phases
      <3>3. QED
        BY <1>2, <2>1, <3>1, <3>2
    <2>2. CASE h \notin ids
      <3>1. handle'[h] = handle[h]
        BY <1>1, <2>2
      <3>2. \A s \in Slots : lives[s] \in Nat /\ lives'[s] \in Nat
        BY DEF HandlesSound, HandlesTypeOK
      <3>3. QED
        BY <3>1, <3>2 DEF HandlesSound, HandlesTypeOK
    <2>3. QED
      BY <2>1, <2>2
  <1>4. QED
    BY <1>1, <1>3

\* A step that leaves the locks alone and the paused handles where they are.
LEMMA LocksStay ==
    ASSUME NotificationsSound, HandlesSound', UNCHANGED notificationVars,
           \A h \in paused : Exists(h)' /\ \A s \in alive' : LockOf(h)' = s <=> LockOf(h) = s,
           alive' \subseteq alive \cup (Slots \ Notifications)
    PROVE  NotificationsSound'
  <1>1. \A s \in Live' : s \in alive' /\ s \in Live
    BY DEF Live, Related, Notifications, HandlesSound, HandlesTypeOK
  <1>2. \A s \in Live' : Pauses(s)' = Pauses(s)
    BY <1>1 DEF Pauses, notificationVars
  <1>3. \A s \in Live' : locks'[s] = Cardinality(Pauses(s)')
    BY <1>1, <1>2 DEF NotificationsSound, notificationVars
  <1>4. /\ locks' \in [Notifications -> Nat]
        /\ paused' \subseteq {h \in HandleIds : Exists(h)'}
    BY DEF NotificationsSound, notificationVars
  <1>5. QED
    BY <1>3, <1>4 DEF NotificationsSound, Notifications

\* Where the locks of handles are after objects came or went.
LEMMA LockOfIs ==
    ASSUME HandlesSound, NEW h \in HandleIds, Exists(h)
    PROVE  /\ handle[h].slot \in Slots /\ handle[h].slot # Nothing /\ Nothing \notin alive
           /\ handle[h].life \in 1..lives[handle[h].slot]
           /\ \A s \in Slots : LockOf(h) = s <=> /\ handle[h].slot = s /\ s \in alive
                                                 /\ handle[h].life = lives[s]
  <1>1. handle[h] # Free
    BY DEF Exists, Free
  <1>2. /\ handle[h].slot \in Slots /\ handle[h].life \in 1..lives[handle[h].slot]
    BY <1>1 DEF HandlesSound, HandlesTypeOK
  <1>3. Nothing \notin Slots /\ alive \subseteq Slots
    BY HandlesAssumption DEF HandlesAssumption, HandlesSound, HandlesTypeOK
  <1>4. QED
    BY <1>2, <1>3 DEF LockOf

\* New handles leave the locks alone.
LEMMA WrapLocks ==
    ASSUME NotificationsSound, NEW S \in SUBSET Slots, \A s \in S : lives[s] > 0, Wrap(S),
           UNCHANGED <<lives, alive, unmapped>>, UNCHANGED notificationVars
    PROVE  NotificationsSound'
  <1>1. /\ HandlesSound /\ lives \in [Slots -> Nat] /\ paused \subseteq {h \in HandleIds : Exists(h)}
    BY DEF NotificationsSound, HandlesSound, HandlesTypeOK
  <1>2. \A s \in Slots : lives[s] \in Nat /\ lives[s] <= lives'[s]
    BY <1>1
  <1>3. /\ handle' \in [HandleIds -> [slot : Slots, life : Nat, phase : Phases] \cup {Free}]
        /\ \A h \in HandleIds : Exists(h) => handle'[h] = handle[h]
        /\ \A h \in HandleIds :
             \/ handle'[h] = Free
             \/ /\ handle'[h].slot \in Slots
                /\ handle'[h].life \in 1..lives'[handle'[h].slot]
                /\ handle'[h].phase \in Phases
    BY <1>1, <1>2, WrapKeeps
  <1>4. HandlesSound'
    BY <1>1, <1>3 DEF HandlesSound, HandlesTypeOK
  <1>5. \A h \in paused : Exists(h)' /\ LockOf(h)' = LockOf(h)
    BY <1>1, <1>3 DEF Exists, LockOf
  <1>6. QED
    BY <1>4, <1>5, LocksStay

\* An object comes; new handles are for it.
LEMMA BornKeeps ==
    ASSUME HandlesSound, NEW s \in Slots, Born(s), UNCHANGED unmapped,
           Wrap({s}) \/ UNCHANGED handle
    PROVE  /\ HandlesSound'
           /\ \A h \in HandleIds : Exists(h) =>
                /\ Exists(h)' /\ LockOf(h)' # s
                /\ \A t \in Slots \ {s} : LockOf(h)' = t <=> LockOf(h) = t
  <1>1. /\ lives \in [Slots -> Nat] /\ lives' = [lives EXCEPT ![s] = @ + 1] /\ s \notin alive
        /\ alive' = alive \cup {s} /\ lives[s] < MaxLives[s] /\ MaxLives \in [Slots -> Nat]
        /\ alive \subseteq Slots /\ unmapped \subseteq alive /\ Nothing \notin Slots
    BY HandlesAssumption DEF Born, HandlesSound, HandlesTypeOK, HandlesAssumption
  <1>2. /\ lives' \in [Slots -> Nat] /\ lives'[s] = lives[s] + 1 /\ lives'[s] > 0
        /\ \A t \in Slots : lives[t] \in Nat /\ lives[t] <= lives'[t]
        /\ \A t \in Slots \ {s} : lives'[t] = lives[t]
    BY <1>1
  <1>3. /\ handle' \in [HandleIds -> [slot : Slots, life : Nat, phase : Phases] \cup {Free}]
        /\ \A h \in HandleIds : Exists(h) => handle'[h] = handle[h]
        /\ \A h \in HandleIds :
             \/ handle'[h] = Free
             \/ /\ handle'[h].slot \in Slots
                /\ handle'[h].life \in 1..lives'[handle'[h].slot]
                /\ handle'[h].phase \in Phases
    <2>1. CASE Wrap({s})
      BY <1>2, <2>1, WrapKeeps
    <2>2. CASE UNCHANGED handle
      <3>1. ASSUME NEW h \in HandleIds, handle[h] # Free
            PROVE  /\ handle[h].slot \in Slots
                   /\ handle[h].life \in 1..lives'[handle[h].slot]
                   /\ handle[h].phase \in Phases
        BY <1>2, <3>1 DEF HandlesSound, HandlesTypeOK
      <3>2. QED
        BY <2>2, <3>1 DEF HandlesSound
    <2>3. QED
      BY <2>1, <2>2
  <1>4. HandlesSound'
    <2>1. \A t \in Slots : lives'[t] <= MaxLives[t]
      BY <1>1, <1>2 DEF HandlesSound, HandlesTypeOK
    <2>2. \A t \in alive' : lives'[t] > 0
      BY <1>1, <1>2 DEF HandlesSound
    <2>3. unmapped' \subseteq alive' /\ alive' \subseteq Slots
      BY <1>1
    <2>4. QED
      BY <1>2, <1>3, <2>1, <2>2, <2>3 DEF HandlesSound, HandlesTypeOK
  <1>5. ASSUME NEW h \in HandleIds, Exists(h)
        PROVE  /\ Exists(h)' /\ LockOf(h)' # s
               /\ \A t \in Slots \ {s} : LockOf(h)' = t <=> LockOf(h) = t
    <2>1. handle'[h] = handle[h] /\ handle[h].slot \in Slots /\ handle[h].life \in 1..lives[handle[h].slot]
      BY <1>3, <1>5, LockOfIs
    <2>2. Exists(h)'
      BY <1>5, <2>1 DEF Exists
    <2>3. handle[h].slot = s => handle[h].life # lives'[s]
      BY <1>2, <2>1
    <2>4. QED
      BY <1>1, <1>2, <2>1, <2>2, <2>3 DEF LockOf
  <1>6. QED
    BY <1>4, <1>5

\* A notification comes: nobody has paused it.
LEMMA FreshKeeps ==
    ASSUME NotificationsSound, NEW s \in Notifications, Fresh(s), Wrap({s}) \/ UNCHANGED handle
    PROVE  NotificationsSound'
  <1>1. /\ HandlesSound /\ s \in Slots /\ Born(s) /\ UNCHANGED <<unmapped, paused>>
        /\ locks' = [locks EXCEPT ![s] = 0] /\ locks \in [Notifications -> Nat]
        /\ paused \subseteq {h \in HandleIds : Exists(h)} /\ alive \subseteq Slots
    BY DEF NotificationsSound, Fresh, Notifications, HandlesSound, HandlesTypeOK
  <1>2. /\ HandlesSound'
        /\ \A h \in paused : /\ Exists(h)' /\ LockOf(h)' # s
                             /\ \A t \in Slots \ {s} : LockOf(h)' = t <=> LockOf(h) = t
    BY <1>1, BornKeeps
  <1>3. locks' \in [Notifications -> Nat] /\ locks'[s] = 0
        /\ \A t \in Notifications \ {s} : locks'[t] = locks[t]
    BY <1>1
  <1>4. \A t \in Live' \ {s} : t \in Live /\ t \in Notifications
    BY <1>1 DEF Live, Related, Born, Notifications
  <1>5. \A t \in Live' : locks'[t] = Cardinality(Pauses(t)')
    <2>1. Pauses(s)' = {}
      BY <1>1, <1>2 DEF Pauses
    <2>2. \A t \in Slots \ {s} : Pauses(t)' = Pauses(t)
      BY <1>1, <1>2 DEF Pauses
    <2>3. QED
      BY <1>3, <1>4, <2>1, <2>2, FS_EmptySet DEF NotificationsSound, Notifications
  <1>6. paused' \subseteq {h \in HandleIds : Exists(h)'}
    BY <1>1, <1>2
  <1>7. QED
    BY <1>2, <1>3, <1>5, <1>6 DEF NotificationsSound, Notifications

\* Another object comes.
LEMMA OtherBornKeeps ==
    ASSUME NotificationsSound, NEW s \in Slots \ Notifications, Born(s), UNCHANGED <<handle, unmapped>>,
           UNCHANGED notificationVars
    PROVE  NotificationsSound'
  <1>1. HandlesSound /\ paused \subseteq {h \in HandleIds : Exists(h)} /\ s \notin alive
    BY DEF NotificationsSound, Born
  <1>2. /\ HandlesSound'
        /\ \A h \in paused : /\ Exists(h)' /\ LockOf(h)' # s
                             /\ \A t \in Slots \ {s} : LockOf(h)' = t <=> LockOf(h) = t
    BY <1>1, BornKeeps
  <1>3. \A h \in paused : LockOf(h) # s
    BY <1>1, LockOfIs
  <1>4. alive' = alive \cup {s} /\ alive' \subseteq Slots
    BY <1>2 DEF Born, HandlesSound, HandlesTypeOK
  <1>5. \A h \in paused, t \in alive' : LockOf(h)' = t <=> LockOf(h) = t
    BY <1>2, <1>3, <1>4
  <1>6. QED
    BY <1>2, <1>4, <1>5, LocksStay

\* An object goes.
LEMMA DieKeepsLocks ==
    ASSUME NotificationsSound, NEW s, Die(s), UNCHANGED notificationVars
    PROVE  NotificationsSound'
  <1>1. /\ HandlesSound /\ paused \subseteq {h \in HandleIds : Exists(h)}
        /\ alive' = alive \ {s} /\ unmapped' = unmapped \ {s} /\ UNCHANGED <<lives, handle>>
    BY DEF NotificationsSound, Die
  <1>2. HandlesSound'
    BY <1>1 DEF HandlesSound, HandlesTypeOK
  <1>3. \A h \in paused : Exists(h)' /\ \A t \in alive' : LockOf(h)' = t <=> LockOf(h) = t
    <2>1. \A h \in paused, t \in alive' : handle[h].slot \in Slots /\ Nothing # t
      BY <1>1, LockOfIs
    <2>2. QED
      BY <1>1, <2>1 DEF Exists, LockOf
  <1>4. QED
    BY <1>1, <1>2, <1>3, LocksStay

\* Handles change their phase.
LEMMA PhasesKeep ==
    ASSUME NotificationsSound, UNCHANGED <<lives, alive>>, unmapped' \subseteq alive,
           UNCHANGED notificationVars, NEW H \in SUBSET HandleIds, NEW f \in Phases,
           \A h \in H : Exists(h),
           handle' = [h \in HandleIds |-> IF h \in H THEN [handle[h] EXCEPT !.phase = f] ELSE handle[h]]
    PROVE  NotificationsSound'
  <1>1. /\ HandlesSound /\ paused \subseteq {h \in HandleIds : Exists(h)}
    BY DEF NotificationsSound
  <1>2. ASSUME NEW h \in HandleIds
        PROVE  /\ handle'[h] \in [slot : Slots, life : Nat, phase : Phases] \cup {Free}
               /\ \/ handle'[h] = Free
                  \/ /\ handle'[h].slot \in Slots
                     /\ handle'[h].life \in 1..lives'[handle'[h].slot]
                     /\ handle'[h].phase \in Phases
               /\ Exists(h) => Exists(h)' /\ LockOf(h)' = LockOf(h)
    <2>1. /\ handle[h] \in [slot : Slots, life : Nat, phase : Phases] \cup {Free}
          /\ \/ handle[h] = Free
             \/ /\ handle[h].slot \in Slots
                /\ handle[h].life \in 1..lives[handle[h].slot]
                /\ handle[h].phase \in Phases
      BY <1>1 DEF HandlesSound, HandlesTypeOK
    <2>2. CASE h \notin H
      BY <2>1, <2>2 DEF Exists, LockOf
    <2>3. CASE h \in H
      <3>1. handle'[h] = [handle[h] EXCEPT !.phase = f] /\ handle[h] # Free
        BY <2>3 DEF Exists, Free
      <3>2. handle[h] \in [slot : Slots, life : Nat, phase : Phases]
        BY <2>1, <3>1
      <3>3. /\ handle'[h].slot = handle[h].slot /\ handle'[h].life = handle[h].life
            /\ handle'[h].phase = f
            /\ handle'[h] \in [slot : Slots, life : Nat, phase : Phases]
        BY <3>1, <3>2
      <3>4. f # "free"
        BY DEF Phases
      <3>5. QED
        BY <2>1, <3>1, <3>3, <3>4 DEF Exists, LockOf
    <2>4. QED
      BY <2>2, <2>3
  <1>3. handle' \in [HandleIds -> [slot : Slots, life : Nat, phase : Phases] \cup {Free}]
    BY <1>2
  <1>4. HandlesSound'
    BY <1>1, <1>2, <1>3 DEF HandlesSound, HandlesTypeOK
  <1>5. \A h \in paused : Exists(h)' /\ LockOf(h)' = LockOf(h)
    BY <1>1, <1>2
  <1>6. QED
    BY <1>4, <1>5, LocksStay

\* Paused or resumed through a handle.
LEMMA PausingKeeps ==
    ASSUME NotificationsSound, NEW h \in HandleIds, NEW b \in BOOLEAN, NotificationPausedSet(h, b)
    PROVE  NotificationsSound'
  <1>1. /\ UNCHANGED <<lives, alive, handle, unmapped>> /\ h \in Held
        /\ Family[handle[h].slot] = "notification"
    BY DEF NotificationPausedSet, Unwraps, handleVars
  <1>2. /\ HandlesSound /\ locks \in [Notifications -> Nat] /\ paused \subseteq {i \in HandleIds : Exists(i)}
        /\ \A s \in Live : locks[s] = Cardinality(Pauses(s))
    BY DEF NotificationsSound
  <1>3. HandlesSound'
    BY <1>1, <1>2 DEF HandlesSound, HandlesTypeOK
  <1>4. CASE UNCHANGED <<locks, paused>>
    <2>1. \A i \in paused : Exists(i)' /\ LockOf(i)' = LockOf(i)
      BY <1>1, <1>2 DEF Exists, LockOf
    <2>2. QED
      BY <1>1, <1>3, <1>4, <2>1, LocksStay DEF notificationVars
  <1>5. CASE LockOf(h) # Nothing /\ b # (h \in paused)
    <2>0. PICK s : s = LockOf(h)
      OBVIOUS
    <2>1. s \in alive /\ handle[h].slot = s /\ Exists(h) /\ alive \subseteq Slots
      BY <1>1, <1>2, <1>5, <2>0 DEF LockOf, Held, Exists, HandlesSound, HandlesTypeOK
    <2>2. s \in Live /\ s \in Notifications
      BY <1>1, <2>1 DEF Live, Related, Notifications
    <2>3. /\ locks' = [locks EXCEPT ![s] = IF b THEN locks[s] + 1 ELSE locks[s] - 1]
          /\ paused' = IF b THEN paused \cup {h} ELSE paused \ {h}
      BY <1>5, <2>0, <2>2, <1>2 DEF NotificationPausedSet
    <2>4. /\ IsFiniteSet(Pauses(s)) /\ Cardinality(Pauses(s)) \in Nat
          /\ locks[s] = Cardinality(Pauses(s))
      BY <1>2, <2>2, HandlesAreFinite DEF Pauses
    <2>5. \A i \in HandleIds : LockOf(i)' = LockOf(i) /\ (Exists(i)' <=> Exists(i))
      BY <1>1 DEF LockOf, Exists
    <2>6. Live' = Live
      BY <1>1 DEF Live, Related
    <2>7. h \in Pauses(s) <=> h \in paused
      BY <2>0 DEF Pauses
    <2>8. \A t \in Live \ {s} : Pauses(t)' = Pauses(t)
      BY <1>2, <2>0, <2>3, <2>5 DEF Pauses
    <2>9. Pauses(s)' = IF b THEN Pauses(s) \cup {h} ELSE Pauses(s) \ {h}
      BY <1>2, <2>0, <2>3, <2>5 DEF Pauses
    <2>10. paused' \subseteq {i \in HandleIds : Exists(i)'}
      BY <1>2, <2>1, <2>3, <2>5
    <2>11. \A t \in Notifications \ {s} : locks'[t] = locks[t]
      BY <1>2, <2>3
    <2>12. locks' \in [Notifications -> Nat] /\ locks'[s] = Cardinality(Pauses(s)')
      <3>1. CASE b
        <4>1. Cardinality(Pauses(s)') = Cardinality(Pauses(s)) + 1
          BY <1>5, <2>4, <2>7, <2>9, <3>1, FS_AddElement
        <4>2. QED
          BY <1>2, <2>2, <2>3, <2>4, <3>1, <4>1
      <3>2. CASE ~b
        <4>1. h \in Pauses(s)
          BY <1>5, <2>7, <3>2
        <4>2. Cardinality(Pauses(s)') = Cardinality(Pauses(s)) - 1
          BY <2>4, <2>9, <3>2, <4>1, FS_RemoveElement
        <4>3. Cardinality(Pauses(s)) # 0
          BY <2>4, <4>1, FS_EmptySet
        <4>4. locks[s] - 1 \in Nat
          BY <2>4, <4>3
        <4>5. QED
          BY <1>2, <2>2, <2>3, <2>4, <3>2, <4>2, <4>4
      <3>3. QED
        BY <3>1, <3>2
    <2>13. \A t \in Live' : locks'[t] = Cardinality(Pauses(t)')
      <3>1. \A t \in Live : t \in Notifications
        BY <1>2 DEF Live, Related, Notifications, HandlesSound, HandlesTypeOK
      <3>2. ASSUME NEW t \in Live \ {s} PROVE locks'[t] = Cardinality(Pauses(t)')
        <4>1. locks[t] = Cardinality(Pauses(t)) /\ locks'[t] = locks[t]
          BY <1>2, <2>11, <3>1
        <4>2. Pauses(t)' = Pauses(t)
          BY <2>8
        <4>3. QED
          BY <4>1, <4>2
      <3>3. QED
        BY <2>6, <2>12, <3>2
    <2>14. QED
      BY <1>3, <2>10, <2>12, <2>13 DEF NotificationsSound, Notifications
  <1>6. QED
    BY <1>4, <1>5 DEF NotificationPausedSet

\* The finalizers give the locks of what they delete back.
LEMMA FinalizersKeep ==
    ASSUME NotificationsSound, NotificationFinalizers
    PROVE  NotificationsSound'
  <1>1. /\ handle' = [h \in HandleIds |-> IF h \in Queue THEN Free ELSE handle[h]]
        /\ UNCHANGED <<lives, alive, unmapped>>
        /\ locks' = [s \in Notifications |-> locks[s] - Unlocked(s)]
        /\ paused' = paused \ Queue
    BY DEF NotificationFinalizers, RunFinalizers
  <1>2. /\ HandlesSound /\ locks \in [Notifications -> Nat] /\ paused \subseteq {i \in HandleIds : Exists(i)}
        /\ \A s \in Live : locks[s] = Cardinality(Pauses(s))
    BY DEF NotificationsSound
  <1>3. HandlesSound'
    <2>1. \A h \in HandleIds :
            /\ handle'[h] \in [slot : Slots, life : Nat, phase : Phases] \cup {Free}
            /\ \/ handle'[h] = Free
               \/ /\ handle'[h].slot \in Slots
                  /\ handle'[h].life \in 1..lives'[handle'[h].slot]
                  /\ handle'[h].phase \in Phases
      BY <1>1, <1>2 DEF HandlesSound, HandlesTypeOK
    <2>2. handle' \in [HandleIds -> [slot : Slots, life : Nat, phase : Phases] \cup {Free}]
      BY <1>1, <2>1
    <2>3. QED
      BY <1>1, <1>2, <2>1, <2>2 DEF HandlesSound, HandlesTypeOK
  <1>4. \A h \in HandleIds \ Queue : LockOf(h)' = LockOf(h) /\ (Exists(h)' <=> Exists(h))
    BY <1>1 DEF LockOf, Exists
  <1>5. paused' \subseteq {h \in HandleIds : Exists(h)'}
    BY <1>1, <1>2, <1>4
  <1>6. \A s \in Slots : Unlocked(s) = Cardinality(Pauses(s) \cap Queue)
    <2>1. \A s \in Slots : Pauses(s) \cap Queue = {h \in Queue \cap paused : LockOf(h) = s}
      BY DEF Pauses
    <2>2. QED
      BY <2>1 DEF Unlocked
  <1>7. \A s \in Slots : Pauses(s)' = Pauses(s) \ Queue
    BY <1>1, <1>2, <1>4 DEF Pauses
  <1>8. ASSUME NEW s \in Live
        PROVE  locks'[s] \in Nat /\ locks'[s] = Cardinality(Pauses(s)')
    <2>1. s \in Slots /\ s \in Notifications
      BY <1>2, <1>8 DEF Live, Related, Notifications, HandlesSound, HandlesTypeOK
    <2>2. /\ IsFiniteSet(Pauses(s)) /\ Pauses(s) \ Queue \in SUBSET HandleIds
          /\ Pauses(s) \in SUBSET HandleIds
      BY <1>2, HandlesAreFinite DEF Pauses
    <2>3. Cardinality(Pauses(s) \ Queue) = Cardinality(Pauses(s)) - Cardinality(Pauses(s) \cap Queue)
      BY <2>2, FS_Difference
    <2>4. Cardinality(Pauses(s) \ Queue) \in Nat
      BY <2>2, HandlesAreFinite
    <2>5. locks'[s] = Cardinality(Pauses(s)) - Cardinality(Pauses(s) \cap Queue)
      BY <1>1, <1>2, <1>6, <2>1
    <2>6. QED
      BY <1>7, <2>1, <2>3, <2>4, <2>5
  <1>9. ASSUME NEW s \in Notifications \ Live
        PROVE  locks'[s] \in Nat
    <2>1. s \in Slots /\ s \notin alive
      BY <1>9 DEF Live, Related, Notifications
    <2>2. \A h \in paused : LockOf(h) # s
      BY <1>2, <2>1, LockOfIs
    <2>3. Pauses(s) = {}
      BY <2>2 DEF Pauses
    <2>4. Unlocked(s) = 0
      BY <1>6, <2>1, <2>3, FS_EmptySet
    <2>5. QED
      BY <1>1, <1>2, <2>4
  <1>10. Live' = Live /\ locks' \in [Notifications -> Nat]
    BY <1>1, <1>8, <1>9 DEF Live, Related
  <1>11. QED
    BY <1>3, <1>5, <1>8, <1>10 DEF NotificationsSound, Notifications

\* A step that leaves the handles and the locks alone.
LEMMA IdleKeeps ==
    ASSUME NotificationsSound, UNCHANGED <<handleVars, notificationVars>>
    PROVE  NotificationsSound'
  BY DEF handleVars, notificationVars, NotificationsSound, HandlesSound, HandlesTypeOK,
         Exists, Live, Related, Pauses, LockOf, Notifications

\* A list, or any other answer of handles for objects.
LEMMA AnswerKeeps ==
    ASSUME NotificationsSound, UNCHANGED <<lives, alive, unmapped>>, UNCHANGED notificationVars,
           NEW S \in SUBSET alive, Wrap(S)
    PROVE  NotificationsSound'
  <1>1. S \in SUBSET Slots /\ \A s \in S : lives[s] > 0
    BY DEF NotificationsSound, HandlesSound, HandlesTypeOK
  <1>2. QED
    BY <1>1, WrapLocks

LEMMA OthersKeep ==
    ASSUME NotificationsSound, OtherObjects
    PROVE  NotificationsSound'
  <1>0. UNCHANGED notificationVars /\ HandlesSound /\ alive \subseteq Slots
    BY DEF OtherObjects, NotificationsSound, HandlesSound, HandlesTypeOK
  <1>1. ASSUME NEW s \in Slots \ Notifications, Born(s), UNCHANGED <<handle, unmapped>>
        PROVE  NotificationsSound'
    BY <1>0, <1>1, OtherBornKeeps
  <1>2. ASSUME NEW s \in Slots, Die(s)
        PROVE  NotificationsSound'
    BY <1>0, <1>2, DieKeepsLocks
  <1>3. ASSUME NEW s \in Slots, Unmap(s)
        PROVE  NotificationsSound'
    <2>1. /\ UNCHANGED <<lives, alive, handle>> /\ unmapped' \subseteq alive
      BY <1>0, <1>3 DEF Unmap, HandlesSound, HandlesTypeOK
    <2>2. HandlesSound'
      BY <1>0, <2>1 DEF HandlesSound, HandlesTypeOK
    <2>3. \A h \in paused : Exists(h)' /\ LockOf(h)' = LockOf(h)
      BY <2>1 DEF NotificationsSound, Exists, LockOf
    <2>4. QED
      BY <1>0, <2>1, <2>2, <2>3, LocksStay
  <1>4. ASSUME NEW s \in Slots, EventHandle(s)
        PROVE  NotificationsSound'
    BY <1>0, <1>4, WrapLocks DEF EventHandle
  <1>5. ASSUME NEW f, List(f) \/ Query(f)
        PROVE  NotificationsSound'
    <2>1. UNCHANGED <<lives, alive, unmapped>> /\ \E S \in Matching(f) : Wrap(S)
      BY <1>5 DEF List, Query
    <2>2. PICK S \in Matching(f) : Wrap(S)
      BY <2>1
    <2>3. S \in SUBSET alive
      BY DEF Matching, Related
    <2>4. QED
      BY <1>0, <2>1, <2>2, <2>3, AnswerKeeps
  <1>6. ASSUME NEW f, NEW h \in Held, ObjectGetter(h, f) \/ Read(h, f)
        PROVE  NotificationsSound'
    <2>1. CASE Read(h, f)
      BY <1>0, <2>1, IdleKeeps DEF Read
    <2>2. CASE ObjectGetter(h, f)
      <3>1. PICK s \in Related(f) : Wrap({s})
        BY <2>2 DEF ObjectGetter
      <3>2. UNCHANGED <<lives, alive, unmapped>> /\ {s} \in SUBSET alive
        BY <2>2 DEF ObjectGetter, Related
      <3>3. QED
        BY <1>0, <3>1, <3>2, AnswerKeeps
    <2>3. QED
      BY <1>6, <2>1, <2>2
  <1>7. ASSUME Collect
        PROVE  NotificationsSound'
    <2>1. PICK S \in SUBSET {h \in HandleIds : handle[h].phase = "dropped"} :
            /\ handle' = [h \in HandleIds |->
                            IF h \in S THEN [handle[h] EXCEPT !.phase = "queued"] ELSE handle[h]]
            /\ UNCHANGED <<lives, alive, unmapped>>
      BY <1>7 DEF Collect
    <2>2. S \in SUBSET HandleIds /\ \A h \in S : Exists(h)
      BY DEF Exists
    <2>3. "queued" \in Phases /\ unmapped' \subseteq alive
      BY <1>0, <2>1 DEF Phases, HandlesSound, HandlesTypeOK
    <2>4. QED
      BY <1>0, <2>1, <2>2, <2>3, PhasesKeep
  <1>8. ASSUME NEW h \in HandleIds, Drop(h)
        PROVE  NotificationsSound'
    <2>1. /\ handle' = [handle EXCEPT ![h].phase = "dropped"] /\ UNCHANGED <<lives, alive, unmapped>>
          /\ Exists(h)
      BY <1>8 DEF Drop, Held, Exists
    <2>2. handle' = [i \in HandleIds |->
                       IF i \in {h} THEN [handle[i] EXCEPT !.phase = "dropped"] ELSE handle[i]]
      BY <1>0, <2>1 DEF HandlesSound
    <2>3. "dropped" \in Phases /\ unmapped' \subseteq alive
      BY <1>0, <2>1 DEF Phases, HandlesSound, HandlesTypeOK
    <2>4. {h} \in SUBSET HandleIds /\ \A i \in {h} : Exists(i)
      BY <2>1
    <2>5. QED
      BY <1>0, <2>1, <2>2, <2>3, <2>4, PhasesKeep
  <1>9. QED
    BY <1>1, <1>2, <1>3, <1>4, <1>5, <1>6, <1>7, <1>8 DEF OtherObjects

LEMMA NotificationsKeep ==
    ASSUME NotificationsSound, NotificationNext
    PROVE  NotificationsSound'
  <1>1. CASE NotificationAdd
    <2>1. CASE \E s \in Notifications : Fresh(s) /\ Wrap({s})
      BY <2>1, FreshKeeps
    <2>2. CASE UNCHANGED <<handleVars, notificationVars>>
      BY <2>2, IdleKeeps
    <2>3. QED
      BY <1>1, <2>1, <2>2 DEF NotificationAdd
  <1>2. CASE Notify
    <2>1. CASE \E s \in Notifications : Fresh(s) /\ UNCHANGED handle
      BY <2>1, FreshKeeps
    <2>2. CASE UNCHANGED <<handleVars, notificationVars>>
      BY <2>2, IdleKeeps
    <2>3. QED
      BY <1>2, <2>1, <2>2 DEF Notify
  <1>3. CASE NotificationList
    <2>1. UNCHANGED <<lives, alive, unmapped>> /\ UNCHANGED notificationVars
      BY <1>3 DEF NotificationList, List
    <2>2. PICK S \in Matching("notification") : Wrap(S)
      BY <1>3 DEF NotificationList, List
    <2>3. S \in SUBSET alive
      BY DEF Matching, Related
    <2>4. QED
      BY <2>1, <2>2, <2>3, AnswerKeeps
  <1>4. ASSUME NEW h \in HandleIds, NEW b \in BOOLEAN, NotificationSet(h, b)
        PROVE  NotificationsSound'
    BY <1>4, IdleKeeps DEF NotificationSet
  <1>5. ASSUME NEW h \in HandleIds, NEW b \in BOOLEAN, NotificationPausedSet(h, b)
        PROVE  NotificationsSound'
    BY <1>5, PausingKeeps
  <1>6. ASSUME NEW h \in HandleIds, NotificationPausedToggle(h)
        PROVE  NotificationsSound'
    <2> DEFINE b == ~PausedQ(h)
    <2>1. b \in BOOLEAN
      BY DEF PausedQ
    <2>2. NotificationPausedSet(h, b)
      BY <1>6 DEF NotificationPausedToggle
    <2> HIDE DEF b
    <2>3. QED
      BY <2>1, <2>2, PausingKeeps
  <1>7. ASSUME NEW h \in HandleIds, NotificationGet(h)
        PROVE  NotificationsSound'
    BY <1>7, IdleKeeps DEF NotificationGet, Read
  <1>8. ASSUME NEW h \in HandleIds, NotificationDismiss(h)
        PROVE  NotificationsSound'
    <2>1. UNCHANGED notificationVars /\ (UNCHANGED handleVars \/ Die(LockOf(h)))
      BY <1>8 DEF NotificationDismiss
    <2>2. QED
      BY <2>1, IdleKeeps, DieKeepsLocks
  <1>9. ASSUME NEW s \in Notifications, Expire(s)
        PROVE  NotificationsSound'
    BY <1>9, DieKeepsLocks DEF Expire
  <1>10. QED
    BY <1>1, <1>2, <1>3, <1>4, <1>5, <1>6, <1>7, <1>8, <1>9, FinalizersKeep, OthersKeep
    DEF NotificationNext

LEMMA NotificationsAlways == Spec => []NotificationsSound
  <1>1. Init => NotificationsSound
    <2> SUFFICES ASSUME Init PROVE NotificationsSound
      OBVIOUS
    <2>1. /\ lives = [s \in Slots |-> 0] /\ alive = {} /\ handle = [h \in HandleIds |-> Free]
          /\ unmapped = {} /\ locks = [s \in Notifications |-> 0] /\ paused = {}
      BY DEF Init, NotificationInit, HandlesInit
    <2>2. \A s \in Slots : lives[s] <= MaxLives[s]
      BY <2>1, HandlesAssumption DEF HandlesAssumption
    <2>3. Live = {}
      BY <2>1 DEF Live, Related
    <2>4. HandlesSound
      BY <2>1, <2>2 DEF HandlesSound, HandlesTypeOK
    <2>5. QED
      BY <2>1, <2>3, <2>4 DEF NotificationsSound
  <1>2. NotificationsSound /\ [Next]_vars => NotificationsSound'
    <2> SUFFICES ASSUME NotificationsSound, [Next]_vars PROVE NotificationsSound'
      OBVIOUS
    <2>1. CASE UNCHANGED <<handleVars, notificationVars>>
      BY <2>1, IdleKeeps
    <2>2. CASE NotificationNext
      BY <2>2, NotificationsKeep
    <2>3. QED
      BY <2>1, <2>2 DEF Next, NotificationActs, ConfigActs, WindowsAct, InputActs, vars
  <1>3. QED
    BY <1>1, <1>2, PTL DEF Spec

(* A live notification is locked exactly by the handles that paused it and *)
(* have not been deleted, for any addresses, families and lives, and       *)
(* whatever order handles are dropped, collected and finalized in          *)
(* (hlNotificationPausedSet, ~SNotificationHandle).                        *)
THEOREM LocksFollowThePauses == Spec => []LocksAreThePauses
  <1>1. NotificationsSound => LocksAreThePauses
    BY DEF NotificationsSound, LocksAreThePauses, Pauses
  <1>2. QED
    BY <1>1, NotificationsAlways, PTL

------------------------------------------------------------------------------
(* Chords.                                                                    *)

\* What converting a chord and converting it back gives.
Conversion(map, spelled, token) ==
    LET c == SplitTokens(spelled, token)
        p == LogicalToPhysical(map, c)
    IN  [asked |-> TRUE, map |-> map, logical |-> c, physical |-> p,
         canonical |-> Regularise(spelled, token),
         back |-> IF p = Failed THEN Failed ELSE PhysicalToLogical(map, p)]

\* The inductive invariant: what is remembered was converted on some keymap.
KeysConverted ==
    \/ keys = NoKeys
    \/ \E map \in Keymaps \cup {NoKeymap}, spelled \in SUBSET DOMAIN Aliases,
          token \in Tokens \cup {NoKey} : keys = Conversion(map, spelled, token)

\* A set of numbers has a first one.
LEMMA FirstIs ==
    ASSUME NEW S, S \subseteq Nat, S # {}
    PROVE  First(S) \in S /\ \A y \in S : First(S) <= y
  <1> DEFINE R == OpToRel(<, Nat)
  <1>1. IsWellFoundedOn(R, Nat)
    BY NatLessThanWellFounded
  <1>2. \A x, y \in Nat : x < y => <<x, y>> \in R
    BY DEF OpToRel
  <1> HIDE DEF R
  <1>3. PICK x \in S : \A y \in S : ~(<<y, x>> \in R)
    BY <1>1, WFMin
  <1>4. \E z \in S : \A y \in S : z <= y
    <2>1. \A y \in S : x \in Nat /\ y \in Nat /\ ~(y < x)
      BY <1>2, <1>3
    <2>2. \A y \in S : x <= y
      BY <2>1
    <2>3. QED
      BY <2>2
  <1>5. QED
    BY <1>4 DEF First

LEMMA EachAtMostTheOther ==
    ASSUME NEW a \in Nat, NEW b \in Nat, a <= b, b <= a
    PROVE  a = b
  OBVIOUS

\* What a token names.
LEMMA NamedByToken ==
    ASSUME NEW t
    PROVE  /\ TokenToKeysym(t) \in Symbols \cup {NoKey}
           /\ t \in Symbols => TokenToKeysym(t) = t
           /\ TokenToKeysym(t) \in NamedKeys => t \in Symbols \cup DOMAIN Folded
  <1>0. /\ Range(Folded) \subseteq Symbols /\ NoKey \notin Symbols
        /\ Characters \cap NamedKeys = {} /\ \A u \in DOMAIN Typed : Typed[u] \in Characters
    BY KeysAssumption DEF KeysAssumption, Tokens
  <1>1. CASE t \in Symbols
    BY <1>0, <1>1 DEF TokenToKeysym
  <1>2. CASE t \notin Symbols /\ t \in DOMAIN Folded
    <2>1. TokenToKeysym(t) = Folded[t] /\ Folded[t] \in Symbols
      BY <1>0, <1>2 DEF TokenToKeysym, Range
    <2>2. QED
      BY <1>0, <1>2, <2>1
  <1>3. CASE t \notin Symbols /\ t \notin DOMAIN Folded
    <2>1. TokenToKeysym(t) \in Characters \cup {NoKey}
      BY <1>0, <1>3 DEF TokenToKeysym
    <2>2. QED
      BY <1>0, <1>3, <2>1 DEF Symbols
  <1>4. QED
    BY <1>1, <1>2, <1>3

\* What a keymap has on its keys.
LEMMA KeymapIs ==
    ASSUME NEW map \in Keymaps, NEW k \in DOMAIN map
    PROVE  /\ DOMAIN map = DOMAIN Types /\ DOMAIN map \subseteq Nat
           /\ DOMAIN map[k] = DOMAIN Types[k] /\ DOMAIN map[k] \subseteq Nat /\ 1 \in DOMAIN map[k]
           /\ \A l \in DOMAIN map[k] :
                /\ DOMAIN map[k][l] = DOMAIN Types[k][l] /\ DOMAIN map[k][l] \subseteq Nat
                /\ 1 \in DOMAIN map[k][l] /\ \A n \in DOMAIN map[k][l] : map[k][l][n] \in Symbols
  <1>1. /\ DOMAIN map = DOMAIN Types /\ map[k] \in LayoutsOf(k)
    BY DEF Keymaps
  <1>2. /\ DOMAIN map[k] = DOMAIN Types[k]
        /\ \A l \in DOMAIN map[k] : map[k][l] \in [DOMAIN Types[k][l] -> Symbols]
    BY <1>1 DEF LayoutsOf
  <1>3. /\ DOMAIN Types \subseteq Nat /\ DOMAIN Types[k] \subseteq Nat /\ 1 \in DOMAIN Types[k]
    BY <1>1, KeysAssumption DEF KeysAssumption
  <1>4. ASSUME NEW l \in DOMAIN Types[k]
        PROVE  DOMAIN Types[k][l] \subseteq Nat /\ 1 \in DOMAIN Types[k][l]
    <2>1. Types[k][l] \in Seq(Seq(SUBSET Modifiers)) /\ 1 \in DOMAIN Types[k][l]
      BY <1>1, <1>4, KeysAssumption DEF KeysAssumption
    <2>2. DOMAIN Types[k][l] = 1..Len(Types[k][l])
      BY <2>1
    <2>3. QED
      BY <2>1, <2>2
  <1>5. QED
    BY <1>1, <1>2, <1>3, <1>4

\* Where a symbol is found.
LEMMA WhereIs ==
    ASSUME NEW map \in Keymaps, NEW symbol
    PROVE  \/ Where(map, symbol) = <<>>
           \/ \E k \in DOMAIN map : \E l \in DOMAIN map[k] : \E n \in DOMAIN map[k][l] :
                /\ Where(map, symbol) = <<k, l, n>> /\ map[k][l][n] = symbol
                /\ n = First({m \in DOMAIN map[k][l] : map[k][l][m] = symbol})
  <1> DEFINE ks == {j \in DOMAIN map : \E m \in DOMAIN map[j] : symbol \in Range(map[j][m])}
             k  == First(ks)
             ls == {m \in DOMAIN map[k] : symbol \in Range(map[k][m])}
             l  == First(ls)
             ns == {m \in DOMAIN map[k][l] : map[k][l][m] = symbol}
  <1>1. CASE ks = {}
    BY <1>1 DEF Where
  <1>2. CASE ks # {}
    <2>1. Where(map, symbol) = <<k, l, First(ns)>>
      BY <1>2 DEF Where
    <2>2. ks \subseteq Nat
      BY KeymapIs
    <2>3. k \in ks
      <3> HIDE DEF ks
      <3>1. QED
        BY <1>2, <2>2, FirstIs
    <2>4. k \in DOMAIN map /\ \E m \in DOMAIN map[k] : symbol \in Range(map[k][m])
      BY <2>3
    <2> HIDE DEF k
    <2>5. ls # {} /\ ls \subseteq Nat
      BY <2>4, KeymapIs
    <2>6. l \in ls
      <3> HIDE DEF ls
      <3>1. QED
        BY <2>5, FirstIs
    <2>7. l \in DOMAIN map[k] /\ symbol \in Range(map[k][l])
      BY <2>6
    <2> HIDE DEF l
    <2>8. ns # {} /\ ns \subseteq Nat
      BY <2>4, <2>7, KeymapIs DEF Range
    <2>9. First(ns) \in ns
      <3> HIDE DEF ns
      <3>1. QED
        BY <2>8, FirstIs
    <2>10. QED
      BY <2>1, <2>4, <2>7, <2>9
  <1>3. QED
    BY <1>1, <1>2

\* The modifiers that reach a level are among those its key looks at.
LEMMA ReachIs ==
    ASSUME NEW k \in DOMAIN Types, NEW n \in DOMAIN Types[k][1]
    PROVE  /\ Reach(k, 1, n) \subseteq Consumed(k)
           /\ Types[k][1][n] # <<>> => Reach(k, 1, n) \in Range(Types[k][1][n])
           /\ n = 1 => Reach(k, 1, n) = {}
  <1>1. /\ 1 \in DOMAIN Types[k] /\ Types[k][1] \in Seq(Seq(SUBSET Modifiers))
        /\ 1 \in DOMAIN Types[k][1] /\ 1 \in DOMAIN Types[k][1][1] /\ Types[k][1][1][1] = {}
    BY KeysAssumption DEF KeysAssumption
  <1>2. Types[k][1][n] \in Seq(SUBSET Modifiers)
    BY <1>1
  <1>3. Types[k][1][n] # <<>> => 1 \in DOMAIN Types[k][1][n]
    <2> DEFINE masks == Types[k][1][n]
    <2>1. masks \in Seq(SUBSET Modifiers)
      BY <1>2
    <2> HIDE DEF masks
    <2>2. masks # <<>> => 1 \in DOMAIN masks
      BY <2>1, EmptySeq, LenProperties
    <2>3. QED
      BY <2>2 DEF masks
  <1>4. Types[k][1][n] # <<>> => Reach(k, 1, n) \in Range(Types[k][1][n])
    BY <1>3 DEF Reach, Range
  <1>5. \A m \in Range(Types[k][1][n]) : m \subseteq Consumed(k)
    BY DEF Consumed, Range
  <1>6. n = 1 => Reach(k, 1, n) = {}
    BY <1>1 DEF Reach
  <1>7. QED
    BY <1>4, <1>5, <1>6 DEF Reach

\* With no other modifiers down that the key looks at, a level's bring its symbol.
LEMMA LevelTypes ==
    ASSUME NEW map \in Keymaps, NEW k \in DOMAIN map, NEW n \in DOMAIN map[k][1],
           Types[k][1][n] # <<>>, NEW mods, mods \cap Consumed(k) = {}
    PROVE  SymbolAt(map, k, mods \cup Reach(k, 1, n)) = map[k][1][n]
  <1> DEFINE down   == mods \cup Reach(k, 1, n)
             levels == {m \in DOMAIN map[k][1] : down \cap Consumed(k) \in Range(Types[k][1][m])}
  <1>1. k \in DOMAIN Types /\ 1 \in DOMAIN Types[k] /\ DOMAIN map[k][1] = DOMAIN Types[k][1]
    BY KeymapIs
  <1>2. Reach(k, 1, n) \subseteq Consumed(k) /\ Reach(k, 1, n) \in Range(Types[k][1][n])
    BY <1>1, ReachIs
  <1>3. down \cap Consumed(k) = Reach(k, 1, n)
    BY <1>2
  <1>4. \A m \in DOMAIN Types[k][1] :
          Range(Types[k][1][m]) \cap Range(Types[k][1][n]) # {} => m = n
    BY <1>1, KeysAssumption DEF KeysAssumption
  <1>5. levels = {n}
    <2>1. n \in levels
      BY <1>2, <1>3
    <2>2. ASSUME NEW m \in levels PROVE m = n
      <3>1. m \in DOMAIN Types[k][1] /\ Reach(k, 1, n) \in Range(Types[k][1][m])
        BY <1>1, <1>3
      <3>2. QED
        BY <1>2, <1>4, <3>1
    <2>3. QED
      BY <2>1, <2>2
  <1>6. (CHOOSE m \in levels : TRUE) = n
    BY <1>5
  <1>7. SymbolAt(map, k, down) = IF levels = {} THEN Base(map, k) ELSE map[k][1][CHOOSE m \in levels : TRUE]
    BY DEF SymbolAt
  <1>8. QED
    BY <1>5, <1>6, <1>7

\* The physical form of a chord, case by case.
LEMMA PhysicalIs ==
    ASSUME NEW map \in Keymaps, NEW c, c.token # NoKey, ~IsEvent(c),
           LogicalToPhysical(map, c) # Failed
    PROVE  LET p == LogicalToPhysical(map, c)
               want == TokenToKeysym(c.token)
           IN  /\ map # NoKeymap
               /\ \/ want \in NamedKeys /\ p = c /\ Where(map, want) = <<>>
                  \/ \E k \in DOMAIN map : \E l \in DOMAIN map[k] : \E n \in DOMAIN map[k][l] :
                       /\ Where(map, want) = <<k, l, n>> /\ map[k][l][n] = want
                       /\ n = First({m \in DOMAIN map[k][l] : map[k][l][m] = want})
                       /\ p = Chord(c.mods \cup Reach(k, l, n), Base(map, k))
  <1> DEFINE want == TokenToKeysym(c.token)
             at   == Where(map, want)
  <1>1. map # NoKeymap /\ want # NoKey
    BY DEF LogicalToPhysical
  <1>2. CASE at = <<>>
    BY <1>1, <1>2 DEF LogicalToPhysical
  <1>3. CASE at # <<>>
    <2>1. PICK k \in DOMAIN map : \E l \in DOMAIN map[k] : \E n \in DOMAIN map[k][l] :
                /\ at = <<k, l, n>> /\ map[k][l][n] = want
                /\ n = First({m \in DOMAIN map[k][l] : map[k][l][m] = want})
      BY <1>3, WhereIs
    <2>2. PICK l \in DOMAIN map[k] : \E n \in DOMAIN map[k][l] :
                /\ at = <<k, l, n>> /\ map[k][l][n] = want
                /\ n = First({m \in DOMAIN map[k][l] : map[k][l][m] = want})
      BY <2>1
    <2>3. PICK n \in DOMAIN map[k][l] :
                /\ at = <<k, l, n>> /\ map[k][l][n] = want
                /\ n = First({m \in DOMAIN map[k][l] : map[k][l][m] = want})
      BY <2>2
    <2>4. LogicalToPhysical(map, c) = Chord(c.mods \cup Reach(at[1], at[2], at[3]), Base(map, at[1]))
      BY <1>1, <1>3 DEF LogicalToPhysical
    <2>5. at[1] = k /\ at[2] = l /\ at[3] = n
      BY <2>3
    <2> HIDE DEF at
    <2>6. QED
      BY <1>1, <2>3, <2>4, <2>5 DEF at
  <1>4. QED
    BY <1>2, <1>3

\* The logical form of what a level of the first layout types, on the key that is
\* found for its base.
LEMMA LogicalIs ==
    ASSUME NEW map \in Keymaps, map # NoKeymap, NEW k \in DOMAIN map, NEW n \in DOMAIN map[k][1],
           n = First({m \in DOMAIN map[k][1] : map[k][1][m] = map[k][1][n]}),
           Types[k][1][n] # <<>>, Base(map, k) \in Characters,
           \A j \in DOMAIN map : Base(map, j) = Base(map, k) => k <= j,
           NEW mods, mods \cap Consumed(k) = {}
    PROVE  PhysicalToLogical(map, Chord(mods \cup Reach(k, 1, n), Base(map, k)))
             = Chord(mods, KeysymToChar(map[k][1][n]))
  <1> DEFINE c    == Chord(mods \cup Reach(k, 1, n), Base(map, k))
             base == TokenToKeysym(c.token)
             ks   == {j \in DOMAIN map : Base(map, j) = base}
             symbol == SymbolAt(map, First(ks), c.mods)
             level  == First({m \in DOMAIN map[First(ks)][1] : map[First(ks)][1][m] = symbol})
  <1>1. /\ Base(map, k) \in Symbols /\ Base(map, k) # NoKey /\ Base(map, k) \notin Events
    <2> HIDE DEF c, base, ks, symbol, level
    <2>1. Characters \cap (NamedKeys \cup Events) = {}
      BY KeysAssumption DEF KeysAssumption
    <2>2. NoKey \notin Tokens
      BY KeysAssumption DEF KeysAssumption
    <2>3. NoKey \notin Symbols
      BY <2>2 DEF Tokens
    <2>4. QED
      BY <2>1, <2>3 DEF Symbols
  <1>2. c.token = Base(map, k) /\ c.mods = mods \cup Reach(k, 1, n)
    BY DEF Chord
  <1>3. base = Base(map, k)
    BY <1>1, <1>2, NamedByToken
  <1>4. ~IsEvent(c) /\ c.token # NoKey
    BY <1>1, <1>2 DEF IsEvent
  <1>5. k \in ks /\ ks \subseteq Nat /\ \A j \in ks : k <= j
    BY <1>3, KeymapIs
  <1>6. First(ks) = k
    <2> HIDE DEF ks
    <2>1. First(ks) \in ks /\ First(ks) <= k
      BY <1>5, FirstIs
    <2>2. k <= First(ks) /\ k \in Nat /\ First(ks) \in Nat
      BY <1>5, <2>1
    <2>3. QED
      BY <2>1, <2>2, EachAtMostTheOther
  <1>7. symbol = map[k][1][n]
    <2>1. SymbolAt(map, k, mods \cup Reach(k, 1, n)) = map[k][1][n]
      BY LevelTypes
    <2>2. QED
      BY <1>2, <1>6, <2>1
  <1>8. level = n
    BY <1>6, <1>7
  <1>9. PhysicalToLogical(map, c) =
          IF base \notin Characters \/ ks = {} THEN c
          ELSE Chord(c.mods \ Reach(First(ks), 1, level), KeysymToChar(symbol))
    BY <1>4 DEF PhysicalToLogical
  <1>10. Reach(k, 1, n) \subseteq Consumed(k)
    BY KeymapIs, ReachIs
  <1>11. (mods \cup Reach(k, 1, n)) \ Reach(k, 1, n) = mods
    BY <1>10
  <1> HIDE DEF base, ks, symbol, level, c
  <1>12. PhysicalToLogical(map, c) = Chord(mods, KeysymToChar(map[k][1][n]))
    BY <1>2, <1>3, <1>5, <1>6, <1>7, <1>8, <1>9, <1>11
  <1>13. QED
    BY <1>12 DEF c

\* A chord has one canonical form.
LEMMA CanonicalIs ==
    ASSUME NEW spelled \in SUBSET DOMAIN Aliases, NEW token \in Tokens
    PROVE  LET c == SplitTokens(spelled, token)
               r == Regularise(spelled, token)
           IN  /\ Regularise(Spelled(c.mods), c.token) = r
               /\ Regularise(Spelled(r.mods), r.token) = r
  <1> DEFINE mods == {Aliases[t] : t \in spelled}
  <1>1. {Aliases[t] : t \in Spelled(mods)} = mods
    BY DEF Spelled
  <1>2. /\ token # NoKey /\ Lower[token] \in Tokens /\ Lower[token] # NoKey
        /\ Lower[Lower[token]] = Lower[token]
    BY KeysAssumption DEF KeysAssumption
  <1>3. SplitTokens(spelled, token) = [mods |-> mods, token |-> token]
    BY DEF SplitTokens, Chord
  <1>4. Regularise(spelled, token) = [mods |-> mods, token |-> Lower[token]]
    BY <1>2, <1>3 DEF Regularise, Chord
  <1>5. /\ SplitTokens(Spelled(mods), token).mods = mods
        /\ SplitTokens(Spelled(mods), Lower[token]).mods = mods
    BY <1>1 DEF SplitTokens, Chord
  <1>6. /\ Regularise(Spelled(mods), token) = [mods |-> mods, token |-> Lower[token]]
        /\ Regularise(Spelled(mods), Lower[token]) = [mods |-> mods, token |-> Lower[token]]
    BY <1>2, <1>5 DEF Regularise, Chord
  <1> HIDE DEF mods
  <1>7. QED
    BY <1>3, <1>4, <1>6

\* What the round trip of a chord that can be bound gives.
LEMMA TripIs ==
    ASSUME NEW map \in Keymaps \cup {NoKeymap}, NEW c, c.token # NoKey, c = Chord(c.mods, c.token),
           LogicalToPhysical(map, c) # Failed
    PROVE  LET p      == LogicalToPhysical(map, c)
               symbol == TokenToKeysym(c.token)
               back   == PhysicalToLogical(map, p)
           IN  /\ p.token \in Symbols \cup DOMAIN Folded \cup Events
               /\ IsEvent(c) => back = c
               /\ ~IsEvent(c) /\ Placed(map, c) =>
                    /\ back.mods = c.mods
                    /\ TokenToKeysym(back.token) = symbol
                    /\ symbol \in Characters =>
                        /\ back.token = Printed[symbol]
                        /\ \E k \in DOMAIN map :
                             Base(map, k) = p.token /\ SymbolAt(map, k, p.mods) = symbol
  <1> DEFINE p       == LogicalToPhysical(map, c)
             symbol  == TokenToKeysym(c.token)
             back    == PhysicalToLogical(map, p)
             HasName == p.token \in Symbols \cup DOMAIN Folded \cup Events
             Back    == /\ back.mods = c.mods
                        /\ TokenToKeysym(back.token) = symbol
                        /\ symbol \in Characters =>
                            /\ back.token = Printed[symbol]
                            /\ \E k \in DOMAIN map :
                                 Base(map, k) = p.token /\ SymbolAt(map, k, p.mods) = symbol
             Trip    == HasName /\ (IsEvent(c) => back = c) /\ (~IsEvent(c) /\ Placed(map, c) => Back)
  <1> SUFFICES Trip
    OBVIOUS
  <1>0. Characters \cap NamedKeys = {} /\ NoKey \notin Symbols
    BY KeysAssumption DEF KeysAssumption, Tokens
  <1>1. CASE IsEvent(c)
    <2>1. p = c /\ back = c /\ c.token \in Events
      BY <1>1 DEF LogicalToPhysical, PhysicalToLogical, IsEvent
    <2>2. QED
      BY <1>1, <2>1
  <1>2. CASE ~IsEvent(c)
    <2>0. map # NoKeymap /\ map \in Keymaps
      BY <1>2 DEF LogicalToPhysical
    <2>1. ASSUME symbol \in NamedKeys, p = c, Where(map, symbol) = <<>>
          PROVE  HasName /\ (Placed(map, c) => Back)
      <3>1. c.token \in Symbols \cup DOMAIN Folded /\ symbol \notin Characters
        BY <1>0, <2>1, NamedByToken
      <3>2. back = c
        BY <1>2, <2>0, <2>1, <3>1 DEF PhysicalToLogical
      <3> HIDE DEF p, back
      <3>3. QED
        BY <1>2, <2>1, <3>1, <3>2
    <2>2. ASSUME NEW k \in DOMAIN map, NEW l \in DOMAIN map[k], NEW n \in DOMAIN map[k][l],
                 Where(map, symbol) = <<k, l, n>>, map[k][l][n] = symbol,
                 n = First({m \in DOMAIN map[k][l] : map[k][l][m] = symbol}),
                 p = Chord(c.mods \cup Reach(k, l, n), Base(map, k))
          PROVE  HasName /\ (Placed(map, c) => Back)
      <3>1. p.token = Base(map, k) /\ p.mods = c.mods \cup Reach(k, l, n)
        BY <2>2 DEF Chord
      <3>2. Base(map, k) \in Symbols /\ symbol \in Symbols
        <4>1. map[k][1][1] \in Symbols /\ map[k][l][n] \in Symbols
          BY <2>0, KeymapIs
        <4> HIDE DEF symbol, p
        <4>2. QED
          BY <2>2, <4>1 DEF Base
      <3>3. HasName
        BY <3>1, <3>2
      <3>4. ASSUME Placed(map, c) PROVE Back
        <4>1. /\ l = 1 /\ TokenToKeysym(KeysymToChar(symbol)) = symbol
              /\ IF Base(map, k) \in Characters
                 THEN /\ c.mods \cap Consumed(k) = {} /\ Types[k][1][n] # <<>>
                      /\ \A j \in DOMAIN map : Base(map, j) = Base(map, k) => k <= j
                 ELSE n = 1
          <5> DEFINE at == Where(map, symbol)
          <5>1. at # <<>> /\ at[1] = k /\ at[2] = l /\ at[3] = n
            BY <2>2
          <5>2. /\ at[2] = 1 /\ TokenToKeysym(KeysymToChar(symbol)) = symbol
                /\ IF Base(map, at[1]) \in Characters
                   THEN /\ c.mods \cap Consumed(at[1]) = {} /\ Types[at[1]][1][at[3]] # <<>>
                        /\ \A j \in DOMAIN map : Base(map, j) = Base(map, at[1]) => at[1] <= j
                   ELSE at[3] = 1
            BY <3>4, <5>1 DEF Placed
          <5> HIDE DEF at, symbol
          <5>3. QED
            BY <5>1, <5>2
        <4>2. symbol \in Characters => KeysymToChar(symbol) = Printed[symbol]
          BY DEF KeysymToChar
        <4>3. CASE Base(map, k) \in Characters
          <5>1. n \in DOMAIN map[k][1] /\ map[k][1][n] = symbol /\ p = Chord(c.mods \cup Reach(k, 1, n), Base(map, k))
                /\ n = First({m \in DOMAIN map[k][1] : map[k][1][m] = map[k][1][n]})
            BY <2>2, <4>1
          <5>2. back = Chord(c.mods, KeysymToChar(map[k][1][n]))
            <6>1. PhysicalToLogical(map, Chord(c.mods \cup Reach(k, 1, n), Base(map, k)))
                    = Chord(c.mods, KeysymToChar(map[k][1][n]))
              BY <2>0, <4>1, <4>3, <5>1, LogicalIs
            <6> HIDE DEF p, symbol
            <6>2. QED
              BY <5>1, <6>1
          <5>3. SymbolAt(map, k, c.mods \cup Reach(k, 1, n)) = map[k][1][n]
            BY <2>0, <4>1, <4>3, <5>1, LevelTypes
          <5> HIDE DEF p, symbol, back
          <5>4. back.mods = c.mods /\ back.token = KeysymToChar(symbol)
            BY <5>1, <5>2 DEF Chord
          <5>5. QED
            BY <3>1, <4>1, <4>2, <5>1, <5>3, <5>4
        <4>4. CASE Base(map, k) \notin Characters
          <5>1. n = 1 /\ symbol = Base(map, k) /\ Reach(k, 1, n) = {}
            <6>1. n = 1 /\ map[k][1][1] = symbol
              BY <2>2, <4>1, <4>4
            <6>2. k \in DOMAIN Types /\ 1 \in DOMAIN Types[k][1]
              BY <2>0, KeymapIs
            <6>3. Reach(k, 1, 1) = {}
              BY <6>2, ReachIs
            <6>4. QED
              BY <6>1, <6>3 DEF Base
          <5>2. p.mods = c.mods /\ TokenToKeysym(p.token) = symbol /\ symbol \notin Characters
            BY <3>1, <3>2, <4>1, <4>4, <5>1, NamedByToken
          <5>3. p.token # NoKey
            BY <1>0, <3>1, <3>2
          <5>4. back = p
            BY <2>0, <5>2, <5>3 DEF PhysicalToLogical
          <5> HIDE DEF p, back, symbol
          <5>5. QED
            BY <5>2, <5>4
        <4>5. QED
          BY <4>3, <4>4
      <3>5. QED
        BY <3>3, <3>4
    <2>3. \/ symbol \in NamedKeys /\ p = c /\ Where(map, symbol) = <<>>
          \/ \E k \in DOMAIN map : \E l \in DOMAIN map[k] : \E n \in DOMAIN map[k][l] :
               /\ Where(map, symbol) = <<k, l, n>> /\ map[k][l][n] = symbol
               /\ n = First({m \in DOMAIN map[k][l] : map[k][l][m] = symbol})
               /\ p = Chord(c.mods \cup Reach(k, l, n), Base(map, k))
      BY <1>2, <2>0, PhysicalIs
    <2>4. HasName /\ (Placed(map, c) => Back)
      <3> HIDE DEF HasName, Back, p, symbol
      <3>1. QED
        BY <2>1, <2>2, <2>3
    <2> HIDE DEF HasName, Back
    <2>5. QED
      BY <1>2, <2>4
  <1> HIDE DEF Trip
  <1>3. QED
    BY <1>1, <1>2

(* A chord bound by a character that the keymap places where a bind can    *)
(* reach it types that character and is shown with it, a named key and an  *)
(* event come back, and each has one canonical form, for any symbols, keys *)
(* that print or not, layouts, levels and ways to reach them               *)
(* (hlSchemeKeyLogicalToPhysical and back, hlSchemeKeyRegularise).         *)
THEOREM ChordsRoundTrip == Spec => []KeysRoundTrip
  <1>1. Init => KeysConverted
    BY DEF Init, KeysInit, KeysConverted
  <1>2. KeysConverted /\ [Next]_vars => KeysConverted'
    <2> SUFFICES ASSUME KeysConverted, [Next]_vars PROVE KeysConverted'
      OBVIOUS
    <2>1. CASE UNCHANGED keys
      BY <2>1 DEF KeysConverted
    <2>2. CASE Convert
      BY <2>2 DEF Convert, KeysConverted, Conversion
    <2>3. CASE Forget
      BY <2>3 DEF Forget, KeysConverted
    <2>4. QED
      BY <2>1, <2>2, <2>3
      DEF Next, NotificationActs, ConfigActs, WindowsAct, InputActs, KeysNext, vars
  <1>3. KeysConverted => KeysRoundTrip
    <2> SUFFICES ASSUME KeysConverted, keys.asked, keys.physical # Failed PROVE KeysRoundTrip
      BY DEF KeysRoundTrip
    <2>1. PICK map \in Keymaps \cup {NoKeymap}, spelled \in SUBSET DOMAIN Aliases,
               token \in Tokens \cup {NoKey} :
            keys = Conversion(map, spelled, token)
      BY DEF KeysConverted, NoKeys
    <2> DEFINE c == SplitTokens(spelled, token)
               p == LogicalToPhysical(map, c)
    <2>2. /\ keys.map = map /\ keys.logical = c /\ keys.physical = p
          /\ keys.canonical = Regularise(spelled, token)
          /\ keys.back = PhysicalToLogical(map, p)
      BY <2>1 DEF Conversion
    <2>3. c.token = token /\ c = Chord(c.mods, c.token) /\ p # Failed
      BY <2>2 DEF SplitTokens, Chord
    <2>4. token \in Tokens /\ c.token # NoKey
      <3>1. c.token = NoKey => p = Failed
        BY DEF LogicalToPhysical
      <3>2. QED
        BY <2>3, <3>1
    <2>5. /\ Regularise(Spelled(c.mods), c.token) = keys.canonical
          /\ Regularise(Spelled(keys.canonical.mods), keys.canonical.token) = keys.canonical
      BY <2>2, <2>4, CanonicalIs
    <2> HIDE DEF c
    <2>6. /\ p.token \in Symbols \cup DOMAIN Folded \cup Events
          /\ IsEvent(c) => PhysicalToLogical(map, p) = c
          /\ ~IsEvent(c) /\ Placed(map, c) =>
               /\ PhysicalToLogical(map, p).mods = c.mods
               /\ TokenToKeysym(PhysicalToLogical(map, p).token) = TokenToKeysym(c.token)
               /\ TokenToKeysym(c.token) \in Characters =>
                   /\ PhysicalToLogical(map, p).token = Printed[TokenToKeysym(c.token)]
                   /\ \E k \in DOMAIN map :
                        /\ Base(map, k) = p.token
                        /\ SymbolAt(map, k, p.mods) = TokenToKeysym(c.token)
      BY <2>3, <2>4, TripIs
    <2> HIDE DEF p
    <2>7. QED
      BY <2>2, <2>5, <2>6 DEF KeysRoundTrip
  <1>4. QED
    BY <1>1, <1>2, <1>3, PTL DEF Spec

------------------------------------------------------------------------------
(* What calls over the scratch stack and the parser write.                    *)

Some(V) == V \cup {None}

\* The value of a call under way is what is on the stack, and what the parser collected, with
\* what is left of the call over it, is the call over the output's rule.
CallHolds ==
    call # None =>
        /\ call.op = "option" => scratch = <<call.fields[1][2]>>
        /\ call.op = "gap" => scratch = <<Head(call.left)[2]>>
        /\ call.op # "option" =>
             /\ call.name \in Outputs /\ parser.output = call.name
             /\ Overlay(parser.rule, call.left) = Overlay(monitor[call.name], call.fields)

\* The inductive invariant of the config family.
ConfigSound == IInv /\ ConfigTypeOK /\ CallHolds /\ WrittenAsAsked

LEMMA MaxIs ==
    ASSUME NEW n \in Nat, NEW S, S \subseteq 1..n, S # {}
    PROVE  Max(S) \in S /\ \A y \in S : y <= Max(S)
  <1> DEFINE T == {u \in Nat : \A y \in S : y <= u}
  <1>1. T \subseteq Nat /\ n \in T
    OBVIOUS
  <1>2. PICK u \in T : \A y \in T : u <= y
    <2> HIDE DEF T
    <2>1. First(T) \in T /\ \A y \in T : First(T) <= y
      BY <1>1, FirstIs
    <2>2. QED
      BY <2>1
  <1>3. u \in Nat /\ \A y \in S : y \in Nat /\ y >= 1 /\ y <= u
    BY <1>2
  <1>4. u \in S
    <2> SUFFICES ASSUME u \notin S PROVE FALSE
      OBVIOUS
    <2>1. PICK z \in S : z >= 1 /\ z <= u /\ z \in Nat
      BY <1>3
    <2>2. \A y \in S : y <= u - 1
      BY <1>3
    <2>3. u - 1 \in T
      BY <1>3, <2>1, <2>2
    <2>4. QED
      BY <1>2, <1>3, <2>3
  <1>5. \E x \in S : \A y \in S : x >= y
    <2>1. \A y \in S : u >= y
      BY <1>3
    <2>2. QED
      BY <1>4, <2>1
  <1>6. Max(S) \in S /\ \A y \in S : Max(S) >= y
    BY <1>5 DEF Max
  <1>7. QED
    BY <1>3, <1>6

\* The places of a list of fields where f is written.
WrittenAt(fs, f) == {i \in DOMAIN fs : fs[i][1] = f}

\* One field of a rule that a list is written over.
LEMMA OverlayAt ==
    ASSUME NEW rule, NEW fs, NEW n \in Nat, DOMAIN fs = 1..n, NEW f \in Fields
    PROVE  /\ WrittenAt(fs, f) = {} => Overlay(rule, fs)[f] = rule[f]
           /\ WrittenAt(fs, f) # {} => /\ Max(WrittenAt(fs, f)) \in WrittenAt(fs, f)
                                       /\ \A y \in WrittenAt(fs, f) : y <= Max(WrittenAt(fs, f))
                                       /\ Overlay(rule, fs)[f] = fs[Max(WrittenAt(fs, f))][2]
  <1> DEFINE at == WrittenAt(fs, f)
  <1>1. Overlay(rule, fs)[f] = IF at = {} THEN rule[f] ELSE fs[Max(at)][2]
    BY DEF Overlay, WrittenAt
  <1>2. at \subseteq 1..n
    BY DEF WrittenAt
  <1> HIDE DEF at
  <1>3. at # {} => Max(at) \in at /\ \A y \in at : y <= Max(at)
    BY <1>2, MaxIs
  <1>4. QED
    BY <1>1, <1>3 DEF at

LEMMA OverlayIsRule ==
    ASSUME NEW V, NEW rule \in [Fields -> V], NEW fs, NEW n \in Nat, DOMAIN fs = 1..n,
           \A i \in DOMAIN fs : fs[i][2] \in V
    PROVE  Overlay(rule, fs) \in [Fields -> V]
  <1>1. ASSUME NEW f \in Fields PROVE Overlay(rule, fs)[f] \in V
    <2>1. CASE WrittenAt(fs, f) = {}
      BY <2>1, OverlayAt
    <2>2. CASE WrittenAt(fs, f) # {}
      <3>1. /\ Overlay(rule, fs)[f] = fs[Max(WrittenAt(fs, f))][2]
            /\ Max(WrittenAt(fs, f)) \in WrittenAt(fs, f)
        BY <2>2, OverlayAt
      <3>2. WrittenAt(fs, f) \subseteq DOMAIN fs
        BY DEF WrittenAt
      <3>3. QED
        BY <3>1, <3>2
    <2>3. QED
      BY <2>1, <2>2
  <1>2. Overlay(rule, fs) = [f \in Fields |-> Overlay(rule, fs)[f]]
    BY DEF Overlay
  <1>3. QED
    BY <1>1, <1>2

\* Writing the first field of a list and then the others writes the list.
LEMMA OverlayFirst ==
    ASSUME NEW V, NEW rule \in [Fields -> V], NEW fs \in Seq(Fields \X Values), fs # <<>>
    PROVE  Overlay([rule EXCEPT ![Head(fs)[1]] = Head(fs)[2]], Tail(fs)) = Overlay(rule, fs)
  <1> DEFINE one  == [rule EXCEPT ![Head(fs)[1]] = Head(fs)[2]]
             rest == Tail(fs)
             n    == Len(fs)
  <1>1. /\ n \in Nat \ {0} /\ DOMAIN fs = 1..n /\ Head(fs) = fs[1]
        /\ rest \in Seq(Fields \X Values) /\ DOMAIN rest = 1..(n - 1) /\ n - 1 \in Nat
        /\ \A i \in 1..(n - 1) : rest[i] = fs[i + 1]
    OBVIOUS
  <1>2. fs[1][1] \in Fields
    BY <1>1
  <1>3. \A f \in Fields : one[f] = IF f = fs[1][1] THEN fs[1][2] ELSE rule[f]
    BY <1>1, <1>2
  <1> HIDE DEF one, rest, n
  <1>4. ASSUME NEW f \in Fields
        PROVE  Overlay(one, rest)[f] = Overlay(rule, fs)[f]
    <2> DEFINE all   == WrittenAt(fs, f)
               later == WrittenAt(rest, f)
    <2>1. \A i : i \in later <=> i \in 1..(n - 1) /\ fs[i + 1][1] = f
      BY <1>1 DEF WrittenAt
    <2>2. \A i : i \in all <=> i \in 1..n /\ fs[i][1] = f
      BY <1>1 DEF WrittenAt
    <2> HIDE DEF all, later
    <2>0. n \in Nat \ {0}
      BY <1>1
    <2>3. ASSUME NEW i \in later PROVE i \in Nat /\ i + 1 \in all
      <3>1. i \in 1..(n - 1) /\ fs[i + 1][1] = f
        BY <2>1
      <3>2. i \in Nat /\ i + 1 \in 1..n
        BY <2>0, <3>1
      <3>3. QED
        BY <2>2, <3>1, <3>2
    <2>4. ASSUME NEW i \in all PROVE i = 1 \/ i - 1 \in later
      <3>1. i \in 1..n /\ fs[i][1] = f
        BY <2>2
      <3>2. i # 1 => i - 1 \in 1..(n - 1) /\ (i - 1) + 1 = i
        BY <2>0, <3>1
      <3>3. QED
        BY <2>1, <3>1, <3>2
    <2>5. /\ later = {} => Overlay(one, rest)[f] = one[f]
          /\ later # {} => /\ Max(later) \in later
                           /\ \A y \in later : y <= Max(later)
                           /\ Overlay(one, rest)[f] = rest[Max(later)][2]
      <3>1. PICK m \in Nat : DOMAIN rest = 1..m
        BY <1>1
      <3>2. QED
        BY <3>1, OverlayAt DEF later
    <2>6. /\ all = {} => Overlay(rule, fs)[f] = rule[f]
          /\ all # {} => /\ Max(all) \in all
                         /\ \A y \in all : y <= Max(all)
                         /\ Overlay(rule, fs)[f] = fs[Max(all)][2]
      <3> DEFINE Written(r, g) ==
                   /\ WrittenAt(g, f) = {} => Overlay(r, g)[f] = r[f]
                   /\ WrittenAt(g, f) # {} => /\ Max(WrittenAt(g, f)) \in WrittenAt(g, f)
                                              /\ \A y \in WrittenAt(g, f) : y <= Max(WrittenAt(g, f))
                                              /\ Overlay(r, g)[f] = g[Max(WrittenAt(g, f))][2]
      <3>1. \A r, g : (\E m \in Nat : DOMAIN g = 1..m) => Written(r, g)
        BY OverlayAt
      <3> HIDE DEF Written
      <3>2. \E m \in Nat : DOMAIN fs = 1..m
        BY <1>1
      <3>3. Written(rule, fs)
        BY <3>1, <3>2
      <3>4. QED
        BY <3>3 DEF all, Written
    <2>7. CASE later # {}
      <3>1. PICK m : m = Max(later)
        OBVIOUS
      <3>2. m \in later /\ m + 1 \in all /\ m \in 1..(n - 1)
        BY <2>1, <2>3, <2>5, <2>7, <3>1
      <3>3. PICK k : k = Max(all)
        OBVIOUS
      <3>4. k \in all /\ m + 1 <= k /\ k \in 1..n
        BY <2>2, <2>6, <3>2, <3>3
      <3>5. k - 1 \in later /\ k - 1 <= m
        <4>1. k # 1
          BY <1>1, <3>2, <3>4
        <4>2. QED
          BY <2>4, <2>5, <2>7, <3>1, <3>4, <4>1
      <3>6. k = m + 1
        BY <1>1, <3>2, <3>4, <3>5
      <3>7. QED
        BY <1>1, <2>5, <2>6, <2>7, <3>1, <3>2, <3>3, <3>4, <3>6
    <2>8. CASE later = {} /\ f = fs[1][1]
      <3>1. all = {1}
        BY <1>1, <2>2, <2>4, <2>8
      <3>2. Max(all) = 1
        BY <2>6, <3>1
      <3>3. QED
        BY <1>3, <2>5, <2>6, <2>8, <3>1, <3>2
    <2>9. CASE later = {} /\ f # fs[1][1]
      <3>1. all = {}
        BY <2>2, <2>4, <2>9
      <3>2. QED
        BY <1>3, <2>5, <2>6, <2>9, <3>1
    <2>10. QED
      BY <2>7, <2>8, <2>9
  <1>5. /\ Overlay(one, rest) = [f \in Fields |-> Overlay(one, rest)[f]]
        /\ Overlay(rule, fs) = [f \in Fields |-> Overlay(rule, fs)[f]]
    BY DEF Overlay
  <1>6. Overlay(one, rest) = Overlay(rule, fs)
    BY <1>4, <1>5
  <1>7. QED
    BY <1>6 DEF one, rest

\* The stack with one value on it.
LEMMA OneOnStack ==
    ASSUME NEW v
    PROVE  /\ Push(Begin, v) = <<v>> /\ Last(<<v>>) = v /\ Front(<<v>>) = <<>>
  BY DEF Push, Begin, Last, Front

LEMMA OnTop ==
    ASSUME NEW S, NEW stack \in Seq(S), NEW v \in S
    PROVE  Last(Push(stack, v)) = v
  BY DEF Push, Last

LEMMA EmptyStack == \A S : <<>> \in Seq(S) /\ Len(<<>>) <= 1
  OBVIOUS

\* A field that is taken goes from the list to the rule.
LEMMA TakesHolds ==
    ASSUME ConfigSound, call # None, call.op # "option", call.left # <<>>,
           NEW f, NEW v, f = Head(call.left)[1], v = Head(call.left)[2], Takes(f, v),
           scratch' \in {scratch, <<>>}
    PROVE  ConfigTypeOK' /\ CallHolds' /\ WrittenAsAsked'
  <1>0. IInv /\ ConfigTypeOK /\ CallHolds /\ WrittenAsAsked /\ None \notin Values
    BY ConfigAssumption DEF ConfigSound, ConfigAssumption
  <1>1. /\ parser # None /\ parser \in [output : Outputs, rule : Rules]
        /\ call = [op |-> call.op, name |-> call.name, fields |-> call.fields, left |-> call.left]
        /\ call.left \in Seq(Fields \X Values)
    BY <1>0 DEF IInv, ParserBegun, RulesTyped, CallTyped
  <1>2. /\ UNCHANGED <<option, monitor, device, curves, animation, permissions, launching, refresh, done>>
        /\ parser.rule \in [Fields -> Some(Good)] /\ parser.output = call.name
        /\ call.name \in Outputs
        /\ Overlay(parser.rule, call.left) = Overlay(monitor[call.name], call.fields)
    BY <1>0, <1>1 DEF Takes, stores, CallHolds, ConfigTypeOK, Some
  <1>3. scratch' \in Seq(Values \cup {None}) /\ Len(scratch') <= 1
    BY <1>0, EmptyStack DEF ConfigTypeOK
  <1>4. WrittenAsAsked'
    BY <1>0, <1>2 DEF WrittenAsAsked
  <1>5. CASE v \in Good
    <2>1. /\ parser' = [parser EXCEPT !.rule[f] = v]
          /\ call' = [call EXCEPT !.op = "monitor", !.left = Tail(@)]
      BY <1>1, <1>5 DEF Takes
    <2>2. parser' = [output |-> parser.output, rule |-> [parser.rule EXCEPT ![f] = v]]
      BY <1>1, <2>1
    <2>3. call' = [op |-> "monitor", name |-> call.name, fields |-> call.fields,
                   left |-> Tail(call.left)]
      BY <1>1, <2>1
    <2>4. [parser.rule EXCEPT ![f] = v] \in [Fields -> Some(Good)]
      BY <1>2, <1>5 DEF Some
    <2>5. Overlay([parser.rule EXCEPT ![f] = v], Tail(call.left)) = Overlay(parser.rule, call.left)
      BY <1>1, <1>2, OverlayFirst
    <2>6. CallHolds'
      BY <1>2, <2>2, <2>3, <2>5 DEF CallHolds
    <2>7. parser'.output \in Outputs /\ parser'.rule \in [Fields -> Good \cup {None}]
      BY <1>2, <2>2, <2>4 DEF Some
    <2>8. QED
      BY <1>0, <1>2, <1>3, <1>4, <2>6, <2>7 DEF ConfigTypeOK
  <1>6. CASE v \notin Good
    <2>1. call' = None /\ parser' = parser
      BY <1>1, <1>6 DEF Takes
    <2>2. QED
      BY <1>0, <1>2, <1>3, <1>4, <2>1 DEF ConfigTypeOK, CallHolds
  <1>7. QED
    BY <1>5, <1>6

LEMMA StackHolds ==
    ASSUME ConfigSound, StackNext
    PROVE  ConfigTypeOK' /\ CallHolds' /\ WrittenAsAsked'
  <1> DEFINE Goal == ConfigTypeOK' /\ CallHolds' /\ WrittenAsAsked'
  <1> SUFFICES Goal
    OBVIOUS
  <1>0. /\ IInv /\ ConfigTypeOK /\ CallHolds /\ WrittenAsAsked /\ None \notin Values
        /\ Good \subseteq Values
    BY ConfigAssumption DEF ConfigSound, ConfigAssumption, Values
  <1>1. CASE ConfigAdd
    <2>1. PICK k \in Keys \cup {"unknown"}, v \in Values :
            /\ call' = [op |-> "option", name |-> k, fields |-> <<<<None, v>>>>, left |-> <<>>]
            /\ scratch' = Push(Begin, v)
      BY <1>1 DEF ConfigAdd
    <2>2. /\ UNCHANGED <<option, monitor, device, curves, animation, permissions, parser, launching, refresh>>
          /\ done' = None
      BY <1>1 DEF ConfigAdd, stores
    <2>3. scratch' = <<v>>
      BY <2>1, OneOnStack
    <2>4. call'.op = "option" /\ call'.fields[1][2] = v
      BY <2>1
    <2>5. CallHolds'
      BY <2>3, <2>4 DEF CallHolds
    <2>6. scratch' \in Seq(Values \cup {None}) /\ Len(scratch') <= 1
      BY <2>3
    <2>7. QED
      BY <1>0, <2>2, <2>5, <2>6 DEF ConfigTypeOK, WrittenAsAsked
  <1>2. CASE ConfigSet
    <2>1. /\ call # None /\ call.op = "option" /\ call' = None
          /\ UNCHANGED <<parser, monitor, device, curves, animation, permissions, launching>>
      BY <1>2 DEF ConfigSet
    <2>2. scratch = <<call.fields[1][2]>> /\ Last(scratch) = call.fields[1][2]
      BY <1>0, <2>1, OneOnStack DEF CallHolds
    <2>3. CASE UNCHANGED <<option, refresh, done>> /\ scratch' \in {scratch, <<>>}
      <3>1. scratch' \in Seq(Values \cup {None}) /\ Len(scratch') <= 1
        BY <1>0, <2>3, EmptyStack DEF ConfigTypeOK
      <3>2. QED
        BY <1>0, <2>1, <2>3, <3>1 DEF ConfigTypeOK, WrittenAsAsked, CallHolds
    <2>4. CASE /\ call.name \in Keys /\ Last(scratch) \in Good
               /\ scratch' = <<>> /\ refresh' = TRUE
               /\ option' = [option EXCEPT ![call.name] = Last(scratch)]
               /\ done' = [asked |-> call.fields[1][2], is |-> Last(scratch)]
      <3>1. option' \in [Keys -> Good \cup {None}]
        BY <1>0, <2>4 DEF ConfigTypeOK
      <3>2. WrittenAsAsked'
        BY <2>2, <2>4 DEF WrittenAsAsked
      <3>3. scratch' \in Seq(Values \cup {None}) /\ Len(scratch') <= 1
        BY <2>4
      <3>4. QED
        BY <1>0, <2>1, <2>4, <3>1, <3>2, <3>3 DEF ConfigTypeOK, CallHolds
    <2>5. QED
      BY <1>2, <2>3, <2>4 DEF ConfigSet, Known
  <1>3. CASE ConfigGet
    <2>1. PICK k \in Keys : done' = [asked |-> option[k], is |-> Last(Push(scratch, option[k]))]
      BY <1>3 DEF ConfigGet
    <2>2. /\ UNCHANGED <<option, monitor, device, curves, animation, permissions, parser, launching, refresh>>
          /\ scratch' = <<>> /\ call = None /\ call' = None
      BY <1>3 DEF ConfigGet, stores
    <2>3. scratch \in Seq(Values \cup {None}) /\ option[k] \in Values \cup {None}
      BY <1>0 DEF ConfigTypeOK
    <2>4. Last(Push(scratch, option[k])) = option[k]
      BY <2>3, OnTop
    <2>5. WrittenAsAsked'
      BY <2>1, <2>4 DEF WrittenAsAsked
    <2>6. scratch' \in Seq(Values \cup {None}) /\ Len(scratch') <= 1
      BY <2>2
    <2>7. QED
      BY <1>0, <2>2, <2>5, <2>6 DEF ConfigTypeOK, CallHolds
  <1>4. CASE MonitorBegin
    <2>1. PICK o \in Outputs, fs \in Given :
            /\ parser' = Seeded(o)
            /\ call' = [op |-> "monitor", name |-> o, fields |-> fs, left |-> fs]
      BY <1>4 DEF MonitorBegin
    <2>2. /\ UNCHANGED <<scratch, option, monitor, device, curves, animation, permissions, launching, refresh>>
          /\ done' = None
      BY <1>4 DEF MonitorBegin, stores
    <2>3. parser'.output = o /\ parser'.rule = monitor[o]
      BY <2>1 DEF Seeded
    <2>4. /\ call'.op = "monitor" /\ call'.name = o
          /\ call'.fields = fs /\ call'.left = fs
      BY <2>1
    <2>5. CallHolds'
      BY <2>2, <2>3, <2>4 DEF CallHolds
    <2>6. parser'.output \in Outputs /\ parser'.rule \in [Fields -> Good \cup {None}]
      BY <1>0, <2>3 DEF ConfigTypeOK
    <2>7. QED
      BY <1>0, <2>2, <2>5, <2>6 DEF ConfigTypeOK, WrittenAsAsked
  <1>5. CASE MonitorUnnamed
    BY <1>0, <1>5 DEF MonitorUnnamed, configVars, stores, ConfigTypeOK, CallHolds, WrittenAsAsked
  <1>6. CASE MonitorPushGap
    <2>1. /\ call # None /\ call.op = "monitor" /\ call.left # <<>>
          /\ call' = [call EXCEPT !.op = "gap"]
          /\ scratch' = Push(Begin, Head(call.left)[2])
          /\ UNCHANGED <<option, monitor, device, curves, animation, permissions, parser, launching, refresh, done>>
      BY <1>6 DEF MonitorPushGap, CollectingField, stores
    <2>2. call' = [op |-> "gap", name |-> call.name, fields |-> call.fields, left |-> call.left]
      BY <1>0, <2>1 DEF IInv, CallTyped
    <2>3. scratch' = <<Head(call.left)[2]>>
      BY <2>1, OneOnStack
    <2>4. CallHolds'
      BY <1>0, <2>1, <2>2, <2>3 DEF CallHolds
    <2>5. Head(call.left)[2] \in Values
      <3>1. call.left \in Seq(Fields \X Values)
        BY <1>0, <2>1 DEF IInv, CallTyped
      <3>2. Head(call.left) \in Fields \X Values
        BY <2>1, <3>1
      <3>3. QED
        BY <3>2
    <2>6. scratch' \in Seq(Values \cup {None}) /\ Len(scratch') <= 1
      BY <2>3, <2>5
    <2>7. QED
      BY <1>0, <2>1, <2>4, <2>6 DEF ConfigTypeOK, WrittenAsAsked
  <1>7. CASE MonitorFieldStr \/ MonitorFieldBool
    <2>1. /\ call # None /\ call.op # "option" /\ call.left # <<>> /\ scratch' = scratch
          /\ Takes(Head(call.left)[1], Head(call.left)[2])
      BY <1>7 DEF MonitorFieldStr, MonitorFieldBool, NextIsPlain, CollectingField
    <2>2. QED
      BY <2>1, TakesHolds
  <1>8. CASE MonitorFieldNum
    <2>1. /\ call # None /\ call.op # "option" /\ call.left # <<>> /\ scratch' = <<>>
          /\ Takes(Head(call.left)[1], Last(Push(Begin, Head(call.left)[2])))
      BY <1>8 DEF MonitorFieldNum, NextIsPlain, CollectingField
    <2>2. Last(Push(Begin, Head(call.left)[2])) = Head(call.left)[2]
      BY OneOnStack
    <2>3. QED
      BY <2>1, <2>2, TakesHolds
  <1>9. CASE MonitorFieldGap
    <2>1. /\ call # None /\ call.op = "gap" /\ call.op # "option" /\ scratch' = <<>>
          /\ Takes(Head(call.left)[1], Last(scratch))
      BY <1>9 DEF MonitorFieldGap
    <2>2. call.left # <<>> /\ scratch = <<Head(call.left)[2]>>
      BY <1>0, <2>1 DEF IInv, CallTyped, CallHolds
    <2>3. Last(scratch) = Head(call.left)[2]
      BY <2>2, OneOnStack
    <2>4. QED
      BY <2>1, <2>2, <2>3, TakesHolds
  <1>10. CASE MonitorCommit
    <2>1. /\ call # None /\ call.op = "monitor" /\ call.left = <<>> /\ parser # None
          /\ monitor' = [monitor EXCEPT ![parser.output] = parser.rule]
          /\ done' = [asked |-> Overlay(monitor[call.name], call.fields), is |-> monitor'[call.name]]
          /\ parser' = None /\ refresh' = TRUE /\ call' = None
          /\ UNCHANGED <<scratch, option, device, curves, animation, permissions, launching>>
      BY <1>10 DEF MonitorCommit
    <2>2. /\ parser.output = call.name /\ call.name \in Outputs
          /\ parser.rule \in [Fields -> Good \cup {None}]
          /\ Overlay(parser.rule, <<>>) = Overlay(monitor[call.name], call.fields)
      BY <1>0, <2>1 DEF CallHolds, ConfigTypeOK
    <2>3. Overlay(parser.rule, <<>>) = parser.rule
      BY <2>2 DEF Overlay
    <2>4. monitor' \in [Outputs -> [Fields -> Good \cup {None}]] /\ monitor'[call.name] = parser.rule
      BY <1>0, <2>1, <2>2 DEF ConfigTypeOK
    <2>5. WrittenAsAsked'
      BY <2>1, <2>2, <2>3, <2>4 DEF WrittenAsAsked
    <2>6. QED
      BY <1>0, <2>1, <2>4, <2>5 DEF ConfigTypeOK, CallHolds
  <1>11. CASE Abandon
    <2>1. /\ call # None /\ call' = None
          /\ UNCHANGED <<option, monitor, device, curves, animation, permissions, parser, launching, refresh, done>>
          /\ \/ scratch' = scratch
             \/ call.op \in {"option", "gap"} /\ scratch' = Push(Front(scratch), None)
      BY <1>11 DEF Abandon, stores
    <2>2. scratch' \in Seq(Values \cup {None}) /\ Len(scratch') <= 1
      <3>1. CASE scratch' = scratch
        BY <1>0, <3>1 DEF ConfigTypeOK
      <3>2. CASE call.op \in {"option", "gap"} /\ scratch' = Push(Front(scratch), None)
        <4>1. \E v : scratch = <<v>>
          BY <1>0, <2>1, <3>2 DEF CallHolds
        <4>2. Front(scratch) = <<>>
          BY <4>1, OneOnStack
        <4>3. scratch' = <<None>>
          BY <3>2, <4>2, OneOnStack DEF Begin
        <4>4. QED
          BY <4>3
      <3>3. QED
        BY <2>1, <3>1, <3>2
    <2>3. QED
      BY <1>0, <2>1, <2>2 DEF ConfigTypeOK, CallHolds, WrittenAsAsked
  <1>12. QED
    BY <1>1, <1>2, <1>3, <1>4, <1>5, <1>6, <1>7, <1>8, <1>9, <1>10, <1>11 DEF StackNext

LEMMA TablesHold ==
    ASSUME ConfigSound, TablesNext
    PROVE  ConfigTypeOK' /\ CallHolds' /\ WrittenAsAsked'
  <1>0. /\ ConfigTypeOK /\ CallHolds /\ WrittenAsAsked /\ None \notin Values
        /\ Good \subseteq Values /\ MaxFields \in Nat
    BY ConfigAssumption DEF ConfigSound, ConfigAssumption, Values
  <1>1. UNCHANGED <<scratch, option, parser, monitor, call>>
    BY DEF TablesNext, DeviceAdd, BezierCurveAdd, SpringCurveAdd, AnimationSet,
           PermissionAdd, Launched, ScheduleRefresh, PropRefreshImmediately, RunRefresh, stores
  <1>2. CallHolds'
    BY <1>0, <1>1 DEF CallHolds
  <1>3. CASE DeviceAdd
    <2>1. PICK d \in Devices, fs \in Given \cup {<<<<"unknown", v>>>> : v \in Good} :
            \/ /\ \A i \in DOMAIN fs : Coerces(fs[i][1], fs[i][2])
               /\ device' = [device EXCEPT ![d] = Overlay(@, fs)]
               /\ done' = [asked |-> Overlay(device[d], fs), is |-> device'[d]]
               /\ refresh' = TRUE
            \/ /\ UNCHANGED <<device, refresh>>
               /\ done' = [asked |-> device[d], is |-> device'[d]]
      BY <1>3 DEF DeviceAdd
    <2>2. UNCHANGED <<curves, animation, permissions, launching>>
      BY <1>3 DEF DeviceAdd
    <2>3. CASE /\ \A i \in DOMAIN fs : Coerces(fs[i][1], fs[i][2])
               /\ device' = [device EXCEPT ![d] = Overlay(@, fs)]
               /\ done' = [asked |-> Overlay(device[d], fs), is |-> device'[d]]
               /\ refresh' = TRUE
      <3>1. PICK n \in Nat : DOMAIN fs = 1..n
        <4>1. CASE fs \in Given
          BY <1>0, <4>1 DEF Given
        <4>2. CASE fs \in {<<<<"unknown", v>>>> : v \in Good}
          <5>1. PICK q : fs = <<q>>
            BY <4>2
          <5>2. DOMAIN fs = 1..1 /\ 1 \in Nat
            BY <5>1
          <5>3. QED
            BY <5>2
        <4>3. QED
          BY <4>1, <4>2
      <3>2. \A i \in DOMAIN fs : fs[i][2] \in Some(Good)
        BY <2>3 DEF Coerces, Some
      <3>3. device[d] \in [Fields -> Some(Good)]
        BY <1>0 DEF ConfigTypeOK, Some
      <3>4. Overlay(device[d], fs) \in [Fields -> Some(Good)]
        BY <3>1, <3>2, <3>3, OverlayIsRule
      <3>5. device' \in [Devices -> [Fields -> Good \cup {None}]] /\ device'[d] = Overlay(device[d], fs)
        BY <1>0, <2>3, <3>4 DEF ConfigTypeOK, Some
      <3>6. QED
        BY <1>0, <1>1, <1>2, <2>2, <2>3, <3>5 DEF ConfigTypeOK, WrittenAsAsked
    <2>4. CASE UNCHANGED <<device, refresh>> /\ done' = [asked |-> device[d], is |-> device'[d]]
      BY <1>0, <1>1, <1>2, <2>2, <2>4 DEF ConfigTypeOK, WrittenAsAsked
    <2>5. QED
      BY <2>1, <2>3, <2>4
  <1>4. CASE BezierCurveAdd \/ SpringCurveAdd
    <2>1. /\ UNCHANGED <<device, animation, permissions, launching, refresh, done>>
          /\ curves \subseteq curves' /\ curves' \subseteq Names
      BY <1>0, <1>4 DEF BezierCurveAdd, SpringCurveAdd, ConfigTypeOK
    <2>2. animation' \in [Leaves -> curves' \cup {None}]
      BY <1>0, <2>1 DEF ConfigTypeOK
    <2>3. QED
      BY <1>0, <1>1, <1>2, <2>1, <2>2 DEF ConfigTypeOK, WrittenAsAsked
  <1>5. CASE AnimationSet
    <2>1. UNCHANGED <<device, curves, permissions, launching, refresh, done>>
      BY <1>5 DEF AnimationSet
    <2>2. animation' \in [Leaves -> curves' \cup {None}]
      BY <1>0, <1>5, <2>1 DEF AnimationSet, ConfigTypeOK
    <2>3. QED
      BY <1>0, <1>1, <1>2, <2>1, <2>2 DEF ConfigTypeOK, WrittenAsAsked
  <1>6. CASE PermissionAdd \/ Launched \/ ScheduleRefresh \/ PropRefreshImmediately
    <2>1. /\ UNCHANGED <<device, curves, animation>> /\ permissions' \in {permissions, 1}
          /\ launching' \in {launching, FALSE} /\ refresh' \in {refresh, TRUE, FALSE}
          /\ done' \in {done, None}
      BY <1>6 DEF PermissionAdd, Launched, ScheduleRefresh, PropRefreshImmediately, stores
    <2>2. permissions' \in 0..1
      BY <1>0, <2>1 DEF ConfigTypeOK
    <2>3. launching' \in BOOLEAN /\ refresh' \in BOOLEAN
      <3>1. launching \in BOOLEAN /\ refresh \in BOOLEAN
        BY <1>0 DEF ConfigTypeOK
      <3>2. QED
        BY <2>1, <3>1, Zenon
    <2>4. QED
      BY <1>0, <1>1, <1>2, <2>1, <2>2, <2>3 DEF ConfigTypeOK, WrittenAsAsked
  <1>7. QED
    BY <1>3, <1>4, <1>5, <1>6 DEF TablesNext, RunRefresh

LEMMA ConfigSoundAlways == Spec => []ConfigSound
  <1>1. Init => ConfigSound
    <2> SUFFICES ASSUME Init PROVE ConfigSound
      OBVIOUS
    <2>1. CallHolds /\ WrittenAsAsked
      BY DEF Init, ConfigInit, CallHolds, WrittenAsAsked
    <2>2. ConfigTypeOK
      <3>1. scratch \in Seq(Values \cup {None}) /\ Len(scratch) <= 1
        BY EmptyStack DEF Init, ConfigInit
      <3>2. /\ option \in [Keys -> Good \cup {None}] /\ Empty \in [Fields -> Good \cup {None}]
            /\ animation \in [Leaves -> curves \cup {None}] /\ curves \subseteq Names
        BY DEF Init, ConfigInit, Empty
      <3>3. /\ monitor \in [Outputs -> [Fields -> Good \cup {None}]]
            /\ device \in [Devices -> [Fields -> Good \cup {None}]]
        BY <3>2 DEF Init, ConfigInit
      <3>4. parser = None /\ permissions \in 0..1
        BY DEF Init, ConfigInit
      <3>5. launching \in BOOLEAN /\ refresh \in BOOLEAN
        BY Zenon DEF Init, ConfigInit
      <3>6. QED
        BY <3>1, <3>2, <3>3, <3>4, <3>5 DEF ConfigTypeOK
    <2>3. QED
      BY <2>1, <2>2, InitIInv DEF ConfigSound
  <1>2. ConfigSound /\ [Next]_vars => ConfigSound'
    <2> SUFFICES ASSUME ConfigSound, [Next]_vars PROVE ConfigSound'
      OBVIOUS
    <2>1. IInv'
      BY StepIInv DEF ConfigSound
    <2>2. CASE UNCHANGED configVars
      BY <2>1, <2>2 DEF ConfigSound, configVars, ConfigTypeOK, CallHolds, WrittenAsAsked
    <2>3. CASE StackNext \/ TablesNext
      BY <2>1, <2>3, StackHolds, TablesHold DEF ConfigSound
    <2>4. QED
      BY <2>2, <2>3 DEF Next, NotificationActs, ConfigActs, WindowsAct, InputActs, vars
  <1>3. QED
    BY <1>1, <1>2, PTL DEF Spec

(* A call writes what it was given over what was there, and reads what is   *)
(* there, whatever calls before it were cut off between two entry points,   *)
(* for any options, outputs, fields and values (hlConfigSet,                *)
(* hlMonitorCommit, hlSchemeDeviceAdd).                                     *)
THEOREM CallsWriteAsAsked == Spec => []WrittenAsAsked
  <1>1. ConfigSound => WrittenAsAsked
    BY DEF ConfigSound
  <1>2. QED
    BY <1>1, ConfigSoundAlways, PTL
------------------------------------------------------------------------------
(* The types of all the families.                                             *)

\* The focused window is open.
FocusOpen ==
    /\ windowLife \in [Windows -> {"unborn", "live", "dead"}]
    /\ focused \in Open \cup {NoWindow}

\* A member of a group is open, whichever family acts.
MembersOpen == \A w \in Windows : member[w] # NoGroup => w \in Open

LEMMA ArgumentsOpen ==
    ASSUME FocusOpen, NEW a \in Arguments
    PROVE  ActsOn(ActionWindow(a)) \in Open \cup {NoWindow}
  BY DEF FocusOpen, ActsOn, ActionWindow, WindowOrFocused, WindowOf

\* Windows that come and go.
LEMMA MapFocuses ==
    ASSUME FocusOpen, NEW w \in Windows, Map(w) \/ Unborn(w)
    PROVE  FocusOpen'
  <1>1. CASE Map(w)
    <2>1. windowLife' = [windowLife EXCEPT ![w] = "live"] /\ focused' = w
      BY <1>1 DEF Map
    <2>2. w \in Open'
      BY <2>1 DEF FocusOpen, Open
    <2>3. QED
      BY <2>1, <2>2 DEF FocusOpen
  <1>2. CASE Unborn(w)
    <2>1. /\ windowLife' = [windowLife EXCEPT ![w] = "dead"]
          /\ focused' \in IF focused = w THEN (Open \ {w}) \cup {NoWindow} ELSE {focused}
      BY <1>2 DEF Unborn
    <2>2. Open \ {w} \subseteq Open'
      BY <2>1 DEF FocusOpen, Open
    <2>3. QED
      BY <2>1, <2>2 DEF FocusOpen
  <1>3. QED
    BY <1>1, <1>2

LEMMA FocusKeeps ==
    ASSUME FocusOpen, MembersOpen,
           WindowsNext \/ FullscreenNext \/ GroupsNext \/ WorkspacesNext \/ UNCHANGED windowVars
    PROVE  FocusOpen'
  <1>1. CASE UNCHANGED <<windowLife, focused>>
    BY <1>1 DEF FocusOpen, Open
  <1>2. CASE UNCHANGED windowLife /\ focused' \in Open \cup {NoWindow}
    BY <1>2 DEF FocusOpen, Open
  <1>3. CASE \E w \in Windows : Map(w) \/ Unborn(w)
    BY <1>3, MapFocuses
  <1>4. CASE WindowsNext
    <2>1. ASSUME NEW a \in Arguments, Arrange(a) \/ Focus(a)
          PROVE  UNCHANGED windowLife /\ focused' \in Open \cup {NoWindow}
      BY <2>1, ArgumentsOpen DEF FocusOpen, Arrange, Focus
    <2>2. CASE FocusMoves
      BY <1>2, <2>2 DEF FocusMoves
    <2>3. CASE Comings
      BY <1>3, <2>3 DEF Comings
    <2>4. ASSUME NEW a \in Arguments,
                 \/ Get(a) \/ GetFlag(a) \/ GetOptional(a) \/ GetOrFocused(a)
                 \/ \E known \in BOOLEAN : PropGet(a, known)
                 \/ \E b \in Arguments : Same(a, b)
                 \/ Close(a) \/ Pass(a)
                 \/ \E op \in Ops, act \in 0..2 : Dispatch(op, a) \/ Toggle(op, a, act)
                 \/ \E o \in Arguments : SwapWith(a, o)
                 \/ \E m \in BOOLEAN, k \in BOOLEAN : SendKey(a, m, k)
          PROVE  UNCHANGED <<windowLife, focused>>
      BY <2>4 DEF Get, GetFlag, GetOptional, GetOrFocused, PropGet, Same, Close, Pass, Dispatch,
                  Toggle, SwapWith, SendKey, NoActs
    <2>5. CASE (\E m \in BOOLEAN : Command(m)) \/ Exec \/ ClearCrashedLockscreen
      BY <1>1, <2>5 DEF Command, Exec, ClearCrashedLockscreen, NoActs
    <2>6. QED
      BY <1>1, <1>2, <1>4, <2>1, <2>2, <2>3, <2>4, <2>5 DEF WindowsNext
  <1>5. CASE FullscreenNext
    BY <1>1, <1>3, <1>5 DEF FullscreenNext, FullscreenBy, FullscreenSync, Comings
  <1>6. CASE GroupsNext
    <2>1. ASSUME NEW a \in Arguments, GroupCycle(a)
          PROVE  UNCHANGED windowLife /\ focused' \in Open \cup {NoWindow}
      BY <2>1 DEF GroupCycle, Members, MembersOpen, FocusOpen
    <2>2. CASE GroupComings
      BY <1>3, <2>2 DEF GroupComings
    <2>3. ASSUME NEW a \in Arguments,
                 \/ GroupToggle(a) \/ GroupMoveWindow(a)
                 \/ \E yes \in BOOLEAN : GroupSet(a, yes)
                 \/ \E act \in 0..2 : DenyFromGroup(a, act) \/ WindowGroupLock(a, act)
                 \/ \E h \in GroupHandles : GroupAdd(h, a) \/ GroupRemove(h, a)
          PROVE  UNCHANGED <<windowLife, focused>>
      BY <2>3 DEF GroupToggle, GroupMoveWindow, GroupSet, DenyFromGroup, WindowGroupLock, GroupAdd,
                  GroupRemove, NotWindows
    <2>4. CASE \/ \E act \in 0..2 : GroupLockAllSet(act) \/ \E h \in GroupHandles : GroupLockSet(h, act)
               \/ Redrawn
      BY <1>1, <2>4 DEF GroupLockAllSet, GroupLockSet, Redrawn, NotWindows
    <2>5. QED
      BY <1>1, <1>2, <1>6, <2>1, <2>2, <2>3, <2>4 DEF GroupsNext
  <1>7. CASE WorkspacesNext
    <2>1. CASE WindowComings
      <3>1. 1..MaxPlaced \subseteq Windows
        BY WorkspacesAssumption, WindowsAssumption DEF Windows
      <3>2. QED
        BY <1>3, <2>1, <3>1 DEF WindowComings
    <2>2. CASE ~WindowComings
      <3>1. UNCHANGED windowVars
        BY <1>7, <2>2 DEF WorkspacesNext, MoveToWorkspace, WorkspaceToggleSpecial, WorkspaceSpecialSet,
              MonitorSetSpecial, GoesOn, FocusWorkspace, Rename, FocusMonitor, MoveMonitor, SwapMonitors,
              Sweep, Others
      <3>2. QED
        BY <1>1, <3>1 DEF windowVars
    <2>3. QED
      BY <2>1, <2>2
  <1>8. QED
    BY <1>1, <1>4, <1>5, <1>6, <1>7 DEF windowVars

------------------------------------------------------------------------------
\* The types of the groups, beside what GroupsSound says of them.
GroupsRest ==
    /\ made \subseteq GroupIds /\ denied \subseteq made
    /\ drawn \subseteq {w \in Open : member[w] # NoGroup}

LEMMA GroupsTypes == GroupsSound /\ GroupsRest => GroupsTypeOK
  <1> SUFFICES ASSUME GroupsSound, GroupsRest PROVE GroupsTypeOK
    OBVIOUS
  <1>1. member \in [Windows -> made \cup {NoGroup}] /\ made \subseteq GroupIds
    BY DEF GroupsSound, GroupsRest
  <1>2. member \in [Windows -> GroupIds \cup {NoGroup}]
    BY <1>1
  <1>3. {member[w] : w \in Windows} \subseteq made \cup {NoGroup}
    BY <1>1
  <1>4. QED
    BY <1>2, <1>3 DEF GroupsSound, GroupsRest, GroupsTypeOK

LEMMA JoinsRest ==
    ASSUME GroupsSound, GroupsRest, NEW w \in Open, NEW g \in GroupIds, Joins(w, g), UNCHANGED windowLife
    PROVE  GroupsRest'
  <1> DEFINE dead == {h \in GroupIds : \A v \in Windows : member'[v] # h}
  <1>1. /\ member' = [v \in Windows |-> IF v \in {w} THEN g ELSE member[v]]
        /\ denied' = denied \ dead /\ made' = made \cup {g}
        /\ drawn' \subseteq drawn \cup {w}
    BY DEF Joins, Move
  <1> HIDE DEF dead
  <1>2. Open' = Open /\ w \in Windows /\ g # NoGroup
    BY DEF Open, GroupIds, NoGroup
  <1>3. \A v \in drawn' : v \in Open' /\ member'[v] # NoGroup
    <2> SUFFICES ASSUME NEW v \in drawn' PROVE v \in Open /\ member'[v] # NoGroup
      BY <1>2
    <2>1. v \in Open /\ v \in Windows /\ (v # w => member[v] # NoGroup)
      BY <1>1, <1>2 DEF GroupsRest, Open
    <2>2. QED
      BY <1>1, <1>2, <2>1
  <1>4. QED
    BY <1>1, <1>2, <1>3 DEF GroupsRest

LEMMA LeaveRest ==
    ASSUME GroupsRest, NEW S, Leave(S), Open \ S \subseteq Open'
    PROVE  GroupsRest'
  <1> DEFINE dead == {h \in GroupIds : \A v \in Windows : member'[v] # h}
  <1>1. /\ member' = [v \in Windows |-> IF v \in S THEN NoGroup ELSE member[v]]
        /\ denied' = denied \ dead /\ made' = made /\ drawn' = drawn \ S
    BY DEF Leave, Move
  <1> HIDE DEF dead
  <1>2. QED
    BY <1>1 DEF GroupsRest, Open

LEMMA ToggleRest ==
    ASSUME GroupsSound, GroupsRest, NotWindows, NEW w \in Open \cup {NoWindow}, ToggleGroup(w)
    PROVE  GroupsRest'
  <1>1. Open' = Open /\ UNCHANGED windowLife
    BY DEF NotWindows, Open
  <1>2. CASE Stay
    BY <1>1, <1>2 DEF Stay, GroupsRest
  <1>3. CASE w # NoWindow /\ member[w] = NoGroup
    <2>1. PICK n \in Nat : made = 1..n
      BY DEF GroupsSound
    <2>2. Cardinality(made) = n
      <3>1. Cardinality(1..n) = IF 1 > n THEN 0 ELSE n - 1 + 1
        BY FS_Interval
      <3>2. QED
        BY <2>1, <3>1
    <2>3. n < MaxGroups /\ Joins(w, n + 1)
      BY <1>3, <2>2 DEF ToggleGroup
    <2>4. n + 1 \in GroupIds
      BY <2>1, <2>3, GroupsAssumption DEF GroupIds
    <2>5. QED
      BY <1>1, <1>3, <2>3, <2>4, JoinsRest
  <1>4. CASE w # NoWindow /\ member[w] # NoGroup
    <2>1. Leave(Members(member[w]))
      BY <1>4 DEF ToggleGroup
    <2>2. QED
      BY <1>1, <2>1, LeaveRest
  <1>5. QED
    BY <1>2, <1>3, <1>4 DEF ToggleGroup

\* Decorations that are told of their lock are those of members.
LEMMA ToldRest ==
    ASSUME GroupsSound, GroupsRest, GroupsSound', NotWindows, UNCHANGED <<member, made, denied>>,
           (\E S \in SUBSET Windows : Refreshed(S)) \/ UNCHANGED drawn
    PROVE  GroupsRest'
  <1>1. Open' = Open
    BY DEF NotWindows, Open
  <1>2. CASE UNCHANGED drawn
    BY <1>1, <1>2 DEF GroupsRest
  <1>3. ASSUME NEW S \in SUBSET Windows, Refreshed(S) PROVE GroupsRest'
    <2>1. NoGroup \notin locked'
      BY DEF GroupsSound, GroupsRest, GroupIds, NoGroup
    <2>2. \A w \in S : member[w] \in locked' => w \in Open /\ member[w] # NoGroup
      BY <2>1 DEF GroupsSound
    <2>3. QED
      BY <1>1, <1>3, <2>2 DEF GroupsRest, Refreshed
  <1>4. QED
    BY <1>2, <1>3

LEMMA GroupsRestKeeps ==
    ASSUME GroupsSound, LockIsDrawn, GroupsRest, GroupsNext
    PROVE  GroupsRest'
  <1>1. GroupsSound'
    BY LocksKeep
  <1>2. ASSUME NEW a \in Arguments,
               GroupToggle(a) \/ \E yes \in BOOLEAN : GroupSet(a, yes)
        PROVE  GroupsRest'
    <2>1. /\ NotWindows
          /\ \/ Stay
             \/ ToggleGroup(ActsOn(ActionWindow(a)))
             \/ ToggleGroup(WindowOrFocused(a))
      BY <1>2 DEF GroupToggle, GroupSet
    <2>2. CASE Stay
      BY <2>1, <2>2 DEF Stay, GroupsRest, NotWindows, Open
    <2>3. QED
      BY <2>1, <2>2, ActsOnOpen, ToggleRest
  <1>3. CASE \E a \in Arguments : GroupCycle(a) \/ GroupMoveWindow(a)
    <2>1. UNCHANGED <<windowLife, groupVars>>
      BY <1>3 DEF GroupCycle, GroupMoveWindow, NotWindows
    <2>2. QED
      BY <2>1 DEF groupVars, GroupsRest, Open
  <1>4. ASSUME NEW a \in Arguments, NEW act \in 0..2, DenyFromGroup(a, act)
        PROVE  GroupsRest'
    <2>1. /\ focused # NoWindow /\ denied' = Switched(denied, member[focused], act)
          /\ member[focused] # NoGroup /\ UNCHANGED <<windowLife, member, made, drawn>>
      BY <1>4 DEF DenyFromGroup, NotWindows
    <2>2. member[focused] \in made
      BY <2>1 DEF GroupsSound, Open
    <2>3. denied' \subseteq made
      BY <2>1, <2>2 DEF Switched, GroupsRest
    <2>4. QED
      BY <2>1, <2>3 DEF GroupsRest, Open
  <1>5. ASSUME NEW act \in 0..2, GroupLockAllSet(act)
        PROVE  GroupsRest'
    BY <1>5 DEF GroupLockAllSet, NotWindows, GroupsRest, Open
  <1>6. ASSUME NEW a \in Arguments, NEW act \in 0..2, WindowGroupLock(a, act)
        PROVE  GroupsRest'
    <2>1. /\ NotWindows /\ UNCHANGED <<member, made, denied>>
          /\ UNCHANGED drawn \/ (WindowOrFocused(a) # NoWindow /\ Refreshed({WindowOrFocused(a)}))
      BY <1>6 DEF WindowGroupLock
    <2>2. WindowOrFocused(a) # NoWindow => {WindowOrFocused(a)} \in SUBSET Windows
      BY ActsOnOpen DEF Open
    <2>3. QED
      BY <1>1, <2>1, <2>2, ToldRest
  <1>7. ASSUME NEW h \in GroupHandles, NEW act \in 0..2, GroupLockSet(h, act)
        PROVE  GroupsRest'
    <2>1. /\ NotWindows /\ UNCHANGED <<member, made, denied>>
          /\ UNCHANGED drawn \/ Refreshed(Members(GroupOf(h)))
      BY <1>7 DEF GroupLockSet
    <2>2. Members(GroupOf(h)) \in SUBSET Windows
      BY DEF Members
    <2>3. QED
      BY <1>1, <2>1, <2>2, ToldRest
  <1>8. ASSUME NEW a \in Arguments, NEW h \in GroupHandles, GroupAdd(h, a) \/ GroupRemove(h, a)
        PROVE  GroupsRest'
    <2>1. NotWindows /\ Open' = Open /\ UNCHANGED windowLife
      BY <1>8 DEF GroupAdd, GroupRemove, NotWindows, Open
    <2>2. CASE Stay
      BY <2>1, <2>2 DEF Stay, GroupsRest
    <2>3. CASE GroupOf(h) # NoGroup /\ WindowOf(a) # NoWindow /\ Joins(WindowOf(a), GroupOf(h))
      <3>1. GroupOf(h) \in GroupIds /\ WindowOf(a) \in Open
        BY <2>3, ActsOnOpen DEF GroupOf, GroupHandles, GroupsRest
      <3>2. QED
        BY <2>1, <2>3, <3>1, JoinsRest
    <2>4. CASE Leave({WindowOf(a)})
      BY <2>1, <2>4, LeaveRest
    <2>5. QED
      BY <1>8, <2>2, <2>3, <2>4 DEF GroupAdd, GroupRemove
  <1>9. CASE GroupComings
    <2>1. ASSUME NEW w \in Windows, Map(w), Stay PROVE GroupsRest'
      <3>1. Open \subseteq Open'
        BY <2>1 DEF Map, Open, GroupsSound
      <3>2. QED
        BY <2>1, <3>1 DEF Stay, GroupsRest
    <2>2. ASSUME NEW w \in Windows, Unborn(w), Leave({w}) PROVE GroupsRest'
      <3>1. Open \ {w} \subseteq Open'
        BY <2>2 DEF Unborn, Open, GroupsSound
      <3>2. QED
        BY <2>2, <3>1, LeaveRest
    <2>3. QED
      BY <1>9, <2>1, <2>2 DEF GroupComings
  <1>10. CASE Redrawn
    <2>1. PICK w \in Open : Refreshed({w})
      BY <1>10 DEF Redrawn
    <2>2. NotWindows /\ UNCHANGED <<member, made, denied>> /\ {w} \in SUBSET Windows
      BY <1>10 DEF Redrawn, Open
    <2>3. QED
      BY <1>1, <2>1, <2>2, ToldRest
  <1>11. QED
    BY <1>2, <1>3, <1>4, <1>5, <1>6, <1>7, <1>8, <1>9, <1>10 DEF GroupsNext

------------------------------------------------------------------------------
\* The types of the workspaces, beside what SpacesTyped says of them.
Homed == \A s \in Spaces : s \in exists <=> home[s] # NoSpace
Single(o) == \A s \in Specials : \A m, n \in Monitors : o[m] = s /\ o[n] = s => m = n
SpacesRest == Homed /\ Single(overlay) /\ Len(calls) <= MaxCalls

LEMMA SpacesTypes == SpacesTyped /\ SpacesRest => WorkspacesTypeOK
  BY DEF SpacesTyped, SpacesRest, Homed, Single, Overlays, WorkspacesTypeOK

LEMMA ShownSingle ==
    ASSUME SpacesTyped, SpacesRest, NEW m \in Monitors, NEW s
    PROVE  Single(Shown(m, s))
  <1> SUFFICES ASSUME NEW x \in Specials, NEW p \in Monitors, NEW q \in Monitors,
                      Shown(m, s)[p] = x, Shown(m, s)[q] = x
               PROVE  p = q
    BY DEF Single
  <1>1. x # NoSpace
    BY WorkspacesAssumption
  <1>2. \A n \in Monitors : n # m /\ Shown(m, s)[n] = x => overlay[n] = x /\ x # s
    BY <1>1 DEF Shown
  <1>3. Shown(m, s)[m] = s
    BY DEF Shown
  <1>4. CASE p = m \/ q = m
    BY <1>2, <1>3, <1>4
  <1>5. CASE p # m /\ q # m
    BY <1>2, <1>5 DEF SpacesRest, Single
  <1>6. QED
    BY <1>4, <1>5

LEMMA ClosedSingle ==
    ASSUME SpacesTyped, SpacesRest, NEW m \in Monitors
    PROVE  Single([overlay EXCEPT ![m] = NoSpace])
  BY WorkspacesAssumption DEF SpacesTyped, SpacesRest, Single, Overlays

LEMMA ToggledSingle ==
    ASSUME SpacesTyped, SpacesRest, NEW s
    PROVE  Single(Toggled(s))
  <1>1. focusedMonitor \in Monitors
    BY DEF SpacesTyped
  <1>2. QED
    BY <1>1, ShownSingle, ClosedSingle DEF Toggled

LEMMA CreateHomed ==
    ASSUME SpacesTyped, SpacesRest, NEW s \in Spaces \ exists, NEW m \in Monitors, NEW empty \in BOOLEAN,
           Create(s, m, empty)
    PROVE  Homed'
  <1>1. m # NoSpace
    BY WorkspacesAssumption
  <1>2. QED
    BY <1>1 DEF SpacesTyped, SpacesRest, Homed, Create

LEMMA LandsSingle ==
    ASSUME SpacesTyped, SpacesRest, NEW w, NEW s \in exists, NEW silent \in BOOLEAN, Lands(w, s, silent)
    PROVE  Single(overlay')
  <1>1. home[s] \in Monitors
    BY DEF SpacesTyped
  <1>2. overlay' = overlay \/ overlay' = Shown(home[s], s)
    BY DEF Lands
  <1>3. QED
    BY <1>1, <1>2, ShownSingle DEF SpacesRest

\* A call that has to wait finds room.
LEMMA AppendRoom ==
    ASSUME calls \in Seq(Calls), Len(calls) < MaxCalls, NEW c, calls' = Append(calls, c)
    PROVE  Len(calls') <= MaxCalls
  BY WorkspacesAssumption

\* What changes neither the workspaces, nor what is shown, nor the calls.
LEMMA SpacesStay ==
    ASSUME SpacesRest, UNCHANGED <<exists, home, overlay, calls>>
    PROVE  SpacesRest'
  BY DEF SpacesRest, Homed

LEMMA MoveRest ==
    ASSUME SpacesSound, SpacesRest, NEW a \in Arguments, NEW s \in Selectors, NEW silent \in BOOLEAN,
           MoveToWorkspace(a, s, silent)
    PROVE  SpacesRest'
  <1> DEFINE w == WindowOrFocused(a)
  <1>1. SpacesTyped /\ calls \in Seq(Calls) /\ Len(calls) < MaxCalls
    BY DEF SpacesSound, AllWait, MoveToWorkspace, Ready
  <1>2. CASE UNCHANGED <<exists, home, overlay, calls>>
    BY <1>2, SpacesStay
  <1>3. CASE s \in exists /\ Lands(w, s, silent) /\ UNCHANGED <<exists, home, calls>>
    BY <1>1, <1>3, LandsSingle DEF SpacesRest, Homed
  <1>4. CASE /\ s \in Spaces \ exists /\ UNCHANGED overlay
             /\ Create(s, IF on[w] \in exists THEN home[on[w]] ELSE focusedMonitor, FALSE)
             /\ calls' = Append(calls, [op |-> "move", window |-> w, ws |-> s,
                                        silent |-> silent, view |-> View])
    <2> DEFINE m == IF on[w] \in exists THEN home[on[w]] ELSE focusedMonitor
    <2>1. m \in Monitors
      BY <1>1 DEF SpacesTyped
    <2> HIDE DEF m
    <2>2. Create(s, m, FALSE) /\ s \in Spaces \ exists
      BY <1>4 DEF m
    <2>3. Homed'
      BY <1>1, <2>1, <2>2, CreateHomed
    <2>4. QED
      BY <1>1, <1>4, <2>3, AppendRoom DEF SpacesRest
  <1>5. QED
    BY <1>2, <1>3, <1>4 DEF MoveToWorkspace

LEMMA ToggleSpecialRest ==
    ASSUME SpacesSound, SpacesRest, Ready, NEW s \in Specials \cup {NoSpace}, NEW wish, ToggleSpecial(s, wish)
    PROVE  SpacesRest'
  <1>1. SpacesTyped /\ calls \in Seq(Calls) /\ Len(calls) < MaxCalls /\ focusedMonitor \in Monitors
    BY DEF SpacesSound, AllWait, Ready, SpacesTyped
  <1>2. CASE UNCHANGED <<exists, home, overlay, calls>>
    BY <1>2, SpacesStay
  <1>3. CASE overlay' = Toggled(s) /\ UNCHANGED <<exists, home, calls>>
    BY <1>1, <1>3, ToggledSingle DEF SpacesRest, Homed
  <1>4. CASE /\ s \in Spaces \ exists /\ Create(s, focusedMonitor, TRUE) /\ UNCHANGED overlay
             /\ calls' = Append(calls, [op |-> "toggle", ws |-> s, wish |-> wish, view |-> View])
    BY <1>1, <1>4, CreateHomed, AppendRoom DEF SpacesRest
  <1>5. QED
    BY <1>2, <1>3, <1>4, WorkspacesAssumption DEF ToggleSpecial

LEMMA SpecialRest ==
    ASSUME SpacesSound, SpacesRest, NEW s \in Specials \cup {NoSpace},
           \/ WorkspaceToggleSpecial(s)
           \/ \E b \in BOOLEAN : WorkspaceSpecialSet(s, b)
           \/ \E m \in Monitors : MonitorSetSpecial(m, s)
    PROVE  SpacesRest'
  <1>1. SpacesTyped /\ calls \in Seq(Calls)
    BY DEF SpacesSound, AllWait
  <1>2. CASE WorkspaceToggleSpecial(s)
    BY <1>2, ToggleSpecialRest DEF WorkspaceToggleSpecial
  <1>3. ASSUME NEW b \in BOOLEAN, WorkspaceSpecialSet(s, b) PROVE SpacesRest'
    BY <1>3, ToggleSpecialRest, SpacesStay DEF WorkspaceSpecialSet
  <1>4. ASSUME NEW m \in Monitors, MonitorSetSpecial(m, s) PROVE SpacesRest'
    <2>1. CASE s = NoSpace \/ s \in exists
      <3>1. /\ overlay' = IF s = NoSpace THEN [overlay EXCEPT ![m] = NoSpace] ELSE Shown(m, s)
            /\ UNCHANGED <<exists, home, calls>>
        BY <1>4, <2>1 DEF MonitorSetSpecial
      <3>2. QED
        BY <1>1, <3>1, ShownSingle, ClosedSingle DEF SpacesRest, Homed
    <2>2. CASE ~(s = NoSpace \/ s \in exists)
      <3>1. /\ s \in Spaces \ exists /\ Create(s, m, TRUE) /\ UNCHANGED overlay /\ Len(calls) < MaxCalls
            /\ calls' = Append(calls, [op |-> "show", ws |-> s, at |-> m, view |-> View])
        BY <1>4, <2>2, WorkspacesAssumption DEF MonitorSetSpecial, Ready
      <3>2. QED
        BY <1>1, <3>1, CreateHomed, AppendRoom DEF SpacesRest
    <2>3. QED
      BY <2>1, <2>2
  <1>5. QED
    BY <1>2, <1>3, <1>4

LEMMA GoesOnRest ==
    ASSUME SpacesSound, SpacesRest, GoesOn
    PROVE  SpacesRest'
  <1>1. /\ SpacesTyped /\ calls \in Seq(Calls) /\ calls # <<>> /\ calls' = Front(calls)
        /\ UNCHANGED <<exists, home>>
    BY DEF SpacesSound, AllWait, GoesOn
  <1>2. PICK c \in Calls : c = Last(calls) /\ Waits(c)
    BY <1>1, FrontAndLast, LenProperties DEF SpacesSound, AllWait
  <1>3. Len(calls') <= MaxCalls
    BY <1>1, FrontAndLast, WorkspacesAssumption DEF SpacesRest
  <1>4. Single(overlay')
    <2>1. CASE c.op = "move"
      <3>1. Lands(c.window, c.ws, c.silent) /\ c.ws \in exists /\ c.silent \in BOOLEAN
        BY <1>2, <2>1 DEF GoesOn, Calls, Waits
      <3>2. QED
        BY <1>1, <3>1, LandsSingle
    <2>2. CASE c.op = "toggle"
      <3>1. overlay' = Toggled(c.ws)
        BY <1>2, <2>2 DEF GoesOn
      <3>2. QED
        BY <1>1, <3>1, ToggledSingle
    <2>3. CASE c.op = "show"
      <3>1. overlay' = Shown(c.at, c.ws) /\ c.at \in Monitors
        BY <1>2, <2>3 DEF GoesOn, Calls
      <3>2. QED
        BY <1>1, <3>1, ShownSingle
    <2>4. QED
      BY <2>1, <2>2, <2>3 DEF Calls
  <1>5. QED
    BY <1>1, <1>3, <1>4 DEF SpacesRest, Homed

LEMMA RenameRest ==
    ASSUME SpacesSound, SpacesRest, NEW s, NEW t, Rename(s, t)
    PROVE  SpacesRest'
  <1>1. /\ SpacesTyped /\ s \in exists /\ t \in Spaces \ exists
        /\ exists' = {IF x = s THEN t ELSE x : x \in exists}
        /\ home' = [home EXCEPT ![t] = home[s], ![s] = NoSpace]
        /\ UNCHANGED <<overlay, calls>>
    BY DEF SpacesSound, Rename
  <1>2. exists' = (exists \ {s}) \cup {t}
    BY <1>1
  <1>3. Homed'
    BY <1>1, <1>2 DEF SpacesTyped, SpacesRest, Homed
  <1>4. QED
    BY <1>1, <1>3 DEF SpacesRest

LEMMA SweepRest ==
    ASSUME SpacesSound, SpacesRest, NEW s \in Spaces, Sweep(s)
    PROVE  SpacesRest'
  <1>1. /\ SpacesTyped /\ calls \in Seq(Calls) /\ exists' = exists \ {s}
        /\ home' = [home EXCEPT ![s] = NoSpace] /\ UNCHANGED overlay
        /\ calls' = [i \in DOMAIN calls |-> IF calls[i].ws = s THEN [calls[i] EXCEPT !.ws = Gone]
                                            ELSE calls[i]]
    BY DEF SpacesSound, AllWait, Sweep
  <1>2. Homed'
    BY <1>1 DEF SpacesTyped, SpacesRest, Homed
  <1>3. Len(calls') = Len(calls)
    <2> DEFINE f(i) == IF calls[i].ws = s THEN [calls[i] EXCEPT !.ws = Gone] ELSE calls[i]
    <2>1. DOMAIN calls = 1..Len(calls) /\ Len(calls) \in Nat
      BY <1>1, LenProperties
    <2>2. calls' = [i \in 1..Len(calls) |-> f(i)]
      BY <1>1, <2>1
    <2> HIDE DEF f
    <2>3. QED
      BY <2>1, <2>2
  <1>4. QED
    BY <1>1, <1>2, <1>3 DEF SpacesRest

LEMMA ComposRest ==
    ASSUME SpacesSound, SpacesRest,
           \/ \E s \in Selectors : FocusWorkspace(s)
           \/ \E m \in Monitors : \/ FocusMonitor(m)
                                  \/ \E s \in Selectors : MoveMonitor(s, m)
                                  \/ \E n \in Monitors : SwapMonitors(m, n)
           \/ WindowComings
    PROVE  SpacesRest'
  <1>1. SpacesTyped /\ UNCHANGED <<overlay, calls>>
    BY DEF SpacesSound, FocusWorkspace, FocusMonitor, MoveMonitor, SwapMonitors, WindowComings
  <1>2. CASE UNCHANGED <<exists, home>>
    BY <1>1, <1>2, SpacesStay
  <1>3. ASSUME NEW s \in Spaces \ exists, Create(s, focusedMonitor, FALSE) PROVE SpacesRest'
    BY <1>1, <1>3, CreateHomed DEF SpacesRest, SpacesTyped
  <1>4. ASSUME NEW m \in Monitors, NEW n \in Monitors, NEW s \in Selectors,
               MoveMonitor(s, m) \/ SwapMonitors(m, n)
        PROVE  SpacesRest'
    <2>1. NoSpace \notin Monitors
      BY WorkspacesAssumption
    <2>2. Homed'
      BY <1>1, <1>4, <2>1 DEF MoveMonitor, SwapMonitors, SpacesTyped, SpacesRest, Homed
    <2>3. QED
      BY <1>1, <2>2 DEF SpacesRest
  <1>5. QED
    BY <1>2, <1>3, <1>4 DEF FocusWorkspace, FocusMonitor, WindowComings, Selectors

LEMMA SpacesRestKeeps ==
    ASSUME SpacesSound, SpacesRest, WorkspacesNext
    PROVE  SpacesRest'
  BY MoveRest, SpecialRest, GoesOnRest, RenameRest, ComposRest, SweepRest DEF WorkspacesNext

------------------------------------------------------------------------------
\* What is left of the types, with what each family keeps of the rest.
TypesRest ==
    /\ FocusOpen
    /\ IF acting = "groups" THEN GroupsRest ELSE GroupsTypeOK
    /\ IF acting = "workspaces" THEN SpacesRest ELSE WorkspacesTypeOK

LEMMA TypesInit == Init => TypesRest
  <1> SUFFICES ASSUME Init PROVE TypesRest
    OBVIOUS
  <1>1. /\ windowLife = [w \in Windows |-> "unborn"] /\ focused = NoWindow
        /\ member = [w \in Windows |-> NoGroup]
        /\ made = {} /\ locked = {} /\ byWindow = {} /\ denied = {} /\ drawn = {}
    BY DEF Init, WindowsInit, GroupsInit
  <1>2. FocusOpen
    BY <1>1 DEF FocusOpen
  <1>3. GroupsRest /\ GroupsTypeOK
    BY <1>1 DEF GroupsRest, GroupsTypeOK
  <1>4. /\ exists = {} /\ flagged = {} /\ home = [s \in Spaces |-> NoSpace]
        /\ overlay = [m \in Monitors |-> NoSpace]
        /\ focusedMonitor \in Monitors /\ calls = <<>>
    BY WorkspacesAssumption DEF Init, WorkspacesInit
  <1>5. Homed /\ Single(overlay) /\ Len(calls) <= MaxCalls
    BY <1>4, WorkspacesAssumption DEF Homed, Single
  <1>6. WorkspacesTypeOK
    BY <1>4, <1>5 DEF Homed, Single, WorkspacesTypeOK
  <1>7. QED
    BY <1>2, <1>3, <1>5, <1>6 DEF TypesRest, SpacesRest

LEMMA TypesStep ==
    ASSUME LockInv, SpacesInv, TypesRest, [Next]_vars
    PROVE  TypesRest'
  <1>1. acting' = acting
    BY DEF Next, NotificationActs, ConfigActs, WindowsAct, InputActs, vars
  <1>2. MembersOpen
    BY DEF LockInv, GroupsSound, MembersOpen
  <1>3. WindowsNext \/ FullscreenNext \/ GroupsNext \/ WorkspacesNext \/ UNCHANGED windowVars
    BY DEF Next, NotificationActs, ConfigActs, WindowsAct, InputActs, vars
  <1>4. FocusOpen'
    BY <1>2, <1>3, FocusKeeps DEF TypesRest
  <1>5. IF acting = "groups" THEN GroupsRest' ELSE GroupsTypeOK'
    <2>1. CASE acting = "groups"
      <3>1. GroupsNext \/ UNCHANGED <<groupVars, windowVars>>
        BY <2>1 DEF Next, NotificationActs, ConfigActs, WindowsAct, InputActs, vars
      <3>2. GroupsRest'
        BY <2>1, <3>1, GroupsRestKeeps DEF LockInv, TypesRest, groupVars, windowVars, GroupsRest, Open
      <3>3. QED
        BY <2>1, <3>2
    <2>2. CASE acting # "groups"
      <3>1. UNCHANGED groupVars /\ GroupsTypeOK
        BY <2>2 DEF Next, NotificationActs, ConfigActs, WindowsAct, InputActs, vars, TypesRest
      <3>2. (\A w \in Windows : member[w] = NoGroup) /\ drawn = {}
        BY <2>2, <3>1 DEF LockInv, GroupsTypeOK, Open
      <3>3. GroupsTypeOK'
        BY <3>1, <3>2 DEF GroupsTypeOK, groupVars
      <3>4. QED
        BY <2>2, <3>3
    <2>3. QED
      BY <2>1, <2>2
  <1>6. IF acting = "workspaces" THEN SpacesRest' ELSE WorkspacesTypeOK'
    <2>1. CASE acting = "workspaces"
      <3>1. WorkspacesNext \/ UNCHANGED spaceVars
        BY <2>1 DEF Next, NotificationActs, ConfigActs, WindowsAct, InputActs, vars
      <3>2. SpacesSound /\ SpacesRest
        BY <2>1 DEF SpacesInv, SpaceInv, TypesRest
      <3>3. CASE UNCHANGED spaceVars
        BY <2>1, <3>2, <3>3, SpacesStay DEF spaceVars
      <3>4. QED
        BY <2>1, <3>1, <3>2, <3>3, SpacesRestKeeps
    <2>2. CASE acting # "workspaces"
      <3>1. UNCHANGED spaceVars /\ WorkspacesTypeOK
        BY <2>2 DEF Next, NotificationActs, ConfigActs, WindowsAct, InputActs, vars, TypesRest
      <3>2. WorkspacesTypeOK'
        BY <3>1 DEF spaceVars, WorkspacesTypeOK
      <3>3. QED
        BY <2>2, <3>2
    <2>3. QED
      BY <2>1, <2>2
  <1>7. QED
    BY <1>1, <1>4, <1>5, <1>6 DEF TypesRest

LEMMA TypesTogether ==
    ASSUME LockInv, SpacesInv, TypesRest, NotificationsSound, GesturesSound, ConfigSound
    PROVE  TypeOK
  <1>1. NotificationTypeOK /\ ConfigTypeOK /\ GesturesTypeOK
    BY DEF NotificationsSound, HandlesSound, NotificationTypeOK, ConfigSound, GesturesSound
  <1>2. WindowsTypeOK
    BY DEF SpacesInv, WindowsTyped, TypesRest, FocusOpen, WindowsTypeOK
  <1>3. GroupsTypeOK
    BY GroupsTypes DEF LockInv, TypesRest
  <1>4. WorkspacesTypeOK
    BY SpacesTypes DEF SpacesInv, SpaceInv, SpacesSound, TypesRest
  <1>5. QED
    BY <1>1, <1>2, <1>3, <1>4 DEF TypeOK

(* The variables of all the families keep their types, for any constants:  *)
(* the focused window is open, a member of a group is open and its group   *)
(* was made, a workspace is on a monitor while it exists, and a special    *)
(* one is shown on one monitor at most (toggleSpecial, Shown).             *)
THEOREM TypeCorrect == Spec => []TypeOK
  <1> DEFINE Sound == LockInv /\ SpacesInv /\ NotificationsSound /\ GesturesSound /\ ConfigSound
  <1>1. Spec => []Sound
    BY LocksAlways, SpacesAlways, NotificationsAlways, GesturesAlways, ConfigSoundAlways, PTL
  <1>2. Sound /\ TypesRest /\ [Next]_vars => TypesRest'
    BY TypesStep
  <1>3. Sound /\ TypesRest => TypeOK
    BY TypesTogether
  <1> HIDE DEF Sound
  <1>4. QED
    BY <1>1, <1>2, <1>3, TypesInit, PTL DEF Spec

=============================================================================
