-------------------------------- MODULE Windows --------------------------------
(***************************************************************************)
(* What a script does to a window (Window.cpp, Exec.cpp, window.scm).      *)
(* Every call takes a handle, whose window may be long gone, or #f, which  *)
(* means the focused window.  The compositor's own actions take an         *)
(* optional window, and an absent one means the focused window too: a dead *)
(* handle must reach them as a null window and never as an absent one.     *)
(* That a handle, once dead, stays dead is Handles.tla's DeadStaysDead.    *)
(***************************************************************************)
EXTENDS Integers, Errors

CONSTANTS MaxWindows,                 \* how many windows there are (the bound)
          Focused,                    \* the argument #f
          Ops,                        \* actions on a window, Toggles among them
          Toggles,
          FullModes, NoMode           \* fullscreen modes, NoMode among them

\* 'keep, which asks to leave a side alone, and is also what a mode reads as
\* where there is no window.
Keep == -1

ASSUME WindowsAssumption ==
    /\ MaxWindows \in Nat /\ Focused \in Int /\ Focused < 0
    /\ Toggles \subseteq Ops /\ NoMode \in FullModes /\ Keep \notin FullModes

\* The windows are numbered in the order in which they come.
Windows == 1..MaxWindows
NoWindow == 0

VARIABLES windowLife, \* "unborn", "live" or "dead"
          focused,    \* the focused window, or NoWindow
          marks,      \* marks[w]: which of Ops have been done to w, or are on
          full,       \* full[w]: its internal and its client fullscreen mode
          asked       \* the last call: its operation, its window arguments,
                      \* and what the entry point answered

windowVars == <<windowLife, focused, marks, full, asked>>

Open == {w \in Windows : windowLife[w] = "live"}
Arguments == {Focused} \cup {w \in Windows : windowLife[w] # "unborn"}
Compositor == [op |-> "none", args |-> {}, answer |-> 0]

WindowsInit ==
    /\ windowLife = [w \in Windows |-> "unborn"]
    /\ focused = NoWindow
    /\ marks = [w \in Windows |-> {}]
    /\ full = [w \in Windows |-> <<NoMode, NoMode>>]
    /\ asked = Compositor

\* hl::windowOf: the window, or null; #f is no handle and is refused before.
WindowOf(a) == IF a \in Open THEN a ELSE NoWindow

\* windowOrFocused.
WindowOrFocused(a) == IF a = Focused THEN focused ELSE WindowOf(a)

\* Mutant: a dead window is given to the actions as an absent one.
ActionWindowAbsent(a) == IF WindowOrFocused(a) = NoWindow THEN <<>> ELSE <<WindowOrFocused(a)>>

\* actionWindow: the optional is always there, and may hold null.
ActionWindow(a) == <<WindowOrFocused(a)>>

\* Config::Actions, given an optional window.
ActsOn(optional) == IF optional = <<>> THEN focused ELSE optional[1]

Answer(args, answer) == asked' = [op |-> "act", args |-> args, answer |-> answer]

\* actionResult: the compositor does it, or refuses and is asked again or not.
Acted(args, w, new) ==
    \/ /\ w # NoWindow
       /\ marks' = [marks EXCEPT ![w] = new]
       /\ Answer(args, 0)
    \/ Answer(args, -2) /\ UNCHANGED marks

\* act: 0 toggles, 1 sets, 2 clears.
Switched(on, x, act) ==
    CASE act = 0 -> IF x \in on THEN on \ {x} ELSE on \cup {x}
      [] act = 1 -> on \cup {x}
      [] act = 2 -> on \ {x}

NoActs == UNCHANGED <<windowLife, focused, full>> /\ Fine

-------------------------------------------------------------------------------

\* The getters: #f for a dead handle, and nothing changes.
Get(a) ==
    /\ a \in Arguments \ {Focused}
    /\ Answer({a}, IF WindowOf(a) = NoWindow THEN -1 ELSE 0)
    /\ UNCHANGED marks /\ NoActs

\* The getters that take #f for the focused window.
GetOrFocused(a) ==
    /\ a \in Arguments
    /\ Answer({a}, IF WindowOrFocused(a) = NoWindow THEN -1 ELSE 0)
    /\ UNCHANGED marks /\ NoActs

\* The flags: a dead handle's are off, like a live window's that has them off.
GetFlag(a) ==
    /\ a \in Arguments \ {Focused}
    /\ \E flag \in {0} \cup {1 : w \in {WindowOf(a)} \ {NoWindow}} : Answer({a}, flag)
    /\ UNCHANGED marks /\ NoActs

\* What a window may live without: tags, the window it swallowed, its layout
\* and, under some layouts, its column.
GetOptional(a) ==
    /\ a \in Arguments \ {Focused}
    /\ \E found \in {-1} \cup {0 : w \in {WindowOf(a)} \ {NoWindow}} : Answer({a}, found)
    /\ UNCHANGED marks /\ NoActs

\* hl-window-prop: #f also for a name it does not know.
PropGet(a, known) ==
    /\ a \in Arguments
    /\ Answer({a}, IF WindowOrFocused(a) = NoWindow \/ ~known THEN -1 ELSE 0)
    /\ UNCHANGED marks /\ NoActs

\* hl-window-same?: the same object, which a dead one never is.
Same(a, b) ==
    /\ {a, b} \subseteq Arguments \ {Focused}
    /\ Answer({a, b}, IF WindowOf(a) # NoWindow /\ WindowOf(a) = WindowOf(b) THEN 1 ELSE 0)
    /\ UNCHANGED marks /\ NoActs

\* Move, swap, cycle, centre, resize: where a window is is not kept, and the
\* focus may go to another one.
Arrange(a) ==
    /\ a \in Arguments
    /\ \/ /\ ActsOn(ActionWindow(a)) # NoWindow
          /\ focused' \in Open
          /\ Answer({a}, 0)
       \/ Answer({a}, -2) /\ UNCHANGED focused
    /\ Fine /\ UNCHANGED <<windowLife, marks, full>>

\* The actions that only pass their window on: kill, signal, z-order, props,
\* tags, into and out of groups.
Dispatch(op, a) ==
    /\ a \in Arguments /\ op \in Ops \ Toggles
    /\ LET w == ActsOn(ActionWindow(a)) IN
       Acted({a}, w, IF w = NoWindow THEN {} ELSE marks[w] \cup {op})
    /\ NoActs

\* Float, pin, pseudo.
Toggle(op, a, act) ==
    /\ a \in Arguments /\ op \in Toggles
    /\ LET w == ActsOn(ActionWindow(a)) IN
       Acted({a}, w, IF w = NoWindow THEN {} ELSE Switched(marks[w], op, act))
    /\ NoActs

\* hl-window-swap-with!: the other window first, which may not be #f.
SwapWith(a, other) ==
    /\ a \in Arguments /\ other \in Arguments \ {Focused}
    /\ IF WindowOf(other) = NoWindow
       THEN Answer({a, other}, -1) /\ UNCHANGED marks
       ELSE LET w == ActsOn(ActionWindow(a)) IN
            IF w = NoWindow
            THEN Answer({a, other}, -2) /\ UNCHANGED marks
            ELSE /\ marks' = [marks EXCEPT ![w] = marks[other], ![other] = marks[w]]
                 /\ Answer({a, other}, 0)
    /\ NoActs

\* hl-window-close!: asks; the window goes in its own time.
Close(a) ==
    /\ a \in Arguments
    /\ Answer({a}, IF ActsOn(ActionWindow(a)) = NoWindow THEN -2 ELSE 0)
    /\ UNCHANGED marks /\ NoActs

\* hl-window-focus!.
Focus(a) ==
    /\ a \in Arguments
    /\ LET w == ActsOn(ActionWindow(a)) IN
       \/ w # NoWindow /\ focused' = w /\ Answer({a}, 0)
       \/ Answer({a}, -2) /\ UNCHANGED focused
    /\ Fine /\ UNCHANGED <<windowLife, marks, full>>

-------------------------------------------------------------------------------
(* Fullscreen: the Scheme side reads the mode, decides, and assigns.       *)

\* The mode the wrapper reads.
ModeOf(a, side) == IF WindowOrFocused(a) = NoWindow THEN Keep ELSE full[WindowOrFocused(a)][side]

\* setFullscreenMode assigns, and the client is told.
FullscreenSet(a, target) ==
    LET w == ActsOn(ActionWindow(a)) IN
    full' = IF w = NoWindow THEN full ELSE [full EXCEPT ![w] = <<target, target>>]

\* hl-window-fullscreen-set!: 0 whether there was a window or not.  Unset in
\* some other mode assigns the mode just read; where none could be read it
\* raises, as #f is no mode.
FullscreenBy(a, mode, action) ==
    /\ a \in Arguments
    /\ LET current == ModeOf(a, 1)
           raises  == action = "unset" /\ current = Keep
       IN  /\ IF raises THEN UNCHANGED full
              ELSE FullscreenSet(a, CASE action = "set"    -> mode
                                      [] action = "toggle" -> IF mode = current THEN NoMode ELSE mode
                                      [] action = "unset"  -> IF mode = current THEN NoMode ELSE current)
           /\ asked' = [op |-> "fullscreen", args |-> {a}, answer |-> IF raises THEN -3 ELSE 0,
                        mode |-> mode, action |-> action]
    /\ Fine /\ UNCHANGED <<windowLife, focused, marks>>

\* The window has the modes that are asked for, on the sides that are not kept.
Has(pair, want) == \A i \in 1..2 : want[i] \in {Keep, pair[i]}

\* Actions::fullscreenWindow leaves a kept side alone, and clears a window that
\* has what it is asked for.
Assigned(pair, want) ==
    LET side(i) == IF want[i] = Keep THEN pair[i]
                   ELSE IF Has(pair, want) THEN NoMode ELSE want[i]
    IN  <<side(1), side(2)>>

FullscreenState(a, want) ==
    LET w == ActsOn(ActionWindow(a)) IN
    full' = IF w = NoWindow THEN full ELSE [full EXCEPT ![w] = Assigned(@, want)]

\* Mutant of Passed: set and unset go to the action whatever the window has.
PassedUnguarded(current, want, action) ==
    {[i \in 1..2 |-> IF action = "toggle" /\ current[i] = want[i] THEN NoMode ELSE want[i]]}

\* The pair with which hl-window-fullscreen-sync! goes to that action, if it does:
\* its guards compare both sides, and a live window's is never 'keep.
Passed(current, want, action) ==
    LET flip(i) == IF current[i] = want[i] THEN NoMode ELSE want[i] IN
    CASE action = "set"    -> IF current = want THEN {} ELSE {want}
      [] action = "unset"  -> IF current = want THEN {want} ELSE {}
      [] action = "toggle" -> {<<flip(1), flip(2)>>}

\* hl-window-fullscreen-sync!
FullscreenSync(a, want, action) ==
    /\ a \in Arguments
    /\ LET passed == Passed(<<ModeOf(a, 1), ModeOf(a, 2)>>, want, action) IN
       /\ IF passed = {} THEN UNCHANGED full
          ELSE \E pair \in passed : FullscreenState(a, pair)
       /\ asked' = [op |-> "sync", args |-> {a}, want |-> want, action |-> action,
                    answer |-> IF WindowOrFocused(a) = NoWindow /\ passed # {} THEN -2 ELSE 0]
    /\ Fine /\ UNCHANGED <<windowLife, focused, marks>>

-------------------------------------------------------------------------------
(* Exec.cpp.                                                               *)

\* The calls that name no window: focus by direction, last, urgent.
FocusMoves ==
    /\ \E w \in Open : focused' = w
    /\ Answer({}, 0)
    /\ Fine /\ UNCHANGED <<windowLife, marks, full>>

\* The calls on the session: exit, reload, dpms of a monitor (which may be
\* gone), idle, global shortcuts, IPC events.
Command(monitor) ==
    /\ \/ Answer({}, IF monitor THEN 0 ELSE -1)
       \/ Answer({}, -2)
    /\ UNCHANGED marks /\ NoActs

\* hl-pass!, hl-cursor-move-to-corner!.
Pass(a) ==
    /\ a \in Arguments
    /\ Answer({a}, IF ActsOn(ActionWindow(a)) = NoWindow THEN -2 ELSE 0)
    /\ UNCHANGED marks /\ NoActs

\* hl-send-shortcut!, hl-send-key-state!: the modifiers, then the key; a bad
\* modifier writes its reason and is answered -1 like a bad key.
SendKey(a, mods, key) ==
    /\ a \in Arguments
    /\ Answer({a}, IF ~mods \/ ~key THEN -1
                               ELSE IF ActsOn(ActionWindow(a)) = NoWindow THEN -2 ELSE 0)
    /\ IF mods THEN Fine ELSE Refuse("hl-send-key!")
    /\ UNCHANGED <<windowLife, focused, marks, full>>

\* hl-exec!: the effects are walked first, each refusal with its reason; the
\* spawn itself fails, and an empty command is refused, without one.
Exec ==
    /\ \/ Fine
       \/ Fail("hl-exec!")
       \/ FailSilently("hl-exec!")
    /\ asked' = Compositor
    /\ UNCHANGED <<windowLife, focused, marks, full>>

\* hl-clear-crashed-lockscreen!: every refusal has its reason.
ClearCrashedLockscreen ==
    /\ Fine \/ Fail("hl-clear-crashed-lockscreen!")
    /\ asked' = Compositor
    /\ UNCHANGED <<windowLife, focused, marks, full>>

\* The compositor's side.
Map(w) ==
    /\ windowLife[w] = "unborn" /\ \A v \in Windows : v < w => windowLife[v] # "unborn"
    /\ windowLife' = [windowLife EXCEPT ![w] = "live"]
    /\ focused' = w

Unborn(w) ==
    /\ windowLife[w] = "live"
    /\ windowLife' = [windowLife EXCEPT ![w] = "dead"]
    /\ focused' \in IF focused = w THEN (Open \ {w}) \cup {NoWindow} ELSE {focused}

Comings ==
    /\ \E w \in Windows : Map(w) \/ Unborn(w)
    /\ asked' = Compositor
    /\ Fine /\ UNCHANGED <<marks, full>>

\* The calls on fullscreen, and all the others: neither reads what the other
\* writes.
FullscreenNext ==
    \/ \E a \in Arguments, action \in {"toggle", "set", "unset"} :
        \/ \E m \in FullModes : FullscreenBy(a, m, action)
        \/ \E p \in (FullModes \cup {Keep}) \X (FullModes \cup {Keep}) : FullscreenSync(a, p, action)
    \/ Comings

WindowsNext ==
    \/ \E a \in Arguments :
        \/ Get(a) \/ GetFlag(a) \/ GetOptional(a) \/ GetOrFocused(a)
        \/ \E known \in BOOLEAN : PropGet(a, known)
        \/ \E b \in Arguments : Same(a, b)
        \/ Arrange(a) \/ Close(a) \/ Focus(a) \/ Pass(a)
        \/ \E op \in Ops, act \in 0..2 : Dispatch(op, a) \/ Toggle(op, a, act)
        \/ \E o \in Arguments : SwapWith(a, o)
        \/ \E m \in BOOLEAN, k \in BOOLEAN : SendKey(a, m, k)
    \/ FocusMoves
    \/ \E monitor \in BOOLEAN : Command(monitor)
    \/ Exec \/ ClearCrashedLockscreen
    \/ Comings

-------------------------------------------------------------------------------

WindowsTypeOK ==
    /\ windowLife \in [Windows -> {"unborn", "live", "dead"}]
    /\ focused \in Open \cup {NoWindow}
    /\ marks \in [Windows -> SUBSET Ops]
    /\ full \in [Windows -> FullModes \X FullModes]

Named == {WindowOrFocused(a) : a \in asked'.args}

(* A call changes the windows it was given and no other: through a dead    *)
(* handle it changes nothing, and above all not the focused window.        *)
ActsOnArgument ==
    \A w \in Windows : marks'[w] # marks[w] \/ full'[w] # full[w] => w \in Named

\* What hl-window-fullscreen-sync! makes of a window's modes.
Synced(old, new, want, action) ==
    /\ \A i \in 1..2 : want[i] = Keep => new[i] = old[i]
    /\ action = "set"    => \/ Has(new, want)
                            \/ Has(old, want) /\ Keep \in {want[1], want[2]}
    /\ action = "unset"  => new = IF old = want THEN <<NoMode, NoMode>> ELSE old
    /\ action = "toggle" => \A i \in {i \in 1..2 : want[i] # Keep} :
                               new[i] = IF old[i] = want[i] THEN NoMode ELSE want[i]

\* And what hl-window-fullscreen-set! makes of the mode.
Brought(old, new, mode, action) ==
    mode # NoMode =>
        /\ action = "set"    => new = mode
        /\ action = "unset"  => new = IF old = mode THEN NoMode ELSE old
        /\ action = "toggle" => new = IF old = mode THEN NoMode ELSE mode

(* A fullscreen call leaves the window as its #:action says, whatever mode *)
(* it was in: 'set twice does not undo itself, 'unset leaves a window in   *)
(* another mode alone, and a side that is kept stays as it is              *)
(* (hl-window-fullscreen-set! and -sync!).  The compositor's own action,   *)
(* which clears a window that has what is asked, does none of it.  A 'set  *)
(* with a kept side, of what the window has, is SetTwiceIsOnce's.          *)
FullscreenAsAsked ==
    \A w \in Named \ {NoWindow} :
        /\ asked'.op = "sync"       => Synced(full[w], full'[w], asked'.want, asked'.action)
        /\ asked'.op = "fullscreen" => Brought(full[w][1], full'[w][1], asked'.mode, asked'.action)

(* window.scm:465, 'set and 'unset are "what make this idempotent": a 'set *)
(* of what the window has leaves it as it is.                              *)
SetTwiceIsOnce ==
    [][\A w \in Named \ {NoWindow} :
           asked'.op = "sync" /\ asked'.action = "set" /\ Has(full[w], asked'.want) =>
               full'[w] = full[w]]_windowVars

(* Both: a call changes the windows it was given, as asked, and no other.  *)
CallsAsAsked == [][ActsOnArgument /\ FullscreenAsAsked]_windowVars

(* A call through a dead handle is refused.  Refuted: FullscreenSet.       *)
DeadIsRefused ==
    asked.args # {} /\ asked.args \cap (Open \cup {Focused}) = {} => asked.answer < 0
===============================================================================
