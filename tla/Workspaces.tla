------------------------------- MODULE Workspaces -------------------------------
(***************************************************************************)
(* Workspaces, the special ones shown over a monitor, and the windows on   *)
(* them (Workspace.cpp, Monitor.cpp, hlSchemeWindowMoveToWorkspace, and    *)
(* the composed calls of extras.scm).  A call that names a missing         *)
(* workspace creates it, the compositor announces it at once, and a        *)
(* workspace.created handler runs calls of its own before the first one    *)
(* goes on.                                                                *)
(***************************************************************************)
EXTENDS Windows, Sequences, SequencesExt

CONSTANTS Spaces, Specials,  \* what selectors name; the special ones
          Monitors,
          NoSpace,           \* no workspace; the selector of a dead handle, ""
          Gone,              \* a workspace object that has been swept
          MaxCalls,          \* how deep handlers nest (the bound)
          MaxPlaced          \* how many windows are mapped (the bound)

ASSUME WorkspacesAssumption ==
    /\ Specials \subseteq Spaces /\ {NoSpace, Gone} \cap Spaces = {}
    /\ Monitors # {} /\ NoSpace \notin Monitors
    /\ MaxCalls \in Nat /\ MaxPlaced \in 0..MaxWindows

VARIABLES exists,   \* the workspaces there are
          flagged,  \* those created as empty, which the compositor may sweep
          home,     \* home[s]: the monitor of s, NoSpace where there is no s
          on,       \* on[w]: the workspace of w
          overlay,  \* overlay[m]: the special workspace open on m, or NoSpace
          focusedMonitor, \* the focused monitor
          calls,    \* the calls that wait for a workspace.created handler
          outcome,  \* what the last hl-workspace-special-set! was to do
          crashed   \* a null window was followed

spaceVars == <<exists, flagged, home, on, overlay, focusedMonitor, calls, outcome, crashed>>

Unasked == [on |-> FALSE, ws |-> NoSpace, at |-> NoSpace, undisturbed |-> FALSE]
View == <<overlay, focusedMonitor>>

WorkspacesInit ==
    /\ exists = {}
    /\ flagged = {}
    /\ focusedMonitor = CHOOSE m \in Monitors : TRUE
    /\ home = [s \in Spaces |-> NoSpace]
    /\ on = [w \in Windows |-> NoSpace]
    /\ overlay = [m \in Monitors |-> NoSpace]
    /\ calls = <<>>
    /\ outcome = Unasked
    /\ crashed = FALSE

Ready == ~crashed /\ Len(calls) < MaxCalls
Others == Fine /\ UNCHANGED windowVars

-------------------------------------------------------------------------------
(* The compositor's operations.                                            *)

\* Mutant: a workspace that a window waits for is created as an empty one.
CreateEmpty(s, m, isEmpty) ==
    /\ exists' = exists \cup {s}
    /\ flagged' = flagged \cup {s}
    /\ home' = [home EXCEPT ![s] = m]

\* create(target, monitor, isEmpty).
Create(s, m, isEmpty) ==
    /\ exists' = exists \cup {s}
    /\ flagged' = IF isEmpty THEN flagged \cup {s} ELSE flagged \ {s}
    /\ home' = [home EXCEPT ![s] = m]

Shown(m, s) == [n \in Monitors |-> IF n = m THEN s ELSE
                                   IF overlay[n] = s THEN NoSpace ELSE overlay[n]]

\* toggleSpecial, on the focused monitor.
Toggled(s) == IF overlay[focusedMonitor] = s THEN [overlay EXCEPT ![focusedMonitor] = NoSpace]
              ELSE Shown(focusedMonitor, s)

\* moveToWorkspace: unless it is silent, the view goes with the window.
Lands(w, s, silent) ==
    /\ on' = [on EXCEPT ![w] = s]
    /\ flagged' = flagged \ {s}
    /\ IF silent \/ s = Gone THEN UNCHANGED <<overlay, focusedMonitor>>
       ELSE /\ focusedMonitor' = home[s]
            /\ overlay' = IF s \in Specials THEN Shown(home[s], s) ELSE overlay

-------------------------------------------------------------------------------

\* hl-window-workspace-set!, and hl-window-monitor-set! with the active
\* workspace of the monitor: find, or create on the window's own monitor and
\* wait for the handlers.
MoveToWorkspace(a, s, silent) ==
    /\ Ready /\ a \in Arguments
    /\ LET w == WindowOrFocused(a) IN
       \/ /\ s = NoSpace \/ (s \in exists /\ w = NoWindow)
          /\ UNCHANGED <<exists, flagged, home, on, overlay, focusedMonitor, calls, crashed>>
       \/ /\ s \in exists /\ w # NoWindow
          /\ Lands(w, s, silent)
          /\ UNCHANGED <<exists, home, calls, crashed>>
       \/ /\ s \in Spaces \ exists /\ w = NoWindow
          /\ crashed' = TRUE
          /\ UNCHANGED <<exists, flagged, home, on, overlay, focusedMonitor, calls>>
       \/ /\ s \in Spaces \ exists /\ w # NoWindow
          /\ Create(s, IF on[w] \in exists THEN home[on[w]] ELSE focusedMonitor, FALSE)
          /\ calls' = Append(calls, [op |-> "move", window |-> w, ws |-> s,
                                     silent |-> silent, view |-> View])
          /\ UNCHANGED <<on, overlay, focusedMonitor, crashed>>
    /\ outcome' = Unasked
    /\ Others

\* specialWorkspaceFromName, then toggleSpecial; the wish is what the
\* caller will look at.
ToggleSpecial(s, wish) ==
    IF s = NoSpace THEN UNCHANGED <<exists, flagged, home, overlay, calls>> /\ outcome' = Unasked
    ELSE IF s \in exists
    THEN /\ overlay' = Toggled(s)
         /\ outcome' = wish
         /\ UNCHANGED <<exists, flagged, home, calls>>
    ELSE /\ Create(s, focusedMonitor, TRUE)
         /\ calls' = Append(calls, [op |-> "toggle", ws |-> s, wish |-> wish, view |-> View])
         /\ outcome' = Unasked
         /\ UNCHANGED overlay

\* hl-workspace-special-toggle!, and -set! without #:on?.
WorkspaceToggleSpecial(s) ==
    /\ Ready
    /\ ToggleSpecial(s, Unasked)
    /\ Others /\ UNCHANGED <<on, focusedMonitor, crashed>>

\* hl-workspace-special-set! with #:on?: read, compare, toggle.
WorkspaceSpecialSet(s, open) ==
    /\ Ready
    /\ LET wish == [on |-> open, ws |-> s, at |-> focusedMonitor, undisturbed |-> TRUE] IN
       IF open = (overlay[focusedMonitor] = s /\ s # NoSpace)
       THEN outcome' = wish /\ UNCHANGED <<exists, flagged, home, overlay, calls>>
       ELSE ToggleSpecial(s, wish)
    /\ Others /\ UNCHANGED <<on, focusedMonitor, crashed>>

\* hl-monitor-workspace-special-set!; "" closes.
MonitorSetSpecial(m, s) ==
    /\ Ready
    /\ IF s = NoSpace \/ s \in exists
       THEN /\ overlay' = IF s = NoSpace THEN [overlay EXCEPT ![m] = NoSpace] ELSE Shown(m, s)
            /\ UNCHANGED <<exists, flagged, home, calls>>
       ELSE /\ Create(s, m, TRUE)
            /\ calls' = Append(calls, [op |-> "show", ws |-> s, at |-> m, view |-> View])
            /\ UNCHANGED overlay
    /\ outcome' = Unasked
    /\ Others /\ UNCHANGED <<on, focusedMonitor, crashed>>

\* The handlers of the innermost creation are done, and its call goes on.
GoesOn ==
    /\ ~crashed /\ calls # <<>>
    /\ LET c == Last(calls) IN
       CASE c.op = "move" ->
              Lands(c.window, c.ws, c.silent) /\ outcome' = Unasked
         [] c.op = "toggle" ->
              /\ overlay' = Toggled(c.ws)
              /\ outcome' = [c.wish EXCEPT !.undisturbed = @ /\ c.view = View /\ c.ws # Gone]
              /\ UNCHANGED <<flagged, on, focusedMonitor>>
         [] c.op = "show" ->
              /\ overlay' = Shown(c.at, c.ws) /\ outcome' = Unasked
              /\ UNCHANGED <<flagged, on, focusedMonitor>>
    /\ calls' = Front(calls)
    /\ Others /\ UNCHANGED <<exists, home, crashed>>

-------------------------------------------------------------------------------
(* Calls whose work is all the compositor's.                               *)

\* hl-workspace-focus!, which creates inside the compositor.
FocusWorkspace(s) ==
    /\ Ready /\ s \notin Specials
    /\ IF s = NoSpace THEN UNCHANGED <<exists, flagged, home, focusedMonitor>>
       ELSE IF s \in exists THEN focusedMonitor' = home[s] /\ UNCHANGED <<exists, flagged, home>>
       ELSE Create(s, focusedMonitor, FALSE) /\ UNCHANGED focusedMonitor
    /\ outcome' = Unasked
    /\ Others /\ UNCHANGED <<on, overlay, calls, crashed>>

\* hl-monitor-focus!.
FocusMonitor(m) ==
    /\ Ready
    /\ focusedMonitor' = m
    /\ outcome' = Unasked
    /\ Others /\ UNCHANGED <<exists, flagged, home, on, overlay, calls, crashed>>

\* hl-workspace-monitor-set!: refused when either argument names nothing.
MoveMonitor(s, m) ==
    /\ Ready
    /\ home' = IF s \in exists \ Specials THEN [home EXCEPT ![s] = m] ELSE home
    /\ outcome' = Unasked
    /\ Others /\ UNCHANGED <<exists, flagged, on, overlay, focusedMonitor, calls, crashed>>

\* hl-workspace-swap-monitors!: the active workspaces change places.
SwapMonitors(m, n) ==
    /\ Ready
    /\ \E s \in exists \ Specials, t \in exists \ Specials :
        /\ home[s] = m /\ home[t] = n
        /\ home' = [home EXCEPT ![s] = n, ![t] = m]
    /\ outcome' = Unasked
    /\ Others /\ UNCHANGED <<exists, flagged, on, overlay, focusedMonitor, calls, crashed>>

\* hl-workspace-name-set!: a workspace s is t from now on, and is not found
\* under its old name.
Rename(s, t) ==
    /\ Ready /\ s \in exists \ Specials /\ t \in Spaces \ (exists \cup Specials)
    /\ \A i \in DOMAIN calls : calls[i].ws # s
    /\ LET named(x) == IF x = s THEN t ELSE x IN
       /\ exists' = {named(x) : x \in exists}
       /\ flagged' = {named(x) : x \in flagged}
       /\ on' = [w \in Windows |-> named(on[w])]
       /\ home' = [home EXCEPT ![t] = home[s], ![s] = NoSpace]
    /\ outcome' = Unasked
    /\ Others /\ UNCHANGED <<overlay, focusedMonitor, calls, crashed>>

\* The compositor sweeps: a workspace flagged as empty at any time, one that
\* its last window has left when no call is under way.
Sweep(s) ==
    /\ ~crashed /\ s \in exists
    /\ \A w \in Open : on[w] # s
    /\ \A m \in Monitors : overlay[m] # s
    /\ s \in flagged \/ calls = <<>>
    /\ exists' = exists \ {s}
    /\ flagged' = flagged \ {s}
    /\ home' = [home EXCEPT ![s] = NoSpace]
    /\ calls' = [i \in DOMAIN calls |-> IF calls[i].ws = s THEN [calls[i] EXCEPT !.ws = Gone]
                                        ELSE calls[i]]
    /\ outcome' = Unasked
    /\ Others /\ UNCHANGED <<on, overlay, focusedMonitor, crashed>>

\* Windows come and go in the compositor's loop.
WindowComings ==
    /\ ~crashed /\ calls = <<>>
    /\ \/ \E w \in 1..MaxPlaced, s \in exists \ Specials : Map(w) /\ on' = [on EXCEPT ![w] = s]
       \/ \E w \in Windows : Unborn(w) /\ UNCHANGED on
    /\ asked' = Compositor /\ outcome' = Unasked
    /\ Fine /\ UNCHANGED <<marks, full, exists, flagged, home, overlay, focusedMonitor, calls, crashed>>

Selectors == Spaces \cup {NoSpace}

WorkspacesNext ==
    \/ \E a \in Arguments, s \in Selectors, silent \in BOOLEAN : MoveToWorkspace(a, s, silent)
    \/ \E s \in Specials \cup {NoSpace} :
        \/ WorkspaceToggleSpecial(s)
        \/ \E b \in BOOLEAN : WorkspaceSpecialSet(s, b)
        \/ \E m \in Monitors : MonitorSetSpecial(m, s)
    \/ GoesOn
    \/ \E s \in Selectors : FocusWorkspace(s) \/ \E t \in Spaces : Rename(s, t)
    \/ \E m \in Monitors : \/ FocusMonitor(m)
                           \/ \E s \in Selectors : MoveMonitor(s, m)
                           \/ \E n \in Monitors : SwapMonitors(m, n)
    \/ \E s \in Spaces : Sweep(s)
    \/ WindowComings

-------------------------------------------------------------------------------

WorkspacesTypeOK ==
    /\ flagged \subseteq exists /\ exists \subseteq Spaces
    /\ home \in [Spaces -> Monitors \cup {NoSpace}]
    /\ \A s \in Spaces : s \in exists <=> home[s] # NoSpace
    /\ overlay \in [Monitors -> Specials \cup {NoSpace, Gone}]
    /\ \A s \in Specials : \A m, n \in Monitors : overlay[m] = s /\ overlay[n] = s => m = n
    /\ focusedMonitor \in Monitors
    /\ Len(calls) <= MaxCalls

(* A window that a script moved is on a workspace that exists, whatever    *)
(* the handlers of the workspace's creation did and the compositor swept   *)
(* while the move waited for them.                                         *)
MovesLand ==
    \A w \in Open : on[w] \in exists \cup {NoSpace}

(* hl-workspace-special-set! with #:on? leaves the workspace open, or not  *)
(* open, on the monitor that was focused -- unless a handler changed the   *)
(* view between its reading and its toggle, or the new workspace was swept.*)
SpecialAsAsked ==
    outcome.undisturbed => (outcome.ws # NoSpace /\ overlay[outcome.at] = outcome.ws) = outcome.on

(* Both: what a call was to do when it goes on after the handlers of its   *)
(* workspace's creation is done, on whatever they and the sweep have left. *)
CallsOutlastHandlers == MovesLand /\ SpecialAsAsked

(* Without the exception.  Refuted: a handler that opens the workspace     *)
(* when it is created has it closed again.                                 *)
SpecialAlwaysAsAsked ==
    outcome.at # NoSpace /\ outcome.ws # Gone => (overlay[outcome.at] = outcome.ws) = outcome.on

(* workspace.scm: a dead workspace handle "resolves to "" and the action   *)
(* fails cleanly".  Refuted: MonitorSetSpecial closes what is open.        *)
DeadFailsCleanly ==
    [][\A m \in Monitors : MonitorSetSpecial(m, NoSpace) => overlay' = overlay]_spaceVars

(* A call on a window that is gone is refused.  Refuted: the missing       *)
(* workspace is created on the monitor of a null window.                   *)
NoCrash == ~crashed
===============================================================================
