-------------------------------- MODULE Timer --------------------------------
(* Timers: the index of src/cpp/Timer.cpp against the event loop's own list of  *)
(* timers.  A timer's callback runs a script, and the script may disable,       *)
(* re-tune or cancel the very timer that is firing, or reload the config.       *)
(* Durations are compared, never measured: a timer that is armed may fire.      *)
EXTENDS Naturals

CONSTANTS
    Timers,     \* the hl-timer records of a session
    Intervals,  \* the timeouts scripts ask for, in milliseconds
    None        \* no timer firing, no deadline

ASSUME TimerAssumption ==
    /\ Intervals \subseteq Nat
    /\ None \notin Timers \cup Intervals

VARIABLES
    attached,   \* g_up
    made,       \* the records handed to hlSchemeTimer so far
    initial,    \* the interval captured by the callback
    repeat,     \* the repeat flag captured by the callback
    index,      \* the records with an entry in g_timerIndex
    ms,         \* STimerEntry.ms
    loop,       \* the records whose CEventLoopTimer is in the loop's list
    cancelled,  \* the records whose CEventLoopTimer was cancelled (external)
    expiry,     \* the interval a CEventLoopTimer is armed with, or None
    firing,     \* the timer whose callback is running
    fired,      \* history: the timers that have fired
    off         \* history: the timers a script last asked to be disabled

recordVars == <<made, initial, repeat>>
timerVars == <<attached, recordVars, index, ms, loop, cancelled, expiry, firing, fired, off>>

TimerInit ==
    /\ attached = TRUE
    /\ made = {}
    /\ initial \in [Timers -> Intervals]
    /\ repeat \in [Timers -> BOOLEAN]
    /\ index = {} /\ loop = {} /\ cancelled = {}
    /\ ms = initial
    /\ expiry = [t \in Timers |-> None]
    /\ firing = None
    /\ fired = {} /\ off = {}

------------------------------------------------------------------------------
(* A script's calls: made between callbacks or by the callback that is running *)

\* hlSchemeTimer: a fresh record, a loop timer armed at its interval, an entry.
HlSchemeTimer(t) ==
    /\ attached /\ t \notin made
    /\ made' = made \cup {t}
    /\ loop' = loop \cup {t}
    /\ index' = index \cup {t}
    /\ ms' = [ms EXCEPT ![t] = initial[t]]
    /\ expiry' = [expiry EXCEPT ![t] = initial[t]]
    /\ UNCHANGED <<attached, initial, repeat, cancelled, firing, fired, off>>

\* hlTimerSetEnabled: armed afresh at the entry's interval, or disarmed.
HlTimerSetEnabled(t, enabled) ==
    /\ attached /\ t \in index
    /\ expiry' = [expiry EXCEPT ![t] = IF enabled THEN ms[t] ELSE None]
    /\ off' = IF enabled THEN off \ {t} ELSE off \cup {t}
    /\ UNCHANGED <<attached, recordVars, index, ms, loop, cancelled, firing, fired>>

\* Mutant of HlTimerSetTimeout: the entry keeps the interval it was made with.
SetTimeoutForgotten(t, m) ==
    /\ attached /\ t \in index /\ m >= 1
    /\ expiry' = [expiry EXCEPT ![t] = m]
    /\ off' = off \ {t}
    /\ UNCHANGED <<attached, recordVars, index, ms, loop, cancelled, firing, fired>>

\* Mutant of HlTimerSetTimeout: the loop is told one millisecond less.
SetTimeoutShort(t, m) ==
    /\ attached /\ t \in index /\ m >= 1
    /\ ms' = [ms EXCEPT ![t] = m]
    /\ expiry' = [expiry EXCEPT ![t] = m - 1]
    /\ off' = off \ {t}
    /\ UNCHANGED <<attached, recordVars, index, loop, cancelled, firing, fired>>

\* hlTimerSetTimeout: the entry is re-tuned and the timer armed, disabled or not.
HlTimerSetTimeout(t, m) ==
    /\ attached /\ t \in index /\ m >= 1
    /\ ms' = [ms EXCEPT ![t] = m]
    /\ expiry' = [expiry EXCEPT ![t] = m]
    /\ off' = off \ {t}
    /\ UNCHANGED <<attached, recordVars, index, loop, cancelled, firing, fired>>

\* The loop timers of the records in T are cancelled and leave the list, and the
\* index forgets the records.
TearDown(T) ==
    /\ cancelled' = cancelled \cup T
    /\ expiry' = [t \in Timers |-> IF t \in T THEN None ELSE expiry[t]]
    /\ loop' = loop \ T
    /\ index' = index \ T

\* Mutant of HlTimerCancel: the entry goes, the loop keeps its timer.
CancelEntryOnly(t) ==
    /\ attached /\ t \in index
    /\ index' = index \ {t}
    /\ UNCHANGED <<attached, recordVars, ms, loop, cancelled, expiry, firing, fired, off>>

\* hlTimerCancel.
HlTimerCancel(t) ==
    /\ attached /\ t \in index
    /\ TearDown({t})
    /\ UNCHANGED <<attached, recordVars, ms, firing, fired, off>>

\* Mutant of CancelAllTimers: the index is emptied, the loop is not told.
ClearIndexOnly ==
    /\ attached
    /\ index' = {}
    /\ UNCHANGED <<attached, recordVars, ms, loop, cancelled, expiry, firing, fired, off>>

\* cancelAllTimers, from the reload handler.
CancelAllTimers ==
    /\ attached
    /\ TearDown(index)
    /\ UNCHANGED <<attached, recordVars, ms, firing, fired, off>>

------------------------------------------------------------------------------
(* The event loop *)

\* CEventLoopTimer::call: a timer of the list, due and not cancelled, loses its
\* deadline and runs its callback.  No other callback runs meanwhile.
Fire(t) ==
    /\ firing = None
    /\ t \in loop /\ t \notin cancelled /\ expiry[t] # None
    /\ expiry' = [expiry EXCEPT ![t] = None]
    /\ firing' = t
    /\ fired' = fired \cup {t}
    /\ UNCHANGED <<attached, recordVars, index, ms, loop, cancelled, off>>

\* Mutant of Again: a repeating timer that was re-tuned waits for its next enable.
AgainUnlessRetuned(t) ==
    /\ firing = t /\ attached /\ repeat[t]
    /\ expiry' = IF t \in index /\ ms[t] # initial[t]
                 THEN expiry ELSE [expiry EXCEPT ![t] = initial[t]]
    /\ firing' = None
    /\ UNCHANGED <<attached, recordVars, index, ms, loop, cancelled, fired, off>>

\* The callback of a repeating timer succeeds: armed again at the interval of its
\* entry, or, the entry being gone, at the one it was made with.
Again(t) ==
    /\ firing = t /\ attached /\ repeat[t]
    /\ expiry' = [expiry EXCEPT ![t] = IF t \in index THEN ms[t] ELSE initial[t]]
    /\ firing' = None
    /\ UNCHANGED <<attached, recordVars, index, ms, loop, cancelled, fired, off>>

\* Mutant of Finished: a one-shot is torn down only when its callback failed.
FinishedIfFailed(t) ==
    /\ firing = t
    /\ firing' = None
    /\ TearDown({t} \ {u \in Timers : ~repeat[u] /\ attached})
    /\ UNCHANGED <<attached, recordVars, ms, fired, off>>

\* A one-shot's callback returns, or a callback fails: an error, the watchdog, a
\* declined result, or no plugin to run it.
Finished(t) ==
    /\ firing = t
    /\ firing' = None
    /\ TearDown({t})
    /\ UNCHANGED <<attached, recordVars, ms, fired, off>>

\* shutdown leaves the timers where they are.
TimersShutdown ==
    /\ attached /\ firing = None
    /\ attached' = FALSE
    /\ UNCHANGED <<recordVars, index, ms, loop, cancelled, expiry, firing, fired, off>>

\* A re-attach runs the reload handler before anything else.
TimersReattach ==
    /\ ~attached /\ firing = None
    /\ attached' = TRUE
    /\ TearDown(index)
    /\ UNCHANGED <<recordVars, ms, firing, fired, off>>

Script(t) ==
    \/ HlSchemeTimer(t)
    \/ \E enabled \in BOOLEAN : HlTimerSetEnabled(t, enabled)
    \/ \E m \in Intervals : HlTimerSetTimeout(t, m)
    \/ HlTimerCancel(t)

Loop(t) == Fire(t) \/ Again(t) \/ Finished(t)

TimerNext ==
    \/ \E t \in Timers : Script(t) \/ Loop(t)
    \/ CancelAllTimers \/ TimersShutdown \/ TimersReattach

TimerSpec == TimerInit /\ [][TimerNext]_timerVars

------------------------------------------------------------------------------
(* Properties *)

\* The values of the variables.
TimerTypeOK ==
    /\ attached \in BOOLEAN
    /\ made \in SUBSET Timers /\ index \in SUBSET Timers /\ loop \in SUBSET Timers
    /\ cancelled \in SUBSET Timers /\ fired \in SUBSET Timers /\ off \in SUBSET Timers
    /\ initial \in [Timers -> Intervals] /\ ms \in [Timers -> Intervals]
    /\ repeat \in [Timers -> BOOLEAN]
    /\ expiry \in [Timers -> Intervals \cup {None}]
    /\ firing \in Timers \cup {None}

\* Whatever a callback does to its own timer, the loop's list and the index hold
\* the same timers, none of them cancelled: a timer that can fire can be reached by
\* hl-timer-cancel! and by a reload, and an entry stands for a timer that can fire
\* (the comment at Timer.cpp:27).
IndexIsTheLoop ==
    /\ index = loop
    /\ loop \cap cancelled = {}

\* A timer that was cancelled, dropped by a reload or completed never fires again,
\* re-armed by its returning callback or not (the updateTimeout at Timer.cpp:110).
EndedStaysQuiet ==
    \A t \in made \ index : firing # t => firing' # t

\* A one-shot runs its callback once, even one that enables or re-tunes itself.
OneShotOnce ==
    \A t \in fired : ~repeat[t] /\ firing # t => firing' # t

\* A timer nobody disabled is waiting for its deadline whenever its callback is not
\* running, with nothing else to wake it, and waits for the interval
\* hl-timer-set-timeout! last gave it, also after the callback that re-tuned it.
ArmedAsAsked ==
    /\ \A t \in index \ off : firing # t => expiry[t] # None
    /\ \A t \in index : expiry[t] \in {None, ms[t]}

\* The state of the timers: each that can fire can be reached, and waits as asked.
LoopAsAsked == IndexIsTheLoop /\ ArmedAsAsked

\* Their steps: what has ended, by its own run or by anyone's call, is over.
OverIsOver == [][EndedStaysQuiet /\ OneShotOnce]_timerVars

------------------------------------------------------------------------------
(* What the source says of itself and a run refutes *)

\* timer.scm:29 ("#t/#f set"): with #:on? #f a timer is disabled, and stays so until it is
\* enabled or re-tuned.
DisabledStaysOff ==
    \A t \in index \cap off : firing # t => expiry[t] = None

=============================================================================
