------------------------------- MODULE Detector -------------------------------
(* The host's watchdog thread (cpp/Host.cpp, watchdogEnter, watchdogExit and     *)
(* startWatchdog): it polls two atomics the main thread stores at the start and  *)
(* the end of every callback, and logs a callback that has run too long.  The    *)
(* thread's loads interleave with the main thread's stores and with time.        *)
EXTENDS Naturals, Sequences, SequencesExt

CONSTANTS
    Limit,     \* the 5000 ms of the detector
    MaxTime,   \* bound on the clock
    Nesting    \* bound on the nesting of callbacks

ASSUME DetectorAssumption == Limit \in Nat \ {0} /\ MaxTime \in Nat \ {0} /\ Nesting \in Nat

VARIABLES
    now,        \* watchdogNowMs(); above 0, as the steady clock's is
    entered,    \* the callbacks under way, the innermost last, by their starts
    startMs,    \* g_callbackStartMs
    what,       \* g_callbackWhat, the start of the callback it names
    between,    \* pc of watchdogEnter: what is stored, startMs not yet
    pc, start,  \* the thread's place in its loop and its local `start`
    elapsed,    \* its local `elapsed`
    reported,   \* its local `reported`
    log         \* callbacks logged: what they were called and when they began

mainVars     == <<entered, startMs, what, between>>
thread       == <<pc, start, elapsed, reported, log>>
detectorVars == <<now, mainVars, thread>>

DetectorInit ==
    /\ now = 1
    /\ entered = <<>> /\ startMs = 0 /\ what = 0 /\ between = FALSE
    /\ pc = "sleep" /\ start = 0 /\ elapsed = 0 /\ reported = FALSE /\ log = <<>>

\* No two callbacks of the model begin in one unit of time: a start names one.
ClockTick ==
    /\ now < MaxTime
    /\ ~between
    /\ now' = now + 1
    /\ UNCHANGED <<mainVars, thread>>

------------------------------------------------------------------------------
(* The main thread *)

\* watchdogEnter stores the name ...
StoreWhat ==
    /\ ~between
    /\ Len(entered) < Nesting /\ now \notin ToSet(entered) /\ what < now
    /\ what' = now
    /\ between' = TRUE
    /\ UNCHANGED <<now, entered, startMs, thread>>

\* ... and then the start, whatever is under way already.
StoreStart ==
    /\ between
    /\ between' = FALSE
    /\ startMs' = what
    /\ entered' = Append(entered, what)
    /\ UNCHANGED <<now, what, thread>>

\* Mutant of WatchdogExit: the start is left behind.
ExitKeepsStart ==
    /\ ~between /\ entered # <<>>
    /\ entered' = Front(entered)
    /\ UNCHANGED <<now, startMs, what, between, thread>>

\* watchdogExit clears the start, also that of the callback around.
WatchdogExit ==
    /\ ~between /\ entered # <<>>
    /\ startMs' = 0
    /\ entered' = Front(entered)
    /\ UNCHANGED <<now, what, between, thread>>

------------------------------------------------------------------------------
(* The thread of startWatchdog *)

\* Mutant of Poll: a report is remembered over idle time.
PollKeepsReport ==
    /\ pc = "sleep"
    /\ start' = startMs
    /\ pc' = IF startMs = 0 THEN "sleep" ELSE "now"
    /\ UNCHANGED <<now, mainVars, elapsed, reported, log>>

\* It wakes up and loads the start; with none it forgets its report.
Poll ==
    /\ pc = "sleep"
    /\ start' = startMs
    /\ reported' = (reported /\ startMs # 0)
    /\ pc' = IF startMs = 0 THEN "sleep" ELSE "now"
    /\ UNCHANGED <<now, mainVars, elapsed, log>>

\* Mutant of ReadNow: the difference is taken the other way round.
ReadNowSwapped ==
    /\ pc = "now"
    /\ elapsed' = start - now
    /\ pc' = "log"
    /\ UNCHANGED <<now, mainVars, start, reported, log>>

\* It reads the clock.
ReadNow ==
    /\ pc = "now"
    /\ elapsed' = now - start
    /\ pc' = "log"
    /\ UNCHANGED <<now, mainVars, start, reported, log>>

\* Mutant of Report: the report is not remembered.
ReportAgain ==
    /\ pc = "log"
    /\ pc' = "sleep"
    /\ IF elapsed > Limit /\ ~reported
       THEN log' = Append(log, [what |-> what, start |-> start]) /\ reported' = reported
       ELSE UNCHANGED <<log, reported>>
    /\ UNCHANGED <<now, mainVars, start, elapsed>>

\* It logs a callback over the limit once, under the name it finds now.
Report ==
    /\ pc = "log"
    /\ pc' = "sleep"
    /\ IF elapsed > Limit /\ ~reported
       THEN log' = Append(log, [what |-> what, start |-> start]) /\ reported' = TRUE
       ELSE UNCHANGED <<log, reported>>
    /\ UNCHANGED <<now, mainVars, start, elapsed>>

DetectorNext ==
    \/ ClockTick
    \/ StoreWhat \/ StoreStart \/ WatchdogExit
    \/ Poll \/ ReadNow \/ Report

DetectorSpec == DetectorInit /\ [][DetectorNext]_detectorVars

\* The thread is scheduled, and watchdogEnter is straight-line code.
DetectorFairSpec ==
    /\ DetectorSpec
    /\ WF_detectorVars(Poll) /\ WF_detectorVars(ReadNow) /\ WF_detectorVars(Report)
    /\ WF_detectorVars(StoreStart) /\ WF_detectorVars(ClockTick)

------------------------------------------------------------------------------
(* Properties *)

Times == 0..MaxTime
Logged == {log[k].start : k \in DOMAIN log}

\* Type correctness: everything is a time the clock has shown.
DetectorTypeOK ==
    /\ now \in Times /\ what \in 0..now /\ startMs \in 0..now
    /\ entered \in Seq(0..now) /\ Len(entered) <= Nesting
    /\ between \in BOOLEAN /\ reported \in BOOLEAN
    /\ pc \in {"sleep", "now", "log"}
    /\ start \in 0..now /\ elapsed \in 0..now
    /\ log \in Seq([what : Times, start : Times])

\* A callback is logged at most once, however long it takes and whatever is nested in it
\* (`reported` of startWatchdog), only after its limit, and the start the thread polls is
\* always that of a callback under way, so an idle compositor is never reported
\* (watchdogExit clears the start).
LoggedLateAndOnce(s) ==
    /\ Cardinality({k \in DOMAIN log : log[k].start = s}) <= 1
    /\ s \in Logged => s > 0 /\ now - s > Limit
    /\ startMs = s /\ s > 0 => s \in ToSet(entered)

\* A callback that begins after the thread saw the main thread idle, nests
\* nothing and stays, is logged.
LoneReported(s) ==
    (entered = <<s>> /\ startMs = s /\ pc = "sleep" /\ start = 0)
        ~> (startMs # s \/ s \in Logged)

\* Both, of the callback that begins at s: no report but of a hang, and none of a lone
\* hang missing, if the clock goes on for long enough after it began.
HangsReportedOnce ==
    \A s \in Times :
        []LoggedLateAndOnce(s) /\ (s \in 1..(MaxTime - Limit - 1) => LoneReported(s))

\* What kernel.scm says of a callback stuck in the compositor ("the host's C-side
\* detector thread is the backstop for those"): each that stays is logged.
BackstopReports ==
    \A s \in 1..(MaxTime - Limit - 1) :
        (s \in ToSet(entered)) ~> (s \notin ToSet(entered) \/ s \in Logged)

\* The same of the first callback ever to be stuck, when it has nested others.
OuterReported ==
    \A s \in 1..(MaxTime - Limit - 1) :
        (s \in ToSet(entered)) ~> (s \notin ToSet(entered) \/ log # <<>>)

\* What the message says ("callback '{}' has been running for {}ms"): the name and
\* the time are the same callback's.
NamesTheStuckOne == \A k \in DOMAIN log : log[k].what = log[k].start

=============================================================================
