------------------------------- MODULE Watchdog -------------------------------
(* The Scheme watchdog (hyprscheme/kernel.scm, hl--guarded-run): a callback runs *)
(* between hl--wd-enter and hl--wd-exit with a SIGALRM handler of its own, which *)
(* escapes from the callback once its wall-clock budget is spent.  Callbacks     *)
(* nest: one that is in a call to the compositor may be interrupted by the       *)
(* dispatch of another, which saves the outer handler on hl--wd-stack.           *)
(*                                                                              *)
(* Time advances in ticks; the alarm goes off Period ticks after it is armed.    *)
(* SIGALRM is an async: Guile runs it at the next procedure entry of Scheme      *)
(* code, those inside hl--wd-enter and hl--wd-exit included, never inside a      *)
(* foreign call.  What it cuts short there is never done.                        *)
EXTENDS Naturals, Sequences, SequencesExt

CONSTANTS
    Ids,       \* names for runs, reused once nothing refers to one
    None,      \* no run
    Period,    \* ticks of the alarm cadence, hl--wd-rearm
    Budgets,   \* values a config gives hl--watchdog-ms, in ticks
    Default,   \* the value the kernel's reset gives it
    MaxDepth   \* bound on the nesting of callbacks and on what hl--wd-stack keeps

ASSUME WatchdogAssumption ==
    /\ None \notin Ids
    /\ Period \in Nat \ {0} /\ MaxDepth \in Nat
    /\ Budgets \subseteq Nat /\ Default \in Budgets
    /\ \E b \in Budgets : \A c \in Budgets : c <= b

\* No budget is told from a longer time than this.
Cap == 1 + CHOOSE b \in Budgets : \A c \in Budgets : c <= b

VARIABLES
    watchdogMs,  \* hl--watchdog-ms
    runs,        \* the guarded runs whose body has begun, the innermost last
    budget, el,  \* budget and time since t0 captured by a run's handler
    wdStack,     \* hl--wd-stack: the handlers to restore, the innermost first
    handler,     \* hl--wd-handler: the run whose closure it is, or None
    alarm,       \* ticks to the next SIGALRM, 0 if none is scheduled
    pending,     \* a SIGALRM waits to be run as an async
    inC,         \* the innermost run is inside a foreign call
    mid,         \* the enter or exit under way: [op, pc, run, old, to]
    cut          \* for the properties only: what has spoilt the saved handlers

clock == <<budget, el, alarm, pending>>
vars  == <<watchdogMs, runs, clock, wdStack, handler, inC, mid, cut>>

\* Neither hl--wd-enter nor hl--wd-exit is under way.
Between == [op |-> "none", pc |-> 0, run |-> None, old |-> None, to |-> None]

Top == IF runs = <<>> THEN None ELSE Last(runs)
Active == ToSet(runs)

Init ==
    /\ watchdogMs = Default
    /\ runs = <<>> /\ wdStack = <<>> /\ handler = None
    /\ budget = [i \in Ids |-> 0] /\ el = [i \in Ids |-> 0]
    /\ alarm = 0 /\ pending = FALSE
    /\ inC = FALSE /\ mid = Between /\ cut = "no"

------------------------------------------------------------------------------
(* hl--guarded-run *)

\* A run nothing refers to any more can be named again.
Fresh(i) == i \notin Active \cup ToSet(wdStack) \cup {handler, mid.run, mid.old}

\* hl--guarded-run calls hl--wd-enter: budget, t0 and the handler to come back to
\* are read.  A nested run begins while the outer one is in a foreign call.
Begin(i) ==
    /\ mid = Between /\ Fresh(i)
    /\ Len(runs) < MaxDepth /\ Len(wdStack) < MaxDepth
    /\ runs # <<>> => inC
    /\ mid' = [op |-> "enter", pc |-> 1, run |-> i, old |-> handler, to |-> i]
    /\ budget' = [budget EXCEPT ![i] = watchdogMs]
    /\ el' = [el EXCEPT ![i] = 0]
    /\ UNCHANGED <<watchdogMs, runs, wdStack, handler, alarm, pending, inC, cut>>

\* hl--wd-enter arms the alarm; what it takes for the ticks that were left is the
\* argument it passed, so every run restores a full period.
EnterAlarm ==
    /\ mid.op = "enter" /\ mid.pc = 1
    /\ alarm' = Period
    /\ mid' = [mid EXCEPT !.pc = 2]
    /\ UNCHANGED <<watchdogMs, runs, budget, el, pending, wdStack, handler, inC, cut>>

\* hl--wd-enter pushes the outer handler.
EnterPush ==
    /\ mid.op = "enter" /\ mid.pc = 2
    /\ wdStack' = <<mid.old>> \o wdStack
    /\ mid' = [mid EXCEPT !.pc = 3]
    /\ UNCHANGED <<watchdogMs, runs, clock, handler, inC, cut>>

\* hl--wd-enter installs its own handler.
EnterHandler ==
    /\ mid.op = "enter" /\ mid.pc = 3
    /\ handler' = mid.run
    /\ mid' = [mid EXCEPT !.pc = 4]
    /\ UNCHANGED <<watchdogMs, runs, clock, wdStack, inC, cut>>

\* hl--wd-enter has returned: dynamic-wind puts the run on the wind list and calls
\* the thunk.
EnterBody ==
    /\ mid.op = "enter" /\ mid.pc = 4
    /\ runs' = Append(runs, mid.run)
    /\ inC' = FALSE
    /\ mid' = Between
    /\ UNCHANGED <<watchdogMs, clock, wdStack, handler, cut>>

\* The innermost run leaves its body, to return from the run `to`: dynamic-wind
\* takes it off the wind list and calls hl--wd-exit.
Leaving(to) == [op |-> "exit", pc |-> 1, run |-> Top, old |-> None, to |-> to]

\* Scheme code of the innermost run goes on, no async being due.
InScheme == mid = Between /\ runs # <<>> /\ ~inC /\ ~pending

\* The thunk returns.
Return ==
    /\ InScheme
    /\ mid' = Leaving(Top)
    /\ runs' = Front(runs)
    /\ UNCHANGED <<watchdogMs, clock, wdStack, handler, inC, cut>>

\* Mutant of ExitPop: the rest of the stack is taken for the entry.
ExitPopCdr ==
    /\ mid.op = "exit" /\ mid.pc = 1 /\ wdStack # <<>>
    /\ mid' = [mid EXCEPT !.pc = 2, !.old = Tail(wdStack)]
    /\ wdStack' = Tail(wdStack)
    /\ UNCHANGED <<watchdogMs, runs, clock, handler, inC, cut>>

\* hl--wd-exit pops the entry its enter pushed.
ExitPop ==
    /\ mid.op = "exit" /\ mid.pc = 1 /\ wdStack # <<>>
    /\ mid' = [mid EXCEPT !.pc = 2, !.old = Head(wdStack)]
    /\ wdStack' = Tail(wdStack)
    /\ UNCHANGED <<watchdogMs, runs, clock, handler, inC, cut>>

\* The stack is empty, a reload having emptied it under the run: the car of
\* hl--wd-exit is of nothing, and the error it raises ends the run, and whatever
\* was unwinding through it, in the trampoline that called it.
ExitFails ==
    /\ mid.op = "exit" /\ mid.pc = 1 /\ wdStack = <<>>
    /\ mid' = Between /\ inC' = (runs # <<>>)
    /\ UNCHANGED <<watchdogMs, runs, clock, wdStack, handler, cut>>

\* hl--wd-exit turns the alarm off.
ExitAlarm ==
    /\ mid.op = "exit" /\ mid.pc = 2
    /\ alarm' = 0
    /\ mid' = [mid EXCEPT !.pc = 3]
    /\ UNCHANGED <<watchdogMs, runs, budget, el, pending, wdStack, handler, inC, cut>>

\* Mutant of ExitHandler: the outer handler is not put back.
ExitHandlerClears ==
    /\ mid.op = "exit" /\ mid.pc = 3
    /\ handler' = None
    /\ mid' = [mid EXCEPT !.pc = 4]
    /\ UNCHANGED <<watchdogMs, runs, clock, wdStack, inC, cut>>

\* hl--wd-exit puts the outer handler back.
ExitHandler ==
    /\ mid.op = "exit" /\ mid.pc = 3
    /\ handler' = mid.old
    /\ mid' = [mid EXCEPT !.pc = 4]
    /\ UNCHANGED <<watchdogMs, runs, clock, wdStack, inC, cut>>

\* Mutant of ExitRearm: the outer run gets no alarm back.
ExitNoRearm ==
    /\ mid.op = "exit" /\ mid.pc = 4
    /\ IF mid.run = mid.to THEN mid' = Between /\ runs' = runs /\ inC' = (runs # <<>>)
       ELSE mid' = Leaving(mid.to) /\ runs' = Front(runs) /\ inC' = inC
    /\ UNCHANGED <<watchdogMs, clock, wdStack, handler, cut>>

\* hl--wd-exit re-arms the alarm with the ticks it saved, a full period.  Then the
\* run is over and the outer one is back in its foreign call, or, unwinding
\* further out, the next run leaves.
ExitRearm ==
    /\ mid.op = "exit" /\ mid.pc = 4
    /\ alarm' = Period
    /\ IF mid.run = mid.to THEN mid' = Between /\ runs' = runs /\ inC' = (runs # <<>>)
       ELSE mid' = Leaving(mid.to) /\ runs' = Front(runs) /\ inC' = inC
    /\ UNCHANGED <<watchdogMs, budget, el, pending, wdStack, handler, cut>>

------------------------------------------------------------------------------
(* What runs between an enter and its exit *)

\* The callback calls into the compositor, and comes back from it.
CCall ==
    /\ InScheme
    /\ inC' = TRUE
    /\ UNCHANGED <<watchdogMs, runs, clock, wdStack, handler, mid, cut>>

CReturn ==
    /\ mid = Between /\ inC
    /\ inC' = FALSE
    /\ UNCHANGED <<watchdogMs, runs, clock, wdStack, handler, mid, cut>>

\* A config or an eval sets hl--watchdog-ms.
SetBudget(b) ==
    /\ InScheme
    /\ watchdogMs' = b
    /\ UNCHANGED <<runs, clock, wdStack, handler, inC, mid, cut>>

\* init.scm starts a generation with the kernel's reset, from the compositor's main
\* loop or, if a callback's call to the compositor reloads at once, inside that call.
Reset ==
    /\ mid = Between /\ (runs # <<>> => inC)
    /\ watchdogMs' = Default
    /\ wdStack' = <<>>
    /\ handler' = None
    /\ cut' = IF runs = <<>> THEN "no" ELSE "reload"
    /\ UNCHANGED <<runs, clock, inC, mid>>

------------------------------------------------------------------------------
(* SIGALRM *)

\* An async is run at a procedure entry: of the callback, of the next callback
\* when there is none, of hl--wd-enter and of hl--wd-exit.
AtProcedureEntry == mid # Between \/ ~inC

\* An async that is due is run, and what it did is told from what has spoilt the
\* saved handlers.
Delivered(spoils) ==
    /\ pending /\ AtProcedureEntry
    /\ pending' = FALSE
    /\ cut' = IF cut = "no" /\ spoils THEN "async" ELSE cut

\* A tick of the clock; the alarm goes off as its last tick passes.
Tick ==
    /\ ~(pending /\ AtProcedureEntry)
    /\ el' = [i \in Ids |-> IF Fresh(i) \/ el[i] = Cap THEN el[i] ELSE el[i] + 1]
    /\ alarm' = IF alarm = 0 THEN 0 ELSE alarm - 1
    /\ pending' = (pending \/ alarm = 1)
    /\ UNCHANGED <<watchdogMs, budget, runs, wdStack, handler, inC, mid, cut>>

\* No handler is installed: the async does nothing.  The alarm that an enter under
\* way has armed is spent if this was its.
DeliverToNone ==
    /\ handler = None
    /\ Delivered(mid.op = "enter" /\ mid.pc > 1 /\ alarm = 0)
    /\ UNCHANGED <<watchdogMs, runs, budget, el, alarm, wdStack, handler, inC, mid>>

\* Mutant of Rearm: the handler leaves the alarm off.
RearmForgotten ==
    /\ handler # None /\ el[handler] <= budget[handler]
    /\ Delivered(FALSE)
    /\ UNCHANGED <<watchdogMs, runs, budget, el, alarm, wdStack, handler, inC, mid>>

\* The handler finds its run within its budget and arms the alarm again.
Rearm ==
    /\ handler # None /\ el[handler] <= budget[handler]
    /\ Delivered(FALSE)
    /\ alarm' = Period
    /\ UNCHANGED <<watchdogMs, runs, budget, el, wdStack, handler, inC, mid>>

\* An enter past its push, or an exit short of its handler, is abandoned: an entry
\* too many stays on hl--wd-stack, or the handler of a run that is over.
AbandonsHalf ==
    \/ mid.op = "enter" /\ mid.pc > 2
    \/ mid.op = "exit" /\ mid.pc < 4

\* The handler finds its run over its budget and escapes from it: the runs inside
\* it and the run itself leave, an enter or exit they were in is abandoned.  If
\* the run was in its own hl--wd-enter or hl--wd-exit it is not on the wind list,
\* and what was left of the two is not done.
Escape ==
    /\ handler \in (Active \cup {mid.run}) \ {None}
    /\ el[handler] > budget[handler]
    /\ Delivered(AbandonsHalf)
    /\ IF handler \in Active
       THEN mid' = Leaving(handler) /\ runs' = Front(runs) /\ inC' = inC
       ELSE mid' = Between /\ runs' = runs /\ inC' = (runs # <<>>)
    /\ UNCHANGED <<watchdogMs, budget, el, alarm, wdStack, handler>>

\* The handler of a run that is over escapes to where nothing returns to, which
\* Guile refuses: the error ends the callback or the enter or exit it lands in.
EscapeRefused ==
    /\ handler \notin Active \cup {mid.run, None}
    /\ el[handler] > budget[handler]
    /\ Delivered(AbandonsHalf)
    /\ IF mid = Between /\ runs # <<>>
       THEN mid' = Leaving(Top) /\ runs' = Front(runs) /\ inC' = inC
       ELSE mid' = Between /\ runs' = runs /\ inC' = (runs # <<>>)
    /\ UNCHANGED <<watchdogMs, budget, el, alarm, wdStack, handler>>

------------------------------------------------------------------------------
Enter == EnterAlarm \/ EnterPush \/ EnterHandler \/ EnterBody
Exit  == ExitPop \/ ExitFails \/ ExitAlarm \/ ExitHandler \/ ExitRearm
Deliver == DeliverToNone \/ Rearm \/ Escape \/ EscapeRefused

Next ==
    \/ \E i \in Ids : Begin(i)
    \/ Enter
    \/ Return \/ Exit
    \/ CCall \/ CReturn
    \/ \E b \in Budgets : SetBudget(b)
    \/ Reset
    \/ Tick \/ Deliver

Spec == Init /\ [][Next]_vars

\* Time passes, an async that is due is run, hl--wd-enter and hl--wd-exit are
\* straight-line code, and a call to the compositor returns, even if it
\* dispatches callbacks on the way.  The callback itself owes nothing.
FairSpec ==
    /\ Spec
    /\ WF_vars(Tick) /\ WF_vars(Deliver)
    /\ WF_vars(Enter) /\ WF_vars(Exit)
    /\ SF_vars(CReturn)

------------------------------------------------------------------------------
(* Properties *)

Run == Ids \cup {None}

\* Type correctness: handlers are runs, the clock is within its bounds.
TypeOK ==
    /\ watchdogMs \in Budgets
    /\ runs \in Seq(Ids) /\ Len(runs) <= MaxDepth
    /\ budget \in [Ids -> Budgets \cup {0}] /\ el \in [Ids -> 0..Cap]
    /\ wdStack \in Seq(Run) /\ handler \in Run
    /\ alarm \in 0..Period /\ pending \in BOOLEAN /\ inC \in BOOLEAN
    /\ mid \in [op : {"none", "enter", "exit"}, pc : 0..4, run : Run, old : Run, to : Run]
    /\ cut \in {"no", "async", "reload"}

\* Outside hl--wd-enter and hl--wd-exit the installed handler is the innermost
\* run's, and hl--wd-stack holds those of the enclosing runs in their order, so
\* each exit, a return or an escape, gives the outer run its own handler back
\* and nothing is left when no callback runs (hl--guarded-run: "nested
\* dispatches save/restore the outer alarm state").
OuterHandlersKept ==
    mid = Between =>
        /\ handler = Top
        /\ wdStack = IF runs = <<>> THEN <<>> ELSE Reverse(<<None>> \o Front(runs))

\* A callback is never left without a coming check: an alarm is armed or a
\* SIGALRM waits, at any depth, after a nested callback returned or was abandoned
\* (kernel.scm: "SIGALRM fires on a fixed cadence").
Supervised == mid = Between /\ runs # <<>> => alarm > 0 \/ pending

\* Both, until something has spoilt the saved handlers: however callbacks nest,
\* return and are abandoned, and wherever the asyncs land that do not cut an enter
\* past its push or an exit short of its handler, the innermost callback left is
\* watched, and by its own handler.
WatchNested == cut = "no" => OuterHandlersKept /\ Supervised

\* The innermost callback always ends, looping or not, unless it dispatches another
\* one or something spoils the saved handlers (kernel.scm: "a hung callback freezes
\* the desktop ... This wrapper bounds them").
InnermostEnds ==
    \A i \in Ids : (Top = i /\ cut = "no") ~> (Top # i \/ cut # "no")

\* What hl--guarded-run says of itself ("Reentrant: nested dispatches save/restore
\* the outer alarm state"), where no reload empties the stack: a callback that goes
\* on, after what its calls dispatched returned or was abandoned, has its own handler.
NestedRestored == cut # "reload" /\ mid = Between /\ runs # <<>> => handler = Top

\* What the comment on hl--watchdog-ms says ("0 disables"): a callback that began
\* with no budget is not abandoned.
ZeroDisables == [][Escape => budget[handler] # 0]_vars

\* What hl--wd-alarm says of itself ("Returns its argument, so callers can
\* save/restore a previous value"): once the outermost callback is over, the
\* alarm is as it was before it, not armed.
AlarmRestored == mid = Between /\ runs = <<>> => alarm = 0

\* What the watchdog's header says of every callback ("This wrapper bounds them
\* ... SIGALRM fires on a fixed cadence"): one that began is over some day, also
\* one whose calls keep dispatching other callbacks.
EveryRunEnds == \A i \in Ids : (i \in Active) ~> (i \notin Active)

=============================================================================
