---------------------------- MODULE Watchdog_proofs ----------------------------
(* Proofs about Watchdog.tla, for any nesting of callbacks, any budgets and any  *)
(* cadence of the alarm, and about Detector.tla, the backstop of it in the host, *)
(* for any limit and any race of its loads with the stores of the callbacks.     *)
EXTENDS Watchdog, Detector, SequenceTheorems, FiniteSetTheorems, TLAPS

------------------------------------------------------------------------------
(* The invariant *)

\* A callback begins within the bound, and what is under way is an enter of a run.
BeginsWithin == mid.op = "enter" => mid.run \in Ids /\ Len(runs) < MaxDepth

TypeInv == TypeOK /\ BeginsWithin

\* The stack st holds, innermost first, what each run of s came after.
Stacked(st, s) ==
    /\ Len(st) = Len(s)
    /\ \A k \in 1..Len(s) : st[k] = IF k = Len(s) THEN None ELSE s[Len(s) - k]

\* A coming check: an alarm is armed or a SIGALRM waits.
Checked == alarm > 0 \/ pending

\* Between an enter and an exit.
Settled ==
    mid = Between =>
        /\ handler = Top /\ Stacked(wdStack, runs)
        /\ runs # <<>> => Checked

\* Inside hl--wd-enter: what it came after is the innermost run, and once pushed
\* the stack is that of the run that begins.
Entering ==
    mid.op = "enter" =>
        /\ mid.pc \in 1..4 /\ mid.old = Top
        /\ handler = IF mid.pc = 4 THEN mid.run ELSE Top
        /\ Stacked(wdStack, IF mid.pc > 2 THEN Append(runs, mid.run) ELSE runs)
        /\ mid.pc > 1 => Checked

\* Inside hl--wd-exit: the stack is that of the run that leaves until it is popped,
\* what was popped is the innermost run left, and the run to return from is the
\* one that leaves or is still active.
Exiting ==
    mid.op = "exit" =>
        /\ mid.pc \in 1..4 /\ mid.run \in Ids
        /\ mid.to = mid.run \/ mid.to \in Active
        /\ Stacked(wdStack, IF mid.pc = 1 THEN Append(runs, mid.run) ELSE runs)
        /\ mid.pc > 1 => mid.old = Top
        /\ mid.pc = 4 => handler = Top

\* What is neither an enter nor an exit is nothing.
Phases == mid.op = "none" => mid = Between

\* The handlers and the alarm are kept through every enter and exit, as long as no
\* async cuts one short and no reload empties the stack.
Whole == Settled /\ Entering /\ Exiting
Kept == Phases /\ (cut = "no" => Whole)

------------------------------------------------------------------------------
(* Sequences of runs *)

\* The innermost run and those around it.
LEMMA LastAndFront ==
    ASSUME NEW s \in Seq(Ids), s # <<>>
    PROVE  /\ Len(s) \in Nat \ {0} /\ Last(s) = s[Len(s)] /\ Last(s) \in Ids
           /\ Front(s) \in Seq(Ids) /\ Len(Front(s)) = Len(s) - 1
           /\ \A i \in 1..(Len(s) - 1) : Front(s)[i] = s[i]
           /\ s = Append(Front(s), Last(s))
  <1>1. Len(s) \in Nat \ {0} /\ s[Len(s)] \in Ids
    BY EmptySeq, LenProperties, ElementOfSeq
  <1>2. /\ Front(s) \in Seq(Ids) /\ Len(Front(s)) = Len(s) - 1
        /\ \A i \in 1..(Len(s) - 1) : Front(s)[i] = s[i]
    <2> DEFINE k == Len(s) - 1
    <2>1. k \in 0..Len(s)
      BY <1>1
    <2> HIDE DEF k
    <2>2. /\ SubSeq(s, 1, k) \in Seq(Ids) /\ Len(SubSeq(s, 1, k)) = k
          /\ \A i \in 1..k : SubSeq(s, 1, k)[i] = s[i]
      BY <2>1
    <2>3. Front(s) = SubSeq(s, 1, k)
      BY DEF Front, k
    <2>4. QED
      BY <2>2, <2>3, Zenon DEF k
  <1>3. s = Append(Front(s), Last(s))
    <2>1. Last(s) = s[Len(s)]
      BY DEF Last
    <2>2. Append(Front(s), Last(s)) \in Seq(Ids)
      BY <1>1, <1>2, <2>1, AppendProperties
    <2>3. Len(Append(Front(s), Last(s))) = Len(s)
      BY <1>1, <1>2, <2>1, AppendProperties
    <2>4. \A i \in 1..Len(s) : Append(Front(s), Last(s))[i] = s[i]
      BY <1>1, <1>2, <2>1, AppendProperties
    <2>5. QED
      BY <2>2, <2>3, <2>4, SeqEqual
  <1>4. QED
    BY <1>1, <1>2, <1>3 DEF Last

\* What a run comes after is pushed for it.
LEMMA Push ==
    ASSUME NEW s \in Seq(Ids), NEW st \in Seq(Run), NEW x \in Ids, NEW old \in Run,
           Stacked(st, s), old = IF s = <<>> THEN None ELSE Last(s)
    PROVE  Stacked(<<old>> \o st, Append(s, x))
  <1> DEFINE pushed == <<old>> \o st
             inner  == Append(s, x)
  <1>1. Len(s) \in Nat /\ Len(st) = Len(s)
    BY LenProperties DEF Stacked
  <1>2. /\ Len(inner) = Len(s) + 1 /\ inner[Len(s) + 1] = x
        /\ \A i \in 1..Len(s) : inner[i] = s[i]
    BY <1>1, AppendProperties
  <1>3. /\ Len(pushed) = Len(s) + 1 /\ pushed[1] = old
        /\ \A i \in 1..Len(s) : pushed[i + 1] = st[i]
    BY <1>1
  <1>4. ASSUME NEW k \in 1..(Len(s) + 1)
        PROVE  pushed[k] = IF k = Len(s) + 1 THEN None ELSE inner[Len(s) + 1 - k]
    <2>1. CASE k = 1
      <3>1. CASE s = <<>>
        BY <1>1, <1>3, <2>1, <3>1, EmptySeq
      <3>2. CASE s # <<>>
        BY <1>1, <1>2, <1>3, <2>1, <3>2, LastAndFront
      <3>3. QED
        BY <3>1, <3>2
    <2>2. CASE k # 1
      <3>1. k - 1 \in 1..Len(s)
        BY <1>1, <2>2
      <3>2. pushed[k] = st[k - 1]
        BY <1>3, <3>1
      <3>3. st[k - 1] = IF k - 1 = Len(s) THEN None ELSE s[Len(s) - (k - 1)]
        BY <3>1 DEF Stacked
      <3>4. QED
        BY <1>1, <1>2, <3>1, <3>2, <3>3
    <2>3. QED
      BY <2>1, <2>2
  <1>5. QED
    BY <1>2, <1>3, <1>4 DEF Stacked

\* What is popped for a run is what it came after, and the rest belongs to the runs left.
LEMMA Pop ==
    ASSUME NEW s \in Seq(Ids), NEW st \in Seq(Run), NEW x \in Ids,
           Stacked(st, Append(s, x))
    PROVE  /\ st # <<>> /\ Head(st) = IF s = <<>> THEN None ELSE Last(s)
           /\ Stacked(Tail(st), s)
  <1> DEFINE inner == Append(s, x)
  <1>1. Len(s) \in Nat
    BY LenProperties
  <1>2. /\ Len(inner) = Len(s) + 1 /\ \A i \in 1..Len(s) : inner[i] = s[i]
    BY <1>1, AppendProperties
  <1>3. /\ Len(st) = Len(s) + 1
        /\ \A k \in 1..(Len(s) + 1) :
              st[k] = IF k = Len(s) + 1 THEN None ELSE inner[Len(s) + 1 - k]
    BY <1>2 DEF Stacked
  <1>4. st # <<>> /\ Head(st) = st[1]
    BY <1>1, <1>3, EmptySeq
  <1>5. /\ Len(Tail(st)) = Len(s) /\ \A k \in 1..Len(s) : Tail(st)[k] = st[k + 1]
    BY <1>1, <1>3, <1>4, HeadTailProperties
  <1>6. Head(st) = IF s = <<>> THEN None ELSE Last(s)
    <2>1. CASE s = <<>>
      BY <1>3, <1>4, <2>1, EmptySeq
    <2>2. CASE s # <<>>
      BY <1>1, <1>2, <1>3, <1>4, <2>2, LastAndFront
    <2>3. QED
      BY <2>1, <2>2
  <1>7. \A k \in 1..Len(s) : Tail(st)[k] = IF k = Len(s) THEN None ELSE s[Len(s) - k]
    <2> TAKE k \in 1..Len(s)
    <2>1. k + 1 \in 1..(Len(s) + 1) /\ Tail(st)[k] = st[k + 1]
      BY <1>1, <1>5
    <2>2. QED
      BY <1>1, <1>2, <1>3, <2>1
  <1>8. QED
    BY <1>4, <1>5, <1>6, <1>7 DEF Stacked

\* The invariant's way to say it and the property's.
LEMMA StackedIs ==
    ASSUME NEW s \in Seq(Ids), NEW st \in Seq(Run), Stacked(st, s)
    PROVE  st = IF s = <<>> THEN <<>> ELSE Reverse(<<None>> \o Front(s))
  <1>1. CASE s = <<>>
    BY <1>1, EmptySeq DEF Stacked
  <1>2. CASE s # <<>>
    <2> DEFINE around == <<None>> \o Front(s)
    <2>1. /\ Len(s) \in Nat \ {0} /\ Len(Front(s)) = Len(s) - 1 /\ Front(s) \in Seq(Ids)
          /\ \A i \in 1..(Len(s) - 1) : Front(s)[i] = s[i]
      BY <1>2, LastAndFront
    <2>2. /\ Len(around) = Len(s) /\ around[1] = None
          /\ \A i \in 2..Len(s) : around[i] = s[i - 1]
      BY <2>1
    <2>3. Reverse(around) = [i \in 1..Len(s) |-> around[(Len(s) - i) + 1]]
      BY <2>2 DEF Reverse
    <2>4. \A k \in 1..Len(s) : st[k] = around[(Len(s) - k) + 1]
      <3> TAKE k \in 1..Len(s)
      <3>1. st[k] = IF k = Len(s) THEN None ELSE s[Len(s) - k]
        BY DEF Stacked
      <3>2. CASE k = Len(s)
        BY <2>1, <2>2, <3>1, <3>2
      <3>3. CASE k # Len(s)
        <4>1. (Len(s) - k) + 1 \in 2..Len(s) /\ ((Len(s) - k) + 1) - 1 = Len(s) - k
          BY <2>1, <3>3
        <4>2. QED
          BY <2>2, <3>1, <3>3, <4>1
      <3>4. QED
        BY <3>2, <3>3
    <2>5. st = [i \in 1..Len(s) |-> st[i]]
      BY DEF Stacked
    <2>6. st = Reverse(around)
      BY <2>3, <2>4, <2>5
    <2>7. QED
      BY <1>2, <2>6
  <1>3. QED
    BY <1>1, <1>2

------------------------------------------------------------------------------
(* Types *)

\* The longest budget there is bounds the clock.
LEMMA CapIs == Cap \in Nat
  <1>1. PICK b \in Budgets : \A c \in Budgets : c <= b
    BY WatchdogAssumption
  <1> DEFINE longest == CHOOSE d \in Budgets : \A c \in Budgets : c <= d
  <1>2. longest \in Nat
    BY <1>1, WatchdogAssumption
  <1>3. Cap = 1 + longest
    BY DEF Cap
  <1> HIDE DEF longest
  <1>4. QED
    BY <1>2, <1>3

LEMMA TopIs == runs \in Seq(Ids) => Top \in Run /\ (runs # <<>> => Top \in Ids)
  BY LastAndFront DEF Top, Run

LEMMA FrontIs ==
    ASSUME NEW s \in Seq(Ids)
    PROVE  Front(s) \in Seq(Ids) /\ Len(Front(s)) <= Len(s)
  <1>1. CASE s = <<>>
    <2>1. Front(s) = <<>>
      BY <1>1, SubSeqEmpty, EmptySeq DEF Front
    <2>2. Front(s) = s /\ Len(s) \in Nat
      BY <1>1, <2>1, LenProperties
    <2>3. QED
      BY <2>2
  <1>2. CASE s # <<>>
    BY <1>2, LastAndFront
  <1>3. QED
    BY <1>1, <1>2

\* What an enter or an exit keeps of itself.
Mids == [op : {"none", "enter", "exit"}, pc : 0..4, run : Run, old : Run, to : Run]

\* The place of an enter or an exit moves on, and the rest of it stays.
Moves(n, old) ==
    /\ mid' \in Mids /\ mid'.op = mid.op /\ mid'.pc = n
    /\ mid'.run = mid.run /\ mid'.old = old /\ mid'.to = mid.to

LEMMA Popped ==
    ASSUME NEW m \in Mids, NEW n \in 0..4, NEW o \in Run
    PROVE  [m EXCEPT !.pc = n, !.old = o] \in Mids
  BY DEF Mids

LEMMA MidMoves ==
    ASSUME mid \in Mids
    PROVE  /\ mid.run \in Run /\ mid.old \in Run /\ mid.to \in Run
           /\ EnterAlarm => Moves(2, mid.old)
           /\ EnterPush => Moves(3, mid.old)
           /\ ExitPop /\ Head(wdStack) \in Run => Moves(2, Head(wdStack))
           /\ ExitAlarm => Moves(3, mid.old)
           /\ ExitHandler => Moves(4, mid.old)
           /\ EnterHandler => Moves(4, mid.old)
  <1>1. mid.run \in Run /\ mid.old \in Run /\ mid.to \in Run
    BY DEF Mids
  <1>2. EnterAlarm => Moves(2, mid.old)
    BY DEF Mids, Moves, EnterAlarm
  <1>3. EnterPush => Moves(3, mid.old)
    BY DEF Mids, Moves, EnterPush
  <1>4. ExitPop /\ Head(wdStack) \in Run => Moves(2, Head(wdStack))
    <2> DEFINE h == Head(wdStack)
    <2>1. ExitPop => mid.op = "exit" /\ mid' = [mid EXCEPT !.pc = 2, !.old = h]
      BY DEF ExitPop
    <2> HIDE DEF h
    <2>2. ASSUME NEW o \in Run, mid' = [mid EXCEPT !.pc = 2, !.old = o]
          PROVE  Moves(2, o)
      <3>1. 2 \in 0..4
        OBVIOUS
      <3>2. mid' \in Mids
        BY <2>2, <3>1, Popped
      <3>3. mid'.pc = 2 /\ mid'.op = mid.op /\ mid'.run = mid.run
        BY <2>2 DEF Mids
      <3>4. mid'.old = o /\ mid'.to = mid.to
        BY <2>2 DEF Mids
      <3>5. QED
        BY <3>2, <3>3, <3>4 DEF Moves
    <2>3. QED
      BY <2>1, <2>2 DEF h
  <1>5. ExitAlarm => Moves(3, mid.old)
    BY DEF Mids, Moves, ExitAlarm
  <1>6. ExitHandler => Moves(4, mid.old)
    BY DEF Mids, Moves, ExitHandler
  <1>7. EnterHandler => Moves(4, mid.old)
    BY DEF Mids, Moves, EnterHandler
  <1>8. QED
    BY <1>1, <1>2, <1>3, <1>4, <1>5, <1>6, <1>7

LEMMA InitType == Init => TypeInv
  <1>1. 0 \in 0..Cap /\ 0 \in 0..Period /\ <<>> \in Seq(Ids) /\ <<>> \in Seq(Run) /\ Len(<<>>) = 0
    BY CapIs, WatchdogAssumption, EmptySeq
  <1>2. Between \in Mids /\ Between.op # "enter"
    BY DEF Between, Mids, Run
  <1>3. Init => TypeOK
    <2> SUFFICES ASSUME Init PROVE TypeOK
      OBVIOUS
    <2>1. watchdogMs \in Budgets /\ pending \in BOOLEAN /\ inC \in BOOLEAN /\ alarm \in 0..Period
      BY <1>1, WatchdogAssumption DEF Init
    <2>2. budget \in [Ids -> Budgets \cup {0}] /\ el \in [Ids -> 0..Cap]
      BY <1>1 DEF Init
    <2>3. /\ runs \in Seq(Ids) /\ Len(runs) <= MaxDepth
          /\ wdStack \in Seq(Run) /\ handler \in Run
      BY <1>1, WatchdogAssumption DEF Init, Run
    <2>4. QED
      BY <1>2, <2>1, <2>2, <2>3 DEF Init, TypeOK, Mids
  <1>4. QED
    BY <1>2, <1>3 DEF Init, TypeInv, BeginsWithin

\* The types are kept, also where an async cuts an enter or an exit short.
LEMMA TypeStep == TypeInv /\ [Next]_vars => TypeInv'
  <1> SUFFICES ASSUME TypeInv, [Next]_vars PROVE TypeInv'
    OBVIOUS
  <1> USE DEF TypeInv, TypeOK, BeginsWithin, clock
  <1>0. /\ None \in Run /\ Ids \subseteq Run /\ Between \in Mids
        /\ Top \in Run /\ Leaving(Top) \in Mids /\ Leaving(handler) \in Mids
        /\ Leaving(mid.to) \in Mids /\ mid \in Mids /\ 0 \in 0..Period /\ Period \in 0..Period
    <2>1. None \in Run /\ Ids \subseteq Run /\ Top \in Run /\ mid \in Mids
      BY TopIs DEF Run, Mids
    <2>2. mid.to \in Run /\ handler \in Run
      BY <2>1 DEF Mids
    <2>3. QED
      BY <2>1, <2>2, WatchdogAssumption DEF Between, Leaving, Mids
  <1>1. ASSUME NEW i \in Ids, Begin(i) PROVE TypeInv'
    <2>1. mid' \in Mids /\ mid'.run = i
      BY <1>0, <1>1 DEF Begin, Mids
    <2>2. budget' \in [Ids -> Budgets \cup {0}] /\ el' \in [Ids -> 0..Cap]
      BY <1>1, CapIs DEF Begin
    <2>3. QED
      BY <1>1, <2>1, <2>2 DEF Begin, Mids
  <1>2. CASE EnterAlarm
    <2>1. mid' \in Mids /\ mid'.run = mid.run /\ mid'.op = mid.op
      BY <1>0, <1>2, MidMoves DEF Moves
    <2>2. QED
      BY <1>0, <1>2, <2>1 DEF EnterAlarm, Mids
  <1>3. CASE EnterPush
    <2>1. mid.old \in Run /\ mid' \in Mids /\ mid'.run = mid.run /\ mid'.op = mid.op
      BY <1>0, <1>3, MidMoves DEF Moves
    <2>2. wdStack' \in Seq(Run)
      BY <1>3, <2>1 DEF EnterPush
    <2>3. QED
      BY <1>3, <2>1, <2>2 DEF EnterPush, Mids
  <1>4. CASE EnterHandler
    <2>1. mid.run \in Run /\ mid' \in Mids /\ mid'.run = mid.run /\ mid'.op = mid.op
      BY <1>0, <1>4, MidMoves DEF Moves
    <2>2. QED
      BY <1>4, <2>1 DEF EnterHandler, Mids
  <1>5. CASE EnterBody
    <2>1. mid.run \in Ids
      BY <1>5 DEF EnterBody
    <2>2. runs' \in Seq(Ids) /\ Len(runs') <= MaxDepth
      BY <1>5, <2>1, WatchdogAssumption, AppendProperties, LenProperties DEF EnterBody
    <2>3. QED
      BY <1>0, <1>5, <2>1, <2>2 DEF EnterBody, Between, Mids
  <1>6. CASE Return
    <2>1. runs' \in Seq(Ids) /\ Len(runs') <= MaxDepth
      BY <1>6, FrontIs, WatchdogAssumption, LenProperties DEF Return
    <2>2. QED
      BY <1>0, <1>6, <2>1 DEF Return, Leaving, Mids
  <1>7. CASE ExitPop
    <2>1. Head(wdStack) \in Run /\ Tail(wdStack) \in Seq(Run)
      BY <1>7, HeadTailProperties DEF ExitPop
    <2>2. mid' \in Mids /\ mid'.op = "exit"
      BY <1>0, <1>7, <2>1, MidMoves DEF Moves, ExitPop
    <2>3. QED
      BY <1>7, <2>1, <2>2 DEF ExitPop, Mids
  <1>8. CASE ExitFails
    <2>1. mid' \in Mids /\ mid'.op # "enter" /\ inC' \in BOOLEAN
      BY <1>0, <1>8 DEF ExitFails, Between
    <2>2. QED
      BY <1>8, <2>1 DEF ExitFails, Mids
  <1>9. CASE ExitAlarm
    <2>1. mid' \in Mids /\ mid'.op = "exit"
      BY <1>0, <1>9, MidMoves DEF Moves, ExitAlarm
    <2>2. QED
      BY <1>0, <1>9, <2>1 DEF ExitAlarm, Mids
  <1>10. CASE ExitHandler
    <2>1. mid' \in Mids /\ mid'.op = "exit" /\ mid.old \in Run
      BY <1>0, <1>10, MidMoves DEF Moves, ExitHandler
    <2>2. QED
      BY <1>10, <2>1 DEF ExitHandler, Mids
  <1>11. CASE ExitRearm
    <2>1. runs' \in Seq(Ids) /\ Len(runs') <= MaxDepth
      BY <1>11, FrontIs, WatchdogAssumption, LenProperties DEF ExitRearm
    <2>2. mid' \in Mids /\ mid'.op # "enter"
      BY <1>0, <1>11 DEF ExitRearm, Leaving, Between
    <2>3. inC' \in BOOLEAN
      BY <1>11 DEF ExitRearm
    <2>4. QED
      BY <1>0, <1>11, <2>1, <2>2, <2>3 DEF ExitRearm, Mids
  <1>12. CASE CCall
    BY <1>12 DEF CCall
  <1>13. CASE CReturn
    BY <1>13 DEF CReturn
  <1>14. ASSUME NEW b \in Budgets, SetBudget(b) PROVE TypeInv'
    BY <1>14 DEF SetBudget
  <1>15. CASE Reset
    BY <1>0, <1>15, WatchdogAssumption, EmptySeq DEF Reset
  <1>16. CASE Tick
    <2>1. el' \in [Ids -> 0..Cap]
      BY <1>16, CapIs DEF Tick
    <2>2. alarm' \in 0..Period /\ pending' \in BOOLEAN
      BY <1>16, WatchdogAssumption DEF Tick
    <2>3. QED
      BY <1>16, <2>1, <2>2 DEF Tick
  <1>17. CASE DeliverToNone
    BY <1>17 DEF DeliverToNone, Delivered
  <1>18. CASE Rearm
    BY <1>0, <1>18 DEF Rearm, Delivered
  <1>19. CASE Escape
    <2>1. runs' \in Seq(Ids) /\ Len(runs') <= MaxDepth
      BY <1>19, FrontIs, WatchdogAssumption, LenProperties DEF Escape
    <2>2. mid' \in Mids /\ mid'.op # "enter"
      BY <1>0, <1>19 DEF Escape, Leaving, Between
    <2>3. inC' \in BOOLEAN /\ pending' \in BOOLEAN /\ cut' \in {"no", "async", "reload"}
      BY <1>19 DEF Escape, Delivered
    <2>4. QED
      BY <1>19, <2>1, <2>2, <2>3 DEF Escape, Mids
  <1>20. CASE EscapeRefused
    <2>1. runs' \in Seq(Ids) /\ Len(runs') <= MaxDepth
      BY <1>20, FrontIs, WatchdogAssumption, LenProperties DEF EscapeRefused
    <2>2. mid' \in Mids /\ mid'.op # "enter"
      BY <1>0, <1>20 DEF EscapeRefused, Leaving, Between
    <2>3. inC' \in BOOLEAN /\ pending' \in BOOLEAN /\ cut' \in {"no", "async", "reload"}
      BY <1>20 DEF EscapeRefused, Delivered
    <2>4. QED
      BY <1>20, <2>1, <2>2, <2>3 DEF EscapeRefused, Mids
  <1>21. CASE UNCHANGED vars
    BY <1>21 DEF vars
  <1>22. QED
    BY <1>1, <1>2, <1>3, <1>4, <1>6, <1>7, <1>9, <1>10, <1>11, <1>12, <1>13, <1>14, <1>15, <1>16, <1>17, <1>18, <1>19, <1>21, <1>5, <1>8, <1>20 DEF Next, Enter, Exit, Deliver

\* The variables of the watchdog keep their types, for any nesting and wherever an
\* async may land.
THEOREM TypeCorrect == Spec => []TypeOK
  <1>1. TypeInv => TypeOK
    BY DEF TypeInv
  <1>2. QED
    BY <1>1, InitType, TypeStep, PTL DEF Spec

------------------------------------------------------------------------------
(* The stack of outer handlers *)

LEMMA InitKept == Init => Kept
  <1>1. Len(<<>>) = 0
    OBVIOUS
  <1>2. QED
    BY <1>1 DEF Init, Kept, Whole, Settled, Entering, Exiting, Phases, Between, Stacked, Top

\* A step that moves neither runs nor handlers keeps what is said of them, if a
\* check is still coming.
LEMMA Undisturbed ==
    ASSUME Kept, UNCHANGED <<runs, wdStack, handler, mid, cut>>, Checked => Checked'
    PROVE  Kept'
  BY DEF Kept, Whole, Settled, Entering, Exiting, Phases, Stacked, Top, Active

\* hl--wd-enter keeps it.
LEMMA EnterKeeps ==
    ASSUME TypeInv, Kept, (\E i \in Ids : Begin(i)) \/ Enter
    PROVE  Kept'
  <1> USE DEF Whole, Settled, Entering, Exiting, Phases
  <1>0. /\ mid \in Mids /\ runs \in Seq(Ids) /\ wdStack \in Seq(Run) /\ handler \in Run
        /\ Period > 0 /\ Top \in Run
    BY WatchdogAssumption, TopIs DEF TypeInv, TypeOK, Mids
  <1>1. cut' = cut
    BY DEF Begin, Enter, EnterAlarm, EnterPush, EnterHandler, EnterBody
  <1>2. Phases'
    <2>1. CASE \E i \in Ids : Begin(i)
      BY <2>1 DEF Begin
    <2>2. CASE EnterAlarm \/ EnterPush \/ EnterHandler
      BY <1>0, <2>2, MidMoves DEF Moves, EnterAlarm, EnterPush, EnterHandler
    <2>3. CASE EnterBody
      BY <2>3 DEF EnterBody
    <2>4. QED
      BY <2>1, <2>2, <2>3 DEF Enter
  <1>3. SUFFICES ASSUME Whole PROVE Whole'
    BY <1>1, <1>2 DEF Kept
  <1>4. ASSUME NEW i \in Ids, Begin(i) PROVE Whole'
    <2>1. /\ mid'.op = "enter" /\ mid'.pc = 1 /\ mid'.old = handler
      BY <1>4 DEF Begin
    <2>2. UNCHANGED <<runs, wdStack, handler>> /\ mid = Between
      BY <1>4 DEF Begin
    <2>3. handler = Top /\ Stacked(wdStack, runs) /\ Top' = Top
      BY <1>3, <2>2 DEF Top
    <2>4. QED
      BY <2>1, <2>2, <2>3 DEF Between, Stacked
  <1>5. CASE EnterAlarm
    <2>1. Moves(2, mid.old) /\ mid.op = "enter" /\ mid.pc = 1 /\ alarm' > 0
      BY <1>0, <1>5, MidMoves DEF EnterAlarm
    <2>2. UNCHANGED <<runs, wdStack, handler>> /\ Top' = Top
      BY <1>5 DEF EnterAlarm, Top
    <2>3. QED
      BY <1>3, <2>1, <2>2 DEF Moves, Between, Stacked, Checked
  <1>6. CASE EnterPush
    <2>1. Moves(3, mid.old) /\ mid.op = "enter" /\ mid.pc = 2 /\ mid.run \in Ids
      BY <1>0, <1>6, MidMoves DEF EnterPush, TypeInv, BeginsWithin
    <2>2. UNCHANGED <<runs, handler, alarm, pending>> /\ Top' = Top /\ wdStack' = <<mid.old>> \o wdStack
      BY <1>6 DEF EnterPush, Top, clock
    <2>3. mid.old = Top /\ handler = Top /\ Stacked(wdStack, runs) /\ Checked'
      BY <1>3, <2>1, <2>2 DEF Checked
    <2>4. Stacked(wdStack', Append(runs, mid.run))
      BY <1>0, <2>1, <2>2, <2>3, Push DEF Top
    <2>5. QED
      BY <2>1, <2>2, <2>3, <2>4 DEF Moves, Between, Stacked
  <1>7. CASE EnterHandler
    <2>1. Moves(4, mid.old) /\ mid.op = "enter" /\ mid.pc = 3
      BY <1>0, <1>7, MidMoves DEF EnterHandler
    <2>2. /\ UNCHANGED <<runs, wdStack, alarm, pending>> /\ Top' = Top
          /\ handler' = mid.run /\ mid'.run = mid.run
      BY <1>7, <2>1 DEF EnterHandler, Top, clock, Moves
    <2>3. mid.old = Top /\ Stacked(wdStack, Append(runs, mid.run)) /\ Checked'
      BY <1>3, <2>1, <2>2 DEF Checked
    <2>4. QED
      BY <2>1, <2>2, <2>3 DEF Moves, Between, Stacked
  <1>8. CASE EnterBody
    <2>1. mid.op = "enter" /\ mid.pc = 4 /\ mid.run \in Ids
      BY <1>8 DEF EnterBody, TypeInv, BeginsWithin
    <2>2. /\ runs' = Append(runs, mid.run) /\ handler' = handler /\ mid' = Between
          /\ UNCHANGED <<wdStack, alarm, pending>>
      BY <1>8 DEF EnterBody, clock
    <2>3. runs' # <<>> /\ Last(runs') = mid.run
      BY <1>0, <2>1, <2>2, AppendProperties, LenProperties, EmptySeq DEF Last
    <2>4. handler' = Top' /\ Checked' /\ Stacked(wdStack', runs')
      BY <1>3, <2>1, <2>2, <2>3 DEF Top, Checked
    <2>5. QED
      BY <2>2, <2>4 DEF Between, Stacked
  <1>9. QED
    BY <1>4, <1>5, <1>6, <1>7, <1>8 DEF Enter

\* The innermost run leaves its body, for a run that is still there.
LEMMA LeavingKeeps ==
    ASSUME TypeInv, runs # <<>>, Stacked(wdStack, runs), NEW to \in Active,
           mid' = Leaving(to), runs' = Front(runs), wdStack' = wdStack
    PROVE  Phases' /\ Whole'
  <1>1. /\ runs \in Seq(Ids) /\ Top = Last(runs)
    BY DEF TypeInv, TypeOK, Top
  <1>2. Top \in Ids /\ runs = Append(runs', Top) /\ runs' \in Seq(Ids)
    BY <1>1, LastAndFront
  <1>3. /\ mid'.op = "exit" /\ mid'.pc = 1 /\ mid'.run = Top /\ mid'.to = to
    BY DEF Leaving
  <1>4. Stacked(wdStack', Append(runs', mid'.run))
    BY <1>2, <1>3
  <1>5. to = Top \/ to \in Active'
    <2>1. PICK i \in 1..Len(runs) : to = runs[i]
      BY <1>1 DEF Active, ToSet
    <2>2. CASE i = Len(runs)
      BY <1>1, <2>1, <2>2 DEF Last
    <2>3. CASE i # Len(runs)
      <3>1. i \in 1..Len(runs') /\ runs'[i] = runs[i]
        BY <1>1, <2>3, LastAndFront
      <3>2. QED
        BY <1>2, <2>1, <3>1 DEF Active, ToSet
    <2>4. QED
      BY <2>2, <2>3
  <1>6. QED
    BY <1>2, <1>3, <1>4, <1>5 DEF Whole, Settled, Entering, Exiting, Phases, Between, Stacked

\* hl--wd-exit gives the outer run its handler and an alarm back.
LEMMA ExitKeeps ==
    ASSUME TypeInv, Kept, Return \/ Exit
    PROVE  Kept'
  <1> USE DEF Whole, Settled, Entering, Exiting, Phases
  <1>0. /\ mid \in Mids /\ runs \in Seq(Ids) /\ wdStack \in Seq(Run) /\ handler \in Run
        /\ Period > 0 /\ Top \in Run
    BY WatchdogAssumption, TopIs DEF TypeInv, TypeOK, Mids
  <1>1. cut' = cut
    BY DEF Return, Exit, ExitPop, ExitFails, ExitAlarm, ExitHandler, ExitRearm
  <1>2. Phases'
    <2>1. CASE ExitAlarm \/ ExitHandler
      BY <1>0, <2>1, MidMoves DEF Moves, ExitAlarm, ExitHandler
    <2>2. CASE ExitPop
      <3>1. mid' = [mid EXCEPT !.pc = 2, !.old = Head(wdStack)] /\ mid.op = "exit"
        BY <2>2 DEF ExitPop
      <3>2. QED
        BY <1>0, <3>1 DEF Mids
    <2>3. CASE Return \/ ExitFails \/ ExitRearm
      BY <2>3 DEF Return, ExitFails, ExitRearm, Leaving
    <2>4. QED
      BY <2>1, <2>2, <2>3 DEF Exit
  <1>3. SUFFICES ASSUME Whole PROVE Whole'
    BY <1>1, <1>2 DEF Kept
  <1>4. CASE Return
    <2>1. /\ runs # <<>> /\ mid = Between /\ mid' = Leaving(Top) /\ runs' = Front(runs)
          /\ wdStack' = wdStack
      BY <1>4 DEF Return, InScheme
    <2>2. Top \in Active
      BY <1>0, <2>1, LastAndFront DEF Top, Active, ToSet
    <2>3. QED
      BY <1>3, <2>1, <2>2, LeavingKeeps
  <1>5. CASE ExitPop
    <2>1. mid.op = "exit" /\ mid.pc = 1 /\ mid.run \in Ids /\ wdStack # <<>>
      BY <1>3, <1>5 DEF ExitPop
    <2>2. /\ Head(wdStack) = Top /\ Stacked(Tail(wdStack), runs)
      BY <1>0, <1>3, <2>1, Pop DEF Top
    <2>3. Moves(2, Head(wdStack))
      BY <1>0, <1>5, <2>2, MidMoves
    <2>4. UNCHANGED <<runs, handler>> /\ Top' = Top /\ Active' = Active /\ wdStack' = Tail(wdStack)
      BY <1>5 DEF ExitPop, Top, Active
    <2>5. QED
      BY <1>3, <2>1, <2>2, <2>3, <2>4 DEF Moves, Between, Stacked
  <1>6. CASE ExitFails
    <2>1. mid.op = "exit" /\ mid.pc = 1 /\ mid.run \in Ids /\ wdStack = <<>>
      BY <1>3, <1>6 DEF ExitFails
    <2>2. Stacked(wdStack, Append(runs, mid.run))
      BY <1>3, <2>1
    <2>3. QED
      BY <1>0, <2>1, <2>2, Pop
  <1>7. CASE ExitAlarm
    <2>1. Moves(3, mid.old) /\ mid.op = "exit" /\ mid.pc = 2
      BY <1>0, <1>7, MidMoves DEF ExitAlarm
    <2>2. UNCHANGED <<runs, wdStack, handler>> /\ Top' = Top /\ Active' = Active
      BY <1>7 DEF ExitAlarm, Top, Active
    <2>3. QED
      BY <1>3, <2>1, <2>2 DEF Moves, Between, Stacked
  <1>8. CASE ExitHandler
    <2>1. Moves(4, mid.old) /\ mid.op = "exit" /\ mid.pc = 3
      BY <1>0, <1>8, MidMoves DEF ExitHandler
    <2>2. UNCHANGED <<runs, wdStack>> /\ Top' = Top /\ Active' = Active /\ handler' = mid.old
      BY <1>8 DEF ExitHandler, Top, Active
    <2>3. QED
      BY <1>3, <2>1, <2>2 DEF Moves, Between, Stacked
  <1>9. CASE ExitRearm
    <2>1. /\ mid.op = "exit" /\ mid.pc = 4 /\ alarm' > 0 /\ UNCHANGED <<wdStack, handler>>
      BY <1>0, <1>9 DEF ExitRearm
    <2>2. Stacked(wdStack, runs) /\ handler = Top /\ (mid.to = mid.run \/ mid.to \in Active)
      BY <1>3, <2>1
    <2>3. CASE mid.run = mid.to
      <3>1. mid' = Between /\ runs' = runs
        BY <1>9, <2>3 DEF ExitRearm
      <3>2. Top' = Top /\ Checked'
        BY <2>1, <3>1 DEF Top, Checked
      <3>3. QED
        BY <2>1, <2>2, <3>1, <3>2 DEF Between, Stacked
    <2>4. CASE mid.run # mid.to
      <3>1. mid' = Leaving(mid.to) /\ runs' = Front(runs) /\ mid.to \in Active
        BY <1>9, <2>2, <2>4 DEF ExitRearm
      <3>2. runs # <<>>
        BY <3>1, EmptySeq DEF Active, ToSet
      <3>3. QED
        BY <2>1, <2>2, <3>1, <3>2, LeavingKeeps
    <2>5. QED
      BY <2>3, <2>4
  <1>10. QED
    BY <1>4, <1>5, <1>6, <1>7, <1>8, <1>9 DEF Exit

\* A SIGALRM keeps it, wherever it is run, unless it cuts an enter or an exit short.
LEMMA DeliverKeeps ==
    ASSUME TypeInv, Kept, Deliver
    PROVE  Kept'
  <1>0. /\ runs \in Seq(Ids) /\ Period > 0 /\ alarm \in Nat /\ mid \in Mids
        /\ UNCHANGED <<wdStack, handler>>
    <2>1. runs \in Seq(Ids) /\ Period > 0 /\ alarm \in Nat /\ mid \in Mids
      BY WatchdogAssumption DEF TypeInv, TypeOK, Mids
    <2>2. UNCHANGED <<wdStack, handler>>
      BY DEF Deliver, DeliverToNone, Rearm, Escape, EscapeRefused
    <2>3. QED
      BY <2>1, <2>2
  <1> USE DEF Whole, Settled, Entering, Exiting, Phases
  <1>1. CASE Rearm
    <2>1. UNCHANGED <<runs, wdStack, handler, mid, cut>> /\ Checked'
      BY <1>0, <1>1 DEF Rearm, Delivered, Checked
    <2>2. QED
      BY <2>1, Undisturbed
  <1>2. CASE DeliverToNone
    <2>1. UNCHANGED <<runs, wdStack, handler, mid, alarm>> /\ Top' = Top /\ Active' = Active
      BY <1>2 DEF DeliverToNone, Top, Active
    <2>2. Phases'
      BY <2>1 DEF Kept
    <2>3. SUFFICES ASSUME cut' = "no" PROVE Whole'
      BY <2>2 DEF Kept
    <2>4. cut = "no" /\ (mid.op = "enter" /\ mid.pc > 1 => alarm # 0) /\ handler = None
      BY <1>2, <2>3 DEF DeliverToNone, Delivered
    <2>5. mid = Between => runs = <<>>
      BY <1>0, <2>4, TopIs, WatchdogAssumption DEF Kept
    <2>6. QED
      BY <1>0, <2>1, <2>4, <2>5 DEF Kept, Between, Stacked, Checked
  <1>3. ASSUME Escape \/ EscapeRefused, cut' = "no"
        PROVE  /\ cut = "no" /\ ~AbandonsHalf /\ handler # None
               /\ handler = Top /\ Stacked(wdStack, runs) /\ runs # <<>> /\ Top \in Active
    <2>1. cut = "no" /\ ~AbandonsHalf /\ handler # None
      BY <1>3, Zenon DEF Escape, EscapeRefused, Delivered
    <2>2. handler = Top /\ Stacked(wdStack, runs)
      <3>1. CASE mid.op = "none"
        BY <2>1, <3>1 DEF Kept
      <3>2. CASE mid.op = "enter"
        BY <2>1, <3>2 DEF Kept, AbandonsHalf
      <3>3. CASE mid.op = "exit"
        BY <2>1, <3>3 DEF Kept, AbandonsHalf
      <3>4. QED
        BY <1>0, <3>1, <3>2, <3>3 DEF Mids
    <2>3. runs # <<>>
      BY <2>1, <2>2 DEF Top
    <2>4. Top \in Active
      BY <1>0, <2>3, LastAndFront DEF Top, Active, ToSet
    <2>5. QED
      BY <2>1, <2>2, <2>3, <2>4
  <1>4. CASE Escape
    <2>1. Phases'
      BY <1>4 DEF Escape, Leaving
    <2>2. ASSUME cut' = "no" PROVE Whole'
      <3>1. handler = Top /\ Stacked(wdStack, runs) /\ runs # <<>> /\ Top \in Active
        BY <1>3, <1>4, <2>2
      <3>2. mid' = Leaving(Top) /\ runs' = Front(runs)
        BY <1>4, <3>1 DEF Escape
      <3>3. QED
        BY <1>0, <3>1, <3>2, LeavingKeeps
    <2>3. QED
      BY <2>1, <2>2 DEF Kept
  <1>5. CASE EscapeRefused
    <2>1. Phases'
      BY <1>5 DEF EscapeRefused, Leaving
    <2>2. cut' # "no"
      <3>1. handler \notin Active
        BY <1>5 DEF EscapeRefused
      <3>2. QED
        BY <1>3, <1>5, <3>1
    <2>3. QED
      BY <2>1, <2>2 DEF Kept
  <1>6. QED
    BY <1>1, <1>2, <1>4, <1>5 DEF Deliver

LEMMA KeptStep ==
    ASSUME TypeInv, Kept, [Next]_vars
    PROVE  Kept'
  <1>1. CASE (\E i \in Ids : Begin(i)) \/ Enter
    BY <1>1, EnterKeeps
  <1>2. CASE Return \/ Exit
    BY <1>2, ExitKeeps
  <1>3. CASE CCall \/ CReturn \/ \E b \in Budgets : SetBudget(b)
    <2>1. UNCHANGED <<runs, wdStack, handler, mid, cut>> /\ (Checked => Checked')
      BY <1>3 DEF CCall, CReturn, SetBudget, clock, Checked
    <2>2. QED
      BY <2>1, Undisturbed
  <1>4. CASE Reset
    <2>1. mid' = Between /\ runs' = runs /\ wdStack' = <<>> /\ handler' = None
      BY <1>4 DEF Reset
    <2>2. cut' = "no" => runs' = <<>>
      BY <1>4, <2>1, Zenon DEF Reset
    <2>3. QED
      BY <2>1, <2>2 DEF Kept, Whole, Settled, Entering, Exiting, Phases, Between, Stacked, Top
  <1>5. CASE Tick
    <2>1. UNCHANGED <<runs, wdStack, handler, mid, cut>> /\ alarm \in Nat
      BY <1>5 DEF Tick, TypeInv, TypeOK
    <2>2. Checked => Checked'
      <3>1. alarm > 0 /\ alarm # 1 => alarm' > 0
        BY <1>5, <2>1 DEF Tick
      <3>2. pending \/ alarm = 1 => pending'
        BY <1>5, Zenon DEF Tick
      <3>3. QED
        BY <3>1, <3>2 DEF Checked
    <2>3. QED
      BY <2>1, <2>2, Undisturbed
  <1>6. CASE Deliver
    BY <1>6, DeliverKeeps
  <1>7. CASE UNCHANGED vars
    <2>1. UNCHANGED <<runs, wdStack, handler, mid, cut>> /\ (Checked => Checked')
      BY <1>7 DEF vars, clock, Checked
    <2>2. QED
      BY <2>1, Undisturbed
  <1>8. QED
    BY <1>1, <1>2, <1>3, <1>4, <1>5, <1>6, <1>7 DEF Next

\* However callbacks nest, return, raise and are abandoned over their budgets, and
\* wherever the asyncs land: as long as none of them has cut an enter past its push
\* or an exit short of its handler, and no reload has emptied the stack under a
\* callback, the innermost callback is watched by its own handler and each enclosing
\* one will get its own back (hl--guarded-run).
THEOREM NestedAreWatched == Spec => []WatchNested
  <1>1. TypeInv /\ Kept => WatchNested
    <2> SUFFICES ASSUME TypeInv, Kept, cut = "no", mid = Between PROVE OuterHandlersKept /\ Supervised
      BY DEF WatchNested, OuterHandlersKept, Supervised
    <2>1. runs \in Seq(Ids) /\ wdStack \in Seq(Run)
      BY DEF TypeInv, TypeOK
    <2>2. handler = Top /\ Stacked(wdStack, runs) /\ (runs # <<>> => Checked)
      BY DEF Kept, Whole, Settled
    <2>3. QED
      BY <2>1, <2>2, StackedIs DEF OuterHandlersKept, Supervised, Checked
  <1>2. TypeInv /\ Kept /\ [Next]_vars => TypeInv' /\ Kept'
    BY TypeStep, KeptStep
  <1>3. Init => TypeInv /\ Kept
    BY InitType, InitKept
  <1>4. QED
    BY <1>1, <1>2, <1>3, PTL DEF Spec

------------------------------------------------------------------------------
(* The host's detector thread, the backstop of the Scheme watchdog.             *)

\* A start that the thread or the main thread holds is not later than the one stored
\* last, and before it while the store of that one is under way.
StartsPrecede ==
    \A s \in {startMs, start} \cup Logged :
        s <= what /\ (between => s < what)

\* What has been reported is remembered as long as the thread can find it.
Remembered ==
    /\ startMs \in Logged => reported
    /\ pc # "sleep" /\ start \in Logged => reported

\* What the thread measures is a callback's time, and not more than it has taken.
Measured ==
    /\ pc # "sleep" => start > 0
    /\ pc = "log" => elapsed <= now - start
    /\ between => what > 0

\* A callback that is being entered finds room.
Room == between => Len(entered) < Nesting

\* A report is late, and one for each start.
Reports ==
    /\ \A k \in DOMAIN log : log[k].start > 0 /\ now - log[k].start > Limit
    /\ \A j, k \in DOMAIN log : log[j].start = log[k].start => j = k
    /\ startMs > 0 => \E k \in DOMAIN entered : entered[k] = startMs

DetectorInv == DetectorTypeOK /\ StartsPrecede /\ Remembered /\ Measured /\ Room /\ Reports

LEMMA InitDetector == DetectorInit => DetectorInv
  <1> SUFFICES ASSUME DetectorInit PROVE DetectorInv
    OBVIOUS
  <1>1. DetectorTypeOK
    <2>1. <<>> \in Seq(0..1) /\ Len(<<>>) = 0 /\ <<>> \in Seq([what : Times, start : Times])
      OBVIOUS
    <2>2. now = 1 /\ 1 \in 0..MaxTime /\ what \in 0..now /\ startMs \in 0..now /\ start \in 0..now /\ elapsed \in 0..now
      BY DetectorAssumption DEF DetectorAssumption, DetectorInit
    <2>3. /\ entered \in Seq(0..now) /\ Len(entered) <= Nesting /\ now \in Times
          /\ log \in Seq([what : Times, start : Times])
      BY DetectorAssumption, <2>1, <2>2 DEF DetectorAssumption, DetectorInit, Times
    <2>4. QED
      BY <2>2, <2>3 DEF DetectorInit, DetectorTypeOK
  <1>2. QED
    BY <1>1 DEF DetectorInit, DetectorInv, StartsPrecede, Remembered, Measured, Room, Reports, Logged

LEMMA LoggedTimes == ASSUME DetectorInv PROVE \A k \in DOMAIN log : log[k].start \in Nat
  <1>1. log \in Seq([what : Times, start : Times])
    BY DEF DetectorInv, DetectorTypeOK
  <1> DEFINE R == [what : Times, start : Times]
  <1>2. \A r \in R : r.start \in Nat
    BY DEF Times
  <1> HIDE DEF R
  <1>3. \A k \in DOMAIN log : log[k] \in R
    <2>1. log \in Seq(R)
      BY <1>1 DEF R
    <2>2. QED
      BY <2>1
  <1>4. QED
    BY <1>2, <1>3

\* The log and what is measured against it, when neither changes but for the clock.
LEMMA LogStands ==
    ASSUME DetectorInv, UNCHANGED log, now' \in {now, now + 1}, now' \in 0..MaxTime
    PROVE  /\ log' \in Seq([what : Times, start : Times])
           /\ Logged' = Logged
           /\ \A k \in DOMAIN log' : log'[k].start > 0 /\ now' - log'[k].start > Limit
           /\ \A j, k \in DOMAIN log' : log'[j].start = log'[k].start => j = k
  <1>1. log \in Seq([what : Times, start : Times]) /\ now \in Nat
    BY DEF DetectorInv, DetectorTypeOK, Times
  <1>2. \A k \in DOMAIN log : log[k].start \in Nat
    BY LoggedTimes
  <1>3. QED
    BY DetectorAssumption, <1>1, <1>2 DEF DetectorAssumption, DetectorInv, Reports, Logged

LEMMA TickKeeps == ASSUME DetectorInv, ClockTick PROVE DetectorInv'
  <1>1. /\ now' = now + 1 /\ now < MaxTime /\ ~between
        /\ UNCHANGED <<entered, startMs, what, between, pc, start, elapsed, reported, log>>
    BY DEF ClockTick, mainVars, thread
  <1>2. now \in 0..MaxTime /\ now' \in 0..MaxTime /\ \A t \in 0..now : t \in 0..now'
    BY DetectorAssumption, <1>1 DEF DetectorAssumption, DetectorInv, DetectorTypeOK, Times
  <1>3. entered' \in Seq(0..now')
    <2>1. entered \in Seq(0..now) /\ \A k \in 1..Len(entered) : entered[k] \in 0..now
      BY ElementOfSeq DEF DetectorInv, DetectorTypeOK
    <2>2. QED
      BY <1>1, <1>2, <2>1
  <1>4. DetectorTypeOK'
    BY <1>1, <1>2, <1>3, LogStands DEF DetectorInv, DetectorTypeOK, Times
  <1>5. StartsPrecede' /\ Remembered' /\ Reports'
    BY <1>1, <1>2, LogStands DEF DetectorInv, StartsPrecede, Remembered, Reports
  <1>6. Measured' /\ Room'
    BY <1>1, <1>2 DEF DetectorInv, Measured, Room, DetectorTypeOK
  <1>7. QED
    BY <1>4, <1>5, <1>6 DEF DetectorInv

LEMMA StoreWhatKeeps == ASSUME DetectorInv, StoreWhat PROVE DetectorInv'
  <1>1. /\ what' = now /\ what < now /\ between' = TRUE /\ ~between /\ Len(entered) < Nesting
        /\ UNCHANGED <<now, entered, startMs, pc, start, elapsed, reported, log>>
    BY DEF StoreWhat, thread
  <1>2. now \in 0..MaxTime
    BY DEF DetectorInv, DetectorTypeOK, Times
  <1>3. DetectorTypeOK'
    BY <1>1, <1>2, LogStands DEF DetectorInv, DetectorTypeOK, Times
  <1>4. StartsPrecede'
    <2>1. \A k \in DOMAIN log : log[k].start \in Nat
      BY LoggedTimes
    <2>2. \A s \in {startMs, start} \cup Logged : s \in Nat /\ s <= what
      BY <2>1 DEF DetectorInv, StartsPrecede, DetectorTypeOK, Logged
    <2>3. Logged' = Logged /\ what \in Nat
      BY <1>1, <1>2, LogStands DEF DetectorInv, DetectorTypeOK
    <2>4. SUFFICES ASSUME NEW s \in {startMs', start'} \cup Logged'
                   PROVE  s <= what' /\ (between' => s < what')
      BY DEF StartsPrecede
    <2>5. s \in Nat /\ s <= what
      BY <1>1, <2>2, <2>3
    <2>6. QED
      BY <1>1, <1>2, <2>3, <2>5
  <1>5. Remembered' /\ Reports'
    BY <1>1, <1>2, LogStands DEF DetectorInv, Remembered, Reports
  <1>6. Measured' /\ Room'
    BY <1>1, <1>2 DEF DetectorInv, Measured, Room, DetectorTypeOK
  <1>7. QED
    BY <1>3, <1>4, <1>5, <1>6 DEF DetectorInv

LEMMA StoreStartKeeps == ASSUME DetectorInv, StoreStart PROVE DetectorInv'
  <1>1. /\ between /\ between' = FALSE /\ startMs' = what /\ entered' = Append(entered, what)
        /\ UNCHANGED <<now, what, pc, start, elapsed, reported, log>>
    BY DEF StoreStart, thread
  <1>2. now \in 0..MaxTime /\ what \in 0..now /\ entered \in Seq(0..now)
    BY DEF DetectorInv, DetectorTypeOK, Times
  <1>3. DetectorTypeOK'
    <2>1. entered' \in Seq(0..now) /\ Len(entered') = Len(entered) + 1 /\ Len(entered) < Nesting
      BY <1>1, <1>2 DEF DetectorInv, Room
    <2>2. QED
      <3>1. log' \in Seq([what : Times, start : Times]) /\ now' \in Times
        BY <1>1, <1>2, LogStands DEF Times
      <3>2. entered' \in Seq(0..now') /\ Len(entered') <= Nesting
        BY DetectorAssumption, <1>1, <1>2, <2>1 DEF DetectorAssumption
      <3>3. QED
        BY <1>1, <1>2, <3>1, <3>2 DEF DetectorInv, DetectorTypeOK, Times
  <1>4. StartsPrecede' /\ Remembered'
    BY <1>1, <1>2, LogStands DEF DetectorInv, StartsPrecede, Remembered
  <1>5. Reports'
    <2>1. entered'[Len(entered) + 1] = what /\ Len(entered) + 1 \in DOMAIN entered'
      BY <1>1, <1>2
    <2>2. QED
      BY <1>1, <1>2, <2>1, LogStands DEF Reports
  <1>6. Measured' /\ Room'
    BY <1>1, <1>2 DEF DetectorInv, Measured, Room, DetectorTypeOK
  <1>7. QED
    BY <1>3, <1>4, <1>5, <1>6 DEF DetectorInv

LEMMA WatchdogExitKeeps == ASSUME DetectorInv, WatchdogExit PROVE DetectorInv'
  <1>1. /\ startMs' = 0 /\ ~between /\ entered # <<>> /\ entered' = SubSeq(entered, 1, Len(entered) - 1)
        /\ UNCHANGED <<now, what, between, pc, start, elapsed, reported, log>>
    BY DEF WatchdogExit, thread, Front
  <1>2. now \in 0..MaxTime /\ what \in 0..now /\ entered \in Seq(0..now) /\ Len(entered) <= Nesting
    BY DEF DetectorInv, DetectorTypeOK, Times
  <1>3. entered' \in Seq(0..now) /\ Len(entered') <= Nesting
    BY DetectorAssumption, <1>1, <1>2 DEF DetectorAssumption
  <1>4. DetectorTypeOK'
    BY <1>1, <1>2, <1>3, LogStands DEF DetectorInv, DetectorTypeOK, Times
  <1>5. 0 \notin Logged
    BY DEF DetectorInv, Reports, Logged
  <1>6. StartsPrecede'
    <2>1. SUFFICES ASSUME NEW s \in {startMs', start'} \cup Logged'
                   PROVE  s <= what' /\ (between' => s < what')
      BY DEF StartsPrecede
    <2>2. s = 0 \/ s \in {start} \cup Logged
      BY <1>1, <1>2, LogStands
    <2>3. ~between'
      BY <1>1
    <2>4. s <= what
      BY <1>2, <2>2 DEF DetectorInv, StartsPrecede
    <2>5. QED
      BY <1>1, <2>3, <2>4
  <1>7. Remembered' /\ Reports'
    BY <1>1, <1>2, <1>5, LogStands DEF DetectorInv, Remembered, Reports
  <1>8. Measured' /\ Room'
    BY <1>1, <1>2, <1>3 DEF DetectorInv, Measured, Room, DetectorTypeOK
  <1>9. QED
    BY <1>4, <1>6, <1>7, <1>8 DEF DetectorInv

\* The steps of the thread.
LEMMA ThreadKeeps ==
    ASSUME DetectorInv, Poll \/ ReadNow \/ Report
    PROVE  DetectorInv'
  <1>1. UNCHANGED <<now, entered, startMs, what, between>> /\ Room'
    BY DEF Poll, ReadNow, Report, mainVars, DetectorInv, Room
  <1>2. /\ now \in 0..MaxTime /\ what \in 0..now /\ startMs \in 0..now /\ start \in 0..now /\ elapsed \in 0..now
        /\ log \in Seq([what : Times, start : Times])
    BY DEF DetectorInv, DetectorTypeOK, Times
  <1>3. CASE Poll
    <2>1. /\ start' = startMs /\ reported' = (reported /\ startMs # 0)
          /\ pc' = IF startMs = 0 THEN "sleep" ELSE "now"
          /\ UNCHANGED <<elapsed, log>>
      BY <1>3 DEF Poll
    <2>2. DetectorTypeOK'
      BY <1>1, <1>2, <2>1, LogStands DEF DetectorInv, DetectorTypeOK, Times
    <2>3. StartsPrecede' /\ Reports'
      BY <1>1, <1>2, <2>1, LogStands DEF DetectorInv, StartsPrecede, Reports
    <2>4. 0 \notin Logged
      BY DEF DetectorInv, Reports, Logged
    <2>5. Remembered'
      <3>1. Logged' = Logged
        BY <1>1, <1>2, <2>1, LogStands
      <3>2. startMs \in Logged => reported'
        BY <2>1, <2>4, Zenon DEF DetectorInv, Remembered
      <3>3. QED
        BY <1>1, <2>1, <3>1, <3>2 DEF Remembered
    <2>6. Measured'
      BY <1>1, <1>2, <2>1 DEF DetectorInv, Measured
    <2>7. QED
      BY <1>1, <2>2, <2>3, <2>5, <2>6 DEF DetectorInv
  <1>4. CASE ReadNow
    <2>1. pc = "now" /\ pc' = "log" /\ elapsed' = now - start /\ UNCHANGED <<start, reported, log>>
      BY <1>4 DEF ReadNow
    <2>2. DetectorTypeOK'
      BY <1>1, <1>2, <2>1, LogStands DEF DetectorInv, DetectorTypeOK, Times
    <2>3. StartsPrecede' /\ Reports'
      BY <1>1, <1>2, <2>1, LogStands DEF DetectorInv, StartsPrecede, Reports
    <2>4. Remembered' /\ Measured'
      BY <1>1, <1>2, <2>1, LogStands DEF DetectorInv, Remembered, Measured
    <2>5. QED
      BY <1>1, <2>2, <2>3, <2>4 DEF DetectorInv
  <1>5. CASE Report
    <2>1. pc = "log" /\ pc' = "sleep" /\ UNCHANGED <<start, elapsed>>
      BY <1>5 DEF Report
    <2>2. CASE elapsed > Limit /\ ~reported
      <3> DEFINE r == [what |-> what, start |-> start]
      <3>1. log' = Append(log, r) /\ reported' = TRUE
        BY <1>5, <2>2 DEF Report
      <3>2. r \in [what : Times, start : Times] /\ r.start = start
        BY DetectorAssumption, <1>2 DEF DetectorAssumption, Times
      <3> HIDE DEF r
      <3>3. /\ log' \in Seq([what : Times, start : Times])
            /\ DOMAIN log = 1..Len(log) /\ DOMAIN log' = 1..(Len(log) + 1)
            /\ \A k \in DOMAIN log : log'[k] = log[k]
            /\ log'[Len(log) + 1] = r
        BY <1>2, <3>1, <3>2
      <3>4. Logged' = Logged \cup {start}
        <4>1. \A k \in DOMAIN log' : k \in DOMAIN log \/ k = Len(log) + 1
          BY <1>2, <3>3
        <4>2. \A k \in DOMAIN log : k \in DOMAIN log'
          BY <1>2, <3>3
        <4>3. Len(log) + 1 \in DOMAIN log'
          BY <1>2, <3>3
        <4>4. QED
          BY <3>2, <3>3, <4>1, <4>2, <4>3, Zenon DEF Logged
      <3>5. start \notin Logged /\ start > 0 /\ now - start > Limit
        BY DetectorAssumption, <1>2, <2>1, <2>2 DEF DetectorAssumption, DetectorInv, Remembered, Measured
      <3>6. DetectorTypeOK'
        BY <1>1, <1>2, <2>1, <3>1, <3>3 DEF DetectorInv, DetectorTypeOK, Times
      <3>7. StartsPrecede' /\ Remembered' /\ Measured'
        BY <1>1, <1>2, <2>1, <3>1, <3>4 DEF DetectorInv, StartsPrecede, Remembered, Measured
      <3>8. Reports'
        <4>1. /\ \A k \in DOMAIN log : log[k].start # start
              /\ \A k \in DOMAIN log : log[k].start > 0 /\ now - log[k].start > Limit
              /\ \A j, k \in DOMAIN log : log[j].start = log[k].start => j = k
          BY <3>5 DEF DetectorInv, Reports, Logged
        <4>2. \A k \in DOMAIN log' : log'[k].start > 0 /\ now' - log'[k].start > Limit
          BY <1>1, <1>2, <3>2, <3>3, <3>5, <4>1
        <4>3. \A j, k \in DOMAIN log' : log'[j].start = log'[k].start => j = k
          BY <1>2, <3>2, <3>3, <4>1
        <4>4. QED
          BY <1>1, <4>2, <4>3 DEF DetectorInv, Reports
      <3>9. QED
        BY <1>1, <3>6, <3>7, <3>8 DEF DetectorInv
    <2>3. CASE ~(elapsed > Limit /\ ~reported)
      <3>1. UNCHANGED <<log, reported>>
        BY <1>5, <2>3 DEF Report
      <3>2. DetectorTypeOK'
        BY <1>1, <1>2, <2>1, <3>1, LogStands DEF DetectorInv, DetectorTypeOK, Times
      <3>3. StartsPrecede' /\ Reports' /\ Remembered' /\ Measured'
        BY <1>1, <1>2, <2>1, <3>1, LogStands DEF DetectorInv, StartsPrecede, Reports, Remembered, Measured
      <3>4. QED
        BY <1>1, <3>2, <3>3 DEF DetectorInv
    <2>4. QED
      BY <2>2, <2>3
  <1>6. QED
    BY <1>3, <1>4, <1>5

LEMMA DetectorStep == DetectorInv /\ [DetectorNext]_(detectorVars) => DetectorInv'
  <1>1. DetectorInv /\ DetectorNext => DetectorInv'
    BY TickKeeps, StoreWhatKeeps, StoreStartKeeps, WatchdogExitKeeps, ThreadKeeps DEF DetectorNext
  <1>2. DetectorInv /\ UNCHANGED detectorVars => DetectorInv'
    BY DEF detectorVars, mainVars, thread, DetectorInv, DetectorTypeOK, StartsPrecede, Remembered,
           Measured, Room, Reports, Logged
  <1>3. QED
    BY <1>1, <1>2

\* At most one element, when all are the same.
LEMMA AtMostOne == ASSUME NEW S, \A x, y \in S : x = y PROVE Cardinality(S) <= 1
  <1>1. CASE S = {}
    BY <1>1, FS_EmptySet
  <1>2. CASE S # {}
    <2>1. PICK x \in S : TRUE
      BY <1>2
    <2>2. S = {x}
      BY <2>1
    <2>3. QED
      BY <2>2, FS_Singleton
  <1>3. QED
    BY <1>1, <1>2

\* For any limit, any nesting and any race of the thread's loads with the main thread's
\* stores, what the detector holds and logs are times the clock has shown (Host.cpp,
\* startWatchdog).
THEOREM DetectorTypes == DetectorSpec => []DetectorTypeOK
  <1>1. DetectorInv => DetectorTypeOK
    BY DEF DetectorInv
  <1>2. QED
    BY <1>1, InitDetector, DetectorStep, PTL DEF DetectorSpec

\* A callback is logged at most once and not before its limit, and the start that is
\* polled is that of a callback under way, whatever is nested and however the loads
\* and the stores interleave (`reported` of startWatchdog, watchdogExit).
THEOREM ReportsLateAndOnce ==
    DetectorSpec => [](\A s \in Times : LoggedLateAndOnce(s))
  <1>1. DetectorInv => \A s \in Times : LoggedLateAndOnce(s)
    <2> SUFFICES ASSUME DetectorInv, NEW s \in Times PROVE LoggedLateAndOnce(s)
      OBVIOUS
    <2>1. Cardinality({k \in DOMAIN log : log[k].start = s}) <= 1
      <3> DEFINE S == {k \in DOMAIN log : log[k].start = s}
      <3>1. \A j, k \in S : j = k
        BY DEF DetectorInv, Reports
      <3> HIDE DEF S
      <3>2. Cardinality(S) = Cardinality(S)
        BY DEF Cardinality, Cardinality
      <3>3. Cardinality(S) <= 1
        BY <3>1, <3>2, AtMostOne
      <3>4. QED
        BY <3>3 DEF S
    <2>2. s \in Logged => s > 0 /\ now - s > Limit
      BY DEF DetectorInv, Reports, Logged
    <2>3. startMs = s /\ s > 0 => s \in ToSet(entered)
      BY DEF DetectorInv, Reports, DetectorTypeOK, ToSet, Range
    <2>4. QED
      BY <2>1, <2>2, <2>3 DEF LoggedLateAndOnce
  <1>2. QED
    BY <1>1, InitDetector, DetectorStep, PTL DEF DetectorSpec

=============================================================================
