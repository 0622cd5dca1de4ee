---------------------------- MODULE Modes_proofs ----------------------------
(* Proofs about Modes.tla, for any modes and any hooks.                        *)
EXTENDS Modes, SequenceTheorems, TLAPS

\* A mode with no call under way, whose last call ended and wrote, has a file exactly while it
\* is on; one that has still to be restored is at least off when it has none.
FilesOfTheRest ==
    \A m \in AllModes \ (UnderWay(stack) \cup unsure \cup selfSet) :
        /\ m \notin ToSet(restoring) => (m \in file <=> active[m])
        /\ m \in ToSet(restoring) => (active[m] => m \in file)

\* A call that no other call for the same mode interrupted will write what the flag is.
FlagsOfCalls == \A i \in 1..Len(stack) : stack[i].again \/ active[stack[i].mode] = stack[i].on

\* Between two calls, of a restore too, the keymaps and the colours are those of the flags.
EffectsOutside == stack = <<>> /\ ~dirty => armed = On /\ lit = Winner(active)

\* The inductive invariant.
IInv == TypeOK /\ FilesOfTheRest /\ FlagsOfCalls /\ EffectsOutside

------------------------------------------------------------------------------
\* The calls that are left when the innermost ones have gone.
LEMMA PrefixOfStack ==
    ASSUME NEW st \in Seq(Frames), NEW k \in 0..Len(st)
    PROVE  /\ SubSeq(st, 1, k) \in Seq(Frames) /\ Len(SubSeq(st, 1, k)) = k
           /\ \A i \in 1..k : SubSeq(st, 1, k)[i] = st[i]
  <1>1. k \in Int /\ k \in Nat /\ \A i \in 1..k : st[i] \in Frames
    OBVIOUS
  <1>2. /\ SubSeq(st, 1, k) \in Seq(Frames)
        /\ Len(SubSeq(st, 1, k)) = IF 1 <= k THEN k - 1 + 1 ELSE 0
        /\ \A i \in 1..(k - 1 + 1) : SubSeq(st, 1, k)[i] = st[1 + i - 1]
    BY <1>1, SubSeqProperties, SMTT(30)
  <1>3. \A i \in 1..k : i \in 1..(k - 1 + 1) /\ 1 + i - 1 = i
    BY <1>1
  <1>4. QED
    BY <1>1, <1>2, <1>3

\* A call that begins keeps the calls below it, and marks those for the same mode.
LEMMA CallFacts ==
    ASSUME NEW st \in Seq(Frames), NEW m \in AllModes, NEW on \in BOOLEAN, Call(m, on, st)
    PROVE  /\ stack' \in Seq(Frames) /\ Len(stack') = Len(st) + 1
           /\ stack'[Len(st) + 1] = [mode |-> m, on |-> on, next |-> 1, again |-> FALSE]
           /\ \A i \in 1..Len(st) : stack'[i] = Marked(st[i], m)
  <1> DEFINE marked == [i \in DOMAIN st |-> Marked(st[i], m)]
             f      == [mode |-> m, on |-> on, next |-> 1, again |-> FALSE]
  <1>1. f \in Frames
    BY DEF Frames
  <1>2. Len(st) \in Nat /\ DOMAIN st = 1..Len(st) /\ \A i \in 1..Len(st) : st[i] \in Frames
    BY LenProperties, ElementOfSeq
  <1>3. \A i \in 1..Len(st) : marked[i] \in Frames
    BY <1>2 DEF Frames, Marked
  <1>4. marked \in [1..Len(st) -> Frames]
    BY <1>2, <1>3
  <1>5. marked \in Seq(Frames) /\ Len(marked) = Len(st)
    <2> HIDE DEF marked
    <2>1. marked \in Seq(Frames)
      BY <1>2, <1>4, SeqDef
    <2>2. Len(marked) \in Nat /\ 1..Len(marked) = 1..Len(st)
      BY <2>1, <1>4, LenProperties
    <2>3. QED
      BY <2>1, <2>2, <1>2
  <1>6. stack' = Append(marked, f)
    BY DEF Call
  <1>7. \A i \in 1..Len(st) : marked[i] = Marked(st[i], m)
    BY <1>2
  <1>8. QED
    <2> HIDE DEF marked, f
    <2>1. /\ stack' \in Seq(Frames) /\ Len(stack') = Len(st) + 1
          /\ stack'[Len(st) + 1] = f /\ \A i \in 1..Len(st) : stack'[i] = marked[i]
      BY <1>1, <1>2, <1>5, <1>6
    <2>2. QED
      BY <2>1, <1>7 DEF f

LEMMA MarkedCalls ==
    ASSUME NEW st \in Seq(Frames), NEW m \in AllModes, NEW on \in BOOLEAN, Call(m, on, st)
    PROVE  \A i \in 1..Len(st) :
             /\ stack'[i].mode = st[i].mode /\ stack'[i].on = st[i].on
             /\ stack'[i].next = st[i].next
             /\ stack'[i].again = (st[i].again \/ st[i].mode = m)
  <1>1. ASSUME NEW f \in Frames
        PROVE  /\ Marked(f, m).mode = f.mode /\ Marked(f, m).on = f.on
               /\ Marked(f, m).next = f.next
               /\ Marked(f, m).again = (f.again \/ f.mode = m)
    BY DEF Frames, Marked
  <1> SUFFICES ASSUME NEW i \in 1..Len(st)
               PROVE  /\ stack'[i].mode = st[i].mode /\ stack'[i].on = st[i].on
                      /\ stack'[i].next = st[i].next
                      /\ stack'[i].again = (st[i].again \/ st[i].mode = m)
    OBVIOUS
  <1>2. stack'[i] = Marked(st[i], m) /\ st[i] \in Frames
    BY CallFacts, ElementOfSeq
  <1>3. /\ Marked(st[i], m).mode = st[i].mode /\ Marked(st[i], m).on = st[i].on
        /\ Marked(st[i], m).next = st[i].next
        /\ Marked(st[i], m).again = (st[i].again \/ st[i].mode = m)
    BY <1>1, <1>2
  <1>4. QED
    BY <1>2, <1>3, Zenon

LEMMA CallGrows ==
    ASSUME NEW st \in Seq(Frames), NEW m \in AllModes, NEW on \in BOOLEAN, Call(m, on, st)
    PROVE  stack' \in Seq(Frames) /\ Len(stack') = Len(st) + 1 /\ Len(stack') # 0
  <1>1. stack' \in Seq(Frames) /\ Len(stack') = Len(st) + 1
    BY CallFacts
  <1>2. Len(st) \in Nat
    BY LenProperties
  <1>3. QED
    BY <1>1, <1>2

\* What a call for m leaves true of the flags and the files.
LEMMA CallKeeps ==
    ASSUME IInv, NEW st \in Seq(Frames), NEW m \in AllModes, NEW on \in BOOLEAN, Call(m, on, st),
           Len(st) = Len(stack),
           \A i \in 1..Len(st) : /\ st[i].mode = stack[i].mode /\ st[i].on = stack[i].on
                                 /\ st[i].again = stack[i].again,
           UNCHANGED <<hooks, file, unsure, selfSet>>,
           ToSet(restoring') \subseteq ToSet(restoring),
           ToSet(restoring) \subseteq ToSet(restoring') \cup {m}
    PROVE  FilesOfTheRest' /\ FlagsOfCalls'
  <1>1. /\ stack' \in Seq(Frames) /\ Len(stack') = Len(st) + 1
        /\ stack'[Len(st) + 1] = [mode |-> m, on |-> on, next |-> 1, again |-> FALSE]
        /\ \A i \in 1..Len(st) : stack'[i] = Marked(st[i], m)
    BY CallFacts
  <1>2. active' = [active EXCEPT ![m] = on] /\ active \in [AllModes -> BOOLEAN]
        /\ stack \in Seq(Frames)
    BY DEF Call, IInv, TypeOK
  <1>3. Len(st) \in Nat /\ \A i \in 1..Len(st) : st[i] \in Frames
    BY LenProperties, ElementOfSeq
  <1>4. \A i \in 1..Len(st) : /\ stack'[i].mode = stack[i].mode /\ stack'[i].on = stack[i].on
                              /\ stack'[i].again = (stack[i].again \/ stack[i].mode = m)
    <2>1. \A i \in 1..Len(st) : /\ stack'[i].mode = st[i].mode /\ stack'[i].on = st[i].on
                                /\ stack'[i].again = (st[i].again \/ st[i].mode = m)
      BY MarkedCalls
    <2>2. ASSUME NEW i \in 1..Len(st)
          PROVE  /\ stack'[i].mode = stack[i].mode /\ stack'[i].on = stack[i].on
                 /\ stack'[i].again = (stack[i].again \/ stack[i].mode = m)
      <3>1. /\ st[i].mode = stack[i].mode /\ st[i].on = stack[i].on
            /\ st[i].again = stack[i].again
        OBVIOUS
      <3>2. QED
        BY <2>1, <3>1, Zenon
    <2>3. QED
      BY <2>2, Zenon
  <1>5. FlagsOfCalls'
    <2>1. ASSUME NEW i \in 1..Len(stack')
          PROVE  stack'[i].again \/ active'[stack'[i].mode] = stack'[i].on
      <3>1. CASE i = Len(st) + 1
        BY <3>1, <1>1, <1>2
      <3>2. CASE i # Len(st) + 1
        <4>1. i \in 1..Len(st)
          BY <3>2, <1>1, <1>3
        <4>2. stack[i].again \/ active[stack[i].mode] = stack[i].on
          BY <4>1 DEF IInv, FlagsOfCalls
        <4>3. /\ stack'[i].mode = stack[i].mode /\ stack'[i].on = stack[i].on
              /\ stack[i].mode \in AllModes /\ stack'[i].again = (stack[i].again \/ stack[i].mode = m)
          BY <4>1, <1>3, <1>4 DEF Frames
        <4>4. CASE stack[i].mode = m
          BY <4>3, <4>4
        <4>5. CASE stack[i].mode # m
          <5>1. active'[stack[i].mode] = active[stack[i].mode]
            BY <4>3, <4>5, <1>2
          <5>2. QED
            BY <4>2, <4>3, <5>1, Zenon
        <4>6. QED
          BY <4>4, <4>5
      <3>3. QED
        BY <3>1, <3>2
    <2>2. QED
      BY <2>1 DEF FlagsOfCalls
  <1>6. ASSUME NEW n \in AllModes, n \notin UnderWay(stack') PROVE n # m /\ n \notin UnderWay(stack)
    <2>1. DOMAIN stack' = 1..Len(stack') /\ DOMAIN stack = 1..Len(stack)
      BY <1>1, <1>2
    <2>2. n # m
      BY <1>1, <1>3, <1>6, <2>1 DEF UnderWay
    <2>3. \A i \in 1..Len(stack) : i \in 1..Len(stack')
      BY <1>1, <1>3
    <2>4. QED
      BY <1>4, <1>6, <2>1, <2>2, <2>3 DEF UnderWay
  <1>7. QED
    BY <1>2, <1>5, <1>6 DEF FilesOfTheRest, IInv

------------------------------------------------------------------------------
\* The initial states satisfy the invariant.
LEMMA InitInv == Init => IInv
  <1> SUFFICES ASSUME Init PROVE IInv
    OBVIOUS
  <1>1. Len(stack) = 0 /\ stack = <<>> /\ stack \in Seq(Frames)
    BY DEF Init
  <1>2. TypeOK
    BY <1>1, ModesAssumption DEF Init, TypeOK
  <1>3. FilesOfTheRest
    <2>1. \A m \in AllModes : m \in ToSet(restoring)
      BY DEF Init, AllModes
    <2>2. QED
      BY <2>1 DEF Init, FilesOfTheRest
  <1>4. EffectsOutside
    <2>1. \A m \in AllModes : ~active[m]
      BY DEF Init
    <2>2. On = {} /\ Winner(active) = {}
      BY <2>1, ModesAssumption DEF On, Winner
    <2>3. QED
      BY <2>2 DEF Init, EffectsOutside
  <1>5. QED
    BY <1>1, <1>2, <1>3, <1>4 DEF IInv, FlagsOfCalls

------------------------------------------------------------------------------
\* The calls below the innermost one, and that one.
LEMMA TopOfStack ==
    ASSUME NEW st \in Seq(Frames), st # <<>>
    PROVE  /\ Len(st) \in Nat \ {0} /\ Last(st) = st[Len(st)] /\ Last(st) \in Frames
           /\ Front(st) \in Seq(Frames) /\ Len(Front(st)) = Len(st) - 1
           /\ \A i \in 1..(Len(st) - 1) : Front(st)[i] = st[i]
  <1>1. Len(st) \in Nat \ {0} /\ Len(st) - 1 \in 0..Len(st)
    BY EmptySeq, LenProperties
  <1>2. st[Len(st)] \in Frames
    BY <1>1, ElementOfSeq
  <1>3. Front(st) = SubSeq(st, 1, Len(st) - 1)
    BY DEF Front
  <1>4. /\ Front(st) \in Seq(Frames) /\ Len(Front(st)) = Len(st) - 1
        /\ \A i \in 1..(Len(st) - 1) : Front(st)[i] = st[i]
    <2> DEFINE k == Len(st) - 1
    <2>1. k \in 0..Len(st)
      BY <1>1
    <2> HIDE DEF k
    <2>2. /\ SubSeq(st, 1, k) \in Seq(Frames) /\ Len(SubSeq(st, 1, k)) = k
          /\ \A i \in 1..k : SubSeq(st, 1, k)[i] = st[i]
      BY <2>1, PrefixOfStack, Zenon
    <2>3. Front(st) = SubSeq(st, 1, k)
      BY <1>3 DEF k
    <2>4. QED
      BY <2>2, <2>3, Zenon DEF k
  <1>5. Last(st) = st[Len(st)]
    BY DEF Last
  <1>6. QED
    BY <1>1, <1>2, <1>4, <1>5, Zenon

\* A hook that sets a mode keeps the invariant.
LEMMA HookSetsModeStep == IInv /\ HookSetsMode => IInv'
  <1> SUFFICES ASSUME IInv, HookSetsMode PROVE IInv'
    OBVIOUS
  <1> DEFINE ops == hooks[<<Top.mode, Top.on>>]
             st  == [stack EXCEPT ![Len(stack)].next = @ + 1]
             m   == ops[Top.next][1]
             on  == ops[Top.next][2]
  <1>1. /\ stack \in Seq(Frames) /\ Len(stack) \in Nat \ {0}
        /\ Top = stack[Len(stack)] /\ Top \in Frames
    BY TopOfStack DEF IInv, TypeOK, HookSetsMode, Top
  <1>2. ops \in Seq(Settings)
    <2>1. <<Top.mode, Top.on>> \in Settings
      BY <1>1 DEF Frames, Settings
    <2>2. hooks \in [Settings -> Seq(Settings)]
      BY ModesAssumption DEF IInv, TypeOK
    <2>3. QED
      BY <2>1, <2>2
  <1>3. ops[Top.next] \in Settings
    <2>1. Top.next \in 1..Len(ops)
      BY <1>1, <1>2 DEF HookSetsMode, Frames
    <2>2. QED
      BY <1>2, <2>1, ElementOfSeq
  <1>4. m \in AllModes /\ on \in BOOLEAN
    BY <1>3 DEF Settings
  <1>5. Call(m, on, st)
    BY DEF HookSetsMode
  <1>6. st \in Seq(Frames) /\ Len(st) = Len(stack)
    <2>1. \A i \in 1..Len(stack) : stack[i] \in Frames
      BY <1>1, ElementOfSeq
    <2>2. [stack[Len(stack)] EXCEPT !.next = @ + 1] \in Frames
      BY <1>1 DEF Frames
    <2>3. st = [stack EXCEPT ![Len(stack)] = [stack[Len(stack)] EXCEPT !.next = @ + 1]]
      OBVIOUS
    <2>4. QED
      BY <1>1, <2>2, <2>3, ExceptSeq
  <1>7. \A i \in 1..Len(st) : /\ st[i].mode = stack[i].mode /\ st[i].on = stack[i].on
                              /\ st[i].again = stack[i].again
    BY <1>1, <1>6, ElementOfSeq DEF Frames
  <1>8. UNCHANGED <<hooks, file, lit, armed, restoring, histVars>>
    BY DEF HookSetsMode
  <1> HIDE DEF ops, st, m, on
  <1>9. stack' \in Seq(Frames) /\ Len(stack') # 0
    BY <1>4, <1>5, <1>6, CallGrows
  <1>10. FilesOfTheRest' /\ FlagsOfCalls'
    BY <1>4, <1>5, <1>6, <1>7, <1>8, CallKeeps DEF histVars
  <1>11. TypeOK'
    BY <1>4, <1>5, <1>8, <1>9 DEF IInv, TypeOK, Call, histVars
  <1>12. EffectsOutside'
    BY <1>1, <1>6, <1>9 DEF EffectsOutside
  <1>13. QED
    BY <1>10, <1>11, <1>12 DEF IInv

\* A call made while none is under way, by a bind, a script or the restore, keeps it too.
LEMMA FirstCall ==
    ASSUME IInv, stack = <<>>, NEW m \in AllModes, NEW on \in BOOLEAN, Call(m, on, stack),
           UNCHANGED <<hooks, file, unsure, selfSet>>,
           ToSet(restoring') \subseteq ToSet(restoring),
           ToSet(restoring) \subseteq ToSet(restoring') \cup {m}
    PROVE  /\ FilesOfTheRest' /\ FlagsOfCalls' /\ EffectsOutside' /\ stack' \in Seq(Frames)
           /\ active' \in [AllModes -> BOOLEAN]
  <1>1. stack \in Seq(Frames) /\ active \in [AllModes -> BOOLEAN]
    BY DEF IInv, TypeOK
  <1>2. FilesOfTheRest' /\ FlagsOfCalls'
    BY <1>1, CallKeeps
  <1>3. stack' \in Seq(Frames) /\ Len(stack') # 0
    BY <1>1, CallGrows
  <1>4. active' \in [AllModes -> BOOLEAN]
    BY <1>1 DEF Call
  <1>5. EffectsOutside'
    BY <1>3 DEF EffectsOutside
  <1>6. QED
    BY <1>2, <1>3, <1>4, <1>5

LEMMA ModeActiveSetStep ==
    ASSUME IInv, NEW m \in AllModes, NEW on \in BOOLEAN, ModeActiveSet(m, on) PROVE IInv'
  <1>1. /\ FilesOfTheRest' /\ FlagsOfCalls' /\ EffectsOutside' /\ stack' \in Seq(Frames)
        /\ active' \in [AllModes -> BOOLEAN]
    BY FirstCall DEF ModeActiveSet, Idle
  <1>2. TypeOK'
    BY <1>1 DEF ModeActiveSet, IInv, TypeOK
  <1>3. QED
    BY <1>1, <1>2 DEF IInv

\* The first of a list and the rest of it.
LEMMA HeadAndRest ==
    ASSUME NEW seq \in Seq(AllModes), seq # <<>>
    PROVE  /\ Head(seq) \in AllModes /\ Tail(seq) \in Seq(AllModes)
           /\ ToSet(Tail(seq)) \subseteq ToSet(seq)
           /\ ToSet(seq) \subseteq ToSet(Tail(seq)) \cup {Head(seq)}
  <1>1. Len(seq) \in Nat \ {0}
    BY EmptySeq
  <1>2. /\ Head(seq) = seq[1] /\ seq[1] \in AllModes /\ Tail(seq) \in Seq(AllModes)
        /\ Len(Tail(seq)) = Len(seq) - 1
        /\ \A i \in 1..Len(Tail(seq)) : Tail(seq)[i] = seq[i + 1]
    BY <1>1, HeadTailProperties, ElementOfSeq
  <1>3. DOMAIN seq = 1..Len(seq) /\ DOMAIN Tail(seq) = 1..(Len(seq) - 1)
    BY <1>2, LenProperties
  <1>4. \A i \in 1..(Len(seq) - 1) : i + 1 \in 1..Len(seq)
    BY <1>1
  <1>5. \A i \in 1..Len(seq) : i = 1 \/ (i - 1 \in 1..(Len(seq) - 1) /\ (i - 1) + 1 = i)
    BY <1>1
  <1>6. ToSet(Tail(seq)) \subseteq ToSet(seq)
    BY <1>2, <1>3, <1>4 DEF ToSet
  <1>7. ToSet(seq) \subseteq ToSet(Tail(seq)) \cup {Head(seq)}
    <2>1. ASSUME NEW i \in 1..Len(seq) PROVE seq[i] \in ToSet(Tail(seq)) \cup {Head(seq)}
      <3>1. CASE i = 1
        BY <3>1, <1>2
      <3>2. CASE i - 1 \in 1..(Len(seq) - 1) /\ (i - 1) + 1 = i
        <4>1. Tail(seq)[i - 1] = seq[i]
          BY <3>2, <1>2
        <4>2. QED
          BY <3>2, <4>1, <1>3 DEF ToSet
      <3>3. QED
        BY <1>5, <3>1, <3>2
    <2>2. QED
      BY <2>1, <1>3 DEF ToSet
  <1>8. QED
    BY <1>2, <1>6, <1>7

\* A mode that the restore looks at is turned on, or is off and has no file.
LEMMA RestoreStep == IInv /\ Restore => IInv'
  <1> SUFFICES ASSUME IInv, Restore PROVE IInv'
    OBVIOUS
  <1>1. /\ stack = <<>> /\ restoring # <<>> /\ restoring \in Seq(AllModes)
        /\ restoring' = Tail(restoring) /\ UNCHANGED <<hooks, file, lit, armed, histVars>>
    BY DEF Restore, IInv, TypeOK
  <1>2. /\ Head(restoring) \in AllModes /\ restoring' \in Seq(AllModes)
        /\ ToSet(restoring') \subseteq ToSet(restoring)
        /\ ToSet(restoring) \subseteq ToSet(restoring') \cup {Head(restoring)}
    BY <1>1, HeadAndRest
  <1>3. CASE Head(restoring) \in file
    <2>1. Call(Head(restoring), TRUE, stack)
      BY <1>3 DEF Restore
    <2>2. /\ FilesOfTheRest' /\ FlagsOfCalls' /\ EffectsOutside' /\ stack' \in Seq(Frames)
          /\ active' \in [AllModes -> BOOLEAN]
      BY <1>1, <1>2, <2>1, FirstCall DEF histVars
    <2>3. TypeOK'
      BY <1>1, <1>2, <2>2 DEF IInv, TypeOK, histVars
    <2>4. QED
      BY <2>2, <2>3 DEF IInv
  <1>4. CASE Head(restoring) \notin file
    <2>1. UNCHANGED <<active, stack>>
      BY <1>4 DEF Restore
    <2>2. TypeOK'
      BY <1>1, <1>2, <2>1 DEF IInv, TypeOK, histVars
    <2>3. FilesOfTheRest'
      BY <1>1, <1>2, <1>4, <2>1 DEF IInv, TypeOK, FilesOfTheRest, histVars, UnderWay
    <2>4. FlagsOfCalls'
      BY <2>1 DEF IInv, FlagsOfCalls
    <2>5. EffectsOutside'
      BY <1>1, <2>1 DEF IInv, EffectsOutside, histVars, On, Winner
    <2>6. QED
      BY <2>2, <2>3, <2>4, <2>5 DEF IInv
  <1>5. QED
    BY <1>3, <1>4

\* The end of a call: what it writes is what the flag is, unless another call for the same
\* mode was made inside.
LEMMA FinishStep ==
    ASSUME IInv, NEW works \in BOOLEAN, Finish(works) PROVE IInv'
  <1>1. /\ stack \in Seq(Frames) /\ Len(stack) \in Nat \ {0}
        /\ Top = stack[Len(stack)] /\ Top \in Frames
        /\ stack' \in Seq(Frames) /\ Len(stack') = Len(stack) - 1
        /\ \A i \in 1..(Len(stack) - 1) : stack'[i] = stack[i]
    BY TopOfStack DEF IInv, TypeOK, Finish, Top
  <1>2. Top.mode \in AllModes /\ Top.on \in BOOLEAN
    BY <1>1 DEF Frames
  <1>3. /\ lit' = Winner(active) /\ armed' = On /\ dirty' = FALSE
        /\ UNCHANGED <<hooks, active, restoring, kept>>
        /\ FileWrite(Top, works)
        /\ unsure' = IF ~works THEN unsure \cup {Top.mode}
                     ELSE IF Top.again THEN unsure ELSE unsure \ {Top.mode}
        /\ selfSet' = (IF Top.again THEN selfSet \cup {Top.mode} ELSE selfSet \ {Top.mode})
    BY DEF Finish, Colors, Recheck
  <1>4. TypeOK'
    <2>1. lit' \subseteq Colored /\ armed' \subseteq AllModes
      BY <1>3 DEF Winner, On
    <2>2. file' \subseteq AllModes
      BY <1>2, <1>3 DEF FileWrite, IInv, TypeOK
    <2>3. unsure' \subseteq AllModes /\ selfSet' \subseteq AllModes
      BY <1>2, <1>3 DEF IInv, TypeOK
    <2>4. QED
      BY <1>1, <1>3, <2>1, <2>2, <2>3 DEF IInv, TypeOK
  <1>5. FlagsOfCalls'
    <2>1. \A i \in 1..Len(stack') : i \in 1..Len(stack) /\ i \in 1..(Len(stack) - 1)
      BY <1>1
    <2>2. QED
      BY <1>1, <1>3, <2>1 DEF IInv, FlagsOfCalls
  <1>6. EffectsOutside'
    BY <1>3 DEF EffectsOutside, On, Winner
  <1>7. ASSUME NEW n \in AllModes, n \notin UnderWay(stack') \cup unsure' \cup selfSet'
        PROVE  /\ n \notin ToSet(restoring') => (n \in file' <=> active'[n])
               /\ n \in ToSet(restoring') => (active'[n] => n \in file')
    <2>1. CASE n = Top.mode
      <3>1. works /\ ~Top.again
        BY <1>3, <1>7, <2>1
      <3>2. stack[Len(stack)].again \/ active[stack[Len(stack)].mode] = stack[Len(stack)].on
        BY <1>1 DEF IInv, FlagsOfCalls
      <3>3. active[n] = Top.on
        BY <1>1, <2>1, <3>1, <3>2, Zenon
      <3>4. n \in file' <=> Top.on
        BY <1>3, <2>1, <3>1 DEF FileWrite
      <3>5. QED
        BY <1>3, <3>3, <3>4
    <2>2. CASE n # Top.mode
      <3>1. n \notin UnderWay(stack)
        <4>1. DOMAIN stack = 1..Len(stack) /\ DOMAIN stack' = 1..(Len(stack) - 1)
          BY <1>1, LenProperties
        <4>2. \A i \in 1..Len(stack) : i = Len(stack) \/ i \in 1..(Len(stack) - 1)
          BY <1>1
        <4>3. QED
          BY <1>1, <1>7, <2>2, <4>1, <4>2 DEF UnderWay
      <3>2. n \notin unsure /\ n \notin selfSet
        BY <1>3, <1>7, <2>2
      <3>3. n \in file' <=> n \in file
        BY <1>3, <2>2 DEF FileWrite
      <3>4. QED
        BY <1>3, <3>1, <3>2, <3>3 DEF IInv, FilesOfTheRest
    <2>3. QED
      BY <2>1, <2>2
  <1>8. FilesOfTheRest'
    BY <1>7 DEF FilesOfTheRest
  <1>9. QED
    BY <1>4, <1>5, <1>6, <1>8 DEF IInv

\* The modes of the calls that have gone.
LEMMA CallsGone ==
    ASSUME stack \in Seq(Frames), NEW k \in 0..(Len(stack) - 1)
    PROVE  UnderWay(SubSeq(stack, k + 1, Len(stack))) = {stack[i].mode : i \in (k + 1)..Len(stack)}
  <1> DEFINE gone == SubSeq(stack, k + 1, Len(stack))
  <1>1. /\ k + 1 \in Int /\ Len(stack) \in Int
        /\ \A i \in (k + 1)..Len(stack) : stack[i] \in Frames
    BY ElementOfSeq, Len(stack) \in Nat
  <1>2. /\ gone \in Seq(Frames) /\ Len(gone) = Len(stack) - k
        /\ \A i \in 1..(Len(stack) - k) : gone[i] = stack[k + i]
    BY Len(stack) \in Nat, SMTT(30)
  <1>3. DOMAIN gone = 1..(Len(stack) - k)
    BY <1>2, LenProperties
  <1>4. /\ \A i \in 1..(Len(stack) - k) : k + i \in (k + 1)..Len(stack)
        /\ \A i \in (k + 1)..Len(stack) : i - k \in 1..(Len(stack) - k) /\ k + (i - k) = i
    BY Len(stack) \in Nat
  <1> HIDE DEF gone
  <1>5. \A i \in (k + 1)..Len(stack) : gone[i - k] = stack[i]
    BY <1>2, <1>4
  <1>6. UnderWay(gone) = {stack[i].mode : i \in (k + 1)..Len(stack)}
    <2>1. UnderWay(gone) = {gone[i].mode : i \in 1..(Len(stack) - k)}
      BY <1>3 DEF UnderWay
    <2>2. \A i \in 1..(Len(stack) - k) : \E j \in (k + 1)..Len(stack) : gone[i] = stack[j]
      BY <1>2, <1>4
    <2>3. \A j \in (k + 1)..Len(stack) : \E i \in 1..(Len(stack) - k) : gone[i] = stack[j]
      BY <1>4, <1>5
    <2> DEFINE I == 1..(Len(stack) - k)
               J == (k + 1)..Len(stack)
    <2>4. /\ \A i \in I : gone[i].mode \in {stack[j].mode : j \in J}
          /\ \A j \in J : stack[j].mode \in {gone[i].mode : i \in I}
      <3>1. /\ \A i \in I : \E j \in J : gone[i].mode = stack[j].mode
            /\ \A j \in J : \E i \in I : stack[j].mode = gone[i].mode
        BY <2>2, <2>3
      <3> HIDE DEF I, J
      <3>2. QED
        BY <3>1
    <2> HIDE DEF I, J
    <2>5. {gone[i].mode : i \in I} = {stack[j].mode : j \in J}
      BY <2>4
    <2>6. QED
      BY <2>1, <2>5 DEF I, J
  <1>7. QED
    BY <1>6 DEF gone

\* A hook that raises: the calls it takes with it write nothing, and their modes are marked.
LEMMA HookRaisesStep == IInv /\ HookRaises => IInv'
  <1> SUFFICES ASSUME IInv, HookRaises PROVE IInv'
    OBVIOUS
  <1>1. /\ stack \in Seq(Frames) /\ Len(stack) \in Nat /\ DOMAIN stack = 1..Len(stack)
        /\ restoring \in Seq(AllModes)
    BY LenProperties DEF IInv, TypeOK
  <1>2. PICK k \in 0..(Len(stack) - 1) :
          /\ stack' = SubSeq(stack, 1, k)
          /\ restoring' = IF k = 0 THEN <<>> ELSE restoring
          /\ unsure' = unsure \cup UnderWay(SubSeq(stack, k + 1, Len(stack)))
                              \cup (IF k = 0 THEN ToSet(restoring) ELSE {})
    BY DEF HookRaises
  <1>3. dirty' = TRUE /\ UNCHANGED <<hooks, active, file, lit, armed, selfSet, kept>>
    BY DEF HookRaises
  <1>4. /\ stack' \in Seq(Frames) /\ Len(stack') = k
        /\ \A i \in 1..k : stack'[i] = stack[i] /\ i \in 1..Len(stack)
    BY <1>1, <1>2, PrefixOfStack
  <1>5. UnderWay(SubSeq(stack, k + 1, Len(stack))) = {stack[i].mode : i \in (k + 1)..Len(stack)}
    BY <1>1, <1>2, CallsGone
  <1>6. TypeOK'
    <2>1. {stack[i].mode : i \in (k + 1)..Len(stack)} \subseteq AllModes
      <3>1. \A i \in (k + 1)..Len(stack) : i \in 1..Len(stack)
        BY <1>1, <1>2
      <3>2. \A i \in 1..Len(stack) : stack[i] \in Frames
        BY <1>1, ElementOfSeq
      <3>3. \A i \in (k + 1)..Len(stack) : stack[i].mode \in AllModes
        BY <3>1, <3>2 DEF Frames
      <3>4. QED
        BY <3>3
    <2>2. ToSet(restoring) \subseteq AllModes
      BY <1>1, LenProperties, ElementOfSeq DEF ToSet
    <2>3. unsure' \subseteq AllModes
      BY <1>2, <1>5, <2>1, <2>2 DEF IInv, TypeOK
    <2>4. restoring' \in Seq(AllModes)
      BY <1>1, <1>2
    <2>5. QED
      BY <1>3, <1>4, <2>3, <2>4 DEF IInv, TypeOK
  <1>7. FilesOfTheRest'
    <2>1. ASSUME NEW n \in AllModes, n \notin UnderWay(stack') \cup unsure' \cup selfSet'
          PROVE  /\ n \notin ToSet(restoring') => (n \in file' <=> active'[n])
                 /\ n \in ToSet(restoring') => (active'[n] => n \in file')
      <3>1. n \notin UnderWay(stack)
        <4>1. DOMAIN stack' = 1..k
          BY <1>4, LenProperties
        <4>2. \A i \in 1..Len(stack) : i \in 1..k \/ i \in (k + 1)..Len(stack)
          BY <1>1, <1>2
        <4>3. QED
          BY <1>1, <1>2, <1>4, <1>5, <2>1, <4>1, <4>2 DEF UnderWay
      <3>2. n \notin unsure /\ n \notin selfSet
        BY <1>2, <1>3, <2>1
      <3>3. n \in ToSet(restoring) <=> n \in ToSet(restoring')
        <4>1. CASE k = 0
          BY <1>2, <2>1, <4>1 DEF ToSet
        <4>2. CASE k # 0
          BY <1>2, <4>2
        <4>3. QED
          BY <4>1, <4>2
      <3>4. QED
        BY <1>3, <3>1, <3>2, <3>3 DEF IInv, FilesOfTheRest
    <2>2. QED
      BY <2>1 DEF FilesOfTheRest
  <1>8. FlagsOfCalls'
    BY <1>3, <1>4 DEF IInv, FlagsOfCalls
  <1>9. EffectsOutside'
    BY <1>3 DEF EffectsOutside
  <1>10. QED
    BY <1>6, <1>7, <1>8, <1>9 DEF IInv

\* A reload and a crash leave every mode off, and the files as they were.
LEMMA LoadStep ==
    ASSUME IInv, NEW restore \in BOOLEAN, Load(restore) PROVE IInv'
  <1>1. \A n \in AllModes : active'[n] = FALSE
    BY DEF Load
  <1>2. stack' = <<>> /\ stack' \in Seq(Frames) /\ Len(stack') = 0
    BY DEF Load
  <1>3. TypeOK'
    <2>1. restoring' \in Seq(AllModes)
      BY ModesAssumption DEF Load
    <2>2. QED
      BY <1>2, <2>1 DEF IInv, TypeOK, Load
  <1>4. FilesOfTheRest'
    <2>1. CASE restore
      BY <1>1, <2>1 DEF Load, FilesOfTheRest, AllModes
    <2>2. CASE ~restore
      BY <1>1, <2>2 DEF Load, FilesOfTheRest, ToSet
    <2>3. QED
      BY <2>1, <2>2
  <1>5. EffectsOutside'
    <2>1. On' = {} /\ Winner(active') = {}
      BY <1>1, ModesAssumption DEF On, Winner
    <2>2. QED
      BY <2>1 DEF Load, EffectsOutside
  <1>6. QED
    BY <1>2, <1>3, <1>4, <1>5 DEF IInv, FlagsOfCalls

\* Every step keeps the invariant.
LEMMA InvStep == IInv /\ [Next]_vars => IInv'
  <1> SUFFICES ASSUME IInv, [Next]_vars PROVE IInv'
    OBVIOUS
  <1>1. CASE HookSetsMode
    BY <1>1, HookSetsModeStep
  <1>2. CASE HookRaises
    BY <1>2, HookRaisesStep
  <1>3. CASE Restore
    BY <1>3, RestoreStep
  <1>4. CASE Focus
    BY <1>4 DEF Focus, IInv, TypeOK, FilesOfTheRest, FlagsOfCalls, EffectsOutside, On, Winner,
                UnderWay, histVars
  <1>5. ASSUME NEW works \in BOOLEAN, Finish(works) PROVE IInv'
    BY <1>5, FinishStep
  <1>6. ASSUME NEW m \in AllModes, NEW on \in BOOLEAN, ModeActiveSet(m, on) PROVE IInv'
    BY <1>6, ModeActiveSetStep
  <1>7. ASSUME NEW restore \in BOOLEAN, Reload(restore) \/ Crash(restore) PROVE IInv'
    BY <1>7, LoadStep DEF Reload, Crash
  <1>8. CASE UNCHANGED vars
    BY <1>8 DEF vars, histVars, IInv, TypeOK, FilesOfTheRest, FlagsOfCalls, EffectsOutside, On,
                Winner, UnderWay
  <1>9. QED
    BY <1>1, <1>2, <1>3, <1>4, <1>5, <1>6, <1>7, <1>8 DEF Next

------------------------------------------------------------------------------
\* The invariant, and what follows from it.
LEMMA Invariant == Spec => []IInv
  BY InitInv, InvStep, PTL DEF Spec

\* The variables have their types.
THEOREM TypeCorrect == Spec => []TypeOK
  <1>1. IInv => TypeOK
    BY DEF IInv
  <1>2. QED
    BY <1>1, Invariant, PTL

\* For any modes and any nest of hooks, the keymaps and the colours of mode-active-set!
\* follow the flags once no call is under way and none was cut short.
THEOREM Effects == Spec => []EffectsFollow
  <1>1. IInv => EffectsFollow
    BY DEF IInv, EffectsOutside, EffectsFollow, Idle
  <1>2. QED
    BY <1>1, Invariant, PTL

\* For any modes and any nest of hooks, a mode whose last call ended and wrote has its file
\* exactly while it is on, unless it was set inside its own call.
THEOREM FileTruth == Spec => []FileFollows
  <1>1. IInv => FileFollows
    <2> SUFFICES ASSUME IInv, Idle, NEW m \in AllModes \ (unsure \cup selfSet)
                 PROVE  m \in file <=> active[m]
      BY DEF FileFollows
    <2>1. m \notin UnderWay(stack) /\ m \notin ToSet(restoring)
      BY DEF Idle, UnderWay, ToSet
    <2>2. QED
      BY <2>1 DEF IInv, FilesOfTheRest
  <1>2. QED
    BY <1>1, Invariant, PTL

\* The two, as the run checks them.
THEOREM FlagsFollowed == Spec => []FlagsAreFollowed
  BY Effects, FileTruth, PTL DEF FlagsAreFollowed

------------------------------------------------------------------------------
(* Eviction *)

Mutual(m, n) == m # n /\ Evicts(m, n) /\ Evicts(n, m)

\* The last call for a mode is under way.
Fresh(m) == \E i \in 1..Len(stack) : stack[i].mode = m /\ ~stack[i].again

\* It was cut short, or could not write.
Unended(m) == m \in unsure /\ ~Fresh(m)

\* It turns m on, and its hook will still turn n off.
ToEvict(m, n) ==
    \E i \in 1..Len(stack) :
        /\ stack[i].mode = m /\ stack[i].on /\ ~stack[i].again
        /\ \E j \in DOMAIN hooks[<<m, TRUE>>] :
              j >= stack[i].next /\ hooks[<<m, TRUE>>][j] = <<n, FALSE>>

\* Of the calls for one mode only the innermost was not interrupted.
AgainBelow ==
    \A i, j \in 1..Len(stack) : i < j /\ stack[i].mode = stack[j].mode => stack[i].again

\* Two modes that evict each other are on only while the last call for one of them is going
\* to turn the other off, or when it was cut short.
EvictionsOfCalls ==
    \A m, n \in AllModes : Mutual(m, n) /\ active[m] /\ active[n] =>
        Unended(m) \/ Unended(n) \/ ToEvict(m, n) \/ ToEvict(n, m)

\* A mode that no hook turns off keeps the file it had at the load, and is on from its turn
\* in the restore.
Spared(m) == \A s \in Settings : ~TurnsOff(s, m)
KeptOn ==
    \A m \in kept : Spared(m) =>
        /\ m \in file
        /\ \A i \in 1..Len(stack) : stack[i].mode = m => active[m] /\ stack[i].on
        /\ active[m] \/ m \in unsure \/ m \in ToSet(restoring)

EInv == AgainBelow /\ EvictionsOfCalls /\ KeptOn

\* What a call does to the calls below it: it marks those for the same mode, and the hook
\* that makes it goes on.
Called(m, on) ==
    /\ stack' \in Seq(Frames) /\ Len(stack') = Len(stack) + 1
    /\ stack'[Len(stack) + 1] = [mode |-> m, on |-> on, next |-> 1, again |-> FALSE]
    /\ \A i \in 1..Len(stack) :
         /\ stack'[i].mode = stack[i].mode /\ stack'[i].on = stack[i].on
         /\ stack[i].mode # m => stack'[i].again = stack[i].again
         /\ stack[i].mode = m => stack'[i].again
         /\ \/ stack'[i].next = stack[i].next
            \/ /\ stack'[i].next = stack[i].next + 1
               /\ hooks[<<stack[i].mode, stack[i].on>>][stack[i].next] = <<m, on>>
    /\ active' = [active EXCEPT ![m] = on]
    /\ UNCHANGED <<hooks, unsure>>

\* A call made by a hook, and one made while none is under way.
LEMMA HookCalls ==
    ASSUME IInv, HookSetsMode
    PROVE  \E m \in AllModes, on \in BOOLEAN :
              Called(m, on) /\ (~on => \E s \in Settings : TurnsOff(s, m))
  <1> DEFINE ops == hooks[<<Top.mode, Top.on>>]
             st  == [stack EXCEPT ![Len(stack)].next = @ + 1]
             m   == ops[Top.next][1]
             on  == ops[Top.next][2]
  <1>1. /\ stack \in Seq(Frames) /\ Len(stack) \in Nat \ {0}
        /\ Top = stack[Len(stack)] /\ Top \in Frames
    BY TopOfStack DEF IInv, TypeOK, HookSetsMode, Top
  <1>2. <<Top.mode, Top.on>> \in Settings
    BY <1>1 DEF Frames, Settings
  <1>3. ops \in Seq(Settings)
    BY <1>2, ModesAssumption DEF IInv, TypeOK
  <1>4. Top.next \in 1..Len(ops)
    BY <1>1, <1>3 DEF HookSetsMode, Frames
  <1>5. ops[Top.next] \in Settings /\ Top.next \in DOMAIN ops
    BY <1>3, <1>4, ElementOfSeq, LenProperties
  <1>6. m \in AllModes /\ on \in BOOLEAN /\ ops[Top.next] = <<m, on>>
    BY <1>5 DEF Settings
  <1>7. Call(m, on, st) /\ UNCHANGED <<hooks, unsure>>
    BY DEF HookSetsMode, histVars
  <1>8. \A i \in 1..Len(stack) : stack[i] \in Frames
    BY <1>1, ElementOfSeq
  <1>9. /\ st \in Seq(Frames) /\ Len(st) = Len(stack)
        /\ \A i \in 1..Len(st) :
             /\ st[i].mode = stack[i].mode /\ st[i].on = stack[i].on
             /\ st[i].again = stack[i].again
             /\ \/ st[i].next = stack[i].next
                \/ i = Len(stack) /\ st[i].next = stack[i].next + 1
    <2>1. [stack[Len(stack)] EXCEPT !.next = @ + 1] \in Frames
      BY <1>1 DEF Frames
    <2>2. st = [stack EXCEPT ![Len(stack)] = [stack[Len(stack)] EXCEPT !.next = @ + 1]]
      OBVIOUS
    <2>3. st \in Seq(Frames) /\ Len(st) = Len(stack)
      BY <1>1, <2>1, <2>2, ExceptSeq
    <2>4. QED
      BY <1>1, <1>8, <2>3 DEF Frames
  <1>10. ~on => TurnsOff(<<Top.mode, Top.on>>, m)
    BY <1>5, <1>6 DEF TurnsOff
  <1> HIDE DEF st, m, on
  <1>11. /\ stack' \in Seq(Frames) /\ Len(stack') = Len(stack) + 1
         /\ stack'[Len(stack) + 1] = [mode |-> m, on |-> on, next |-> 1, again |-> FALSE]
    BY <1>6, <1>7, <1>9, CallFacts
  <1>12. active' = [active EXCEPT ![m] = on]
    BY <1>7 DEF Call
  <1>13. ASSUME NEW i \in 1..Len(stack)
         PROVE  /\ stack'[i].mode = stack[i].mode /\ stack'[i].on = stack[i].on
                /\ stack[i].mode # m => stack'[i].again = stack[i].again
                /\ stack[i].mode = m => stack'[i].again
                /\ \/ stack'[i].next = stack[i].next
                   \/ /\ stack'[i].next = stack[i].next + 1
                      /\ hooks[<<stack[i].mode, stack[i].on>>][stack[i].next] = <<m, on>>
    <2>1. /\ stack'[i].mode = st[i].mode /\ stack'[i].on = st[i].on
          /\ stack'[i].next = st[i].next
          /\ stack'[i].again = (st[i].again \/ st[i].mode = m)
      BY <1>6, <1>7, <1>9, MarkedCalls
    <2>2. /\ st[i].mode = stack[i].mode /\ st[i].on = stack[i].on
          /\ st[i].again = stack[i].again
          /\ \/ st[i].next = stack[i].next
             \/ i = Len(stack) /\ st[i].next = stack[i].next + 1
      BY <1>9
    <2>3. stack[i].again \in BOOLEAN
      BY <1>8 DEF Frames
    <2>4. /\ stack'[i].mode = stack[i].mode /\ stack'[i].on = stack[i].on
          /\ stack[i].mode # m => stack'[i].again = stack[i].again
          /\ stack[i].mode = m => stack'[i].again
      BY <2>1, <2>2, <2>3
    <2>5. CASE i = Len(stack)
      BY <2>1, <2>2, <2>4, <2>5, <1>1, <1>6, Zenon
    <2>6. QED
      BY <2>1, <2>2, <2>4, <2>5
  <1>14. Called(m, on)
    BY <1>7, <1>11, <1>12, <1>13 DEF Called
  <1>15. QED
    BY <1>2, <1>6, <1>10, <1>14, Zenon

LEMMA FirstCalls ==
    ASSUME IInv, stack = <<>>, NEW m \in AllModes, NEW on \in BOOLEAN, Call(m, on, stack),
           UNCHANGED <<hooks, unsure>>
    PROVE  Called(m, on)
  <1>1. stack \in Seq(Frames) /\ Len(stack) = 0
    BY DEF IInv, TypeOK
  <1>2. /\ stack' \in Seq(Frames) /\ Len(stack') = Len(stack) + 1
        /\ stack'[Len(stack) + 1] = [mode |-> m, on |-> on, next |-> 1, again |-> FALSE]
    BY <1>1, CallFacts
  <1>3. QED
    BY <1>1, <1>2 DEF Called, Call

\* A call that begins has its own evictions ahead, and leaves those of the others.
LEMMA CalledEvicts ==
    ASSUME IInv, AgainBelow, EvictionsOfCalls, NEW m \in AllModes, NEW on \in BOOLEAN,
           Called(m, on)
    PROVE  AgainBelow' /\ EvictionsOfCalls'
  <1> DEFINE n == Len(stack)
  <1>1. /\ stack \in Seq(Frames) /\ n \in Nat /\ \A i \in 1..n : stack[i] \in Frames
        /\ active \in [AllModes -> BOOLEAN] /\ hooks \in [Settings -> Seq(Settings)]
    BY LenProperties, ElementOfSeq, ModesAssumption DEF IInv, TypeOK
  <1>2. /\ Len(stack') = n + 1 /\ \A i \in 1..(n + 1) : i = n + 1 \/ i \in 1..n
        /\ \A i \in 1..n : i \in 1..(n + 1)
        /\ n + 1 \in 1..(n + 1)
        /\ stack'[n + 1].mode = m /\ stack'[n + 1].on = on /\ stack'[n + 1].next = 1
        /\ ~stack'[n + 1].again
    BY <1>1 DEF Called
  <1>3. AgainBelow'
    <2>1. ASSUME NEW i \in 1..Len(stack'), NEW j \in 1..Len(stack'),
                 i < j, stack'[i].mode = stack'[j].mode
          PROVE  stack'[i].again
      <3>1. i \in 1..n
        BY <1>1, <1>2, <2>1
      <3>2. CASE j = n + 1
        BY <1>2, <2>1, <3>1, <3>2 DEF Called
      <3>3. CASE j \in 1..n
        <4>1. stack[i].again
          BY <2>1, <3>1, <3>3 DEF AgainBelow, Called
        <4>2. QED
          BY <3>1, <4>1 DEF Called
      <3>4. QED
        BY <1>2, <3>2, <3>3
    <2>2. QED
      BY <2>1 DEF AgainBelow
  <1>4. ASSUME NEW p \in AllModes, p # m, Unended(p) PROVE Unended(p)'
    <2>1. ASSUME NEW i \in 1..(n + 1), stack'[i].mode = p, ~stack'[i].again PROVE FALSE
      <3>1. i \in 1..n
        BY <1>2, <1>4, <2>1
      <3>2. stack[i].mode = p /\ ~stack[i].again
        BY <1>4, <2>1, <3>1 DEF Called
      <3>3. QED
        BY <1>4, <3>1, <3>2 DEF Unended, Fresh
    <2>2. p \in unsure'
      BY <1>4 DEF Called, Unended
    <2>3. QED
      BY <1>2, <2>1, <2>2 DEF Unended, Fresh
  <1>5. ASSUME NEW p \in AllModes, NEW q \in AllModes, p # m, q # m, ToEvict(p, q)
        PROVE  ToEvict(p, q)'
    <2>1. PICK i \in 1..n, j \in DOMAIN hooks[<<p, TRUE>>] :
            /\ stack[i].mode = p /\ stack[i].on /\ ~stack[i].again
            /\ j >= stack[i].next /\ hooks[<<p, TRUE>>][j] = <<q, FALSE>>
      BY <1>5 DEF ToEvict
    <2>2. stack'[i].mode = p /\ stack'[i].on /\ ~stack'[i].again
      BY <1>5, <2>1 DEF Called
    <2>3. j >= stack'[i].next
      <3>1. stack[i].on = TRUE /\ stack[i].next \in Nat
        BY <1>1, <2>1 DEF Frames
      <3>2. j \in Nat
        <4>1. <<p, TRUE>> \in Settings
          BY DEF Settings
        <4>2. DOMAIN hooks[<<p, TRUE>>] = 1..Len(hooks[<<p, TRUE>>])
          BY <1>1, <4>1, LenProperties
        <4>3. QED
          BY <4>2, <2>1
      <3>3. CASE stack'[i].next = stack[i].next
        BY <3>3, <2>1
      <3>4. CASE /\ stack'[i].next = stack[i].next + 1
                 /\ hooks[<<stack[i].mode, stack[i].on>>][stack[i].next] = <<m, on>>
        <4>1. hooks[<<p, TRUE>>][stack[i].next] = <<m, on>>
          BY <2>1, <3>1, <3>4
        <4>2. j # stack[i].next
          BY <1>5, <2>1, <4>1
        <4>3. QED
          BY <2>1, <3>1, <3>2, <3>4, <4>2
      <3>5. QED
        BY <3>3, <3>4 DEF Called
    <2>4. hooks' = hooks /\ i \in 1..Len(stack')
      BY <1>2 DEF Called
    <2>5. QED
      BY <2>1, <2>2, <2>3, <2>4 DEF ToEvict
  <1>6. ASSUME NEW q \in AllModes, Mutual(m, q), on PROVE ToEvict(m, q)'
    <2>1. PICK j \in DOMAIN hooks[<<m, TRUE>>] : hooks[<<m, TRUE>>][j] = <<q, FALSE>>
      BY <1>6 DEF Mutual, Evicts, TurnsOff
    <2>2. j >= 1
      <3>1. <<m, TRUE>> \in Settings
        BY DEF Settings
      <3>2. DOMAIN hooks[<<m, TRUE>>] = 1..Len(hooks[<<m, TRUE>>])
        BY <1>1, <3>1, LenProperties
      <3>3. QED
        BY <3>2, <2>1
    <2>3. hooks' = hooks
      BY DEF Called
    <2>4. QED
      BY <1>2, <1>6, <2>1, <2>2, <2>3 DEF ToEvict
  <1>7. ASSUME NEW p \in AllModes, NEW q \in AllModes, Mutual(p, q)', active'[p], active'[q]
        PROVE  Unended(p)' \/ Unended(q)' \/ ToEvict(p, q)' \/ ToEvict(q, p)'
    <2>1. Mutual(p, q) /\ Mutual(q, p) /\ p # q
      BY <1>7 DEF Mutual, Evicts, TurnsOff, Called
    <2>2. CASE p = m
      BY <1>1, <1>6, <1>7, <2>1, <2>2 DEF Called
    <2>3. CASE q = m
      BY <1>1, <1>6, <1>7, <2>1, <2>3 DEF Called
    <2>4. CASE p # m /\ q # m
      <3>1. active[p] /\ active[q]
        BY <1>1, <1>7, <2>4 DEF Called
      <3>2. QED
        BY <1>4, <1>5, <2>1, <2>4, <3>1 DEF EvictionsOfCalls
    <2>5. QED
      BY <2>2, <2>3, <2>4
  <1>8. EvictionsOfCalls'
    BY <1>7 DEF EvictionsOfCalls
  <1>9. QED
    BY <1>3, <1>8

\* A call turns off no mode that is spared, and one that is restored is turned on.
LEMMA CalledSpares ==
    ASSUME IInv, KeptOn, NEW m \in AllModes, NEW on \in BOOLEAN, Called(m, on),
           ~on => \E s \in Settings : TurnsOff(s, m), UNCHANGED <<file, kept>>,
           ToSet(restoring) \subseteq ToSet(restoring') \cup {m}
    PROVE  KeptOn'
  <1>1. /\ stack \in Seq(Frames) /\ Len(stack) \in Nat
        /\ active \in [AllModes -> BOOLEAN] /\ kept \subseteq AllModes
    BY LenProperties DEF IInv, TypeOK
  <1>2. ASSUME NEW p \in kept', Spared(p)'
        PROVE  /\ p \in file'
               /\ \A i \in 1..Len(stack') : stack'[i].mode = p => active'[p] /\ stack'[i].on
               /\ active'[p] \/ p \in unsure' \/ p \in ToSet(restoring')
    <2>1. Spared(p) /\ p \in kept /\ p \in AllModes
      BY <1>1, <1>2 DEF Spared, TurnsOff, Called
    <2>2. p = m => on
      BY <2>1 DEF Spared
    <2>3. active[p] => active'[p]
      BY <1>1, <2>1, <2>2 DEF Called
    <2>4. p = m => active'[p]
      BY <1>1, <2>2 DEF Called
    <2>5. ASSUME NEW i \in 1..Len(stack'), stack'[i].mode = p PROVE active'[p] /\ stack'[i].on
      <3>1. CASE i = Len(stack) + 1
        BY <2>2, <2>4, <2>5, <3>1 DEF Called
      <3>2. CASE i \in 1..Len(stack)
        BY <2>1, <2>3, <2>5, <3>2 DEF Called, KeptOn
      <3>3. QED
        BY <1>1, <3>1, <3>2 DEF Called
    <2>6. active'[p] \/ p \in unsure' \/ p \in ToSet(restoring')
      BY <2>1, <2>3, <2>4 DEF KeptOn, Called
    <2>7. QED
      BY <2>1, <2>5, <2>6 DEF KeptOn
  <1>3. QED
    BY <1>2 DEF KeptOn

\* What is left of the calls when the innermost have gone.
LEMMA CallsLeft ==
    ASSUME NEW k, k \in 0..Len(stack), Len(stack') = k, Len(stack) \in Nat,
           \A i \in 1..k : stack'[i] = stack[i], UNCHANGED hooks
    PROVE  /\ AgainBelow => AgainBelow'
           /\ \A p : Fresh(p)' => Fresh(p)
           /\ \A p, q, i : /\ i \in 1..k
                           /\ stack[i].mode = p /\ stack[i].on /\ ~stack[i].again
                           /\ \E j \in DOMAIN hooks[<<p, TRUE>>] :
                                 j >= stack[i].next /\ hooks[<<p, TRUE>>][j] = <<q, FALSE>>
                           => ToEvict(p, q)'
  <1>1. \A i \in 1..k : i \in 1..Len(stack)
    OBVIOUS
  <1>2. AgainBelow => AgainBelow'
    BY <1>1 DEF AgainBelow
  <1>3. \A p : Fresh(p)' => Fresh(p)
    BY <1>1 DEF Fresh
  <1>4. ASSUME NEW p, NEW q, NEW i \in 1..k,
               stack[i].mode = p /\ stack[i].on /\ ~stack[i].again,
               \E j \in DOMAIN hooks[<<p, TRUE>>] :
                  j >= stack[i].next /\ hooks[<<p, TRUE>>][j] = <<q, FALSE>>
        PROVE  ToEvict(p, q)'
    <2>1. stack'[i].mode = p /\ stack'[i].on /\ ~stack'[i].again /\ i \in 1..Len(stack')
      BY <1>4
    <2>2. \E j \in DOMAIN hooks'[<<p, TRUE>>] :
             j >= stack'[i].next /\ hooks'[<<p, TRUE>>][j] = <<q, FALSE>>
      BY <1>4
    <2>3. QED
      BY <2>1, <2>2 DEF ToEvict
  <1>5. QED
    BY <1>2, <1>3, <1>4

\* A call that ends has run its hook, and turned off what its mode evicts.
LEMMA FinishEvicts ==
    ASSUME IInv, EInv, NEW works \in BOOLEAN, Finish(works) PROVE EInv'
  <1> DEFINE n == Len(stack)
  <1>1. /\ stack \in Seq(Frames) /\ n \in Nat \ {0} /\ Top = stack[n] /\ Top \in Frames
        /\ stack' \in Seq(Frames) /\ Len(stack') = n - 1
        /\ \A i \in 1..(n - 1) : stack'[i] = stack[i]
    BY TopOfStack DEF IInv, TypeOK, Finish, Top
  <1>2. /\ UNCHANGED <<hooks, active, restoring, kept>> /\ FileWrite(Top, works)
        /\ unsure' = IF ~works THEN unsure \cup {Top.mode}
                     ELSE IF Top.again THEN unsure ELSE unsure \ {Top.mode}
        /\ Top.next > Len(hooks[<<Top.mode, Top.on>>])
    BY DEF Finish
  <1>3. n - 1 \in 0..n /\ n \in Nat /\ n \in 1..n /\ \A i \in 1..n : i = n \/ i \in 1..(n - 1)
    BY <1>1
  <1> HIDE DEF n
  <1>4. /\ AgainBelow => AgainBelow'
        /\ \A p : Fresh(p)' => Fresh(p)
        /\ \A p, q, i : /\ i \in 1..(n - 1)
                        /\ stack[i].mode = p /\ stack[i].on /\ ~stack[i].again
                        /\ \E j \in DOMAIN hooks[<<p, TRUE>>] :
                              j >= stack[i].next /\ hooks[<<p, TRUE>>][j] = <<q, FALSE>>
                        => ToEvict(p, q)'
    BY <1>1, <1>2, <1>3, CallsLeft DEF n
  <1>5. ASSUME NEW p \in AllModes, Unended(p) PROVE Unended(p)'
    <2>1. Top.mode = p => Top.again
      BY <1>1, <1>3, <1>5 DEF Unended, Fresh, n
    <2>2. p \in unsure'
      BY <1>2, <1>5, <2>1 DEF Unended
    <2>3. QED
      BY <1>4, <1>5, <2>2 DEF Unended
  <1>6. ASSUME NEW p \in AllModes, NEW q \in AllModes, ToEvict(p, q) PROVE ToEvict(p, q)'
    <2>1. PICK i \in 1..n :
            /\ stack[i].mode = p /\ stack[i].on /\ ~stack[i].again
            /\ \E j \in DOMAIN hooks[<<p, TRUE>>] :
                  j >= stack[i].next /\ hooks[<<p, TRUE>>][j] = <<q, FALSE>>
      BY <1>6 DEF ToEvict, n
    <2>2. CASE i \in 1..(n - 1)
      BY <1>4, <2>1, <2>2
    <2>3. CASE i = n
      <3>1. PICK j \in DOMAIN hooks[<<p, TRUE>>] : j >= Top.next
        BY <1>1, <2>1, <2>3
      <3>2. Top.on = TRUE /\ Top.mode = p /\ Top.next \in Nat
        BY <1>1, <2>1, <2>3 DEF Frames
      <3>3. hooks[<<p, TRUE>>] \in Seq(Settings)
        BY <1>6, ModesAssumption DEF IInv, TypeOK, Settings
      <3>4. j \in 1..Len(hooks[<<p, TRUE>>]) /\ Len(hooks[<<p, TRUE>>]) \in Nat
        BY <3>1, <3>3, LenProperties
      <3>5. Top.next > Len(hooks[<<p, TRUE>>])
        BY <1>2, <3>2
      <3>6. QED
        BY <3>1, <3>2, <3>4, <3>5
    <2>4. QED
      BY <1>3, <2>2, <2>3
  <1>7. EvictionsOfCalls'
    <2>1. ASSUME NEW p \in AllModes, NEW q \in AllModes, Mutual(p, q)', active'[p], active'[q]
          PROVE  Unended(p)' \/ Unended(q)' \/ ToEvict(p, q)' \/ ToEvict(q, p)'
      <3>1. Mutual(p, q) /\ active[p] /\ active[q]
        BY <1>2, <2>1 DEF Mutual, Evicts, TurnsOff
      <3>2. QED
        BY <1>5, <1>6, <3>1 DEF EInv, EvictionsOfCalls
    <2>2. QED
      BY <2>1 DEF EvictionsOfCalls
  <1>8. KeptOn'
    <2>1. ASSUME NEW p \in kept', Spared(p)'
          PROVE  /\ p \in file'
                 /\ \A i \in 1..Len(stack') : stack'[i].mode = p => active'[p] /\ stack'[i].on
                 /\ active'[p] \/ p \in unsure' \/ p \in ToSet(restoring')
      <3>1. /\ p \in kept /\ p \in file
            /\ \A i \in 1..n : stack[i].mode = p => active[p] /\ stack[i].on
            /\ active[p] \/ p \in unsure \/ p \in ToSet(restoring)
        BY <1>2, <2>1 DEF EInv, KeptOn, Spared, TurnsOff, n
      <3>2. Top.mode = p => active[p] /\ Top.on
        BY <1>1, <1>3, <3>1
      <3>3. p \in file'
        BY <1>2, <3>1, <3>2 DEF FileWrite
      <3>4. \A i \in 1..Len(stack') : stack'[i].mode = p => active'[p] /\ stack'[i].on
        BY <1>1, <1>2, <1>3, <3>1
      <3>5. active'[p] \/ p \in unsure' \/ p \in ToSet(restoring')
        BY <1>2, <3>1, <3>2
      <3>6. QED
        BY <3>3, <3>4, <3>5
    <2>2. QED
      BY <2>1 DEF KeptOn
  <1>9. QED
    BY <1>4, <1>7, <1>8 DEF EInv

\* Calls that are cut short leave their modes marked, and the evictions of the others ahead.
LEMMA HookRaisesEvicts == IInv /\ EInv /\ HookRaises => EInv'
  <1> SUFFICES ASSUME IInv, EInv, HookRaises PROVE EInv'
    OBVIOUS
  <1> DEFINE n == Len(stack)
  <1>1. stack \in Seq(Frames) /\ n \in Nat
    BY LenProperties DEF IInv, TypeOK
  <1>2. PICK k \in 0..(n - 1) :
          /\ stack' = SubSeq(stack, 1, k)
          /\ restoring' = IF k = 0 THEN <<>> ELSE restoring
          /\ unsure' = unsure \cup UnderWay(SubSeq(stack, k + 1, n))
                              \cup (IF k = 0 THEN ToSet(restoring) ELSE {})
    BY DEF HookRaises
  <1>3. UNCHANGED <<hooks, active, file, kept>>
    BY DEF HookRaises
  <1>4. /\ k \in 0..n /\ Len(stack') = k
        /\ \A i \in 1..k : stack'[i] = stack[i] /\ i \in 1..n
        /\ \A i \in 1..n : i \in 1..k \/ i \in (k + 1)..n
        /\ \A i \in 1..k, j \in (k + 1)..n : i < j /\ j \in 1..n
    BY <1>1, <1>2, PrefixOfStack
  <1>5. \A i \in (k + 1)..n : stack[i].mode \in unsure'
    <2>1. UnderWay(SubSeq(stack, k + 1, n)) = {stack[i].mode : i \in (k + 1)..n}
      BY <1>1, <1>2, CallsGone
    <2>2. QED
      BY <1>2, <2>1
  <1> HIDE DEF n
  <1>6. /\ AgainBelow => AgainBelow'
        /\ \A p : Fresh(p)' => Fresh(p)
        /\ \A p, q, i : /\ i \in 1..k
                        /\ stack[i].mode = p /\ stack[i].on /\ ~stack[i].again
                        /\ \E j \in DOMAIN hooks[<<p, TRUE>>] :
                              j >= stack[i].next /\ hooks[<<p, TRUE>>][j] = <<q, FALSE>>
                        => ToEvict(p, q)'
    BY <1>1, <1>3, <1>4, CallsLeft DEF n
  <1>7. ASSUME NEW p \in AllModes, Unended(p) PROVE Unended(p)'
    BY <1>2, <1>6, <1>7 DEF Unended
  <1>8. ASSUME NEW p \in AllModes, NEW q \in AllModes, ToEvict(p, q)
        PROVE  ToEvict(p, q)' \/ Unended(p)'
    <2>1. PICK i \in 1..n :
            /\ stack[i].mode = p /\ stack[i].on /\ ~stack[i].again
            /\ \E j \in DOMAIN hooks[<<p, TRUE>>] :
                  j >= stack[i].next /\ hooks[<<p, TRUE>>][j] = <<q, FALSE>>
      BY <1>8 DEF ToEvict, n
    <2>2. CASE i \in 1..k
      BY <1>6, <2>1, <2>2
    <2>3. CASE i \in (k + 1)..n
      <3>1. p \in unsure'
        BY <1>5, <2>1, <2>3
      <3>2. ASSUME NEW l \in 1..Len(stack'), stack'[l].mode = p PROVE stack'[l].again
        <4>1. l \in 1..n /\ l < i /\ stack'[l] = stack[l]
          BY <1>4, <2>3, <3>2
        <4>2. QED
          BY <2>1, <3>2, <4>1 DEF EInv, AgainBelow, n
      <3>3. QED
        BY <3>1, <3>2 DEF Unended, Fresh
    <2>4. QED
      BY <1>4, <2>2, <2>3
  <1>9. EvictionsOfCalls'
    <2>1. ASSUME NEW p \in AllModes, NEW q \in AllModes, Mutual(p, q)', active'[p], active'[q]
          PROVE  Unended(p)' \/ Unended(q)' \/ ToEvict(p, q)' \/ ToEvict(q, p)'
      <3>1. Mutual(p, q) /\ active[p] /\ active[q]
        BY <1>3, <2>1 DEF Mutual, Evicts, TurnsOff
      <3>2. QED
        BY <1>7, <1>8, <3>1 DEF EInv, EvictionsOfCalls
    <2>2. QED
      BY <2>1 DEF EvictionsOfCalls
  <1>10. KeptOn'
    <2>1. ASSUME NEW p \in kept', Spared(p)'
          PROVE  /\ p \in file'
                 /\ \A i \in 1..Len(stack') : stack'[i].mode = p => active'[p] /\ stack'[i].on
                 /\ active'[p] \/ p \in unsure' \/ p \in ToSet(restoring')
      <3>1. /\ p \in kept /\ p \in file
            /\ \A i \in 1..n : stack[i].mode = p => active[p] /\ stack[i].on
            /\ active[p] \/ p \in unsure \/ p \in ToSet(restoring)
        BY <1>3, <2>1 DEF EInv, KeptOn, Spared, TurnsOff, n
      <3>2. \A i \in 1..Len(stack') : stack'[i].mode = p => active'[p] /\ stack'[i].on
        BY <1>3, <1>4, <3>1
      <3>3. active'[p] \/ p \in unsure' \/ p \in ToSet(restoring')
        BY <1>2, <1>3, <3>1
      <3>4. QED
        BY <1>3, <3>1, <3>2, <3>3
    <2>2. QED
      BY <2>1 DEF KeptOn
  <1>11. QED
    BY <1>6, <1>9, <1>10 DEF EInv

LEMMA CallsStay ==
    ASSUME AgainBelow, EvictionsOfCalls, UNCHANGED <<hooks, active, stack, unsure>>
    PROVE  AgainBelow' /\ EvictionsOfCalls'
  <1>1. \A p, q : TurnsOff(p, q)' <=> TurnsOff(p, q)
    BY DEF TurnsOff
  <1>2. \A p, q : Mutual(p, q)' <=> Mutual(p, q)
    BY <1>1 DEF Mutual, Evicts
  <1>3. \A p : Unended(p)' <=> Unended(p)
    BY DEF Unended, Fresh
  <1>4. \A p, q : ToEvict(p, q)' <=> ToEvict(p, q)
    BY DEF ToEvict
  <1>5. AgainBelow'
    BY DEF AgainBelow
  <1>6. EvictionsOfCalls'
    BY <1>2, <1>3, <1>4 DEF EvictionsOfCalls
  <1>7. QED
    BY <1>5, <1>6

\* A mode that has its turn in the restore is turned on, or had no file.
LEMMA RestoreEvicts == IInv /\ EInv /\ Restore => EInv'
  <1> SUFFICES ASSUME IInv, EInv, Restore PROVE EInv'
    OBVIOUS
  <1> DEFINE m == Head(restoring)
  <1>1. /\ stack = <<>> /\ restoring # <<>> /\ restoring \in Seq(AllModes)
        /\ restoring' = Tail(restoring) /\ UNCHANGED <<hooks, file, unsure, kept>>
    BY DEF Restore, IInv, TypeOK, histVars
  <1>2. m \in AllModes /\ ToSet(restoring) \subseteq ToSet(restoring') \cup {m}
    BY <1>1, HeadAndRest
  <1> HIDE DEF m
  <1>3. CASE m \in file
    <2>1. Call(m, TRUE, stack)
      BY <1>3 DEF Restore, m
    <2>2. Called(m, TRUE)
      BY <1>1, <1>2, <2>1, FirstCalls
    <2>3. QED
      BY <1>1, <1>2, <2>2, CalledEvicts, CalledSpares DEF EInv
  <1>4. CASE m \notin file
    <2>1. UNCHANGED <<active, stack>>
      BY <1>4 DEF Restore, m
    <2>2. AgainBelow' /\ EvictionsOfCalls'
      BY <1>1, <2>1, CallsStay DEF EInv
    <2>3. KeptOn'
      BY <1>1, <1>2, <1>4, <2>1 DEF EInv, KeptOn, Spared, TurnsOff
    <2>4. QED
      BY <2>2, <2>3 DEF EInv
  <1>5. QED
    BY <1>3, <1>4

\* With every mode off and the restore to come there is nothing to evict.
LEMMA LoadEvicts ==
    ASSUME file \subseteq AllModes, NEW restore \in BOOLEAN, Load(restore) PROVE EInv'
  <1>1. Len(stack') = 0 /\ \A m \in AllModes : ~active'[m]
    BY DEF Load
  <1>2. AgainBelow' /\ EvictionsOfCalls'
    BY <1>1 DEF AgainBelow, EvictionsOfCalls
  <1>3. KeptOn'
    <2>1. CASE restore
      <3>1. kept' = file /\ file' = file /\ restoring' = Order
        BY <2>1 DEF Load
      <3>2. QED
        BY <1>1, <3>1 DEF KeptOn, AllModes
    <2>2. CASE ~restore
      BY <2>2 DEF Load, KeptOn
    <2>3. QED
      BY <2>1, <2>2
  <1>4. QED
    BY <1>2, <1>3 DEF EInv

LEMMA EvictionInit == Init => EInv
  <1> SUFFICES ASSUME Init PROVE EInv
    OBVIOUS
  <1>1. Len(stack) = 0 /\ \A m \in AllModes : ~active[m]
    BY DEF Init
  <1>2. AgainBelow /\ EvictionsOfCalls
    BY <1>1 DEF AgainBelow, EvictionsOfCalls
  <1>3. KeptOn
    BY <1>1 DEF KeptOn, Init, AllModes
  <1>4. QED
    BY <1>2, <1>3 DEF EInv

\* Every step keeps the evictions due.
LEMMA EvictionStep == IInv /\ EInv /\ [Next]_vars => EInv'
  <1> SUFFICES ASSUME IInv, EInv, [Next]_vars PROVE EInv'
    OBVIOUS
  <1>1. CASE HookSetsMode
    <2>1. UNCHANGED <<file, kept, restoring>>
      BY <1>1 DEF HookSetsMode, histVars
    <2>2. PICK m \in AllModes, on \in BOOLEAN :
            Called(m, on) /\ (~on => \E s \in Settings : TurnsOff(s, m))
      BY <1>1, HookCalls
    <2>3. QED
      BY <2>1, <2>2, CalledEvicts, CalledSpares DEF EInv
  <1>2. CASE HookRaises
    BY <1>2, HookRaisesEvicts
  <1>3. CASE Restore
    BY <1>3, RestoreEvicts
  <1>4. CASE Focus \/ UNCHANGED vars
    <2>1. UNCHANGED <<hooks, active, file, stack, restoring, unsure, kept>>
      BY <1>4 DEF Focus, vars, histVars
    <2>2. QED
      BY <2>1, CallsStay DEF EInv, KeptOn, Spared, TurnsOff
  <1>5. ASSUME NEW works \in BOOLEAN, Finish(works) PROVE EInv'
    BY <1>5, FinishEvicts
  <1>6. ASSUME NEW m \in AllModes, NEW on \in BOOLEAN, ModeActiveSet(m, on) PROVE EInv'
    <2>1. /\ stack = <<>> /\ Call(m, on, stack) /\ kept' = {} /\ UNCHANGED <<hooks, unsure>>
      BY <1>6 DEF ModeActiveSet, Idle
    <2>2. Called(m, on)
      BY <2>1, FirstCalls
    <2>3. AgainBelow' /\ EvictionsOfCalls'
      BY <2>2, CalledEvicts DEF EInv
    <2>4. KeptOn'
      BY <2>1 DEF KeptOn
    <2>5. QED
      BY <2>3, <2>4 DEF EInv
  <1>7. ASSUME NEW restore \in BOOLEAN, Reload(restore) \/ Crash(restore) PROVE EInv'
    BY <1>7, LoadEvicts DEF Reload, Crash, IInv, TypeOK
  <1>8. QED
    BY <1>1, <1>2, <1>3, <1>4, <1>5, <1>6, <1>7 DEF Next

\* For any modes and any hooks, whatever they set and whenever they raise: two modes that evict
\* each other are not both on once their calls have ended, and a restore turns on every mode
\* that had a file and that no hook turns off.
THEOREM Evictions == Spec => []EvictionDecides
  <1>1. EInv => EvictionDecides
    <2> SUFFICES ASSUME EInv, Idle PROVE EvictionDecides
      BY DEF EvictionDecides, EvictedIsOff, RestoredUnlessEvicted
    <2>1. Len(stack) = 0 /\ ToSet(restoring) = {}
      BY DEF Idle, ToSet
    <2>2. EvictedIsOff
      BY <2>1 DEF EInv, EvictionsOfCalls, EvictedIsOff, Mutual, Unended, ToEvict
    <2>3. RestoredUnlessEvicted
      BY <2>1 DEF EInv, KeptOn, RestoredUnlessEvicted, Spared
    <2>4. QED
      BY <2>2, <2>3 DEF EvictionDecides
  <1>2. QED
    BY <1>1, EvictionInit, EvictionStep, Invariant, PTL DEF Spec
=============================================================================
