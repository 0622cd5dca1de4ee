---------------------------- MODULE Layout_proofs ----------------------------
(* Proofs about Layout.tla, for any windows, workspaces, generations and depth. *)
EXTENDS Layout, FiniteSetTheorems, SequenceTheorems, WellFoundedInduction, TLAPS

------------------------------------------------------------------------------
(* The default grid *)

\* Division by c splits i into a row and a column below c.
LEMMA Division ==
    ASSUME NEW i \in Nat, NEW c \in Nat \ {0}
    PROVE  /\ RowOf(i, c) \in Nat /\ ColOf(i, c) \in 0..(c - 1)
           /\ i = c * RowOf(i, c) + ColOf(i, c)
  BY SMT DEF RowOf, ColOf

\* Whatever the number of columns, the cell of each of n windows is inside the grid, and no two
\* windows share a cell (applyDefaultGrid).
THEOREM CellsFit ==
    ASSUME NEW n \in Nat, NEW c \in Nat \ {0}
    PROVE  /\ \A i \in 0..(n - 1) : RowOf(i, c) < Rows(n, c) /\ ColOf(i, c) < c
           /\ \A i, j \in 0..(n - 1) :
                RowOf(i, c) = RowOf(j, c) /\ ColOf(i, c) = ColOf(j, c) => i = j
  <1>1. ASSUME NEW i \in 0..(n - 1) PROVE RowOf(i, c) < Rows(n, c) /\ ColOf(i, c) < c
    <2> DEFINE r == RowOf(i, c)
               q == Rows(n, c)
               m == (n + c - 1) % c
    <2>1. i \in Nat /\ i < n
      BY <1>1
    <2>2. r \in Nat /\ ColOf(i, c) \in 0..(c - 1) /\ i = c * r + ColOf(i, c)
      BY <2>1, Division
    <2>3. q \in Nat /\ m \in 0..(c - 1) /\ n + c - 1 = c * q + m
      BY <2>1, n + c - 1 \in Nat, Division DEF Rows, RowOf, ColOf
    <2>4. c * r < c * q
      <3> HIDE DEF r, q, m
      <3>1. c * r \in Int /\ c * q \in Int
        BY <2>2, <2>3
      <3>2. QED
        BY <3>1, <2>1, <2>2, <2>3
    <2>5. r < q
      <3> HIDE DEF r, q, m
      <3>1. SUFFICES ASSUME q <= r PROVE FALSE
        BY <2>2, <2>3
      <3>2. PICK d \in Nat : r = q + d
        BY <3>1, <2>2, <2>3, r - q \in Nat, r = q + (r - q)
      <3>3. c * r = c * q + c * d /\ c * d \in Nat
        BY <3>2, <2>2, <2>3
      <3>4. QED
        BY <3>3, <2>4, <2>2, <2>3, c * q \in Nat
    <2>6. QED
      BY <2>2, <2>5
  <1>2. ASSUME NEW i \in 0..(n - 1), NEW j \in 0..(n - 1),
               RowOf(i, c) = RowOf(j, c), ColOf(i, c) = ColOf(j, c)
        PROVE  i = j
    <2>1. i \in Nat /\ j \in Nat
      BY <1>2
    <2>2. i = c * RowOf(i, c) + ColOf(i, c) /\ j = c * RowOf(j, c) + ColOf(j, c)
      BY <2>1, Division
    <2>3. QED
      BY <2>2, <1>2, Zenon
  <1>3. QED
    BY <1>1, <1>2

\* A set of numbers that is not empty has a least.
LEMMA LeastElement ==
    ASSUME NEW T, T \subseteq Nat, T # {}
    PROVE  \E x \in T : \A y \in T : x <= y
  <1> DEFINE R == OpToRel(<, Nat)
  <1>1. IsWellFoundedOn(R, Nat)
    BY NatLessThanWellFounded
  <1>2. \A x, y \in Nat : x < y => <<x, y>> \in R
    BY DEF OpToRel
  <1>3. PICK x \in T : \A y \in T : ~(<<y, x>> \in R)
    <2> HIDE DEF R
    <2>1. QED
      BY <1>1, WFMin
  <1>4. \A y \in T : ~(y < x)
    <2> HIDE DEF R
    <2>1. QED
      BY <1>2, <1>3
  <1>5. QED
    BY <1>4

\* A grid of n cells has a column at least.
LEMMA ColsFit ==
    ASSUME NEW n \in Nat \ {0}
    PROVE  Cols(n) \in Nat \ {0}
  <1> DEFINE T == {c \in Nat : c * c >= n}
  <1>1. n * n >= n
    OBVIOUS
  <1>2. T # {} /\ T \subseteq Nat
    BY <1>1
  <1>3. PICK c \in T : \A y \in T : c <= y
    BY <1>2, LeastElement
  <1>4. c \in Nat /\ c * c >= n /\ c # 0
    BY <1>3
  <1>5. c <= n
    BY <1>1, <1>3
  <1>6. (c - 1) * (c - 1) < n
    <2>1. c - 1 \in Nat /\ ~(c <= c - 1)
      BY <1>4
    <2>2. c - 1 \notin T
      BY <1>3, <2>1
    <2>3. QED
      BY <2>1, <2>2
  <1>7. \E d \in 1..n : d * d >= n /\ (d - 1) * (d - 1) < n
    BY <1>4, <1>5, <1>6
  <1>8. Cols(n) \in 1..n
    BY <1>7 DEF Cols
  <1>9. QED
    BY <1>8

------------------------------------------------------------------------------
(* A box of a retired provider *)

\* A pass that began with callLayout was given boxes of its provider's own generation, and
\* while that generation is current the provider is the registered one.
GoodFrame(f) ==
    f.kind = "recalc" => /\ f.payload \in Nat /\ f.payload <= gen
                         /\ f.payload = algo[f.space]
                         /\ f.payload = gen => registered = gen

GoodStack(st) == (\E S : st \in Seq(S)) /\ \A i \in 1..Len(st) : GoodFrame(st[i])

\* The inductive invariant.
IInv == gen \in Nat \ {0} /\ registered \in {0, gen} /\ GoodStack(stack)

\* A call that begins joins a good stack.
LEMMA GoodAppend ==
    ASSUME NEW st, GoodStack(st), NEW f, GoodFrame(f)
    PROVE  GoodStack(Append(st, f))
  <1>1. PICK S : st \in Seq(S)
    BY DEF GoodStack
  <1>2. st \in Seq(S \cup {f}) /\ Append(st, f) \in Seq(S \cup {f})
    BY <1>1
  <1>3. ASSUME NEW i \in 1..Len(Append(st, f)) PROVE GoodFrame(Append(st, f)[i])
    <2>1. CASE i = Len(st) + 1
      BY <1>2, <2>1
    <2>2. CASE i # Len(st) + 1
      <3>1. i \in 1..Len(st) /\ Append(st, f)[i] = st[i]
        BY <1>1, <1>2, <2>2
      <3>2. QED
        BY <3>1 DEF GoodStack
    <2>3. QED
      BY <2>1, <2>2
  <1>4. QED
    BY <1>2, <1>3 DEF GoodStack

\* The calls below the innermost one, and that one.
LEMMA FrontFacts ==
    ASSUME NEW S, NEW st \in Seq(S), st # <<>>
    PROVE  /\ Len(st) \in Nat \ {0} /\ Last(st) = st[Len(st)] /\ Last(st) \in S
           /\ Front(st) \in Seq(S) /\ Len(Front(st)) = Len(st) - 1
           /\ \A i \in 1..(Len(st) - 1) : Front(st)[i] = st[i]
  <1>1. Len(st) \in Nat /\ Len(st) >= 1
    OBVIOUS
  <1>2. \A i \in 1..Len(st) : st[i] \in S
    BY <1>1
  <1> DEFINE n == Len(st) - 1
  <1>3. n \in Nat /\ 1 \in Int /\ n \in Int /\ Len(st) = n + 1
    BY <1>1
  <1>4. Last(st) = st[Len(st)] /\ Front(st) = SubSeq(st, 1, n)
    BY DEF Last, Front
  <1> HIDE DEF n
  <1>5. /\ SubSeq(st, 1, n) \in Seq(S)
        /\ Len(SubSeq(st, 1, n)) = IF 1 <= n THEN n - 1 + 1 ELSE 0
        /\ \A i \in 1..(n - 1 + 1) : SubSeq(st, 1, n)[i] = st[1 + i - 1]
    <2>1. \A i \in 1..n : st[i] \in S
      BY <1>2, <1>3
    <2>2. QED
      BY <1>3, <2>1, SubSeqProperties, SMTT(30)
  <1>6. \A i \in 1..n : i \in 1..(n - 1 + 1) /\ 1 + i - 1 = i
    BY <1>3
  <1>7. Len(SubSeq(st, 1, n)) = n /\ \A i \in 1..n : SubSeq(st, 1, n)[i] = st[i]
    BY <1>3, <1>5, <1>6
  <1>8. n = Len(st) - 1
    BY DEF n
  <1>9. QED
    BY <1>1, <1>2, <1>4, <1>5, <1>7, <1>8

\* A call that ends leaves one.
LEMMA GoodFront ==
    ASSUME NEW st, GoodStack(st), st # <<>>
    PROVE  GoodStack(Front(st)) /\ GoodFrame(Last(st))
  <1>1. PICK S : st \in Seq(S)
    BY DEF GoodStack
  <1>2. /\ Len(st) \in Nat \ {0} /\ Last(st) = st[Len(st)]
        /\ Front(st) \in Seq(S) /\ Len(Front(st)) = Len(st) - 1
        /\ \A i \in 1..(Len(st) - 1) : Front(st)[i] = st[i]
    BY <1>1, FrontFacts
  <1>3. QED
    BY <1>2 DEF GoodStack

\* recalculate begins a pass only of the registered provider.
LEMMA GoodRecalculate ==
    ASSUME gen \in Nat \ {0}, registered \in {0, gen}, NEW rest, GoodStack(rest),
           NEW s, NEW ts, Recalculate(s, ts, rest)
    PROVE  GoodStack(stack')
  <1>1. Active(algo[s]) => GoodFrame(Frame("recalc", s, ts))
    BY DEF Active, GoodFrame, Frame
  <1>2. CASE stack' = rest
    BY <1>2
  <1>3. CASE Active(algo[s]) /\ stack' = Append(rest, Frame("recalc", s, ts))
    BY <1>1, <1>3, GoodAppend
  <1>4. QED
    BY <1>2, <1>3 DEF Recalculate

\* What joins the stack without being a pass is good.
LEMMA OtherFrame ==
    ASSUME NEW k, k # "recalc", NEW s, NEW ts PROVE GoodFrame(Frame(k, s, ts))
  BY DEF GoodFrame, Frame

\* The second pass of a resize.
LEMMA GoodAgain ==
    ASSUME NEW rest, GoodStack(rest), NEW s, NEW ts, Again(s, ts, rest)
    PROVE  GoodStack(stack')
  BY GoodAppend, OtherFrame DEF Again

LEMMA GoodNewTarget ==
    ASSUME IInv, NEW w, NEW s, NEW rest, GoodStack(rest), NewTarget(w, s, rest)
    PROVE  GoodStack(stack')
  <1>1. gen \in Nat \ {0} /\ registered \in {0, gen}
    BY DEF IInv
  <1>2. QED
    BY <1>1, GoodRecalculate DEF NewTarget

LEMMA GoodRemoveTarget ==
    ASSUME IInv, NEW w, NEW rest, GoodStack(rest), RemoveTarget(w, rest)
    PROVE  GoodStack(stack')
  <1>1. gen \in Nat \ {0} /\ registered \in {0, gen}
    BY DEF IInv
  <1>2. QED
    BY <1>1, GoodRecalculate DEF RemoveTarget

LEMMA GoodSwapIn ==
    ASSUME IInv, NEW s, NEW a, NEW b, NEW rest, GoodStack(rest), SwapIn(s, a, b, rest)
    PROVE  GoodStack(stack')
  <1>1. gen \in Nat \ {0} /\ registered \in {0, gen}
    BY DEF IInv
  <1>2. QED
    BY <1>1, GoodRecalculate DEF SwapIn

\* The invariant holds initially.
LEMMA InitInv == Init => IInv
  BY <<>> \in Seq({}) DEF Init, IInv, GoodStack

\* A workspace that gets another algorithm leaves its windows to add under way, each once.
LEMMA RefreshAdds ==
    ASSUME NEW s \in Spaces, NEW p, Refresh(s, p)
    PROVE  \E n, order :
             /\ n \in Nat /\ order \in [1..n -> {w \in Windows : home[w] = s}]
             /\ \A i, j \in 1..n : order[i] = order[j] => i = j
             /\ stack' = [i \in 1..n |-> Frame("add", s, <<order[i]>>)]
             /\ \E S : stack' \in Seq(S)
             /\ Len(stack') = n
  <1> DEFINE H == {w \in Windows : home[w] = s}
             S == {Frame("add", s, <<w>>) : w \in H}
             n == Cardinality(H)
  <1>1. PICK order \in SetToSeqs(H) :
          stack' = [i \in DOMAIN order |-> Frame("add", s, <<order[i]>>)]
    BY DEF Refresh
  <1>2. n \in Nat
    BY LayoutAssumption, FS_Subset, FS_CardinalityType, H \subseteq Windows DEF LayoutAssumption
  <1>3. order \in [1..n -> H] /\ \A i, j \in 1..n : order[i] = order[j] => i = j
    BY <1>1, Zenon DEF SetToSeqs
  <1>4. stack' \in [1..n -> S] /\ stack' = [i \in 1..n |-> Frame("add", s, <<order[i]>>)]
    BY <1>1, <1>3
  <1>5. stack' \in Seq(S) /\ Len(stack') = n
    <2> HIDE DEF S, n
    <2>1. stack' \in Seq(S)
      BY <1>2, <1>4, SeqDef
    <2>2. Len(stack') \in Nat /\ 1..Len(stack') = 1..n
      BY <2>1, <1>4, LenProperties
    <2>3. QED
      BY <2>1, <2>2, <1>2
  <1> HIDE DEF S, n, H
  <1>6. QED
    BY <1>2, <1>3, <1>4, <1>5 DEF H

LEMMA RefreshKinds ==
    ASSUME NEW s \in Spaces, NEW p, Refresh(s, p)
    PROVE  (\E S : stack' \in Seq(S)) /\ \A i \in 1..Len(stack') : stack'[i].kind = "add"
  <1>1. \A w : Frame("add", s, <<w>>).kind = "add"
    BY DEF Frame
  <1>2. PICK n, order : /\ stack' = [i \in 1..n |-> Frame("add", s, <<order[i]>>)]
                        /\ \E S : stack' \in Seq(S)
                        /\ Len(stack') = n
    BY RefreshAdds
  <1>3. QED
    BY <1>1, <1>2

\* The stack keeps its frames good while the registry stays as it is.
LEMMA StackStep ==
    ASSUME IInv, [Next]_vars, UNCHANGED <<gen, registered, algo>>
    PROVE  GoodStack(stack')
  <1>0. /\ gen \in Nat \ {0} /\ registered \in {0, gen} /\ GoodStack(stack)
        /\ stack # <<>> => GoodStack(Front(stack))
    BY GoodFront DEF IInv
  <1>1. ASSUME NEW ws \in Answers, NEW g \in 1..MaxGen, Answer(ws, g) PROVE GoodStack(stack')
    BY <1>0, <1>1 DEF Answer
  <1>2. CASE AnswerFalse
    BY <1>0, <1>2 DEF AnswerFalse
  <1>3. CASE ResizeFalse
    BY <1>0, <1>3, GoodAgain DEF ResizeFalse
  <1>4. CASE Arrive
    BY <1>0, <1>4, GoodNewTarget DEF Arrive
  <1>5. CASE SwapRest
    BY <1>0, <1>5, GoodSwapIn DEF SwapRest
  <1>6. ASSUME NEW w \in Windows, NEW s \in Spaces, Open(w, s) PROVE GoodStack(stack')
    BY <1>0, <1>6, GoodNewTarget DEF Open
  <1>7. ASSUME NEW w \in Windows, NEW s \in Spaces, Move(w, s) PROVE GoodStack(stack')
    <2>1. GoodStack(Append(stack, Frame("add", s, <<w>>)))
      BY <1>0, GoodAppend, OtherFrame
    <2>2. QED
      BY <2>1, <1>7, GoodRemoveTarget DEF Move
  <1>8. ASSUME NEW w \in Windows, Close(w) PROVE GoodStack(stack')
    BY <1>0, <1>8, GoodRemoveTarget DEF Close
  <1>9. ASSUME NEW a \in Windows, NEW b \in Windows, Swap(a, b) PROVE GoodStack(stack')
    <2>1. GoodStack(Append(stack, Frame("swap", home[b], <<a, b>>)))
      BY <1>0, GoodAppend, OtherFrame
    <2>2. QED
      BY <1>0, <2>1, <1>9, GoodSwapIn DEF Swap
  <1>10. ASSUME NEW w \in Windows, NEW step \in {-1, 1}, MoveInDirection(w, step)
         PROVE  GoodStack(stack')
    BY <1>0, <1>10, GoodRecalculate DEF MoveInDirection
  <1>11. ASSUME NEW s \in Spaces, AskPass(s) PROVE GoodStack(stack')
    BY <1>0, <1>11, GoodRecalculate DEF AskPass
  <1>12. ASSUME NEW s \in Spaces, Resize(s) PROVE GoodStack(stack')
    BY <1>0, <1>12, GoodAppend, OtherFrame, GoodAgain DEF Resize
  <1>13. ASSUME NEW s \in Spaces, LayoutMsg(s) PROVE GoodStack(stack')
    BY <1>0, <1>13, GoodAppend, OtherFrame DEF LayoutMsg
  <1>14. ASSUME NEW accepted \in BOOLEAN, MsgAnswers(accepted) PROVE GoodStack(stack')
    BY <1>0, <1>14, GoodRecalculate DEF MsgAnswers
  <1>15. ASSUME NEW cbs \in Specs, LayoutAdd(cbs) PROVE GoodStack(stack')
    BY <1>0, <1>15 DEF LayoutAdd
  <1>16. CASE Reload
    BY <1>0, <1>16 DEF Reload
  <1>17. ASSUME NEW s \in Spaces, NEW p \in 0..MaxGen, Refresh(s, p) PROVE GoodStack(stack')
    BY <1>17, RefreshKinds DEF GoodStack, GoodFrame
  <1>18. CASE UNCHANGED vars
    BY <1>0, <1>18 DEF vars
  <1>19. QED
    BY <1>1, <1>2, <1>3, <1>4, <1>5, <1>6, <1>7, <1>8, <1>9, <1>10, <1>11, <1>12, <1>13, <1>14,
       <1>15, <1>16, <1>17, <1>18 DEF Next

\* Every step preserves the invariant.
LEMMA InvStep == IInv /\ [Next]_vars => IInv'
  <1> SUFFICES ASSUME IInv, [Next]_vars PROVE IInv'
    OBVIOUS
  <1>0. gen \in Nat \ {0} /\ registered \in {0, gen} /\ GoodStack(stack)
    BY DEF IInv
  <1>1. CASE UNCHANGED <<gen, registered, algo>>
    BY <1>0, <1>1, StackStep DEF IInv, GoodStack, GoodFrame
  <1>2. ASSUME NEW cbs \in Specs, LayoutAdd(cbs) PROVE IInv'
    BY <1>0, <1>2 DEF LayoutAdd, IInv, GoodStack, GoodFrame
  <1>3. CASE Reload
    <2>1. gen' = gen + 1 /\ registered' = 0 /\ UNCHANGED <<algo, stack>>
      BY <1>3 DEF Reload
    <2>2. QED
      BY <1>0, <2>1 DEF IInv, GoodStack, GoodFrame
  <1>4. ASSUME NEW s \in Spaces, NEW p \in 0..MaxGen, Refresh(s, p) PROVE IInv'
    <2>1. UNCHANGED <<gen, registered>>
      BY <1>4 DEF Refresh, regVars
    <2>2. QED
      BY <1>0, <1>4, <2>1, RefreshKinds DEF IInv, GoodStack, GoodFrame
  <1>5. QED
    <2>1. \/ UNCHANGED <<gen, registered, algo>> \/ (\E cbs \in Specs : LayoutAdd(cbs)) \/ Reload
          \/ \E s \in Spaces, p \in 0..MaxGen : Refresh(s, p)
      BY DEF Next, vars, regVars, sceneVars, Answer, AnswerFalse, ResizeFalse, Arrive, SwapRest,
             Open, Move, Close, Swap, MoveInDirection, AskPass, Resize, LayoutMsg, MsgAnswers,
             NewTarget, RemoveTarget
    <2>2. QED
      BY <2>1, <1>1, <1>2, <1>3, <1>4

\* Only an answer places boxes; every other step places cells of the grid.
LEMMA OnlyAnswersPlaceBoxes ==
    ASSUME [Next]_vars, NEW w \in Windows, pos'[w] # pos[w], pos'[w].by = "box"
    PROVE  \E ws \in Answers, g \in 1..MaxGen : Answer(ws, g)
  <1>1. ASSUME NEW p, NEW s, NEW snap, pos' = Gridded(pos, s, snap) PROVE FALSE
    BY <1>1 DEF Gridded, OnGrid
  <1>2. ASSUME NEW p, pos' = [pos EXCEPT ![p] = Elsewhere] PROVE FALSE
    BY <1>2 DEF Elsewhere
  <1>3. ASSUME NEW s, NEW ts, NEW rest, Recalculate(s, ts, rest) PROVE FALSE
    BY <1>1, <1>3 DEF Recalculate
  <1>4. ASSUME NEW s, NEW ts, NEW rest, Again(s, ts, rest) PROVE FALSE
    BY <1>1, <1>4 DEF Again
  <1>5. ASSUME NEW s, NEW a, NEW b, NEW rest, SwapIn(s, a, b, rest) PROVE FALSE
    BY <1>3, <1>5 DEF SwapIn, Elsewhere
  <1>6. ASSUME NEW v, NEW s, NEW rest, NewTarget(v, s, rest) PROVE FALSE
    BY <1>2, <1>3, <1>6 DEF NewTarget
  <1>7. ASSUME NEW v, NEW rest, RemoveTarget(v, rest) PROVE FALSE
    BY <1>3, <1>7 DEF RemoveTarget
  <1>8. CASE AnswerFalse \/ ResizeFalse
    BY <1>8, <1>1, <1>4 DEF AnswerFalse, ResizeFalse
  <1>9. CASE Arrive \/ SwapRest
    BY <1>9, <1>5, <1>6 DEF Arrive, SwapRest
  <1>10. CASE \E v \in Windows, s \in Spaces : Open(v, s) \/ Move(v, s)
    BY <1>10, <1>6, <1>7 DEF Open, Move
  <1>11. CASE \E v \in Windows : Close(v)
    BY <1>11, <1>7 DEF Close
  <1>12. CASE \E a, b \in Windows : Swap(a, b)
    BY <1>12, <1>5 DEF Swap
  <1>13. CASE \E v \in Windows, step \in {-1, 1} : MoveInDirection(v, step)
    BY <1>13, <1>3 DEF MoveInDirection
  <1>14. CASE \E s \in Spaces : AskPass(s) \/ Resize(s) \/ LayoutMsg(s)
    BY <1>14, <1>3, <1>4 DEF AskPass, Resize, LayoutMsg
  <1>15. CASE \E accepted \in BOOLEAN : MsgAnswers(accepted)
    BY <1>15, <1>3 DEF MsgAnswers
  <1>16. CASE \/ \E cbs \in Specs : LayoutAdd(cbs)
              \/ Reload \/ \E s \in Spaces, p \in 0..MaxGen : Refresh(s, p)
    BY <1>16 DEF LayoutAdd, Reload, Refresh
  <1>17. CASE UNCHANGED vars
    BY <1>17 DEF vars
  <1>18. QED
    BY <1>8, <1>9, <1>10, <1>11, <1>12, <1>13, <1>14, <1>15, <1>16, <1>17 DEF Next

\* Whatever passes nest, a retired provider places windows only in the passes that were under
\* way at the reload, and by a resize (SSchemeLayoutProvider::active, layoutClear).
THEOREM RetiredPlaces == Spec => RetiredPlacesInFlight
  <1>1. ASSUME IInv, [Next]_vars, NEW w \in Placing, pos'[w].by = "box"
        PROVE  \/ Current(pos'[w].space) \/ Top.payload # gen \/ Top.kind \in {"resize", "again"}
    <2>1. w \in Windows /\ pos'[w] # pos[w]
      BY DEF Placing
    <2>2. PICK ws \in Answers, g \in 1..MaxGen : Answer(ws, g)
      BY <1>1, <2>1, OnlyAnswersPlaceBoxes
    <2>3. pos'[w].space = Top.space
      <3>1. pos'[w] # OnGrid(Top.space, IndexOf(w, Top.snap) - 1, Len(Top.snap))
        BY <1>1 DEF OnGrid
      <3>2. pos'[w] = Placed(Top, ws, g)[w]
        BY <2>1, <2>2, <3>1 DEF Answer, Gridded
      <3>3. QED
        BY <2>1, <3>2 DEF Placed, InBox
    <2>4. stack # <<>> /\ Top.kind \in Geometry
      BY <2>2 DEF Answer
    <2>5. GoodFrame(Top) /\ gen \in Nat \ {0}
      BY <1>1, <2>4, GoodFront DEF IInv, Top
    <2>6. CASE Top.kind = "recalc" /\ Top.payload = gen
      BY <2>3, <2>5, <2>6 DEF GoodFrame, Current, Active
    <2>7. QED
      BY <2>4, <2>6 DEF Geometry
  <1>2. IInv /\ [Next]_vars =>
          [\A w \in Placing : pos'[w].by = "box" =>
              \/ Current(pos'[w].space)
              \/ Top.payload # gen
              \/ Top.kind \in {"resize", "again"}]_vars
    BY <1>1
  <1>3. QED
    BY <1>2, InitInv, InvStep, PTL DEF Spec, RetiredPlacesInFlight

------------------------------------------------------------------------------
(* The lists of targets *)

LEMMA ListFacts ==
    ASSUME NEW ts \in Seq(Windows)
    PROVE  /\ Len(ts) \in Nat /\ DOMAIN ts = 1..Len(ts) /\ \A i \in 1..Len(ts) : ts[i] \in Windows
           /\ \A w : w \in ToSet(ts) <=> \E i \in 1..Len(ts) : ts[i] = w
           /\ IsInjective(ts) <=> \A i, j \in 1..Len(ts) : ts[i] = ts[j] => i = j
  BY LenProperties, ElementOfSeq DEF ToSet, IsInjective

\* The index of a target.
LEMMA IndexFacts ==
    ASSUME NEW ts \in Seq(Windows), NEW w \in ToSet(ts)
    PROVE  IndexOf(w, ts) \in 1..Len(ts) /\ ts[IndexOf(w, ts)] = w
  <1>1. \E i \in DOMAIN ts : ts[i] = w
    BY ListFacts
  <1>2. IndexOf(w, ts) \in DOMAIN ts /\ ts[IndexOf(w, ts)] = w
    BY <1>1 DEF IndexOf
  <1>3. QED
    BY <1>2, ListFacts

\* newTarget's list has the window at its end.
LEMMA AppendedFacts ==
    ASSUME NEW ts \in Seq(Windows), NEW w \in Windows
    PROVE  /\ Append(ts, w) \in Seq(Windows) /\ Append(ts, w) # <<>>
           /\ \A v : v \in ToSet(Append(ts, w)) <=> v = w \/ v \in ToSet(ts)
           /\ IsInjective(ts) /\ w \notin ToSet(ts) => IsInjective(Append(ts, w))
  <1> DEFINE n == Len(ts)
             r == Append(ts, w)
  <1>1. /\ n \in Nat /\ r \in Seq(Windows) /\ Len(r) = n + 1 /\ r[n + 1] = w
        /\ \A i \in 1..n : r[i] = ts[i]
    OBVIOUS
  <1> HIDE DEF r
  <1>2. \A i \in 1..(n + 1) : i = n + 1 \/ i \in 1..n
    BY <1>1
  <1>3. \A v : v \in ToSet(ts) <=> \E i \in 1..n : ts[i] = v
    BY ListFacts
  <1>4. \A v : v \in ToSet(r) <=> \E i \in 1..(n + 1) : r[i] = v
    BY <1>1, ListFacts
  <1>5. \A v : v \in ToSet(r) <=> v = w \/ v \in ToSet(ts)
    <2>1. ASSUME NEW v, v \in ToSet(r) PROVE v = w \/ v \in ToSet(ts)
      BY <1>1, <1>2, <1>3, <1>4, <2>1
    <2>2. ASSUME NEW v, v = w \/ v \in ToSet(ts) PROVE v \in ToSet(r)
      <3>1. n + 1 \in 1..(n + 1) /\ \A i \in 1..n : i \in 1..(n + 1)
        BY <1>1
      <3>2. QED
        BY <1>1, <1>3, <1>4, <2>2, <3>1
    <2>3. QED
      BY <2>1, <2>2
  <1>6. ASSUME IsInjective(ts), w \notin ToSet(ts) PROVE IsInjective(r)
    <2>1. \A i, j \in 1..(n + 1) : r[i] = r[j] => i = j
      <3>1. \A i, j \in 1..n : ts[i] = ts[j] => i = j
        BY <1>6, ListFacts
      <3>2. \A i \in 1..n : ts[i] # w
        BY <1>3, <1>6
      <3>3. QED
        BY <1>1, <1>2, <3>1, <3>2
    <2>2. QED
      BY <1>1, <2>1, ListFacts
  <1>7. QED
    BY <1>1, <1>5, <1>6 DEF r

\* removeTarget's list has every other target.
LEMMA WithoutFacts ==
    ASSUME NEW ts \in Seq(Windows), IsInjective(ts), NEW w
    PROVE  /\ Without(ts, w) \in Seq(Windows) /\ IsInjective(Without(ts, w))
           /\ \A v : v \in ToSet(Without(ts, w)) <=> v # w /\ v \in ToSet(ts)
  <1>1. CASE w \notin ToSet(ts)
    BY <1>1 DEF Without
  <1>2. CASE w \in ToSet(ts)
    <2> DEFINE n == Len(ts)
               k == IndexOf(w, ts)
               a == SubSeq(ts, 1, k - 1)
               b == SubSeq(ts, k + 1, n)
               r == a \o b
    <2>1. /\ n \in Nat /\ k \in 1..n /\ ts[k] = w /\ \A i \in 1..n : ts[i] \in Windows
          /\ \A i, j \in 1..n : ts[i] = ts[j] => i = j
      BY <1>2, IndexFacts, ListFacts
    <2>2. Without(ts, w) = r
      BY <1>2 DEF Without, RemoveAt
    <2> HIDE DEF n, k
    <2>3. /\ a \in Seq(Windows) /\ Len(a) = k - 1
          /\ \A i \in 1..(k - 1) : a[i] = ts[i]
      <3> DEFINE m == k - 1
      <3>1. m \in Nat /\ m \in Int /\ 1 \in Int /\ \A i \in 1..m : ts[i] \in Windows
        BY <2>1
      <3> HIDE DEF m
      <3>2. /\ SubSeq(ts, 1, m) \in Seq(Windows)
            /\ Len(SubSeq(ts, 1, m)) = IF 1 <= m THEN m - 1 + 1 ELSE 0
            /\ \A i \in 1..(m - 1 + 1) : SubSeq(ts, 1, m)[i] = ts[1 + i - 1]
        BY <3>1, SubSeqProperties, SMTT(30)
      <3>3. \A i \in 1..m : i \in 1..(m - 1 + 1) /\ 1 + i - 1 = i
        BY <3>1
      <3>4. Len(SubSeq(ts, 1, m)) = m /\ \A i \in 1..m : SubSeq(ts, 1, m)[i] = ts[i]
        BY <3>1, <3>2, <3>3
      <3>5. QED
        BY <3>2, <3>4 DEF m
    <2>4. /\ b \in Seq(Windows) /\ Len(b) = n - k
          /\ \A i \in 1..(n - k) : b[i] = ts[k + i]
      <3> DEFINE m == k + 1
      <3>1. /\ m \in Int /\ n \in Int /\ (IF m <= n THEN n - m + 1 ELSE 0) = n - k
            /\ \A i \in m..n : ts[i] \in Windows
        BY <2>1
      <3>2. \A i \in 1..(n - k) : i \in 1..(n - m + 1) /\ m + i - 1 = k + i
        BY <2>1
      <3> HIDE DEF m
      <3>3. /\ SubSeq(ts, m, n) \in Seq(Windows)
            /\ Len(SubSeq(ts, m, n)) = IF m <= n THEN n - m + 1 ELSE 0
            /\ \A i \in 1..(n - m + 1) : SubSeq(ts, m, n)[i] = ts[m + i - 1]
        BY <3>1, SubSeqProperties, SMTT(30)
      <3>4. QED
        BY <3>1, <3>2, <3>3 DEF m
    <2> HIDE DEF a, b
    <2>5. /\ r \in Seq(Windows) /\ Len(r) = n - 1
          /\ \A i \in 1..(n - 1) : r[i] = IF i < k THEN ts[i] ELSE ts[i + 1]
      <3>1. /\ r \in Seq(Windows) /\ Len(r) = Len(a) + Len(b)
            /\ \A i \in 1..(Len(a) + Len(b)) : r[i] = IF i <= Len(a) THEN a[i] ELSE b[i - Len(a)]
        BY <2>3, <2>4, ConcatProperties
      <3>2. Len(a) + Len(b) = n - 1
        BY <2>1, <2>3, <2>4
      <3> HIDE DEF r
      <3>3. ASSUME NEW i \in 1..(n - 1) PROVE r[i] = IF i < k THEN ts[i] ELSE ts[i + 1]
        <4>1. CASE i < k
          <5>1. i \in 1..(k - 1) /\ i <= k - 1
            BY <2>1, <4>1
          <5>2. QED
            BY <2>3, <3>1, <3>2, <4>1, <5>1
        <4>2. CASE ~(i < k)
          <5>1. ~(i <= k - 1) /\ i - (k - 1) \in 1..(n - k) /\ k + (i - (k - 1)) = i + 1
            BY <2>1, <4>2
          <5>2. r[i] = b[i - (k - 1)]
            BY <2>3, <3>1, <3>2, <5>1
          <5>3. QED
            BY <2>4, <4>2, <5>1, <5>2
        <4>3. QED
          BY <4>1, <4>2
      <3>4. QED
        BY <3>1, <3>2, <3>3
    <2> HIDE DEF r
    <2>6. \A v : v \in ToSet(r) <=> \E i \in 1..(n - 1) : r[i] = v
      BY <2>5, ListFacts
    <2>7. \A v : v \in ToSet(ts) <=> \E i \in 1..n : ts[i] = v
      BY ListFacts DEF n
    <2>8. IsInjective(r)
      <3>1. \A i \in 1..(n - 1) : i \in 1..n /\ i + 1 \in 1..n
        BY <2>1
      <3>2. \A i, j \in 1..(n - 1) : r[i] = r[j] => i = j
        BY <2>1, <2>5, <3>1
      <3>3. QED
        BY <2>5, <3>2, ListFacts
    <2>9. ASSUME NEW v PROVE v \in ToSet(r) <=> v # w /\ v \in ToSet(ts)
      <3>1. ASSUME v \in ToSet(r) PROVE v # w /\ v \in ToSet(ts)
        <4>1. PICK i \in 1..(n - 1) : r[i] = v
          BY <2>6, <3>1
        <4>2. \E j \in 1..n : ts[j] = v /\ j # k
          <5>1. CASE i < k
            BY <2>1, <2>5, <4>1, <5>1
          <5>2. CASE ~(i < k)
            <6>1. i + 1 \in 1..n /\ i + 1 # k /\ ts[i + 1] = v
              BY <2>1, <2>5, <4>1, <5>2
            <6>2. QED
              BY <6>1
          <5>3. QED
            BY <5>1, <5>2
        <4>3. QED
          BY <2>1, <2>7, <4>2
      <3>2. ASSUME v # w, v \in ToSet(ts) PROVE v \in ToSet(r)
        <4>1. PICK i \in 1..n : ts[i] = v
          BY <2>7, <3>2
        <4>2. i # k
          BY <2>1, <3>2, <4>1
        <4>3. CASE i < k
          BY <2>1, <2>5, <2>6, <4>1, <4>3
        <4>4. CASE ~(i < k)
          <5>1. i - 1 \in 1..(n - 1) /\ ~(i - 1 < k) /\ (i - 1) + 1 = i
            BY <2>1, <4>2, <4>4
          <5>2. r[i - 1] = v
            BY <2>5, <4>1, <5>1
          <5>3. QED
            BY <2>6, <5>1, <5>2
        <4>5. QED
          BY <4>3, <4>4
      <3>3. QED
        BY <3>1, <3>2
    <2>10. QED
      BY <2>2, <2>5, <2>8, <2>9
  <1>3. QED
    BY <1>1, <1>2

\* swapTargets' list has b where a was, and a where b was.
LEMMA SwappedFacts ==
    ASSUME NEW ts \in Seq(Windows), NEW a \in Windows, NEW b \in Windows
    PROVE  /\ Swapped(ts, a, b) \in Seq(Windows) /\ Len(Swapped(ts, a, b)) = Len(ts)
           /\ IsInjective(ts) => IsInjective(Swapped(ts, a, b))
           /\ \A v : v \in ToSet(Swapped(ts, a, b)) <=>
                       \/ v = a /\ b \in ToSet(ts)
                       \/ v = b /\ a \in ToSet(ts)
                       \/ v \notin {a, b} /\ v \in ToSet(ts)
  <1> DEFINE n == Len(ts)
             r == Swapped(ts, a, b)
  <1>1. /\ n \in Nat /\ DOMAIN ts = 1..n /\ \A i \in 1..n : ts[i] \in Windows
        /\ \A v : v \in ToSet(ts) <=> \E i \in 1..n : ts[i] = v
        /\ IsInjective(ts) <=> \A i, j \in 1..n : ts[i] = ts[j] => i = j
    BY ListFacts
  <1>2. r = [i \in 1..n |-> CASE ts[i] = a -> b [] ts[i] = b -> a [] OTHER -> ts[i]]
    BY <1>1 DEF Swapped
  <1> HIDE DEF n, r
  <1>3. \A i \in 1..n : r[i] = IF ts[i] = a THEN b ELSE IF ts[i] = b THEN a ELSE ts[i]
    <2>1. ASSUME NEW i \in 1..n
          PROVE  r[i] = IF ts[i] = a THEN b ELSE IF ts[i] = b THEN a ELSE ts[i]
      <3>1. CASE ts[i] = a
        <4>1. CASE a = b
          BY <1>2, <3>1, <4>1
        <4>2. CASE a # b
          BY <1>2, <3>1, <4>2
        <4>3. QED
          BY <4>1, <4>2
      <3>2. CASE ts[i] # a
        BY <1>2, <3>2
      <3>3. QED
        BY <3>1, <3>2
    <2>2. QED
      BY <2>1
  <1>4. r \in [1..n -> Windows]
    BY <1>1, <1>2, <1>3
  <1>5. r \in Seq(Windows) /\ Len(r) = n
    <2>1. r \in Seq(Windows)
      BY <1>1, <1>4, SeqDef
    <2>2. Len(r) \in Nat /\ 1..Len(r) = 1..n
      BY <2>1, <1>4, LenProperties
    <2>3. QED
      BY <2>1, <2>2, <1>1
  <1>6. \A v : v \in ToSet(r) <=> \E i \in 1..n : r[i] = v
    BY <1>5, ListFacts
  <1>7. ASSUME IsInjective(ts) PROVE IsInjective(r)
    <2>1. \A i, j \in 1..n : r[i] = r[j] => ts[i] = ts[j]
      BY <1>3
    <2>2. \A i, j \in 1..n : r[i] = r[j] => i = j
      BY <1>1, <1>7, <2>1
    <2>3. QED
      BY <1>5, <2>2, ListFacts
  <1>8. ASSUME NEW v
        PROVE  v \in ToSet(r) <=> \/ v = a /\ b \in ToSet(ts)
                                  \/ v = b /\ a \in ToSet(ts)
                                  \/ v \notin {a, b} /\ v \in ToSet(ts)
    <2>1. v \in ToSet(r) => \/ v = a /\ b \in ToSet(ts)
                            \/ v = b /\ a \in ToSet(ts)
                            \/ v \notin {a, b} /\ v \in ToSet(ts)
      BY <1>1, <1>3, <1>6
    <2>2. ASSUME v = a, b \in ToSet(ts) PROVE v \in ToSet(r)
      BY <1>1, <1>3, <1>6, <2>2
    <2>3. ASSUME v = b, a \in ToSet(ts) PROVE v \in ToSet(r)
      BY <1>1, <1>3, <1>6, <2>3
    <2>4. ASSUME v \notin {a, b}, v \in ToSet(ts) PROVE v \in ToSet(r)
      BY <1>1, <1>3, <1>6, <2>4
    <2>5. QED
      BY <2>1, <2>2, <2>3, <2>4
  <1>9. QED
    BY <1>5, <1>7, <1>8 DEF n, r

------------------------------------------------------------------------------
(* The windows of a workspace *)

\* Whose target list of s a window w is in: that of its workspace, but for the two of a swap
\* whose second half is to come.
Listed(st, h, w, s) ==
    \/ /\ h[w] = s
       /\ ~\E i \in 1..Len(st) :
              st[i].kind = "swap" /\ st[i].space = s /\ st[i].snap[1] = w
    \/ \E i \in 1..Len(st) : st[i].kind = "swap" /\ st[i].space = s /\ st[i].snap[2] = w

\* A window on its way is in no workspace, and is added once.
Arrivals(st, h) ==
    \A i \in 1..Len(st) : st[i].kind = "add" =>
        /\ st[i].snap[1] \in Windows /\ h[st[i].snap[1]] = None
        /\ \A j \in 1..Len(st) : st[j].kind = "add" /\ st[j].snap[1] = st[i].snap[1] => j = i

\* There is one swap at most, and its windows are where the first half has put them.
HalfSwaps(st, h) ==
    \A i \in 1..Len(st) : st[i].kind = "swap" =>
        /\ st[i].snap[1] \in Windows /\ st[i].snap[2] \in Windows
        /\ h[st[i].snap[1]] = st[i].space /\ h[st[i].snap[2]] \notin {None, st[i].space}
        /\ \A j \in 1..Len(st) : st[j].kind = "swap" => j = i

\* A layout message is for an algorithm of a config.
Messages(st) == \A i \in 1..Len(st) : st[i].kind = "msg" => algo[st[i].space] # 0

Lists(st, ts, h) ==
    \A s \in Spaces :
        IF algo[s] = 0 THEN ts[s] = <<>>
        ELSE IsInjective(ts[s]) /\ \A w \in Windows : w \in ToSet(ts[s]) <=> Listed(st, h, w, s)

\* Workspaces, lists and what is under way agree.
Scene(st, ts, h) ==
    /\ st \in Seq(FrameType) /\ ts \in [Spaces -> Seq(Windows)]
    /\ h \in [Windows -> Spaces \cup {None}]
    /\ Arrivals(st, h) /\ HalfSwaps(st, h) /\ Messages(st) /\ Lists(st, ts, h)

NoSwap(st) == \A i \in 1..Len(st) : st[i].kind # "swap"
NotOnItsWay(st, w) == \A i \in 1..Len(st) : st[i].kind = "add" => st[i].snap[1] # w

LEMMA StackFacts ==
    ASSUME NEW st \in Seq(FrameType)
    PROVE  /\ Len(st) \in Nat
           /\ \A i \in 1..Len(st) :
                st[i] \in FrameType /\ st[i].space \in Spaces /\ st[i].snap \in Seq(Windows)
  <1>1. \A f \in FrameType : f.space \in Spaces /\ f.snap \in Seq(Windows)
    BY DEF FrameType
  <1>2. QED
    BY <1>1, LenProperties, ElementOfSeq

LEMMA FrameIsTyped ==
    ASSUME gen \in 1..MaxGen,
           NEW k \in {"recalc", "resize", "again", "msg", "add", "swap"},
           NEW s \in Spaces, NEW snap \in Seq(Windows)
    PROVE  /\ Frame(k, s, snap) \in FrameType
           /\ Frame(k, s, snap).kind = k /\ Frame(k, s, snap).space = s
           /\ Frame(k, s, snap).snap = snap
  BY DEF Frame, FrameType

LEMMA PushFacts ==
    ASSUME NEW st \in Seq(FrameType), NEW f \in FrameType
    PROVE  /\ Append(st, f) \in Seq(FrameType) /\ Len(Append(st, f)) = Len(st) + 1
           /\ Append(st, f)[Len(st) + 1] = f /\ Len(st) \in Nat
           /\ \A i \in 1..Len(st) : Append(st, f)[i] = st[i] /\ i \in 1..(Len(st) + 1)
           /\ \A i \in 1..(Len(st) + 1) : i = Len(st) + 1 \/ i \in 1..Len(st)
           /\ Len(st) + 1 \in 1..(Len(st) + 1) /\ Len(st) + 1 \notin 1..Len(st)
  OBVIOUS

\* A call that begins changes nothing of the scene, unless it is a half of another.
LEMMA PushCall ==
    ASSUME NEW st, NEW ts, NEW h, Scene(st, ts, h), NEW f \in FrameType,
           f.kind \notin {"add", "swap"}, f.kind = "msg" => algo[f.space] # 0
    PROVE  Scene(Append(st, f), ts, h)
  <1> DEFINE r == Append(st, f)
             n == Len(st)
  <1>1. /\ st \in Seq(FrameType) /\ r \in Seq(FrameType) /\ Len(r) = n + 1 /\ r[n + 1] = f
        /\ n \in Nat /\ \A i \in 1..n : r[i] = st[i] /\ i \in 1..(n + 1)
        /\ \A i \in 1..(n + 1) : i = n + 1 \/ i \in 1..n
    BY PushFacts DEF Scene
  <1> HIDE DEF r, n
  <1>2. Arrivals(r, h)
    BY <1>1 DEF Scene, Arrivals, n
  <1>3. HalfSwaps(r, h)
    BY <1>1 DEF Scene, HalfSwaps, n
  <1>4. Messages(r)
    BY <1>1 DEF Scene, Messages, n
  <1>5. \A w, s : Listed(r, h, w, s) <=> Listed(st, h, w, s)
    BY <1>1 DEF Listed, n
  <1>6. Lists(r, ts, h)
    BY <1>5 DEF Scene, Lists
  <1>7. QED
    BY <1>1, <1>2, <1>3, <1>4, <1>6 DEF Scene, r

\* A window that leaves a workspace for another is on its way.
LEMMA PushArrival ==
    ASSUME NEW st, NEW ts, NEW h, Scene(st, ts, h), NEW f \in FrameType, f.kind = "add",
           f.snap[1] \in Windows, h[f.snap[1]] = None, NotOnItsWay(st, f.snap[1])
    PROVE  Scene(Append(st, f), ts, h)
  <1> DEFINE r == Append(st, f)
             n == Len(st)
  <1>1. /\ st \in Seq(FrameType) /\ r \in Seq(FrameType) /\ Len(r) = n + 1 /\ r[n + 1] = f
        /\ n \in Nat /\ \A i \in 1..n : r[i] = st[i] /\ i \in 1..(n + 1)
        /\ \A i \in 1..(n + 1) : i = n + 1 \/ i \in 1..n
    BY PushFacts DEF Scene
  <1>2. \A i \in 1..n : st[i].kind = "add" => st[i].snap[1] # f.snap[1]
    BY DEF NotOnItsWay
  <1> HIDE DEF r, n
  <1>3. Arrivals(r, h)
    BY <1>1, <1>2 DEF Scene, Arrivals, n
  <1>4. HalfSwaps(r, h)
    <2>1. \A i \in 1..(n + 1) : r[i].kind = "swap" => i \in 1..n /\ st[i].kind = "swap" /\ r[i] = st[i]
      BY <1>1
    <2>2. QED
      BY <1>1, <2>1 DEF Scene, HalfSwaps, n
  <1>5. Messages(r)
    BY <1>1 DEF Scene, Messages, n
  <1>6. \A w, s : Listed(r, h, w, s) <=> Listed(st, h, w, s)
    BY <1>1 DEF Listed, n
  <1>7. Lists(r, ts, h)
    BY <1>6 DEF Scene, Lists
  <1>8. QED
    BY <1>1, <1>3, <1>4, <1>5, <1>7 DEF Scene, r

\* A call that ends.
LEMMA PopCall ==
    ASSUME NEW st, NEW ts, NEW h, Scene(st, ts, h), st # <<>>, Last(st).kind # "swap"
    PROVE  /\ Scene(Front(st), ts, h)
           /\ Last(st).kind = "add" => /\ Last(st).snap[1] \in Windows
                                       /\ h[Last(st).snap[1]] = None
                                       /\ NotOnItsWay(Front(st), Last(st).snap[1])
           /\ Last(st).kind = "msg" => algo[Last(st).space] # 0
           /\ Last(st) \in FrameType
  <1> DEFINE r == Front(st)
             n == Len(st)
  <1>1. /\ st \in Seq(FrameType) /\ n \in Nat \ {0} /\ Last(st) = st[n] /\ Last(st) \in FrameType
        /\ r \in Seq(FrameType) /\ Len(r) = n - 1 /\ \A i \in 1..(n - 1) : r[i] = st[i]
    BY FrontFacts DEF Scene
  <1>2. /\ \A i \in 1..(n - 1) : i \in 1..n /\ i # n
        /\ n \in 1..n /\ \A i \in 1..n : i = n \/ i \in 1..(n - 1)
    BY <1>1
  <1> HIDE DEF r, n
  <1>3. Arrivals(r, h)
    BY <1>1, <1>2 DEF Scene, Arrivals, n
  <1>4. HalfSwaps(r, h)
    BY <1>1, <1>2 DEF Scene, HalfSwaps, n
  <1>5. Messages(r)
    BY <1>1, <1>2 DEF Scene, Messages, n
  <1>6. \A w, s : Listed(r, h, w, s) <=> Listed(st, h, w, s)
    BY <1>1, <1>2 DEF Listed, n
  <1>7. Lists(r, ts, h)
    BY <1>6 DEF Scene, Lists
  <1>8. Last(st).kind = "add" => /\ Last(st).snap[1] \in Windows
                                 /\ h[Last(st).snap[1]] = None
                                 /\ NotOnItsWay(r, Last(st).snap[1])
    BY <1>1, <1>2 DEF Scene, Arrivals, NotOnItsWay, n
  <1>9. Last(st).kind = "msg" => algo[Last(st).space] # 0
    BY <1>1, <1>2 DEF Scene, Messages, n
  <1>10. QED
    BY <1>1, <1>3, <1>4, <1>5, <1>7, <1>8, <1>9 DEF Scene, r

\* The lists after one of them changed.
LEMMA OneList ==
    ASSUME NEW st, NEW ts, NEW h, NEW st2, NEW h2, Lists(st, ts, h),
           ts \in [Spaces -> Seq(Windows)], NEW s \in Spaces, NEW x \in Seq(Windows),
           algo[s] # 0, IsInjective(x),
           \A w \in Windows : w \in ToSet(x) <=> Listed(st2, h2, w, s),
           \A w \in Windows, t \in Spaces \ {s} : Listed(st2, h2, w, t) <=> Listed(st, h, w, t)
    PROVE  /\ Lists(st2, [ts EXCEPT ![s] = x], h2)
           /\ [ts EXCEPT ![s] = x] \in [Spaces -> Seq(Windows)]
  <1> DEFINE u == [ts EXCEPT ![s] = x]
  <1>1. u \in [Spaces -> Seq(Windows)] /\ u[s] = x /\ \A t \in Spaces \ {s} : u[t] = ts[t]
    OBVIOUS
  <1> HIDE DEF u
  <1>2. ASSUME NEW t \in Spaces
        PROVE  IF algo[t] = 0 THEN u[t] = <<>>
               ELSE IsInjective(u[t]) /\ \A w \in Windows : w \in ToSet(u[t]) <=> Listed(st2, h2, w, t)
    <2>1. CASE t = s
      BY <1>1, <2>1
    <2>2. CASE t # s
      BY <1>1, <2>2 DEF Lists
    <2>3. QED
      BY <2>1, <2>2
  <1>3. QED
    BY <1>1, <1>2 DEF Lists, u

\* The same when the algorithm of the workspace is a built-in one and keeps no list.
LEMMA NoList ==
    ASSUME NEW st, NEW ts, NEW h, NEW st2, NEW h2, Lists(st, ts, h), NEW s \in Spaces, algo[s] = 0,
           \A w \in Windows, t \in Spaces \ {s} : Listed(st2, h2, w, t) <=> Listed(st, h, w, t)
    PROVE  Lists(st2, ts, h2)
  <1>1. ASSUME NEW t \in Spaces
        PROVE  IF algo[t] = 0 THEN ts[t] = <<>>
               ELSE IsInjective(ts[t]) /\ \A w \in Windows : w \in ToSet(ts[t]) <=> Listed(st2, h2, w, t)
    <2>1. CASE t = s
      BY <2>1 DEF Lists
    <2>2. CASE t # s
      BY <2>2 DEF Lists
    <2>3. QED
      BY <2>1, <2>2
  <1>2. QED
    BY <1>1 DEF Lists

\* What a list is after a step: unchanged for a built-in algorithm.
Upd(ts, s, x) == IF algo[s] = 0 THEN ts ELSE [ts EXCEPT ![s] = x]

LEMMA ListChange ==
    ASSUME NEW st, NEW ts, NEW h, NEW st2, NEW h2, Lists(st, ts, h),
           ts \in [Spaces -> Seq(Windows)], NEW s \in Spaces, NEW x \in Seq(Windows),
           algo[s] # 0 => /\ IsInjective(x)
                          /\ \A w \in Windows : w \in ToSet(x) <=> Listed(st2, h2, w, s),
           \A w \in Windows, t \in Spaces \ {s} : Listed(st2, h2, w, t) <=> Listed(st, h, w, t)
    PROVE  Lists(st2, Upd(ts, s, x), h2) /\ Upd(ts, s, x) \in [Spaces -> Seq(Windows)]
  <1>1. CASE algo[s] = 0
    BY <1>1, NoList DEF Upd
  <1>2. CASE algo[s] # 0
    BY <1>2, OneList DEF Upd
  <1>3. QED
    BY <1>1, <1>2

\* Without a swap under way a list has the windows of its workspace.
LEMMA ListedPlain ==
    ASSUME NEW st, NoSwap(st), NEW h, NEW w, NEW s PROVE Listed(st, h, w, s) <=> h[w] = s
  BY DEF Listed, NoSwap

\* A window arrives.
LEMMA ArrivalScene ==
    ASSUME NEW st, NEW ts, NEW h, Scene(st, ts, h), NEW w \in Windows, NEW s \in Spaces,
           h[w] = None, NotOnItsWay(st, w)
    PROVE  Scene(st, Upd(ts, s, Append(ts[s], w)), [h EXCEPT ![w] = s])
  <1> DEFINE h2 == [h EXCEPT ![w] = s]
  <1>1. /\ h2 \in [Windows -> Spaces \cup {None}] /\ h2[w] = s
        /\ \A v \in Windows : v # w => h2[v] = h[v]
    BY DEF Scene
  <1>2. /\ st \in Seq(FrameType) /\ \A i \in 1..Len(st) : st[i].space \in Spaces
        /\ ts \in [Spaces -> Seq(Windows)] /\ None \notin Spaces
    BY StackFacts, LayoutAssumption DEF Scene, LayoutAssumption
  <1> HIDE DEF h2
  <1>3. \A i \in 1..Len(st) : st[i].kind = "swap" =>
           /\ st[i].snap[1] \in Windows /\ st[i].snap[2] \in Windows
           /\ st[i].snap[1] # w /\ st[i].snap[2] # w
    BY <1>2 DEF Scene, HalfSwaps
  <1>4. Arrivals(st, h2)
    BY <1>1 DEF Scene, Arrivals, NotOnItsWay
  <1>5. HalfSwaps(st, h2)
    BY <1>1, <1>3 DEF Scene, HalfSwaps
  <1>6. \A v \in Windows : \A t : v # w => (Listed(st, h2, v, t) <=> Listed(st, h, v, t))
    BY <1>1 DEF Listed
  <1>7. \A t \in Spaces : ~Listed(st, h, w, t) /\ (Listed(st, h2, w, t) <=> t = s)
    BY <1>1, <1>2, <1>3 DEF Listed
  <1>8. ASSUME algo[s] # 0
        PROVE  /\ IsInjective(Append(ts[s], w))
               /\ \A v \in Windows : v \in ToSet(Append(ts[s], w)) <=> Listed(st, h2, v, s)
    <2>1. /\ ts[s] \in Seq(Windows) /\ IsInjective(ts[s])
          /\ \A v \in Windows : v \in ToSet(ts[s]) <=> Listed(st, h, v, s)
      BY <1>2, <1>8 DEF Scene, Lists
    <2>2. w \notin ToSet(ts[s])
      BY <1>7, <2>1
    <2>3. QED
      BY <1>6, <1>7, <2>1, <2>2, AppendedFacts
  <1>9. Append(ts[s], w) \in Seq(Windows)
    BY <1>2, AppendedFacts
  <1>10. \A v \in Windows, t \in Spaces \ {s} : Listed(st, h2, v, t) <=> Listed(st, h, v, t)
    BY <1>6, <1>7
  <1>11. /\ Lists(st, Upd(ts, s, Append(ts[s], w)), h2)
         /\ Upd(ts, s, Append(ts[s], w)) \in [Spaces -> Seq(Windows)]
    BY <1>2, <1>8, <1>9, <1>10, ListChange DEF Scene
  <1>12. QED
    BY <1>1, <1>2, <1>4, <1>5, <1>11 DEF Scene, h2

\* A window leaves.
LEMMA RemovalScene ==
    ASSUME NEW st, NEW ts, NEW h, Scene(st, ts, h), NoSwap(st), NEW w \in Windows, h[w] # None
    PROVE  /\ Scene(st, Upd(ts, h[w], Without(ts[h[w]], w)), [h EXCEPT ![w] = None])
           /\ NotOnItsWay(st, w)
  <1> DEFINE h2 == [h EXCEPT ![w] = None]
             s  == h[w]
             x  == Without(ts[s], w)
  <1>1. /\ h2 \in [Windows -> Spaces \cup {None}] /\ h2[w] = None
        /\ \A v \in Windows : v # w => h2[v] = h[v]
        /\ s \in Spaces /\ s # None
    BY DEF Scene
  <1>2. /\ st \in Seq(FrameType) /\ ts \in [Spaces -> Seq(Windows)] /\ None \notin Spaces
        /\ ts[s] \in Seq(Windows)
    BY <1>1, LayoutAssumption DEF Scene, LayoutAssumption
  <1>3. NotOnItsWay(st, w)
    BY DEF Scene, Arrivals, NotOnItsWay
  <1> HIDE DEF h2, s
  <1>4. Arrivals(st, h2)
    BY <1>1, <1>3 DEF Scene, Arrivals, NotOnItsWay
  <1>5. HalfSwaps(st, h2)
    BY DEF HalfSwaps, NoSwap
  <1>6. \A v, t : (Listed(st, h2, v, t) <=> h2[v] = t) /\ (Listed(st, h, v, t) <=> h[v] = t)
    BY ListedPlain
  <1>7. IsInjective(ts[s])
    <2>1. CASE algo[s] = 0
      <3>1. ts[s] = <<>>
        BY <1>1, <2>1 DEF Scene, Lists
      <3>2. QED
        BY <3>1 DEF IsInjective
    <2>2. CASE algo[s] # 0
      BY <1>1, <2>2 DEF Scene, Lists
    <2>3. QED
      BY <2>1, <2>2
  <1>8. /\ x \in Seq(Windows) /\ IsInjective(x)
        /\ \A v : v \in ToSet(x) <=> v # w /\ v \in ToSet(ts[s])
    BY <1>2, <1>7, WithoutFacts
  <1> HIDE DEF x
  <1>9. ASSUME algo[s] # 0 PROVE \A v \in Windows : v \in ToSet(x) <=> Listed(st, h2, v, s)
    <2>1. \A v \in Windows : v \in ToSet(ts[s]) <=> h[v] = s
      BY <1>1, <1>6, <1>9 DEF Scene, Lists
    <2>2. QED
      BY <1>1, <1>6, <1>8, <2>1
  <1>10. \A v \in Windows, t \in Spaces \ {s} : Listed(st, h2, v, t) <=> Listed(st, h, v, t)
    <2>1. h[w] = s
      BY DEF s
    <2>2. QED
      BY <1>1, <1>2, <1>6, <2>1
  <1>11. Lists(st, Upd(ts, s, x), h2) /\ Upd(ts, s, x) \in [Spaces -> Seq(Windows)]
    BY <1>1, <1>2, <1>8, <1>9, <1>10, ListChange DEF Scene
  <1>12. QED
    BY <1>1, <1>2, <1>3, <1>4, <1>5, <1>11 DEF Scene, h2, s, x

\* Two windows of one list change places.
LEMMA PermutedScene ==
    ASSUME NEW st, NEW ts, NEW h, Scene(st, ts, h), NEW s \in Spaces,
           NEW a \in Windows, NEW b \in Windows,
           algo[s] # 0 => a \in ToSet(ts[s]) /\ b \in ToSet(ts[s])
    PROVE  Scene(st, Upd(ts, s, Swapped(ts[s], a, b)), h)
  <1>1. ts \in [Spaces -> Seq(Windows)] /\ ts[s] \in Seq(Windows)
    BY DEF Scene
  <1>2. Swapped(ts[s], a, b) \in Seq(Windows)
    BY <1>1, SwappedFacts
  <1>3. ASSUME algo[s] # 0
        PROVE  /\ IsInjective(Swapped(ts[s], a, b))
               /\ \A v \in Windows : v \in ToSet(Swapped(ts[s], a, b)) <=> Listed(st, h, v, s)
    <2>1. IsInjective(ts[s]) /\ \A v \in Windows : v \in ToSet(ts[s]) <=> Listed(st, h, v, s)
      BY <1>3 DEF Scene, Lists
    <2>2. \A v : v \in ToSet(Swapped(ts[s], a, b)) <=> v \in ToSet(ts[s])
      BY <1>1, <1>3, SwappedFacts
    <2>3. QED
      BY <1>1, <2>1, <2>2, SwappedFacts
  <1>4. /\ Lists(st, Upd(ts, s, Swapped(ts[s], a, b)), h)
        /\ Upd(ts, s, Swapped(ts[s], a, b)) \in [Spaces -> Seq(Windows)]
    BY <1>1, <1>2, <1>3, ListChange DEF Scene
  <1>5. QED
    BY <1>4 DEF Scene

\* The first half of a swap of two windows of two workspaces.
LEMMA HalfSwapScene ==
    ASSUME NEW st, NEW ts, NEW h, Scene(st, ts, h), NoSwap(st),
           NEW a \in Windows, NEW b \in Windows, h[a] # None, h[b] # None, h[a] # h[b],
           NEW f \in FrameType, f.kind = "swap", f.space = h[b], f.snap[1] = a, f.snap[2] = b
    PROVE  Scene(Append(st, f), Upd(ts, h[a], Swapped(ts[h[a]], a, b)),
                 [h EXCEPT ![a] = h[b], ![b] = h[a]])
  <1> DEFINE h2 == [h EXCEPT ![a] = h[b], ![b] = h[a]]
             s  == h[a]
             t2 == h[b]
             x  == Swapped(ts[s], a, b)
             r  == Append(st, f)
             n  == Len(st)
  <1>1. /\ h2 \in [Windows -> Spaces \cup {None}] /\ h2[a] = t2 /\ h2[b] = s
        /\ \A v \in Windows : v \notin {a, b} => h2[v] = h[v]
        /\ s \in Spaces /\ t2 \in Spaces /\ s # t2 /\ a # b /\ h[a] = s /\ h[b] = t2
    BY DEF Scene
  <1>2. /\ st \in Seq(FrameType) /\ ts \in [Spaces -> Seq(Windows)] /\ None \notin Spaces
        /\ ts[s] \in Seq(Windows)
    BY <1>1, LayoutAssumption DEF Scene, LayoutAssumption
  <1>3. /\ r \in Seq(FrameType) /\ Len(r) = n + 1 /\ r[n + 1] = f
        /\ n \in Nat /\ \A i \in 1..n : r[i] = st[i] /\ i \in 1..(n + 1)
        /\ \A i \in 1..(n + 1) : i = n + 1 \/ i \in 1..n
        /\ n + 1 \in 1..(n + 1)
    BY <1>2, PushFacts
  <1>4. f.space = t2 /\ f.kind = "swap" /\ f.snap[1] = a /\ f.snap[2] = b
    OBVIOUS
  <1>5. x \in Seq(Windows)
    BY <1>2, SwappedFacts
  <1>6. /\ IsInjective(ts[s]) => IsInjective(x)
        /\ \A v : v \in ToSet(x) <=> \/ v = a /\ b \in ToSet(ts[s])
                                     \/ v = b /\ a \in ToSet(ts[s])
                                     \/ v \notin {a, b} /\ v \in ToSet(ts[s])
    BY <1>2, SwappedFacts
  <1> HIDE DEF h2, s, t2, x, r, n
  <1>7. \A i \in 1..(n + 1) : r[i].kind = "swap" => i = n + 1 /\ r[i] = f
    BY <1>3 DEF NoSwap, n
  <1>8. Arrivals(r, h2)
    <2>1. \A i \in 1..(n + 1) : r[i].kind = "add" => i \in 1..n
      BY <1>3, <1>4
    <2>2. \A i \in 1..n : st[i].kind = "add" => /\ st[i].snap[1] \in Windows
                                               /\ st[i].snap[1] \notin {a, b}
      BY DEF Scene, Arrivals, n
    <2>3. ASSUME NEW i \in 1..n, st[i].kind = "add"
          PROVE  /\ st[i].snap[1] \in Windows /\ h2[st[i].snap[1]] = None
                 /\ \A j \in 1..n : st[j].kind = "add" /\ st[j].snap[1] = st[i].snap[1] => j = i
      BY <1>1, <2>2, <2>3 DEF Scene, Arrivals, n
    <2>4. QED
      BY <1>3, <2>1, <2>3 DEF Arrivals
  <1>9. HalfSwaps(r, h2)
    BY <1>1, <1>2, <1>3, <1>4, <1>7 DEF HalfSwaps
  <1>10. Messages(r)
    BY <1>3, <1>4 DEF Scene, Messages, n
  <1>11. \A v, t : Listed(st, h, v, t) <=> h[v] = t
    BY ListedPlain
  <1>12. \A v, t : Listed(r, h2, v, t) <=> \/ h2[v] = t /\ ~(t = t2 /\ v = a)
                                           \/ t = t2 /\ v = b
    BY <1>3, <1>4, <1>7 DEF Listed
  <1>13. ASSUME algo[s] # 0
         PROVE  IsInjective(x) /\ \A v \in Windows : v \in ToSet(x) <=> Listed(r, h2, v, s)
    <2>1. IsInjective(ts[s]) /\ \A v \in Windows : v \in ToSet(ts[s]) <=> h[v] = s
      BY <1>1, <1>11, <1>13 DEF Scene, Lists
    <2>2. QED
      BY <1>1, <1>6, <1>12, <2>1
  <1>14. \A v \in Windows, t \in Spaces \ {s} : Listed(r, h2, v, t) <=> Listed(st, h, v, t)
    <2>1. ASSUME NEW v \in Windows, NEW t \in Spaces \ {s}
          PROVE  Listed(r, h2, v, t) <=> Listed(st, h, v, t)
      <3>1. CASE v = a
        BY <1>1, <1>11, <1>12, <3>1
      <3>2. CASE v = b
        BY <1>1, <1>11, <1>12, <3>2
      <3>3. CASE v \notin {a, b}
        BY <1>1, <1>11, <1>12, <3>3
      <3>4. QED
        BY <3>1, <3>2, <3>3
    <2>2. QED
      BY <2>1
  <1>15. Lists(r, Upd(ts, s, x), h2) /\ Upd(ts, s, x) \in [Spaces -> Seq(Windows)]
    BY <1>1, <1>2, <1>5, <1>13, <1>14, ListChange DEF Scene
  <1>16. QED
    BY <1>1, <1>3, <1>8, <1>9, <1>10, <1>15 DEF Scene, h2, s, t2, x, r

\* Its second half.
LEMMA RestOfSwapScene ==
    ASSUME NEW st, NEW ts, NEW h, Scene(st, ts, h), st # <<>>, Last(st).kind = "swap"
    PROVE  /\ Scene(Front(st), Upd(ts, Last(st).space, Swapped(ts[Last(st).space], Last(st).snap[1],
                                                              Last(st).snap[2])), h)
           /\ NoSwap(Front(st)) /\ Last(st) \in FrameType
           /\ Last(st).snap[1] \in Windows /\ Last(st).snap[2] \in Windows
  <1> DEFINE r == Front(st)
             n == Len(st)
             f == Last(st)
             a == f.snap[1]
             b == f.snap[2]
             s == f.space
             x == Swapped(ts[s], a, b)
  <1>1. /\ st \in Seq(FrameType) /\ n \in Nat \ {0} /\ f = st[n] /\ f \in FrameType
        /\ r \in Seq(FrameType) /\ Len(r) = n - 1 /\ \A i \in 1..(n - 1) : r[i] = st[i]
    BY FrontFacts DEF Scene
  <1>2. /\ \A i \in 1..(n - 1) : i \in 1..n /\ i # n
        /\ n \in 1..n /\ \A i \in 1..n : i = n \/ i \in 1..(n - 1)
    BY <1>1
  <1>3. f.kind = "swap" /\ s \in Spaces
    BY <1>1 DEF FrameType
  <1> HIDE DEF r, n, f
  <1>4. /\ a \in Windows /\ b \in Windows /\ h[a] = s /\ h[b] # s /\ a # b
        /\ \A i \in 1..n : st[i].kind = "swap" => i = n
    BY <1>1, <1>2, <1>3 DEF Scene, HalfSwaps, n
  <1>5. f.snap[1] = a /\ f.snap[2] = b /\ f.space = s
    OBVIOUS
  <1> HIDE DEF a, b, s
  <1>6. ts \in [Spaces -> Seq(Windows)] /\ ts[s] \in Seq(Windows)
    BY <1>3 DEF Scene
  <1>7. /\ x \in Seq(Windows)
        /\ IsInjective(ts[s]) => IsInjective(x)
        /\ \A v : v \in ToSet(x) <=> \/ v = a /\ b \in ToSet(ts[s])
                                     \/ v = b /\ a \in ToSet(ts[s])
                                     \/ v \notin {a, b} /\ v \in ToSet(ts[s])
    BY <1>4, <1>6, SwappedFacts
  <1> HIDE DEF x
  <1>8. NoSwap(r)
    BY <1>1, <1>2, <1>4 DEF NoSwap
  <1>9. Arrivals(r, h)
    BY <1>1, <1>2 DEF Scene, Arrivals, n
  <1>10. HalfSwaps(r, h)
    BY <1>8 DEF HalfSwaps, NoSwap
  <1>11. Messages(r)
    BY <1>1, <1>2 DEF Scene, Messages, n
  <1>12. \A v, t : Listed(r, h, v, t) <=> h[v] = t
    BY <1>8, ListedPlain
  <1>13. \A v, t : Listed(st, h, v, t) <=> \/ h[v] = t /\ ~(t = s /\ v = a)
                                           \/ t = s /\ v = b
    <2>1. \A i \in 1..n : st[i].kind = "swap" <=> i = n
      BY <1>1, <1>3, <1>4
    <2>2. ASSUME NEW v, NEW t
          PROVE  Listed(st, h, v, t) <=> \/ h[v] = t /\ ~(t = s /\ v = a)
                                         \/ t = s /\ v = b
      <3>1. (\E i \in 1..n : st[i].kind = "swap" /\ st[i].space = t /\ st[i].snap[1] = v)
              <=> t = s /\ v = a
        BY <1>1, <1>2, <1>5, <2>1
      <3>2. (\E i \in 1..n : st[i].kind = "swap" /\ st[i].space = t /\ st[i].snap[2] = v)
              <=> t = s /\ v = b
        BY <1>1, <1>2, <1>5, <2>1
      <3>3. QED
        BY <3>1, <3>2 DEF Listed, n
    <2>3. QED
      BY <2>2
  <1>14. ASSUME algo[s] # 0
         PROVE  IsInjective(x) /\ \A v \in Windows : v \in ToSet(x) <=> Listed(r, h, v, s)
    <2>1. /\ IsInjective(ts[s])
          /\ \A v \in Windows : v \in ToSet(ts[s]) <=> (h[v] = s /\ v # a) \/ v = b
      BY <1>3, <1>13, <1>14 DEF Scene, Lists
    <2>2. QED
      BY <1>4, <1>7, <1>12, <2>1
  <1>15. \A v \in Windows, t \in Spaces \ {s} : Listed(r, h, v, t) <=> Listed(st, h, v, t)
    BY <1>12, <1>13
  <1>16. Lists(r, Upd(ts, s, x), h) /\ Upd(ts, s, x) \in [Spaces -> Seq(Windows)]
    BY <1>3, <1>6, <1>7, <1>14, <1>15, ListChange DEF Scene
  <1>17. QED
    BY <1>1, <1>4, <1>8, <1>9, <1>10, <1>11, <1>16 DEF Scene, r, f, s, x, a, b

------------------------------------------------------------------------------
(* The scene after a step *)

\* A pass begins or puts the windows on the grid; the lists stay as its request made them.
LEMMA RecalculateScene ==
    ASSUME gen \in 1..MaxGen, NEW s \in Spaces, algo[s] # 0, NEW x \in Seq(Windows), NEW rest, NEW h,
           Scene(rest, Upd(targets, s, x), h), Recalculate(s, x, rest)
    PROVE  Scene(stack', targets', h)
  <1>1. targets' = Upd(targets, s, x)
    BY DEF Recalculate, Upd
  <1>2. Scene(rest, targets', h)
    BY <1>1
  <1>3. CASE stack' = rest
    BY <1>2, <1>3
  <1>4. CASE stack' = Append(rest, Frame("recalc", s, x))
    <2> DEFINE f == Frame("recalc", s, x)
    <2>1. f \in FrameType /\ f.kind = "recalc"
      BY FrameIsTyped
    <2> HIDE DEF f
    <2>2. Scene(Append(rest, f), targets', h)
      BY <1>2, <2>1, PushCall
    <2>3. QED
      BY <1>4, <2>2 DEF f
  <1>5. QED
    BY <1>3, <1>4 DEF Recalculate

\* The second pass of a resize is for the same lists.
LEMMA AgainScene ==
    ASSUME gen \in 1..MaxGen, NEW s \in Spaces, NEW x \in Seq(Windows), NEW rest, NEW ts, NEW h,
           Scene(rest, ts, h), Again(s, x, rest)
    PROVE  Scene(stack', ts, h)
  <1>1. CASE stack' = rest
    BY <1>1
  <1>2. CASE stack' = Append(rest, Frame("again", s, x))
    <2> DEFINE f == Frame("again", s, x)
    <2>1. f \in FrameType /\ f.kind = "again"
      BY FrameIsTyped
    <2> HIDE DEF f
    <2>2. Scene(Append(rest, f), ts, h)
      BY <2>1, PushCall
    <2>3. QED
      BY <1>2, <2>2 DEF f
  <1>3. QED
    BY <1>1, <1>2 DEF Again

LEMMA NewTargetScene ==
    ASSUME gen \in 1..MaxGen, NEW rest, Scene(rest, targets, home), NEW w \in Windows,
           NEW s \in Spaces, home[w] = None, NotOnItsWay(rest, w), NewTarget(w, s, rest)
    PROVE  Scene(stack', targets', home')
  <1>1. Scene(rest, Upd(targets, s, Append(targets[s], w)), home')
    BY ArrivalScene DEF NewTarget
  <1>2. CASE algo[s] = 0
    BY <1>1, <1>2 DEF NewTarget, Upd
  <1>3. CASE algo[s] # 0
    <2>1. Append(targets[s], w) \in Seq(Windows)
      BY AppendedFacts DEF Scene
    <2>2. QED
      BY <1>1, <1>3, <2>1, RecalculateScene DEF NewTarget
  <1>4. QED
    BY <1>2, <1>3

LEMMA RemoveTargetScene ==
    ASSUME gen \in 1..MaxGen, NEW rest, targets \in [Spaces -> Seq(Windows)], NEW w,
           home[w] \in Spaces, home' = [home EXCEPT ![w] = None],
           Scene(rest, Upd(targets, home[w], Without(targets[home[w]], w)), home'),
           RemoveTarget(w, rest)
    PROVE  Scene(stack', targets', home')
  <1> DEFINE s == home[w]
             x == Without(targets[s], w)
  <1>1. Scene(rest, Upd(targets, s, x), home') /\ s \in Spaces
    OBVIOUS
  <1>2. /\ algo[s] = 0 => stack' = rest /\ UNCHANGED targets
        /\ algo[s] # 0 => Recalculate(s, x, rest)
    BY DEF RemoveTarget
  <1> HIDE DEF s, x
  <1>3. CASE algo[s] = 0
    BY <1>1, <1>2, <1>3 DEF Upd
  <1>4. CASE algo[s] # 0
    <2>1. Upd(targets, s, x) = [targets EXCEPT ![s] = x]
      BY <1>4 DEF Upd
    <2>2. x \in Seq(Windows)
      BY <1>1, <2>1 DEF Scene
    <2>3. QED
      BY <1>1, <1>2, <1>4, <2>2, RecalculateScene
  <1>5. QED
    BY <1>3, <1>4

LEMMA SwapInScene ==
    ASSUME gen \in 1..MaxGen, NEW rest, targets \in [Spaces -> Seq(Windows)], NEW s \in Spaces,
           NEW a \in Windows, NEW b \in Windows,
           Scene(rest, Upd(targets, s, Swapped(targets[s], a, b)), home'), SwapIn(s, a, b, rest)
    PROVE  Scene(stack', targets', home')
  <1>1. CASE algo[s] = 0
    BY <1>1 DEF SwapIn, Upd
  <1>2. CASE algo[s] # 0
    <2>1. Swapped(targets[s], a, b) \in Seq(Windows)
      BY SwappedFacts
    <2>2. QED
      BY <1>2, <2>1, RecalculateScene DEF SwapIn
  <1>3. QED
    BY <1>1, <1>2

\* No swap is under way.
LEMMA NoSwapFacts ==
    ASSUME NEW S, stack \in Seq(S)
    PROVE  ~InSwap <=> NoSwap(stack)
  BY LenProperties DEF InSwap, NoSwap

\* The scene of the state.
Staged == Scene(stack, targets, home)

\* It agrees after every step that keeps the algorithms.
LEMMA StagedStep ==
    ASSUME gen \in 1..MaxGen, algo \in [Spaces -> 0..MaxGen], Staged, [Next]_vars, UNCHANGED algo
    PROVE  Scene(stack', targets', home')
  <1>0. /\ stack \in Seq(FrameType) /\ targets \in [Spaces -> Seq(Windows)]
        /\ home \in [Windows -> Spaces \cup {None}] /\ Scene(stack, targets, home)
        /\ ~InSwap <=> NoSwap(stack)
    BY NoSwapFacts DEF Staged, Scene
  <1>0a. \A f \in FrameType : f.space \in Spaces /\ f.snap \in Seq(Windows)
    BY DEF FrameType
  <1>0b. ASSUME stack # <<>>, Top.kind # "swap"
         PROVE  /\ Scene(Front(stack), targets, home)
                /\ Top.kind = "add" => /\ Top.snap[1] \in Windows /\ home[Top.snap[1]] = None
                                       /\ NotOnItsWay(Front(stack), Top.snap[1])
                /\ Top.kind = "msg" => algo[Top.space] # 0
                /\ Top \in FrameType /\ Top.space \in Spaces /\ Top.snap \in Seq(Windows)
    BY <1>0, <1>0a, <1>0b, PopCall DEF Top
  <1>0c. \A k \in Geometry : k # "swap" /\ k # "add" /\ k # "msg"
    BY DEF Geometry
  <1>1. ASSUME NEW ws \in Answers, NEW g \in 1..MaxGen, Answer(ws, g)
        PROVE  Scene(stack', targets', home')
    BY <1>1, <1>0b, <1>0c DEF Answer, sceneVars
  <1>2. CASE AnswerFalse
    BY <1>2, <1>0b DEF AnswerFalse, sceneVars
  <1>3. CASE ResizeFalse
    BY <1>3, <1>0b, AgainScene DEF ResizeFalse, sceneVars
  <1>4. CASE Arrive
    BY <1>4, <1>0b, NewTargetScene DEF Arrive
  <1>5. CASE SwapRest
    <2>1. stack # <<>> /\ Last(stack).kind = "swap"
      BY <1>5 DEF SwapRest, Top
    <2>2. /\ Scene(Front(stack), Upd(targets, Top.space, Swapped(targets[Top.space], Top.snap[1],
                                                                Top.snap[2])), home)
          /\ Top \in FrameType /\ Top.snap[1] \in Windows /\ Top.snap[2] \in Windows
      BY <1>0, <2>1, RestOfSwapScene DEF Top
    <2>3. home' = home /\ SwapIn(Top.space, Top.snap[1], Top.snap[2], Front(stack))
      BY <1>5 DEF SwapRest
    <2>4. QED
      BY <1>0, <1>0a, <2>2, <2>3, SwapInScene
  <1>6. ASSUME NEW w \in Windows, NEW s \in Spaces, Open(w, s)
        PROVE  Scene(stack', targets', home')
    <2>1. NotOnItsWay(stack, w) /\ home[w] = None /\ NewTarget(w, s, stack)
      BY <1>6 DEF Open, NotOnItsWay
    <2>2. QED
      BY <1>0, <2>1, NewTargetScene
  <1>7. ASSUME NEW w \in Windows, Close(w) PROVE Scene(stack', targets', home')
    <2>1. NoSwap(stack) /\ home[w] # None /\ RemoveTarget(w, stack)
      BY <1>7 DEF Close, NoSwap
    <2>2. home' = [home EXCEPT ![w] = None] /\ home[w] \in Spaces
      BY <1>0, <2>1 DEF RemoveTarget
    <2>3. Scene(stack, Upd(targets, home[w], Without(targets[home[w]], w)), home')
      BY <1>0, <2>1, <2>2, RemovalScene
    <2>4. QED
      BY <1>0, <2>1, <2>2, <2>3, RemoveTargetScene
  <1>8. ASSUME NEW w \in Windows, NEW s \in Spaces, Move(w, s)
        PROVE  Scene(stack', targets', home')
    <2> DEFINE f == Frame("add", s, <<w>>)
               u == Upd(targets, home[w], Without(targets[home[w]], w))
    <2>1. NoSwap(stack) /\ home[w] # None /\ RemoveTarget(w, Append(stack, f))
      BY <1>0, <1>8 DEF Move
    <2>2. home' = [home EXCEPT ![w] = None] /\ home[w] \in Spaces /\ home'[w] = None
      BY <1>0, <2>1 DEF RemoveTarget
    <2>3. Scene(stack, u, home') /\ NotOnItsWay(stack, w)
      BY <1>0, <2>1, <2>2, RemovalScene
    <2>4. f \in FrameType /\ f.kind = "add" /\ f.snap[1] = w
      <3> DEFINE q == <<w>>
      <3>1. q \in Seq(Windows) /\ q[1] = w
        OBVIOUS
      <3>2. f = Frame("add", s, q)
        OBVIOUS
      <3> HIDE DEF f, q
      <3>3. f \in FrameType /\ f.kind = "add" /\ f.space = s /\ f.snap = q
        BY <3>1, <3>2, FrameIsTyped
      <3>4. QED
        BY <3>1, <3>3, Zenon
    <2> HIDE DEF f, u
    <2>5. Scene(Append(stack, f), u, home')
      BY <2>2, <2>3, <2>4, PushArrival
    <2>6. QED
      BY <1>0, <2>1, <2>2, <2>5, RemoveTargetScene DEF u
  <1>9. ASSUME NEW a \in Windows, NEW b \in Windows, Swap(a, b)
        PROVE  Scene(stack', targets', home')
    <2> DEFINE f == Frame("swap", home[b], <<a, b>>)
               u == Upd(targets, home[a], Swapped(targets[home[a]], a, b))
    <2>1. /\ NoSwap(stack) /\ a # b /\ home[a] \in Spaces /\ home[b] \in Spaces
          /\ home[a] # None /\ home[b] # None
          /\ home' = [home EXCEPT ![a] = home[b], ![b] = home[a]]
          /\ SwapIn(home[a], a, b, IF home[a] = home[b] THEN stack ELSE Append(stack, f))
      BY <1>0, <1>9, LayoutAssumption DEF Swap, LayoutAssumption
    <2>2. CASE home[a] = home[b]
      <3>1. home' = home
        BY <1>0, <2>1, <2>2
      <3>2. algo[home[a]] # 0 => a \in ToSet(targets[home[a]]) /\ b \in ToSet(targets[home[a]])
        <4>1. \A w : Listed(stack, home, w, home[a]) <=> home[w] = home[a]
          BY <2>1, ListedPlain
        <4>2. QED
          BY <1>0, <2>1, <2>2, <4>1 DEF Scene, Lists
      <3>3. Scene(stack, u, home')
        BY <1>0, <2>1, <3>1, <3>2, PermutedScene
      <3>4. QED
        BY <1>0, <2>1, <2>2, <3>3, SwapInScene
    <2>3. CASE home[a] # home[b]
      <3>1. f \in FrameType /\ f.kind = "swap" /\ f.space = home[b] /\ f.snap[1] = a /\ f.snap[2] = b
        <4> DEFINE q == <<a, b>>
        <4>1. q \in Seq(Windows) /\ q[1] = a /\ q[2] = b
          OBVIOUS
        <4>2. f = Frame("swap", home[b], q)
          OBVIOUS
        <4> HIDE DEF f, q
        <4>3. f \in FrameType /\ f.kind = "swap" /\ f.space = home[b] /\ f.snap = q
          BY <2>1, <4>1, <4>2, FrameIsTyped
        <4>4. QED
          BY <4>1, <4>3, Zenon
      <3> HIDE DEF f
      <3>2. Scene(Append(stack, f), u, home')
        BY <1>0, <2>1, <2>3, <3>1, HalfSwapScene
      <3>3. QED
        BY <1>0, <2>1, <2>3, <3>2, SwapInScene
    <2>4. QED
      BY <2>2, <2>3
  <1>10. ASSUME NEW w \in Windows, NEW step \in {-1, 1}, MoveInDirection(w, step)
         PROVE  Scene(stack', targets', home')
    <2> DEFINE s  == home[w]
               ts == targets[s]
               i  == IndexOf(w, ts)
    <2>1. /\ s \in Spaces /\ w \in ToSet(ts) /\ i + step \in DOMAIN ts
          /\ Recalculate(s, Swapped(ts, ts[i], ts[i + step]), stack) /\ home' = home
      BY <1>0, <1>10 DEF MoveInDirection
    <2>2. ts \in Seq(Windows)
      BY <1>0, <2>1
    <2> HIDE DEF s, ts, i
    <2>3. /\ i \in 1..Len(ts) /\ i + step \in 1..Len(ts)
          /\ ts[i] \in ToSet(ts) /\ ts[i + step] \in ToSet(ts)
          /\ ts[i] \in Windows /\ ts[i + step] \in Windows
      BY <2>1, <2>2, ListFacts, IndexFacts DEF i
    <2>4. algo[s] # 0
      <3>1. ts # <<>>
        BY <2>1, <2>2, ListFacts
      <3>2. QED
        BY <1>0, <2>1, <3>1 DEF Scene, Lists, ts
    <2>5. /\ Scene(stack, Upd(targets, s, Swapped(ts, ts[i], ts[i + step])), home)
          /\ Swapped(ts, ts[i], ts[i + step]) \in Seq(Windows)
      <3>1. ts = targets[s]
        BY DEF ts, s
      <3>2. QED
        BY <1>0, <2>1, <2>2, <2>3, <3>1, PermutedScene, SwappedFacts
    <2>6. QED
      BY <2>1, <2>4, <2>5, RecalculateScene
  <1>11. ASSUME NEW s \in Spaces, algo[s] # 0, NEW rest, Scene(rest, targets, home), home' = home,
                Recalculate(s, targets[s], rest)
         PROVE  Scene(stack', targets', home')
    <2>1. Upd(targets, s, targets[s]) = targets /\ targets[s] \in Seq(Windows)
      BY <1>0 DEF Upd
    <2>2. QED
      BY <1>11, <2>1, RecalculateScene
  <1>12. ASSUME NEW s \in Spaces, AskPass(s) PROVE Scene(stack', targets', home')
    BY <1>0, <1>11, <1>12 DEF AskPass
  <1>13. ASSUME NEW s \in Spaces, Resize(s) PROVE Scene(stack', targets', home')
    <2>1. UNCHANGED <<targets, home>> /\ targets[s] \in Seq(Windows)
      BY <1>0, <1>13 DEF Resize, sceneVars
    <2>2. CASE Again(s, targets[s], stack)
      BY <1>0, <2>1, <2>2, AgainScene
    <2>3. CASE stack' = Append(stack, Frame("resize", s, targets[s]))
      <3> DEFINE f == Frame("resize", s, targets[s])
      <3>1. f \in FrameType /\ f.kind = "resize"
        BY <2>1, FrameIsTyped
      <3> HIDE DEF f
      <3>2. Scene(Append(stack, f), targets, home)
        BY <1>0, <3>1, PushCall
      <3>3. QED
        BY <2>1, <2>3, <3>2 DEF f
    <2>4. QED
      BY <1>13, <2>2, <2>3 DEF Resize
  <1>14. ASSUME NEW s \in Spaces, LayoutMsg(s) PROVE Scene(stack', targets', home')
    <2> DEFINE f == Frame("msg", s, <<>>)
    <2>1. UNCHANGED <<targets, home>> /\ stack' = Append(stack, f) /\ algo[s] # 0
      BY <1>14 DEF LayoutMsg, sceneVars, Active
    <2>2. f \in FrameType /\ f.kind = "msg" /\ f.space = s
      <3> DEFINE q == <<>>
      <3>1. q \in Seq(Windows)
        OBVIOUS
      <3>2. f = Frame("msg", s, q)
        OBVIOUS
      <3> HIDE DEF f, q
      <3>3. QED
        BY <3>1, <3>2, FrameIsTyped
    <2> HIDE DEF f
    <2>3. Scene(Append(stack, f), targets, home)
      BY <1>0, <2>1, <2>2, PushCall
    <2>4. QED
      BY <2>1, <2>3
  <1>15. ASSUME NEW accepted \in BOOLEAN, MsgAnswers(accepted)
         PROVE  Scene(stack', targets', home')
    <2>1. stack # <<>> /\ Top.kind = "msg" /\ home' = home
      BY <1>15 DEF MsgAnswers
    <2>2. /\ Scene(Front(stack), targets, home) /\ algo[Top.space] # 0 /\ Top.space \in Spaces
      BY <1>0b, <2>1
    <2>3. \/ Recalculate(Top.space, targets[Top.space], Front(stack))
          \/ stack' = Front(stack) /\ UNCHANGED targets
      BY <1>15 DEF MsgAnswers
    <2>4. QED
      BY <1>11, <2>1, <2>2, <2>3
  <1>16. CASE (\E cbs \in Specs : LayoutAdd(cbs)) \/ Reload \/ UNCHANGED vars
    BY <1>0, <1>16 DEF LayoutAdd, Reload, sceneVars, vars
  <1>17. ASSUME NEW s \in Spaces, NEW p \in 0..MaxGen, Refresh(s, p) PROVE FALSE
    BY <1>17 DEF Refresh
  <1>18. QED
    BY <1>1, <1>2, <1>3, <1>4, <1>5, <1>6, <1>7, <1>8, <1>9, <1>10, <1>12, <1>13, <1>14, <1>15,
       <1>16, <1>17 DEF Next

\* A workspace that gets another algorithm starts again with an empty list.
LEMMA RefreshScene ==
    ASSUME gen \in 1..MaxGen, algo \in [Spaces -> 0..MaxGen], Staged,
           NEW s \in Spaces, NEW p \in 0..MaxGen, Refresh(s, p)
    PROVE  Staged'
  <1>1. /\ stack = <<>> /\ algo' = [algo EXCEPT ![s] = p] /\ gen' = gen
        /\ targets' = [targets EXCEPT ![s] = <<>>]
        /\ home' = [w \in Windows |-> IF home[w] = s THEN None ELSE home[w]]
    BY DEF Refresh, regVars
  <1>2. PICK n, order :
             /\ n \in Nat /\ order \in [1..n -> {w \in Windows : home[w] = s}]
             /\ \A i, j \in 1..n : order[i] = order[j] => i = j
             /\ stack' = [i \in 1..n |-> Frame("add", s, <<order[i]>>)]
             /\ \E S : stack' \in Seq(S)
             /\ Len(stack') = n
    BY RefreshAdds
  <1>3. /\ targets \in [Spaces -> Seq(Windows)] /\ home \in [Windows -> Spaces \cup {None}]
        /\ Scene(stack, targets, home) /\ None \notin Spaces
    BY LayoutAssumption DEF Staged, Scene, LayoutAssumption
  <1>4. ASSUME NEW i \in 1..n
        PROVE  /\ order[i] \in Windows /\ home[order[i]] = s /\ home'[order[i]] = None
               /\ stack'[i] \in FrameType /\ stack'[i].kind = "add" /\ stack'[i].snap[1] = order[i]
    <2> DEFINE w == order[i]
               q == <<w>>
    <2>1. w \in Windows /\ home[w] = s /\ home'[w] = None
      BY <1>1, <1>2
    <2>2. q \in Seq(Windows) /\ q[1] = w
      BY <2>1
    <2>3. stack'[i] = Frame("add", s, q)
      BY <1>2
    <2> HIDE DEF q, w
    <2>4. stack'[i] \in FrameType /\ stack'[i].kind = "add" /\ stack'[i].snap = q
      BY <2>2, <2>3, FrameIsTyped
    <2>5. QED
      BY <2>1, <2>2, <2>4, Zenon DEF w
  <1>5. stack' \in Seq(FrameType)
    BY <1>2, <1>4, LenProperties, SeqDef
  <1>6. Arrivals(stack', home')
    BY <1>2, <1>4 DEF Arrivals
  <1>7. NoSwap(stack') /\ HalfSwaps(stack', home')
        /\ \A i \in 1..Len(stack') : stack'[i].kind # "msg"
    BY <1>2, <1>4 DEF NoSwap, HalfSwaps
  <1>8. /\ targets' \in [Spaces -> Seq(Windows)] /\ targets'[s] = <<>>
        /\ \A t \in Spaces \ {s} : targets'[t] = targets[t] /\ algo'[t] = algo[t]
        /\ home' \in [Windows -> Spaces \cup {None}]
    BY <1>1, <1>3
  <1>9. \A w, t : /\ Listed(stack', home', w, t) <=> home'[w] = t
                  /\ Listed(stack, home, w, t) <=> home[w] = t
    <2>1. NoSwap(stack)
      BY <1>1 DEF NoSwap
    <2>2. QED
      BY <1>7, <2>1, ListedPlain
  <1>10. ASSUME NEW t \in Spaces
         PROVE  IF algo'[t] = 0 THEN targets'[t] = <<>>
                ELSE /\ IsInjective(targets'[t])
                     /\ \A w \in Windows : w \in ToSet(targets'[t]) <=> Listed(stack', home', w, t)
    <2>1. CASE t = s
      <3>1. IsInjective(<<>>) /\ \A w : w \notin ToSet(<<>>)
        BY DEF IsInjective, ToSet
      <3>2. \A w \in Windows : home'[w] # s
        BY <1>1, <1>3
      <3>3. QED
        BY <1>8, <1>9, <2>1, <3>1, <3>2
    <2>2. CASE t # s
      <3>1. \A w \in Windows : home'[w] = t <=> home[w] = t
        BY <1>1, <1>3, <2>2
      <3>2. QED
        BY <1>3, <1>8, <1>9, <2>2, <3>1 DEF Scene, Lists
    <2>3. QED
      BY <2>1, <2>2
  <1>11. QED
    BY <1>5, <1>6, <1>7, <1>8, <1>10 DEF Staged, Scene, Messages, Lists

------------------------------------------------------------------------------
(* Types, and the windows of a list *)

\* The types of what a scene does not describe.
Typed ==
    /\ gen \in 1..MaxGen /\ registered \in {0, gen} /\ spec \in [1..MaxGen -> Specs \cup {{}}]
    /\ algo \in [Spaces -> 0..MaxGen] /\ pos \in [Windows -> PosType]
    /\ result \in [Spaces -> {"none", "grid", "boxes", "stale"}]

\* A scene is that of the next state when the algorithms stay.
LEMMA StagedNext ==
    ASSUME UNCHANGED algo, Scene(stack', targets', home') PROVE Staged'
  BY DEF Staged, Scene, Messages, Lists

\* A window of a list is in a cell of the default grid.
LEMMA CellIsTyped ==
    ASSUME NEW s \in Spaces, NEW ts \in Seq(Windows), NEW w \in ToSet(ts)
    PROVE  OnGrid(s, IndexOf(w, ts) - 1, Len(ts)) \in PosType
  <1> DEFINE n == Len(ts)
             i == IndexOf(w, ts) - 1
             c == Cols(n)
  <1>1. n \in Nat \ {0} /\ i \in Nat
    BY IndexFacts, ListFacts
  <1> HIDE DEF n, i
  <1>2. c \in Nat \ {0}
    BY <1>1, ColsFit
  <1>3. OnGrid(s, i, n) =
          [by |-> "grid", space |-> s, col |-> ColOf(i, c), row |-> RowOf(i, c), of |-> n]
    BY DEF OnGrid
  <1> HIDE DEF c
  <1>4. ColOf(i, c) \in Nat /\ RowOf(i, c) \in Nat
    <2>1. RowOf(i, c) \in Nat /\ ColOf(i, c) \in 0..(c - 1)
      BY <1>1, <1>2, Division, Zenon
    <2>2. \A k \in 0..(c - 1) : k \in Nat
      OBVIOUS
    <2>3. QED
      BY <2>1, <2>2, Zenon
  <1>5. OnGrid(s, i, n) \in PosType
    BY <1>1, <1>3, <1>4 DEF PosType
  <1>6. QED
    BY <1>5 DEF n, i

\* The windows stay somewhere when a pass puts its own on the grid.
LEMMA GridIsTyped ==
    ASSUME NEW p \in [Windows -> PosType], NEW s \in Spaces, NEW ts \in Seq(Windows)
    PROVE  Gridded(p, s, ts) \in [Windows -> PosType]
  BY CellIsTyped DEF Gridded

LEMMA RecalculateIsTyped ==
    ASSUME Typed, NEW s \in Spaces, NEW ts \in Seq(Windows), NEW rest, Recalculate(s, ts, rest)
    PROVE  pos' \in [Windows -> PosType] /\ result' \in [Spaces -> {"none", "grid", "boxes", "stale"}]
  <1>1. /\ pos \in [Windows -> PosType] /\ Gridded(pos, s, ts) \in [Windows -> PosType]
        /\ result \in [Spaces -> {"none", "grid", "boxes", "stale"}]
    BY GridIsTyped DEF Typed
  <1>2. pos' \in {pos, Gridded(pos, s, ts)}
    BY DEF Recalculate
  <1>3. result' = result \/ \E x \in {"none", "grid", "stale"} : result' = [result EXCEPT ![s] = x]
    BY DEF Recalculate
  <1>4. QED
    BY <1>1, <1>2, <1>3

LEMMA AgainIsTyped ==
    ASSUME Typed, NEW s \in Spaces, NEW ts \in Seq(Windows), NEW rest, Again(s, ts, rest)
    PROVE  pos' \in [Windows -> PosType] /\ result' \in [Spaces -> {"none", "grid", "boxes", "stale"}]
  <1>1. /\ pos \in [Windows -> PosType] /\ Gridded(pos, s, ts) \in [Windows -> PosType]
        /\ result \in [Spaces -> {"none", "grid", "boxes", "stale"}]
    BY GridIsTyped DEF Typed
  <1>2. pos' \in {pos, Gridded(pos, s, ts)}
    BY DEF Again, Ended
  <1>3. result' = result \/ \E x \in {"none", "grid", "stale"} : result' = [result EXCEPT ![s] = x]
    BY DEF Again, Ended
  <1>4. QED
    BY <1>1, <1>2, <1>3

\* What every step does to the types.
LEMMA TypedStep ==
    ASSUME Typed, Staged, [Next]_vars
    PROVE  Typed'
  <1> DEFINE R == {"none", "grid", "boxes", "stale"}
             Outcome == pos' \in [Windows -> PosType] /\ result' \in [Spaces -> R]
  <1>0. /\ gen \in 1..MaxGen /\ registered \in {0, gen} /\ spec \in [1..MaxGen -> Specs \cup {{}}]
        /\ algo \in [Spaces -> 0..MaxGen] /\ pos \in [Windows -> PosType]
        /\ result \in [Spaces -> R]
    BY DEF Typed
  <1>0a. /\ stack \in Seq(FrameType) /\ targets \in [Spaces -> Seq(Windows)]
         /\ home \in [Windows -> Spaces \cup {None}]
    BY DEF Staged, Scene
  <1>0b. stack # <<>> => Top \in FrameType /\ Top.space \in Spaces /\ Top.snap \in Seq(Windows)
    <2>1. \A f \in FrameType : f.space \in Spaces /\ f.snap \in Seq(Windows)
      BY DEF FrameType
    <2>2. stack # <<>> => Top \in FrameType
      BY <1>0a, FrontFacts DEF Top
    <2>3. QED
      BY <2>1, <2>2
  <1>0c. Elsewhere \in PosType
    BY DEF Elsewhere, PosType
  <1>1. ASSUME UNCHANGED <<regVars, algo>>, Outcome PROVE Typed'
    BY <1>0, <1>1 DEF Typed, regVars
  <1>2. ASSUME UNCHANGED <<pos, result>> PROVE Outcome
    BY <1>0, <1>2
  <1>3. ASSUME NEW s \in Spaces, NEW ts \in Seq(Windows), NEW rest, Recalculate(s, ts, rest)
        PROVE  Outcome
    BY <1>3, RecalculateIsTyped
  <1>4. ASSUME NEW s \in Spaces, NEW ts \in Seq(Windows), NEW rest, Again(s, ts, rest)
        PROVE  Outcome
    BY <1>4, AgainIsTyped
  <1>5. ASSUME NEW w \in Windows, NEW s \in Spaces, NEW rest, NewTarget(w, s, rest) PROVE Outcome
    <2>1. CASE algo[s] = 0
      BY <1>0, <1>0c, <1>5, <2>1 DEF NewTarget
    <2>2. CASE algo[s] # 0
      BY <1>0a, <1>3, <1>5, <2>2, AppendedFacts DEF NewTarget
    <2>3. QED
      BY <2>1, <2>2
  <1>6. ASSUME NEW w \in Windows, home[w] \in Spaces, NoSwap(stack), NEW rest, RemoveTarget(w, rest)
        PROVE  Outcome
    <2> DEFINE s == home[w]
               x == Without(targets[s], w)
    <2>1. \/ UNCHANGED <<pos, result>>
          \/ algo[s] # 0 /\ Recalculate(s, x, rest)
      BY <1>6 DEF RemoveTarget
    <2>2. algo[s] # 0 => x \in Seq(Windows)
      BY <1>0a, <1>6, WithoutFacts DEF Staged, Scene, Lists
    <2> HIDE DEF s, x
    <2>3. s \in Spaces
      BY <1>6 DEF s
    <2>4. QED
      BY <1>2, <1>3, <2>1, <2>2, <2>3
  <1>7. ASSUME NEW s \in Spaces, NEW a \in Windows, NEW b \in Windows, NEW rest, SwapIn(s, a, b, rest)
        PROVE  Outcome
    <2>1. CASE algo[s] = 0
      BY <1>0, <1>0c, <1>7, <2>1 DEF SwapIn
    <2>2. CASE algo[s] # 0
      BY <1>0a, <1>3, <1>7, <2>2, SwappedFacts DEF SwapIn
    <2>3. QED
      BY <2>1, <2>2
  <1>8. ASSUME NEW s \in Spaces, NEW ts \in Seq(Windows), NEW how \in R, NEW p \in [Windows -> PosType],
               pos' = Gridded(p, s, ts) \/ pos' = p, Ended(s, ts, how)
        PROVE  Outcome
    <2>1. pos' \in [Windows -> PosType]
      BY <1>8, GridIsTyped
    <2>2. result' \in [Spaces -> R]
      BY <1>0, <1>8 DEF Ended
    <2>3. QED
      BY <2>1, <2>2
  <1> HIDE DEF Outcome, R
  <1>9. ASSUME NEW ws \in Answers, NEW g \in 1..MaxGen, Answer(ws, g) PROVE Typed'
    <2>1. stack # <<>> /\ Top.space \in Spaces /\ Top.snap \in Seq(Windows)
      BY <1>9, <1>0b DEF Answer
    <2>2. InBox(Top.space, g) \in PosType
      BY <2>1 DEF InBox, PosType
    <2>3. Placed(Top, ws, g) \in [Windows -> PosType]
      BY <1>0, <2>2 DEF Placed
    <2>4. "boxes" \in R /\ "grid" \in R
      BY DEF R
    <2>5. Outcome
      BY <1>8, <1>9, <2>1, <2>3, <2>4 DEF Answer
    <2>6. QED
      BY <1>1, <1>9, <2>5 DEF Answer
  <1>10. CASE AnswerFalse
    <2>1. stack # <<>> /\ Top.space \in Spaces /\ Top.snap \in Seq(Windows) /\ "grid" \in R
      BY <1>10, <1>0b DEF AnswerFalse, R
    <2>2. Outcome
      BY <1>0, <1>8, <1>10, <2>1 DEF AnswerFalse
    <2>3. QED
      BY <1>1, <1>10, <2>2 DEF AnswerFalse
  <1>11. CASE ResizeFalse
    BY <1>0b, <1>1, <1>4, <1>11 DEF ResizeFalse
  <1>12. CASE Arrive
    <2>1. stack # <<>> /\ Last(stack).kind = "add" /\ NewTarget(Top.snap[1], Top.space, Front(stack))
      BY <1>12 DEF Arrive, Top
    <2>2. Top.snap[1] \in Windows
      BY <2>1, PopCall DEF Staged, Top
    <2>3. UNCHANGED <<regVars, algo>>
      BY <2>1 DEF NewTarget
    <2>4. QED
      BY <1>0b, <1>1, <1>5, <2>1, <2>2, <2>3
  <1>13. CASE SwapRest
    <2>1. stack # <<>> /\ Last(stack).kind = "swap"
      BY <1>13 DEF SwapRest, Top
    <2>2. Top.snap[1] \in Windows /\ Top.snap[2] \in Windows
      BY <2>1, RestOfSwapScene DEF Staged, Top
    <2>3. QED
      BY <1>0b, <1>1, <1>7, <1>13, <2>1, <2>2 DEF SwapRest
  <1>14. ASSUME NEW w \in Windows, NEW s \in Spaces, Open(w, s) PROVE Typed'
    <2>1. NewTarget(w, s, stack) /\ UNCHANGED <<regVars, algo>>
      BY <1>14 DEF Open, NewTarget
    <2>2. QED
      BY <1>1, <1>5, <2>1
  <1>15. ASSUME NEW w \in Windows, Close(w) \/ \E s \in Spaces : Move(w, s) PROVE Typed'
    <2>1. NoSwap(stack) /\ home[w] # None /\ \E rest : RemoveTarget(w, rest)
      <3>1. CASE Close(w)
        BY <3>1 DEF Close, NoSwap
      <3>2. ASSUME NEW s \in Spaces, Move(w, s)
            PROVE  NoSwap(stack) /\ home[w] # None /\ \E rest : RemoveTarget(w, rest)
        BY <1>0a, <3>2, NoSwapFacts DEF Move
      <3>3. QED
        BY <1>15, <3>1, <3>2
    <2>2. UNCHANGED <<regVars, algo>> /\ home[w] \in Spaces
      BY <1>0a, <2>1 DEF RemoveTarget
    <2>3. QED
      BY <1>1, <1>6, <2>1, <2>2
  <1>16. ASSUME NEW a \in Windows, NEW b \in Windows, Swap(a, b) PROVE Typed'
    <2>1. /\ UNCHANGED <<regVars, algo>> /\ home[a] \in Spaces
          /\ \E rest : SwapIn(home[a], a, b, rest)
      BY <1>0a, <1>16 DEF Swap
    <2>2. QED
      BY <1>1, <1>7, <2>1
  <1>17. ASSUME NEW w \in Windows, NEW step \in {-1, 1}, MoveInDirection(w, step) PROVE Typed'
    <2> DEFINE s  == home[w]
               ts == targets[s]
               i  == IndexOf(w, ts)
    <2>1. /\ s \in Spaces /\ w \in ToSet(ts) /\ i + step \in DOMAIN ts
          /\ Recalculate(s, Swapped(ts, ts[i], ts[i + step]), stack) /\ UNCHANGED <<regVars, algo>>
      BY <1>0a, <1>17 DEF MoveInDirection
    <2>2. ts \in Seq(Windows)
      BY <1>0a, <2>1
    <2> HIDE DEF s, ts, i
    <2>3. ts[i] \in Windows /\ ts[i + step] \in Windows
      BY <2>1, <2>2, ListFacts, IndexFacts DEF i
    <2>4. Swapped(ts, ts[i], ts[i + step]) \in Seq(Windows)
      BY <2>2, <2>3, SwappedFacts
    <2>5. QED
      BY <1>1, <1>3, <2>1, <2>4
  <1>18. ASSUME NEW s \in Spaces, AskPass(s) \/ Resize(s) \/ LayoutMsg(s) PROVE Typed'
    <2>1. UNCHANGED <<regVars, algo>> /\ targets[s] \in Seq(Windows)
      BY <1>0a, <1>18 DEF AskPass, Resize, LayoutMsg
    <2>2. Outcome
      BY <1>2, <1>3, <1>4, <1>18, <2>1 DEF AskPass, Resize, LayoutMsg
    <2>3. QED
      BY <1>1, <2>1, <2>2
  <1>19. ASSUME NEW accepted \in BOOLEAN, MsgAnswers(accepted) PROVE Typed'
    <2>1. UNCHANGED <<regVars, algo>> /\ targets[Top.space] \in Seq(Windows) /\ Top.space \in Spaces
      BY <1>0a, <1>0b, <1>19 DEF MsgAnswers
    <2>2. \/ Recalculate(Top.space, targets[Top.space], Front(stack))
          \/ UNCHANGED <<pos, result>>
      BY <1>19 DEF MsgAnswers
    <2>3. QED
      BY <1>1, <1>2, <1>3, <2>1, <2>2
  <1>20. ASSUME NEW cbs \in Specs, LayoutAdd(cbs) PROVE Typed'
    BY <1>0, <1>20 DEF LayoutAdd, Typed, R
  <1>21. CASE Reload
    BY <1>0, <1>21, LayoutAssumption DEF Reload, Typed, R, LayoutAssumption
  <1>22. ASSUME NEW s \in Spaces, NEW p \in 0..MaxGen, Refresh(s, p) PROVE Typed'
    BY <1>0, <1>22 DEF Refresh, Typed, regVars, R
  <1>23. CASE UNCHANGED vars
    BY <1>0, <1>23 DEF vars, regVars, Typed, R
  <1>24. QED
    BY <1>9, <1>10, <1>11, <1>12, <1>13, <1>14, <1>15, <1>16, <1>17, <1>18, <1>19, <1>20, <1>21,
       <1>22, <1>23 DEF Next

\* The inductive invariant of types and lists.
SInv == Typed /\ Staged

LEMMA InitScene == Init => SInv
  <1> SUFFICES ASSUME Init PROVE SInv
    OBVIOUS
  <1>1. gen = 1 /\ gen \in 1..MaxGen
    BY LayoutAssumption DEF Init, LayoutAssumption
  <1>2. Elsewhere \in PosType
    BY DEF Elsewhere, PosType
  <1>3. Typed
    BY <1>1, <1>2, LayoutAssumption DEF Init, Typed, LayoutAssumption
  <1>4. /\ stack = <<>> /\ stack \in Seq(FrameType) /\ Len(stack) = 0
        /\ targets \in [Spaces -> Seq(Windows)] /\ home \in [Windows -> Spaces \cup {None}]
        /\ \A s \in Spaces : algo[s] = 0 /\ targets[s] = <<>>
    BY DEF Init
  <1>5. Staged
    BY <1>4 DEF Staged, Scene, Arrivals, HalfSwaps, Messages, Lists
  <1>6. QED
    BY <1>3, <1>5 DEF SInv

LEMMA SceneStep == SInv /\ [Next]_vars => SInv'
  <1> SUFFICES ASSUME SInv, [Next]_vars PROVE SInv'
    OBVIOUS
  <1>1. Typed' /\ gen \in 1..MaxGen /\ algo \in [Spaces -> 0..MaxGen] /\ Staged
    BY TypedStep DEF SInv, Typed
  <1>2. CASE UNCHANGED algo
    BY <1>1, <1>2, StagedStep, StagedNext DEF SInv
  <1>3. ASSUME NEW s \in Spaces, NEW p \in 0..MaxGen, Refresh(s, p) PROVE SInv'
    BY <1>1, <1>3, RefreshScene DEF SInv
  <1>4. UNCHANGED algo \/ \E s \in Spaces, p \in 0..MaxGen : Refresh(s, p)
    BY DEF Next, vars, Answer, AnswerFalse, ResizeFalse, Arrive, SwapRest, Open, Move, Close, Swap,
           MoveInDirection, AskPass, Resize, LayoutMsg, MsgAnswers, NewTarget, RemoveTarget,
           LayoutAdd, Reload
  <1>5. QED
    BY <1>2, <1>3, <1>4

LEMMA SceneHolds == Spec => []SInv
  BY InitScene, SceneStep, PTL DEF Spec

\* The variables have their types (SchemeLayout.hpp, struct SSchemeLayoutProvider).
THEOREM TypeCorrect == Spec => []TypeOK
  <1>1. SInv => TypeOK
    <2> SUFFICES ASSUME SInv PROVE TypeOK
      OBVIOUS
    <2>1. stack \in Seq(FrameType) /\ DOMAIN stack = 1..Len(stack)
      BY LenProperties DEF SInv, Staged, Scene
    <2>2. \A i \in DOMAIN stack : stack[i] \in FrameType
      BY <2>1, ElementOfSeq
    <2>3. QED
      BY <2>2 DEF SInv, Typed, Staged, Scene, TypeOK
  <1>2. QED
    BY <1>1, SceneHolds, PTL

\* However callbacks nest moves, swaps and reloads, an algorithm's targets are the windows of
\* its workspace, each once (newTarget, removeTarget, swapTargets).
THEOREM ListsAreRight == Spec => []TargetsAreTheWindows
  <1>1. SInv => TargetsAreTheWindows
    <2> SUFFICES ASSUME SInv, NEW s \in Spaces
                 PROVE  IF algo[s] = 0 THEN targets[s] = <<>>
                        ELSE ~InSwap => /\ IsInjective(targets[s])
                                        /\ ToSet(targets[s]) = {w \in Windows : home[w] = s}
      BY DEF TargetsAreTheWindows
    <2>1. /\ targets[s] \in Seq(Windows) /\ stack \in Seq(FrameType)
          /\ Lists(stack, targets, home)
      BY DEF SInv, Staged, Scene
    <2>2. CASE algo[s] = 0
      BY <2>1, <2>2 DEF Lists
    <2>3. CASE algo[s] # 0
      <3>1. SUFFICES ASSUME ~InSwap
                     PROVE  /\ IsInjective(targets[s])
                            /\ ToSet(targets[s]) = {w \in Windows : home[w] = s}
        BY <2>3
      <3>2. NoSwap(stack)
        BY <2>1, <3>1, NoSwapFacts
      <3>3. /\ IsInjective(targets[s])
            /\ \A w \in Windows : w \in ToSet(targets[s]) <=> home[w] = s
        BY <2>1, <2>3, <3>2, ListedPlain DEF Lists
      <3>4. ToSet(targets[s]) \subseteq Windows
        BY <2>1, ListFacts
      <3>5. QED
        BY <3>3, <3>4
    <2>4. QED
      BY <2>2, <2>3
  <1>2. QED
    BY <1>1, SceneHolds, PTL

------------------------------------------------------------------------------
(* What a step places *)

\* A pass of a workspace is under way.
Under(st, t) == \E i \in 1..Len(st) : st[i].kind \in Geometry /\ st[i].space = t

KeptUnder(st, but) == \A t \in Spaces \ {but} : Under(stack, t) => Under(st, t)

\* The calls that wait below a pass of s are no half of a swap that involves its list.
NoHalfOf(st, s) == \A i \in 1..Len(st) : st[i].kind = "swap" => st[i].space # s

\* A step that lays out nothing.
Quiet == /\ UNCHANGED <<targets, result>> /\ KeptUnder(stack', None)
         /\ \A w \in Windows : pos'[w] = pos[w] \/ pos'[w] = Elsewhere

\* A step that requests a pass of s for the list x.
Requests(s, x, rest) ==
    /\ s \in Spaces /\ x \in Seq(Windows) /\ rest \in Seq(FrameType)
    /\ algo[s] # 0 /\ KeptUnder(rest, None) /\ Recalculate(s, x, rest)
    /\ InSwap \/ NoHalfOf(rest, s)

\* A step that goes on with the second pass of a resize.
GoesOn(s, x, rest) ==
    /\ s \in Spaces /\ x \in Seq(Windows) /\ rest \in Seq(FrameType)
    /\ KeptUnder(rest, s) /\ Again(s, x, rest) /\ UNCHANGED <<targets, home>>
    /\ x = targets[s] \/ StaleEnd

\* Calls that begin and end.
LEMMA UnderPushed ==
    ASSUME NEW st \in Seq(FrameType), NEW f \in FrameType
    PROVE  \A t : Under(Append(st, f), t) <=> Under(st, t) \/ (f.kind \in Geometry /\ f.space = t)
  <1> DEFINE n == Len(st)
             r == Append(st, f)
  <1>1. /\ Len(r) = n + 1 /\ r[n + 1] = f
        /\ \A i \in 1..n : r[i] = st[i] /\ i \in 1..(n + 1)
        /\ \A i \in 1..(n + 1) : i = n + 1 \/ i \in 1..n
        /\ n + 1 \in 1..(n + 1)
    BY PushFacts
  <1> HIDE DEF n, r
  <1>2. \A t : Under(r, t) <=> Under(st, t) \/ (f.kind \in Geometry /\ f.space = t)
    BY <1>1 DEF Under, n
  <1>3. QED
    BY <1>2 DEF r

LEMMA UnderPopped ==
    ASSUME NEW st \in Seq(FrameType), st # <<>>, NEW t,
           Last(st).kind \notin Geometry \/ Last(st).space # t
    PROVE  Under(st, t) => Under(Front(st), t)
  <1> DEFINE n == Len(st)
             r == Front(st)
             f == Last(st)
  <1>1. /\ n \in Nat \ {0} /\ f = st[n] /\ Len(r) = n - 1 /\ \A i \in 1..(n - 1) : r[i] = st[i]
    BY FrontFacts
  <1>2. \A i \in 1..n : i = n \/ i \in 1..(n - 1)
    BY <1>1
  <1>3. f.kind \notin Geometry \/ f.space # t
    OBVIOUS
  <1> HIDE DEF n, r, f
  <1>4. Under(st, t) => Under(r, t)
    BY <1>1, <1>2, <1>3 DEF Under, n
  <1>5. QED
    BY <1>4 DEF r

\* Every step that keeps the algorithms requests a pass, ends one, or lays out nothing.
LEMMA StepShape ==
    ASSUME SInv, [Next]_vars, UNCHANGED algo
    PROVE  \/ Quiet
           \/ \E s, x, rest : Requests(s, x, rest) \/ GoesOn(s, x, rest)
           \/ AnswerFalse
           \/ \E ws \in Answers, g \in 1..MaxGen : Answer(ws, g)
  <1> DEFINE Goal == \/ Quiet \/ \E s, x, rest : Requests(s, x, rest) \/ GoesOn(s, x, rest)
                     \/ AnswerFalse
                     \/ \E ws \in Answers, g \in 1..MaxGen : Answer(ws, g)
  <1>0. /\ stack \in Seq(FrameType) /\ targets \in [Spaces -> Seq(Windows)]
        /\ home \in [Windows -> Spaces \cup {None}] /\ Scene(stack, targets, home)
        /\ ~InSwap <=> NoSwap(stack)
        /\ gen \in 1..MaxGen /\ pos \in [Windows -> PosType] /\ None \notin Spaces
    BY NoSwapFacts, LayoutAssumption DEF SInv, Typed, Staged, Scene, LayoutAssumption
  <1>0a. Scene(stack', targets', home')
    BY StagedStep DEF SInv, Typed
  <1>0b. targets' \in [Spaces -> Seq(Windows)]
    BY <1>0a DEF Scene
  <1>0c. stack # <<>> => /\ Front(stack) \in Seq(FrameType) /\ Top \in FrameType
                         /\ Top.space \in Spaces /\ Top.snap \in Seq(Windows)
    <2>1. \A f \in FrameType : f.space \in Spaces /\ f.snap \in Seq(Windows)
      BY DEF FrameType
    <2>2. stack # <<>> => Top \in FrameType /\ Front(stack) \in Seq(FrameType)
      BY <1>0, FrontFacts DEF Top
    <2>3. QED
      BY <2>1, <2>2
  <1>0d. ASSUME stack # <<>>, Top.kind \notin Geometry
         PROVE  KeptUnder(Front(stack), None)
    BY <1>0, <1>0d, UnderPopped DEF KeptUnder, Top
  <1>0e. \A b : KeptUnder(stack, b)
    BY DEF KeptUnder
  <1>0f. \A f \in FrameType :
            Append(stack, f) \in Seq(FrameType) /\ \A b : KeptUnder(Append(stack, f), b)
    BY <1>0, UnderPushed DEF KeptUnder
  <1>0g. \A s : ~InSwap => NoHalfOf(stack, s)
    BY <1>0 DEF NoHalfOf, NoSwap
  <1>0h. ASSUME stack # <<>>, ~InSwap, NEW s PROVE NoHalfOf(Front(stack), s)
    <2>1. /\ Len(stack) \in Nat \ {0} /\ Len(Front(stack)) = Len(stack) - 1
          /\ \A i \in 1..(Len(stack) - 1) : Front(stack)[i] = stack[i]
      BY <1>0, <1>0h, FrontFacts
    <2>2. QED
      BY <1>0, <1>0h, <2>1 DEF NoHalfOf, NoSwap
  <1>1. ASSUME NEW s \in Spaces, NEW x, NEW rest \in Seq(FrameType), algo[s] # 0,
               KeptUnder(rest, None), InSwap \/ NoHalfOf(rest, s), Recalculate(s, x, rest)
        PROVE  Goal
    <2>1. targets'[s] = x
      BY <1>0, <1>1 DEF Recalculate
    <2>2. x \in Seq(Windows)
      BY <1>0b, <2>1
    <2>3. QED
      BY <1>1, <2>2 DEF Requests
  <1>2. ASSUME NEW w \in Windows, NEW s \in Spaces, NEW rest \in Seq(FrameType),
               KeptUnder(rest, None), InSwap \/ NoHalfOf(rest, s), NewTarget(w, s, rest)
        PROVE  Goal
    <2>1. CASE algo[s] = 0
      BY <1>0, <1>2, <2>1 DEF NewTarget, Quiet
    <2>2. CASE algo[s] # 0
      BY <1>1, <1>2, <2>2 DEF NewTarget
    <2>3. QED
      BY <2>1, <2>2
  <1>3. ASSUME NEW w \in Windows, home[w] # None, NEW rest \in Seq(FrameType),
               KeptUnder(rest, None), InSwap \/ NoHalfOf(rest, home[w]), RemoveTarget(w, rest)
        PROVE  Goal
    <2> DEFINE s == home[w]
               x == Without(targets[s], w)
    <2>1. s \in Spaces
      BY <1>0, <1>3
    <2>2. CASE algo[s] = 0
      BY <1>3, <2>2 DEF RemoveTarget, Quiet
    <2>3. CASE algo[s] # 0
      <3>1. Recalculate(s, x, rest)
        BY <1>3, <2>3 DEF RemoveTarget
      <3> HIDE DEF x, Goal
      <3>2. QED
        BY <1>1, <1>3, <2>1, <2>3, <3>1
    <2>4. QED
      BY <2>2, <2>3
  <1>4. ASSUME NEW s \in Spaces, NEW a, NEW b, NEW rest \in Seq(FrameType),
               KeptUnder(rest, None), InSwap \/ NoHalfOf(rest, s), SwapIn(s, a, b, rest)
        PROVE  Goal
    <2>1. CASE algo[s] = 0
      BY <1>4, <2>1 DEF SwapIn, Quiet
    <2>2. CASE algo[s] # 0
      BY <1>1, <1>4, <2>2 DEF SwapIn
    <2>3. QED
      BY <2>1, <2>2
  <1> SUFFICES Goal
    OBVIOUS
  <1> HIDE DEF Goal
  <1>5. ASSUME NEW ws \in Answers, NEW g \in 1..MaxGen, Answer(ws, g) PROVE Goal
    BY <1>5 DEF Goal
  <1>6. CASE AnswerFalse
    BY <1>6 DEF Goal
  <1>7. CASE ResizeFalse
    <2>1. /\ stack # <<>> /\ Again(Top.space, Top.snap, Front(stack)) /\ UNCHANGED <<targets, home>>
          /\ Top.kind \in Geometry
      BY <1>7 DEF ResizeFalse, sceneVars, Geometry
    <2>2. KeptUnder(Front(stack), Top.space)
      BY <1>0, <2>1, UnderPopped DEF KeptUnder, Top
    <2>3. Top.snap = targets[Top.space] \/ StaleEnd
      BY <2>1 DEF StaleEnd
    <2>4. GoesOn(Top.space, Top.snap, Front(stack))
      BY <1>0c, <2>1, <2>2, <2>3 DEF GoesOn
    <2>5. QED
      BY <2>4 DEF Goal
  <1>8. CASE Arrive
    <2>1. /\ stack # <<>> /\ Top.kind = "add" /\ Top.kind \notin Geometry
          /\ NewTarget(Top.snap[1], Top.space, Front(stack))
      BY <1>8 DEF Arrive, Geometry
    <2>2. Top.snap[1] \in Windows
      BY <1>0, <2>1, PopCall DEF Top
    <2>3. QED
      <3>1. InSwap \/ NoHalfOf(Front(stack), Top.space)
        BY <1>0h, <2>1
      <3>2. QED
        BY <1>0c, <1>0d, <1>2, <2>1, <2>2, <3>1
  <1>9. CASE SwapRest
    <2>1. /\ stack # <<>> /\ Top.kind = "swap" /\ Top.kind \notin Geometry
          /\ SwapIn(Top.space, Top.snap[1], Top.snap[2], Front(stack))
      BY <1>9 DEF SwapRest, Geometry
    <2>2. QED
      <3>1. InSwap \/ NoHalfOf(Front(stack), Top.space)
        BY <1>0h, <2>1
      <3>2. QED
        BY <1>0c, <1>0d, <1>4, <2>1, <3>1
  <1>10. ASSUME NEW w \in Windows, NEW s \in Spaces, Open(w, s) PROVE Goal
    BY <1>0, <1>0e, <1>0g, <1>2, <1>10 DEF Open
  <1>11. ASSUME NEW w \in Windows, Close(w) PROVE Goal
    BY <1>0, <1>0e, <1>0g, <1>3, <1>11 DEF Close
  <1>12. ASSUME NEW w \in Windows, NEW s \in Spaces, Move(w, s) PROVE Goal
    <2> DEFINE q == <<w>>
               f == Frame("add", s, q)
    <2>1. NoSwap(stack) /\ home[w] # None /\ RemoveTarget(w, Append(stack, f))
      BY <1>0, <1>12 DEF Move
    <2>2. q \in Seq(Windows)
      OBVIOUS
    <2> HIDE DEF q
    <2>3. f \in FrameType /\ f.kind = "add"
      BY <1>0, <2>2, FrameIsTyped
    <2> HIDE DEF f
    <2>4. NoHalfOf(Append(stack, f), home[w])
      BY <1>0, <2>1, <2>3, PushFacts DEF NoHalfOf, NoSwap
    <2>5. QED
      BY <1>0f, <1>3, <2>1, <2>3, <2>4
  <1>13. ASSUME NEW a \in Windows, NEW b \in Windows, Swap(a, b) PROVE Goal
    <2> DEFINE q == <<a, b>>
               f == Frame("swap", home[b], q)
    <2>1. /\ NoSwap(stack) /\ home[a] \in Spaces /\ home[b] \in Spaces
          /\ SwapIn(home[a], a, b, IF home[a] = home[b] THEN stack ELSE Append(stack, f))
      BY <1>0, <1>13 DEF Swap
    <2>2. q \in Seq(Windows)
      OBVIOUS
    <2> HIDE DEF q
    <2>3. f \in FrameType /\ f.kind = "swap" /\ f.space = home[b]
      BY <1>0, <2>1, <2>2, FrameIsTyped
    <2> HIDE DEF f
    <2>4. CASE home[a] = home[b]
      BY <1>0, <1>0e, <1>0g, <1>4, <2>1, <2>4
    <2>5. CASE home[a] # home[b]
      <3>1. NoHalfOf(Append(stack, f), home[a])
        BY <1>0, <2>1, <2>3, <2>5, PushFacts DEF NoHalfOf, NoSwap
      <3>2. QED
        BY <1>0f, <1>4, <2>1, <2>3, <2>5, <3>1
    <2>6. QED
      BY <2>4, <2>5
  <1>14. ASSUME NEW w \in Windows, NEW step \in {-1, 1}, MoveInDirection(w, step) PROVE Goal
    <2> DEFINE s == home[w]
               x == Swapped(targets[s], targets[s][IndexOf(w, targets[s])],
                            targets[s][IndexOf(w, targets[s]) + step])
    <2>1. s \in Spaces /\ w \in ToSet(targets[s]) /\ Recalculate(s, x, stack)
      BY <1>0, <1>14 DEF MoveInDirection
    <2>2. algo[s] # 0
      <3>1. targets[s] # <<>>
        BY <1>0, <2>1, ListFacts
      <3>2. QED
        BY <1>0, <2>1, <3>1 DEF Scene, Lists
    <2> HIDE DEF s, x
    <2>3. NoHalfOf(stack, s) \/ InSwap
      BY <1>0g
    <2>4. QED
      BY <1>0, <1>0e, <1>1, <2>1, <2>2, <2>3
  <1>15. ASSUME NEW s \in Spaces, AskPass(s) PROVE Goal
    BY <1>0, <1>0e, <1>0g, <1>1, <1>15 DEF AskPass
  <1>16. ASSUME NEW s \in Spaces, Resize(s) PROVE Goal
    <2>1. UNCHANGED <<targets, home>> /\ targets[s] \in Seq(Windows)
      BY <1>0, <1>16 DEF Resize, sceneVars
    <2>2. CASE Again(s, targets[s], stack)
      <3>1. GoesOn(s, targets[s], stack)
        BY <1>0, <1>0e, <2>1, <2>2 DEF GoesOn
      <3>2. QED
        BY <3>1 DEF Goal
    <2>3. CASE stack' = Append(stack, Frame("resize", s, targets[s])) /\ UNCHANGED <<pos, result>>
      <3>1. Frame("resize", s, targets[s]) \in FrameType
        BY <1>0, <2>1, FrameIsTyped
      <3>2. Quiet
        BY <1>0f, <2>1, <2>3, <3>1 DEF Quiet
      <3>3. QED
        BY <3>2 DEF Goal
    <2>4. QED
      BY <1>16, <2>2, <2>3 DEF Resize
  <1>17. ASSUME NEW s \in Spaces, LayoutMsg(s) PROVE Goal
    <2> DEFINE q == <<>>
               f == Frame("msg", s, q)
    <2>1. UNCHANGED <<targets, pos, result>> /\ stack' = Append(stack, f)
      BY <1>17 DEF LayoutMsg, sceneVars
    <2>2. q \in Seq(Windows)
      OBVIOUS
    <2> HIDE DEF q
    <2>3. f \in FrameType
      BY <1>0, <2>2, FrameIsTyped
    <2> HIDE DEF f
    <2>4. Quiet
      BY <1>0f, <2>1, <2>3 DEF Quiet
    <2>5. QED
      BY <2>4 DEF Goal
  <1>18. ASSUME NEW accepted \in BOOLEAN, MsgAnswers(accepted) PROVE Goal
    <2>1. stack # <<>> /\ Top.kind = "msg" /\ Top.kind \notin Geometry
      BY <1>18 DEF MsgAnswers, Geometry
    <2>2. algo[Top.space] # 0
      BY <1>0, <2>1, PopCall DEF Top
    <2>3. CASE Recalculate(Top.space, targets[Top.space], Front(stack))
      BY <1>0c, <1>0d, <1>0h, <1>1, <2>1, <2>2, <2>3
    <2>4. CASE stack' = Front(stack) /\ UNCHANGED <<targets, pos, result>>
      BY <1>0d, <2>1, <2>4 DEF Goal, Quiet
    <2>5. QED
      BY <1>18, <2>3, <2>4 DEF MsgAnswers
  <1>19. CASE (\E cbs \in Specs : LayoutAdd(cbs)) \/ Reload \/ UNCHANGED vars
    <2>1. UNCHANGED <<targets, pos, result, stack>>
      BY <1>19 DEF LayoutAdd, Reload, sceneVars, vars
    <2>2. Quiet
      BY <1>0e, <2>1 DEF Quiet
    <2>3. QED
      BY <2>2 DEF Goal
  <1>20. ASSUME NEW s \in Spaces, NEW p \in 0..MaxGen, Refresh(s, p) PROVE FALSE
    BY <1>20 DEF Refresh, SInv, Typed
  <1>21. QED
    <2>1. CASE \/ \E ws \in Answers, g \in 1..MaxGen : Answer(ws, g)
               \/ AnswerFalse \/ ResizeFalse \/ Arrive \/ SwapRest
      BY <1>5, <1>6, <1>7, <1>8, <1>9, <2>1
    <2>2. CASE \E w \in Windows, s \in Spaces : Open(w, s) \/ Move(w, s)
      BY <1>10, <1>12, <2>2
    <2>3. CASE \/ \E w \in Windows : Close(w)
               \/ \E a, b \in Windows : Swap(a, b)
               \/ \E w \in Windows, step \in {-1, 1} : MoveInDirection(w, step)
      BY <1>11, <1>13, <1>14, <2>3
    <2>4. CASE \/ \E s \in Spaces : AskPass(s) \/ Resize(s) \/ LayoutMsg(s)
               \/ \E accepted \in BOOLEAN : MsgAnswers(accepted)
      BY <1>15, <1>16, <1>17, <1>18, <2>4
    <2>5. QED
      BY <1>19, <1>20, <2>1, <2>2, <2>3, <2>4 DEF Next

------------------------------------------------------------------------------
(* A failed pass *)

\* The windows of the list ts that a pass of t placed last are in the cells of their index.
OnItsGrid(ts, p, t) ==
    \A i \in 1..Len(ts) : p[ts[i]].space = t => p[ts[i]] = OnGrid(t, i - 1, Len(ts))

\* After a failed pass they are, or another pass of the workspace is under way.
Grids == \A t \in Spaces : result[t] = "grid" => OnItsGrid(targets[t], pos, t) \/ Under(stack, t)

\* The lists have each window once.
LEMMA NoTwice == SInv => \A s \in Spaces : targets[s] \in Seq(Windows) /\ IsInjective(targets[s])
  <1>1. IsInjective(<<>>)
    BY DEF IsInjective
  <1>2. QED
    BY <1>1 DEF SInv, Staged, Scene, Lists

LEMMA GriddedHolds ==
    ASSUME NEW p, NEW s, NEW ts \in Seq(Windows), IsInjective(ts)
    PROVE  OnItsGrid(ts, Gridded(p, s, ts), s)
  <1>1. ASSUME NEW i \in 1..Len(ts)
        PROVE  Gridded(p, s, ts)[ts[i]] = OnGrid(s, i - 1, Len(ts))
    <2>1. ts[i] \in Windows /\ ts[i] \in ToSet(ts)
      BY ListFacts
    <2>2. IndexOf(ts[i], ts) = i
      BY <2>1, ListFacts, IndexFacts
    <2>3. QED
      BY <2>1, <2>2 DEF Gridded
  <1>2. QED
    BY <1>1 DEF OnItsGrid

\* A step about one workspace leaves the others as they are.
LEMMA OtherGrids ==
    ASSUME SInv, Grids, NEW s, KeptUnder(stack', s),
           \A t \in Spaces \ {s} : targets'[t] = targets[t] /\ result'[t] = result[t],
           \A w \in Windows : pos'[w] = pos[w] \/ pos'[w].space \notin Spaces \ {s},
           s \in Spaces /\ result'[s] = "grid" => OnItsGrid(targets'[s], pos', s) \/ Under(stack', s)
    PROVE  Grids'
  <1>1. ASSUME NEW t \in Spaces \ {s}, result'[t] = "grid"
        PROVE  OnItsGrid(targets'[t], pos', t) \/ Under(stack', t)
    <2>1. CASE Under(stack, t)
      BY <2>1 DEF KeptUnder
    <2>2. CASE OnItsGrid(targets[t], pos, t)
      <3>1. \A i \in 1..Len(targets[t]) : targets[t][i] \in Windows
        BY NoTwice, ListFacts
      <3>2. QED
        BY <2>2, <3>1 DEF OnItsGrid
    <2>3. QED
      BY <1>1, <2>1, <2>2 DEF Grids
  <1>2. QED
    BY <1>1 DEF Grids

LEMMA RequestGrids ==
    ASSUME SInv, SInv', Grids, UNCHANGED algo, NEW s, NEW x, NEW rest, Requests(s, x, rest)
    PROVE  Grids'
  <1>1. /\ s \in Spaces /\ x \in Seq(Windows) /\ rest \in Seq(FrameType)
        /\ KeptUnder(rest, None) /\ Recalculate(s, x, rest)
        /\ targets \in [Spaces -> Seq(Windows)] /\ gen \in 1..MaxGen /\ None \notin Spaces
        /\ DOMAIN result = Spaces
    BY LayoutAssumption DEF Requests, SInv, Staged, Scene, Typed, LayoutAssumption
  <1>2. targets'[s] = x /\ \A t \in Spaces \ {s} : targets'[t] = targets[t]
    BY <1>1 DEF Recalculate
  <1>3. IsInjective(x)
    <2>1. algo'[s] # 0
      BY DEF Requests
    <2>2. QED
      BY <1>1, <1>2, <2>1 DEF SInv, Staged, Scene, Lists
  <1>4. CASE stack' = Append(rest, Frame("recalc", s, x)) /\ UNCHANGED <<pos, result>>
    <2> DEFINE f == Frame("recalc", s, x)
    <2>1. f \in FrameType /\ f.kind \in Geometry /\ f.space = s
      BY <1>1, FrameIsTyped DEF Geometry
    <2> HIDE DEF f
    <2>2. \A t : Under(stack', t) <=> Under(rest, t) \/ t = s
      BY <1>1, <1>4, <2>1, UnderPushed DEF f
    <2>3. Under(stack', s) /\ KeptUnder(stack', s)
      BY <1>1, <2>2 DEF KeptUnder
    <2>4. QED
      BY <1>2, <1>4, <2>3, OtherGrids
  <1>5. CASE /\ stack' = rest /\ pos' = Gridded(pos, s, x)
             /\ result' = [result EXCEPT ![s] = IF x = <<>> THEN "none" ELSE "grid"]
    <2>1. OnItsGrid(targets'[s], pos', s)
      BY <1>1, <1>2, <1>3, <1>5, GriddedHolds
    <2>2. \A t \in Spaces \ {s} : result'[t] = result[t]
      BY <1>1, <1>5
    <2>3. \A w \in Windows : pos'[w] = pos[w] \/ pos'[w].space = s
      BY <1>5 DEF Gridded, OnGrid
    <2>4. KeptUnder(stack', s)
      BY <1>1, <1>5 DEF KeptUnder
    <2>5. QED
      BY <1>2, <2>1, <2>2, <2>3, <2>4, OtherGrids
  <1>6. QED
    BY <1>1, <1>4, <1>5 DEF Recalculate

\* A pass ends, in boxes or on the grid.
LEMMA EndGrids ==
    ASSUME SInv, Grids, NEW s \in Spaces, NEW snap \in Seq(Windows), NEW how, KeptUnder(stack', s),
           UNCHANGED targets, NEW p, \A w \in Windows : p[w] = pos[w] \/ p[w].space = s,
           \/ how = "grid" /\ pos' = Gridded(p, s, snap)
           \/ how = "boxes" /\ pos' = p,
           Ended(s, snap, how)
    PROVE  Grids'
  <1>1. DOMAIN result = Spaces
    BY DEF SInv, Typed
  <1>2. /\ \A t \in Spaces \ {s} : result'[t] = result[t]
        /\ result'[s] = IF snap = targets[s] THEN how ELSE "stale"
    BY <1>1 DEF Ended
  <1>3. \A w \in Windows : pos'[w] = pos[w] \/ pos'[w].space = s
    BY DEF Gridded, OnGrid
  <1>4. result'[s] = "grid" => OnItsGrid(targets'[s], pos', s)
    <2>1. SUFFICES ASSUME snap = targets[s], pos' = Gridded(p, s, snap)
                   PROVE  OnItsGrid(targets[s], pos', s)
      BY <1>2
    <2>2. QED
      BY <2>1, NoTwice, GriddedHolds
  <1>5. QED
    BY <1>2, <1>3, <1>4, OtherGrids

LEMMA GoesOnGrids ==
    ASSUME SInv, Grids, NEW s, NEW x, NEW rest, GoesOn(s, x, rest) PROVE Grids'
  <1>1. /\ s \in Spaces /\ x \in Seq(Windows) /\ rest \in Seq(FrameType)
        /\ KeptUnder(rest, s) /\ Again(s, x, rest) /\ UNCHANGED targets /\ gen \in 1..MaxGen
    BY DEF GoesOn, SInv, Typed
  <1>2. CASE stack' = Append(rest, Frame("again", s, x)) /\ UNCHANGED <<pos, result>>
    <2> DEFINE f == Frame("again", s, x)
    <2>1. f \in FrameType /\ f.kind \in Geometry /\ f.space = s
      BY <1>1, FrameIsTyped DEF Geometry
    <2> HIDE DEF f
    <2>2. \A t : Under(stack', t) <=> Under(rest, t) \/ t = s
      BY <1>1, <1>2, <2>1, UnderPushed DEF f
    <2>3. Under(stack', s) /\ KeptUnder(stack', s)
      BY <1>1, <2>2 DEF KeptUnder
    <2>4. QED
      BY <1>1, <1>2, <2>3, OtherGrids
  <1>3. CASE stack' = rest /\ pos' = Gridded(pos, s, x) /\ Ended(s, x, "grid")
    <2>1. KeptUnder(stack', s)
      BY <1>1, <1>3
    <2>2. QED
      BY <1>1, <1>3, <2>1, EndGrids
  <1>4. QED
    BY <1>1, <1>2, <1>3 DEF Again

GInv == SInv /\ Grids

LEMMA GridsStep == GInv /\ [Next]_vars => GInv'
  <1> SUFFICES ASSUME GInv, [Next]_vars PROVE Grids'
    BY SceneStep DEF GInv
  <1>0. SInv /\ SInv' /\ Grids /\ None \notin Spaces
    BY SceneStep, LayoutAssumption DEF GInv, LayoutAssumption
  <1>1. CASE ~UNCHANGED algo
    <2>1. PICK s \in Spaces, p \in 0..MaxGen : Refresh(s, p)
      BY <1>1 DEF Next, vars, Answer, AnswerFalse, ResizeFalse, Arrive, SwapRest, Open, Move, Close,
             Swap, MoveInDirection, AskPass, Resize, LayoutMsg, MsgAnswers, NewTarget, RemoveTarget,
             LayoutAdd, Reload
    <2>2. /\ stack = <<>> /\ targets' = [targets EXCEPT ![s] = <<>>]
          /\ result' = [result EXCEPT ![s] = "none"] /\ pos' = pos
      BY <2>1 DEF Refresh
    <2>3. /\ \A t \in Spaces \ {s} : targets'[t] = targets[t] /\ result'[t] = result[t]
          /\ result'[s] = "none"
      BY <1>0, <2>2 DEF SInv, Typed, Staged, Scene
    <2>4. KeptUnder(stack', s)
      BY <2>2 DEF KeptUnder, Under
    <2>5. QED
      BY <1>0, <2>2, <2>3, <2>4, OtherGrids
  <1>2. CASE UNCHANGED algo
    <2>1. CASE Quiet
      <3>1. /\ KeptUnder(stack', None) /\ UNCHANGED <<targets, result>>
            /\ \A w \in Windows : pos'[w] = pos[w] \/ pos'[w].space \notin Spaces \ {None}
        BY <1>0, <2>1 DEF Quiet, Elsewhere
      <3>2. QED
        BY <1>0, <3>1, OtherGrids
    <2>2. ASSUME NEW s, NEW x, NEW rest, Requests(s, x, rest) \/ GoesOn(s, x, rest) PROVE Grids'
      BY <1>0, <1>2, <2>2, RequestGrids, GoesOnGrids
    <2>3. ASSUME stack # <<>>, Top.kind \in Geometry, stack' = Front(stack)
          PROVE  /\ Top.space \in Spaces /\ Top.snap \in Seq(Windows)
                 /\ KeptUnder(stack', Top.space)
      <3>1. stack \in Seq(FrameType)
        BY <1>0 DEF SInv, Staged, Scene
      <3>2. Top \in FrameType
        BY <2>3, <3>1, FrontFacts DEF Top
      <3>3. Top.space \in Spaces /\ Top.snap \in Seq(Windows)
        BY <3>2 DEF FrameType
      <3>4. QED
        BY <2>3, <3>1, <3>3, UnderPopped DEF KeptUnder, Top
    <2>4. CASE AnswerFalse
      <3>1. /\ stack # <<>> /\ Top.kind \in Geometry /\ stack' = Front(stack) /\ UNCHANGED targets
            /\ pos' = Gridded(pos, Top.space, Top.snap) /\ Ended(Top.space, Top.snap, "grid")
        BY <2>4 DEF AnswerFalse, sceneVars, Geometry
      <3>2. QED
        BY <1>0, <2>3, <3>1, EndGrids
    <2>5. ASSUME NEW ws \in Answers, NEW g \in 1..MaxGen, Answer(ws, g) PROVE Grids'
      <3> DEFINE p == Placed(Top, ws, g)
                 s == Top.space
                 snap == Top.snap
                 how == IF Valid(Top, ws) THEN "boxes" ELSE "grid"
      <3>1. /\ stack # <<>> /\ Top.kind \in Geometry /\ stack' = Front(stack) /\ UNCHANGED targets
            /\ Ended(s, snap, how)
            /\ \/ how = "grid" /\ pos' = Gridded(p, s, snap)
               \/ how = "boxes" /\ pos' = p
        BY <2>5 DEF Answer, sceneVars
      <3>2. \A w \in Windows : p[w] = pos[w] \/ p[w].space = s
        BY DEF Placed, InBox
      <3>3. s \in Spaces /\ snap \in Seq(Windows) /\ KeptUnder(stack', s)
        BY <2>3, <3>1
      <3> HIDE DEF p, s, snap, how
      <3>4. QED
        BY <1>0, <3>1, <3>2, <3>3, EndGrids
    <2>6. QED
      BY <1>0, <1>2, <2>1, <2>2, <2>4, <2>5, StepShape
  <1>3. QED
    BY <1>1, <1>2

\* After a failed pass nothing of what it had placed is left: the windows are on the default
\* grid, each inside it and in a cell of its own (applyDefaultGrid).
THEOREM FailedPasses == Spec => []FailedPassIsGrid
  <1>1. Init => GInv
    <2>1. Init => Grids
      BY DEF Init, Grids
    <2>2. QED
      BY <2>1, InitScene DEF GInv
  <1>2. GInv => FailedPassIsGrid
    <2> SUFFICES ASSUME GInv, stack = <<>>, NEW s \in Spaces, result[s] = "grid",
                        NEW i \in DOMAIN targets[s], pos[targets[s][i]].space = s
                 PROVE  LET p == pos[targets[s][i]]
                            n == Len(targets[s]) IN
                        /\ p = OnGrid(s, i - 1, n)
                        /\ p.col < Cols(n) /\ p.row < Rows(n, Cols(n))
      BY DEF FailedPassIsGrid
    <2> DEFINE p == pos[targets[s][i]]
               n == Len(targets[s])
               c == Cols(n)
    <2>1. n \in Nat /\ i \in 1..n
      BY NoTwice, ListFacts DEF GInv
    <2>2. p = OnGrid(s, i - 1, n)
      <3>1. ~Under(stack, s)
        BY DEF Under
      <3>2. QED
        BY <2>1, <3>1 DEF GInv, Grids, OnItsGrid
    <2>3. p.col = ColOf(i - 1, c) /\ p.row = RowOf(i - 1, c)
      BY <2>2 DEF OnGrid
    <2> HIDE DEF p, n
    <2>4. c \in Nat \ {0} /\ i - 1 \in 0..(n - 1)
      BY <2>1, ColsFit
    <2> HIDE DEF c
    <2>5. p.col < c /\ p.row < Rows(n, c)
      BY <2>1, <2>3, <2>4, CellsFit
    <2>6. QED
      BY <2>2, <2>5 DEF p, n, c
  <1>3. QED
    BY <1>1, <1>2, GridsStep, PTL DEF Spec

------------------------------------------------------------------------------
(* Where a pass places *)

\* A pass places windows of its own workspace only, unless its callback changed the targets
\* under it (applyBoxes matches by window).
THEOREM OwnWindows == Spec => OwnWindowsOnly
  <1>1. ASSUME SInv, SInv', [Next]_vars, ~InSwap, ~StaleEnd, NEW w \in Placing
        PROVE  pos'[w].space = home'[w]
    <2>0. /\ w \in Windows /\ pos'[w] # pos[w] /\ pos'[w].by # "other"
          /\ stack \in Seq(FrameType) /\ targets \in [Spaces -> Seq(Windows)]
          /\ NoSwap(stack) /\ Lists(stack, targets, home)
      BY <1>1, NoSwapFacts DEF Placing, SInv, Staged, Scene
    <2>1. UNCHANGED algo
      <3>1. ASSUME NEW s \in Spaces, NEW p \in 0..MaxGen, Refresh(s, p) PROVE FALSE
        BY <2>0, <3>1 DEF Refresh
      <3>2. QED
        BY <1>1, <3>1 DEF Next, vars, Answer, AnswerFalse, ResizeFalse, Arrive, SwapRest, Open, Move,
             Close, Swap, MoveInDirection, AskPass, Resize, LayoutMsg, MsgAnswers, NewTarget,
             RemoveTarget, LayoutAdd, Reload
    <2>2. ~Quiet
      BY <2>0 DEF Quiet, Elsewhere
    <2>3. ASSUME NEW s \in Spaces, w \in ToSet(targets[s]) PROVE home[w] = s
      <3>1. algo[s] # 0
        <4>1. ~(w \in ToSet(<<>>))
          BY DEF ToSet
        <4>2. QED
          BY <2>0, <2>3, <4>1 DEF Lists
      <3>2. QED
        BY <2>0, <2>3, <3>1, ListedPlain DEF Lists
    <2>4. ASSUME NEW s, NEW x, NEW rest, Requests(s, x, rest) PROVE pos'[w].space = home'[w]
      <3>1. /\ s \in Spaces /\ x \in Seq(Windows) /\ rest \in Seq(FrameType) /\ algo'[s] # 0
            /\ Recalculate(s, x, rest) /\ NoHalfOf(rest, s)
        BY <1>1, <2>1, <2>4 DEF Requests
      <3>2. /\ stack' = rest /\ pos' = Gridded(pos, s, x) /\ targets'[s] = x
        BY <2>0, <3>1 DEF Recalculate
      <3>3. w \in ToSet(x) /\ pos'[w].space = s
        BY <2>0, <3>2 DEF Gridded, OnGrid
      <3>4. Listed(stack', home', w, s)
        BY <1>1, <2>0, <3>1, <3>2, <3>3 DEF SInv, Staged, Scene, Lists
      <3>5. home'[w] = s
        BY <3>1, <3>2, <3>4 DEF Listed, NoHalfOf
      <3>6. QED
        BY <3>3, <3>5
    <2>5. ASSUME NEW s, NEW x, NEW rest, GoesOn(s, x, rest) PROVE pos'[w].space = home'[w]
      <3>1. s \in Spaces /\ x = targets[s] /\ Again(s, x, rest) /\ home' = home
        BY <1>1, <2>5 DEF GoesOn
      <3>2. w \in ToSet(x) /\ pos'[w].space = s
        BY <2>0, <3>1 DEF Again, Gridded, OnGrid
      <3>3. QED
        BY <2>3, <3>1, <3>2
    <2>6. ASSUME stack # <<>>, Top.kind \in Geometry
          PROVE  Top.space \in Spaces /\ Top.snap = targets[Top.space]
      <3>1. Top \in FrameType
        BY <2>0, <2>6, FrontFacts DEF Top
      <3>2. QED
        BY <1>1, <2>6, <3>1 DEF FrameType, StaleEnd
    <2>7. CASE AnswerFalse
      <3>1. /\ stack # <<>> /\ Top.kind \in Geometry /\ home' = home
            /\ pos' = Gridded(pos, Top.space, Top.snap)
        BY <2>7 DEF AnswerFalse, sceneVars, Geometry
      <3>2. w \in ToSet(Top.snap) /\ pos'[w].space = Top.space
        BY <2>0, <3>1 DEF Gridded, OnGrid
      <3>3. QED
        BY <2>3, <2>6, <3>1, <3>2
    <2>8. ASSUME NEW ws \in Answers, NEW g \in 1..MaxGen, Answer(ws, g)
          PROVE  pos'[w].space = home'[w]
      <3>1. /\ stack # <<>> /\ Top.kind \in Geometry /\ home' = home
            /\ pos' \in {Placed(Top, ws, g), Gridded(Placed(Top, ws, g), Top.space, Top.snap)}
        BY <2>8 DEF Answer, sceneVars
      <3>2. pos'[w].space = Top.space /\ w \in Accepted(Top, ws) \cup ToSet(Top.snap)
        BY <2>0, <3>1 DEF Gridded, OnGrid, Placed, InBox
      <3>3. Accepted(Top, ws) \subseteq ToSet(Top.snap)
        <4>1. PICK m \in 0..2 : ws \in [1..m -> Windows \cup {None}]
          BY DEF Answers, SeqOf
        <4>2. \A i \in DOMAIN ws : i \in 1..i
          BY <4>1
        <4>3. QED
          BY <4>2 DEF Accepted
      <3>4. QED
        BY <2>3, <2>6, <3>1, <3>2, <3>3
    <2>9. QED
      BY <1>1, <2>1, <2>2, <2>4, <2>5, <2>7, <2>8, StepShape
  <1>2. SInv /\ SInv' /\ [Next]_vars =>
          [~InSwap /\ ~StaleEnd => \A w \in Placing : pos'[w].space = home'[w]]_vars
    BY <1>1
  <1>3. QED
    BY <1>2, InitScene, SceneStep, PTL DEF Spec, OwnWindowsOnly
=============================================================================
