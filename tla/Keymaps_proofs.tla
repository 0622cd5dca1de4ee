--------------------------- MODULE Keymaps_proofs ---------------------------
(* Proofs about Keymaps.tla, for any keymaps, key sequences and windows.       *)
EXTENDS Keymaps, SequenceTheorems, FiniteSetTheorems, WellFoundedInduction, TLAPS

\* A bind as the compositor has it, and what the variable km holds.
Submaps == Seq(Words)
Keymap == Roots \X Submaps
Bind == [rec : Nat, sub : Submaps, key : Keys \cup {"s-G", "catchall"}, on : BOOLEAN,
         want : Submaps \cup {Stay}, exit : Submaps \cup {Stay}, user : BOOLEAN,
         root : Roots]
KM == [reg : Seq(Bind), held : SUBSET (Keymap \X Nat), made : SUBSET Keymap,
       marks : SUBSET (Keymap \X {"exit", "catchall"}), enabled : SUBSET Keymap,
       next : Nat \ {0}]

\* The name of a submap below a prefix: its last word is a chord.
Chain(sub) == sub # <<>> /\ Last(sub) \in Keys

\* The numbers of the records are below the next one, and a keymap that holds, is armed
\* or is marked has been made.
Numbered(s) ==
    /\ \A i \in DOMAIN s.reg : s.reg[i].rec \in 1 .. s.next - 1
    /\ s.held \subseteq s.made \X (1 .. s.next - 1)
    /\ s.enabled \subseteq s.made
    /\ s.marks \subseteq s.made \X {"exit", "catchall"}

\* A keymap that was made is a root or stands for a prefix.
Named(s) == \A k \in s.made : k = Root(k[1]) \/ Chain(k[2])

\* Whose a bind is goes with its record; a bind of the config is on a chord of the
\* user, and one that define-key! made is held only by a keymap of its own submap.
Owned(s) ==
    /\ \A i, j \in DOMAIN s.reg :
         s.reg[i].rec = s.reg[j].rec => s.reg[i].user = s.reg[j].user
    /\ \A i \in DOMAIN s.reg : s.reg[i].user => s.reg[i].key \in Keys
    /\ \A i \in DOMAIN s.reg, k \in s.made :
         ~s.reg[i].user /\ <<k, s.reg[i].rec>> \in s.held => k[2] = s.reg[i].sub

\* The compositor will go to the submap `to`, whatever the config unbinds.
Accepts(s, to) ==
    to = <<>> \/ \E i \in DOMAIN s.reg : s.reg[i].sub = to /\ s.reg[i].key = "s-G"

\* An armed bind on `key` in the submap.
Armed(s, sub, key) ==
    \E i \in DOMAIN s.reg : s.reg[i].sub = sub /\ s.reg[i].key = key /\ s.reg[i].on

\* The ways out of a prefix are there and armed, for the keymaps outside X.
Ways(s, X) == \A k \in s.made \ X : Chain(k[2]) =>
                Armed(s, k[2], "s-G") /\ Armed(s, k[2], "catchall")

\* A bind that is the catchall of a prefix leads to a submap the compositor accepts.
Abandons(s, b) ==
    b.key = "catchall" /\ Chain(b.sub) =>
        b.exit = Stay /\ b.want \in {<<>>, Base[b.root]} /\ Accepts(s, b.want)

\* So does a root that was given its exit.
Exits(s) ==
    /\ \A i \in DOMAIN s.reg : Abandons(s, s.reg[i])
    /\ \A r \in Roots : <<Root(r), "exit">> \in s.marks => Accepts(s, Base[r])

\* The binds and keymaps while the keymaps of X are being given their ways out.
SoundBut(s, X) ==
    s \in KM /\ Numbered(s) /\ Named(s) /\ Owned(s) /\ Ways(s, X) /\ Exits(s)

\* What every call leaves the binds and keymaps in.
Sound(s) == SoundBut(s, {})

\* The conditions are of different keymaps, all of them made, and each keymap is as its
\* condition says.
Conditioned ==
    /\ conds \in Seq(Roots \X Conditions)
    /\ \A i, j \in DOMAIN conds : conds[i][1] = conds[j][1] => i = j
    /\ \A r \in Attached : Made(r)
    /\ AttachedFollows

\* The inductive invariant.
IInv ==
    /\ Sound(km) /\ Conditioned
    /\ focus \in Windows \cup {NoWindow} /\ tagged \subseteq Windows
    /\ mode \in BOOLEAN /\ calls \in 0 .. MaxCalls /\ unseen \subseteq Attached

------------------------------------------------------------------------------
(* Folds over places *)

\* The function that FoldAt and FoldLeft choose, of a step op(acc, i) given as F.
IsFold(f, base, F, I) ==
    f = [S \in SUBSET I |-> IF S = {} THEN base ELSE F[<<f[S \ {Max(S)}], Max(S)>>]]

\* A set of numbers that is not empty has a least.
LEMMA LeastElement ==
    ASSUME NEW T, T \subseteq Nat, T # {}
    PROVE  \E x \in T : \A y \in T : x <= y
  <1> DEFINE R == OpToRel(<, Nat)
  <1>1. IsWellFoundedOn(R, Nat)
    BY NatLessThanWellFounded
  <1>2. \A x, y \in Nat : x < y => <<x, y>> \in R
    BY DEF OpToRel
  <1>3. PICK x \in T : \A y \in T : ~(<<y, x>> \in R)
    <2> HIDE DEF R
    <2>1. QED
      BY <1>1, WFMin
  <1>4. \A y \in T : ~(y < x)
    <2> HIDE DEF R
    <2>1. QED
      BY <1>2, <1>3
  <1>5. QED
    BY <1>4

\* The last of a set of places.
LEMMA MaxPlace ==
    ASSUME NEW n \in Nat, NEW S \in SUBSET (1 .. n), S # {}
    PROVE  /\ Max(S) \in S /\ \A i \in S : i <= Max(S)
           /\ S \ {Max(S)} \in SUBSET (1 .. Max(S) - 1)
  <1> DEFINE T == {x \in Nat : \A i \in S : i <= x}
  <1>1. n \in T
    OBVIOUS
  <1>2. T \subseteq Nat /\ T # {}
    BY <1>1
  <1>3. PICK m \in T : \A y \in T : m <= y
    BY <1>2, LeastElement
  <1>4. m \in S
    <2> SUFFICES ASSUME m \notin S PROVE FALSE
      OBVIOUS
    <2>1. m \in Nat /\ \A i \in S : i <= m /\ i # m /\ i \in Nat /\ i >= 1
      BY <1>3
    <2>2. PICK i \in S : TRUE
      OBVIOUS
    <2>3. m - 1 \in Nat
      <3>1. i \in Nat /\ i >= 1 /\ i <= m /\ m \in Nat
        BY <2>1
      <3>2. QED
        BY <3>1
    <2>4. m - 1 \in T
      BY <2>1, <2>3
    <2>5. QED
      BY <1>3, <2>1, <2>4
  <1>5. \E x \in S : \A y \in S : x >= y
    BY <1>3, <1>4
  <1>6. Max(S) \in S /\ \A y \in S : Max(S) >= y
    BY <1>5 DEF Max
  <1>7. \A i \in S : i \in 1 .. n /\ i <= Max(S)
    <2> HIDE DEF T
    <2>1. S \subseteq Nat
      OBVIOUS
    <2>2. QED
      BY <1>6, <2>1
  <1>8. \A i \in S \ {Max(S)} : i \in 1 .. Max(S) - 1
    <2> SUFFICES ASSUME NEW i \in S, i # Max(S) PROVE i \in 1 .. Max(S) - 1
      OBVIOUS
    <2>1. i \in 1 .. n /\ Max(S) \in 1 .. n /\ i <= Max(S)
      BY <1>6, <1>7
    <2>2. QED
      BY <2>1
  <1>9. QED
    BY <1>6, <1>7, <1>8

\* What is true of the empty set, and of a set when it is true of the set without its last
\* place, is true of every set of places.
LEMMA PlacesInduction ==
    ASSUME NEW n \in Nat, NEW Good \in SUBSET (SUBSET (1 .. n)), {} \in Good,
           \A S \in SUBSET (1 .. n) : S # {} /\ S \ {Max(S)} \in Good => S \in Good
    PROVE  Good = SUBSET (1 .. n)
  <1> DEFINE T == {m \in 0 .. n : ~(SUBSET (1 .. m) \subseteq Good)}
  <1> SUFFICES ASSUME T # {} PROVE FALSE
    <2>1. n \notin T => SUBSET (1 .. n) \subseteq Good
      OBVIOUS
    <2>2. QED
      BY <2>1
  <1>1. T \subseteq Nat
    OBVIOUS
  <1>2. PICK m \in T : \A y \in T : m <= y
    BY <1>1, LeastElement
  <1>3. PICK S \in SUBSET (1 .. m) : S \notin Good
    BY <1>2
  <1>4. S # {}
    BY <1>3
  <1>5. m \in Nat /\ m <= n /\ S \in SUBSET (1 .. n)
    BY <1>2
  <1>6. Max(S) \in 1 .. m /\ S \ {Max(S)} \in SUBSET (1 .. Max(S) - 1)
    BY <1>4, <1>5, MaxPlace
  <1>7. Max(S) - 1 \in 0 .. n /\ ~(m <= Max(S) - 1)
    BY <1>5, <1>6
  <1>8. Max(S) - 1 \notin T
    BY <1>2, <1>7
  <1>9. S \ {Max(S)} \in Good
    BY <1>6, <1>7, <1>8
  <1>10. QED
    BY <1>3, <1>4, <1>5, <1>9

\* A fold over the places up to n exists.
LEMMA FoldExists ==
    ASSUME NEW n \in Nat, NEW base, NEW F
    PROVE  \E f : IsFold(f, base, F, 1 .. n)
  <1> DEFINE T == {m \in 0 .. n : ~\E f : IsFold(f, base, F, 1 .. m)}
  <1> SUFFICES ASSUME T # {} PROVE FALSE
    <2>1. n \in 0 .. n /\ n \notin T
      OBVIOUS
    <2>2. QED
      BY <2>1
  <1>1. T \subseteq Nat
    OBVIOUS
  <1>2. PICK m \in T : \A y \in T : m <= y
    BY <1>1, LeastElement
  <1>3. m # 0
    <2> DEFINE f == [S \in SUBSET (1 .. 0) |-> base]
    <2>1. \A S \in SUBSET (1 .. 0) : S = {}
      OBVIOUS
    <2>2. IsFold(f, base, F, 1 .. 0)
      BY <2>1 DEF IsFold
    <2>3. QED
      BY <1>2, <2>2
  <1>4. m - 1 \in 0 .. n /\ m - 1 \notin T /\ m \in 1 .. n /\ m - 1 + 1 = m
    BY <1>2, <1>3
  <1>5. PICK f : IsFold(f, base, F, 1 .. m - 1)
    BY <1>4
  <1> DEFINE g == [S \in SUBSET (1 .. m) |-> IF m \in S THEN F[<<f[S \ {m}], m>>] ELSE f[S]]
  <1>6. ASSUME NEW S \in SUBSET (1 .. m)
        PROVE  g[S] = IF S = {} THEN base ELSE F[<<g[S \ {Max(S)}], Max(S)>>]
    <2>1. S # {} => /\ Max(S) \in S
                    /\ \A i \in S : i <= Max(S)
      <3> HIDE DEF g, T
      <3>1. m \in Nat
        BY <1>4
      <3>2. QED
        BY <3>1, MaxPlace
    <2>2. \A U \in SUBSET (1 .. m) : m \notin U => U \in SUBSET (1 .. m - 1)
      BY <1>4
    <2>3. CASE m \in S
      <3>1. m <= Max(S) /\ Max(S) \in 1 .. m
        BY <2>1, <2>3
      <3>2. Max(S) = m
        BY <1>4, <3>1
      <3>3. g[S \ {m}] = f[S \ {m}]
        OBVIOUS
      <3>4. g[S] = F[<<f[S \ {m}], m>>]
        BY <2>3
      <3>5. QED
        BY <2>3, <3>2, <3>3, <3>4
    <2>4. CASE m \notin S /\ S # {}
      <3>1. g[S] = f[S] /\ g[S \ {Max(S)}] = f[S \ {Max(S)}]
        BY <2>4
      <3>2. S \in SUBSET (1 .. m - 1)
        BY <2>2, <2>4
      <3>3. f[S] = F[<<f[S \ {Max(S)}], Max(S)>>]
        BY <1>5, <2>4, <3>2 DEF IsFold
      <3>4. QED
        BY <2>4, <3>1, <3>3
    <2>5. CASE S = {}
      <3>1. g[S] = f[S]
        BY <2>5
      <3>2. f[{}] = base
        BY <1>5 DEF IsFold
      <3>3. QED
        BY <2>5, <3>1, <3>2
    <2>6. QED
      BY <2>3, <2>4, <2>5
  <1>7. IsFold(g, base, F, 1 .. m)
    <2> DEFINE h == [S \in SUBSET (1 .. m) |->
                       IF S = {} THEN base ELSE F[<<g[S \ {Max(S)}], Max(S)>>]]
    <2>1. g = h
      <3>1. \A S \in SUBSET (1 .. m) : g[S] = h[S]
        BY <1>6
      <3>2. QED
        BY <3>1
    <2>2. QED
      BY <2>1 DEF IsFold
  <1>8. QED
    BY <1>2, <1>7

\* A step that maps a set A into itself has a fold over any places, with values in A.
LEMMA FoldTyped ==
    ASSUME NEW n \in Nat, NEW I \in SUBSET (1 .. n), NEW A, NEW base \in A,
           NEW F \in [A \X I -> A]
    PROVE  \E f \in [SUBSET I -> A] : IsFold(f, base, F, I)
  <1>1. PICK f : IsFold(f, base, F, 1 .. n)
    BY FoldExists
  <1> DEFINE g == [S \in SUBSET I |-> f[S]]
             Good == {S \in SUBSET (1 .. n) : S \in SUBSET I => f[S] \in A}
  <1>2. ASSUME NEW S \in SUBSET I
        PROVE  f[S] = IF S = {} THEN base ELSE F[<<f[S \ {Max(S)}], Max(S)>>]
    <2>1. S \in SUBSET (1 .. n)
      OBVIOUS
    <2>2. QED
      BY <1>1, <2>1 DEF IsFold
  <1>3. Good = SUBSET (1 .. n)
    <2>1. {} \in Good
      BY <1>2
    <2>2. ASSUME NEW S \in SUBSET (1 .. n), S # {}, S \ {Max(S)} \in Good PROVE S \in Good
      <3> SUFFICES ASSUME S \in SUBSET I PROVE f[S] \in A
        OBVIOUS
      <3>1. Max(S) \in I
        BY <2>2, MaxPlace
      <3>2. f[S \ {Max(S)}] \in A
        BY <2>2
      <3>3. QED
        BY <1>2, <2>2, <3>1, <3>2
    <2>3. Good \in SUBSET (SUBSET (1 .. n))
      OBVIOUS
    <2> HIDE DEF Good
    <2>4. QED
      BY <2>1, <2>2, <2>3, PlacesInduction
  <1>4. \A S \in SUBSET I : S \in SUBSET (1 .. n) /\ f[S] \in A
    BY <1>3
  <1>5. g \in [SUBSET I -> A]
    BY <1>4
  <1>6. IsFold(g, base, F, I)
    <2> DEFINE h == [S \in SUBSET I |->
                       IF S = {} THEN base ELSE F[<<g[S \ {Max(S)}], Max(S)>>]]
    <2>1. ASSUME NEW S \in SUBSET I PROVE g[S] = h[S]
      BY <1>2
    <2>2. g = h
      BY <2>1
    <2>3. QED
      BY <2>2 DEF IsFold
  <1>7. QED
    BY <1>5, <1>6

\* q has the entries of s at the places S, in the order of the places.
Kept(q, s, S, X) ==
    /\ q \in Seq(X)
    /\ \A i \in S : \E j \in DOMAIN q : q[j] = s[i]
    /\ \A j \in DOMAIN q : \E i \in S : q[j] = s[i]
    /\ \A j, l \in DOMAIN q : j < l =>
         \E a, b \in S : a < b /\ q[j] = s[a] /\ q[l] = s[b]

\* One more entry, of a later place.
LEMMA KeptStep ==
    ASSUME NEW X, NEW s, NEW m \in Nat, NEW U \in SUBSET (1 .. m - 1), s[m] \in X,
           NEW q, Kept(q, s, U, X)
    PROVE  Kept(Append(q, s[m]), s, U \cup {m}, X)
  <1> DEFINE r == Append(q, s[m])
  <1>1. q \in Seq(X) /\ Len(q) \in Nat /\ DOMAIN q = 1 .. Len(q)
    BY DEF Kept
  <1>2. /\ r \in Seq(X) /\ Len(r) = Len(q) + 1 /\ DOMAIN r = 1 .. Len(q) + 1
        /\ \A j \in DOMAIN q : r[j] = q[j]
        /\ r[Len(q) + 1] = s[m]
    BY <1>1
  <1>3. DOMAIN r = DOMAIN q \cup {Len(q) + 1}
    BY <1>1, <1>2
  <1> HIDE DEF r
  <1>4. ASSUME NEW i \in U \cup {m} PROVE \E j \in DOMAIN r : r[j] = s[i]
    <2>1. CASE i = m
      BY <1>2, <1>3, <2>1
    <2>2. CASE i \in U
      <3>1. PICK j \in DOMAIN q : q[j] = s[i]
        BY <2>2 DEF Kept
      <3>2. QED
        BY <1>2, <1>3, <3>1
    <2>3. QED
      BY <2>1, <2>2
  <1>5. ASSUME NEW j \in DOMAIN r PROVE \E i \in U \cup {m} : r[j] = s[i]
    <2>1. CASE j = Len(q) + 1
      BY <1>2, <2>1
    <2>2. CASE j \in DOMAIN q
      <3>1. PICK i \in U : q[j] = s[i]
        BY <2>2 DEF Kept
      <3>2. QED
        BY <1>2, <2>2, <3>1
    <2>3. QED
      BY <1>3, <2>1, <2>2
  <1>6. ASSUME NEW j \in DOMAIN r, NEW l \in DOMAIN r, j < l
        PROVE  \E a, b \in U \cup {m} : a < b /\ r[j] = s[a] /\ r[l] = s[b]
    <2>1. j \in DOMAIN q
      <3>1. j \in 1 .. Len(q) + 1 /\ l \in 1 .. Len(q) + 1
        BY <1>2
      <3>2. j \in 1 .. Len(q)
        BY <1>1, <1>6, <3>1
      <3>3. QED
        BY <1>1, <3>2
    <2>2. CASE l \in DOMAIN q
      <3>1. \E a, b \in U : a < b /\ q[j] = s[a] /\ q[l] = s[b]
        BY <1>6, <2>1, <2>2 DEF Kept
      <3>2. QED
        BY <1>2, <2>1, <2>2, <3>1
    <2>3. CASE l = Len(q) + 1
      <3>1. PICK a \in U : q[j] = s[a]
        BY <2>1 DEF Kept
      <3>2. a < m
        OBVIOUS
      <3>3. QED
        BY <1>2, <2>1, <2>3, <3>1, <3>2
    <2>4. QED
      BY <1>3, <2>2, <2>3
  <1>7. Kept(r, s, U \cup {m}, X)
    BY <1>2, <1>4, <1>5, <1>6 DEF Kept
  <1>8. QED
    BY <1>7 DEF r

\* What Keep returns: the entries at the places of I, in the order of the places.
LEMMA KeepIs ==
    ASSUME NEW X, NEW s \in Seq(X), NEW I \in SUBSET (DOMAIN s)
    PROVE  Kept(Keep(s, I), s, I, X)
  <1> DEFINE n == Len(s)
             F == [p \in Seq(X) \X I |-> Append(p[1], s[p[2]])]
             IsKept(f) == f = [S \in SUBSET I |->
                 IF S = {} THEN <<>> ELSE Append(f[S \ {Max(S)}], s[Max(S)])]
             kept == CHOOSE f : IsKept(f)
             Good == {S \in SUBSET (1 .. n) : S \in SUBSET I => Kept(kept[S], s, S, X)}
  <1>1. n \in Nat /\ DOMAIN s = 1 .. n /\ I \in SUBSET (1 .. n)
    OBVIOUS
  <1>2. F \in [Seq(X) \X I -> Seq(X)]
    BY <1>1
  <1>3. PICK f \in [SUBSET I -> Seq(X)] : IsFold(f, <<>>, F, I)
    <2> HIDE DEF F, n
    <2>1. <<>> \in Seq(X)
      OBVIOUS
    <2>2. QED
      BY <1>1, <1>2, <2>1, FoldTyped
  <1>4. IsKept(f)
    <2> DEFINE h == [S \in SUBSET I |->
                 IF S = {} THEN <<>> ELSE Append(f[S \ {Max(S)}], s[Max(S)])]
    <2>1. DOMAIN f = SUBSET I
      OBVIOUS
    <2>2. ASSUME NEW S \in SUBSET I PROVE f[S] = h[S]
      <3>1. S # {} => Max(S) \in I
        <4>1. S \in SUBSET (1 .. n)
          BY <1>1
        <4> HIDE DEF n
        <4>2. QED
          BY <1>1, <4>1, MaxPlace
      <3>2. S \ {Max(S)} \in SUBSET I
        OBVIOUS
      <3>3. f[S] = IF S = {} THEN <<>> ELSE F[<<f[S \ {Max(S)}], Max(S)>>]
        <4> HIDE DEF F
        <4>1. QED
          BY <1>3 DEF IsFold
      <3>4. S # {} => F[<<f[S \ {Max(S)}], Max(S)>>] = Append(f[S \ {Max(S)}], s[Max(S)])
        <4>1. S # {} => f[S \ {Max(S)}] \in Seq(X) /\ Max(S) \in I
          BY <3>1, <3>2, <1>3
        <4>2. QED
          BY <4>1
      <3>5. QED
        BY <3>3, <3>4
    <2>3. f = h
      BY <2>1, <2>2
    <2>4. QED
      BY <2>3
  <1>5. IsKept(kept)
    <2> HIDE DEF IsKept
    <2>1. QED
      BY <1>4
  <1>6. Keep(s, I) = kept[I]
    BY DEF Keep, FoldAt, MapThenFoldSet
  <1>7. \A S \in SUBSET I : kept[S] = IF S = {} THEN <<>>
                                       ELSE Append(kept[S \ {Max(S)}], s[Max(S)])
    <2> HIDE DEF kept
    <2>1. QED
      BY <1>5
  <1>8. Good = SUBSET (1 .. n)
    <2> HIDE DEF kept
    <2>1. {} \in Good
      <3>1. kept[{}] = <<>>
        BY <1>7
      <3>2. Kept(<<>>, s, {}, X)
        BY DEF Kept
      <3>3. QED
        BY <3>1, <3>2
    <2>2. ASSUME NEW S \in SUBSET (1 .. n), S # {}, S \ {Max(S)} \in Good PROVE S \in Good
      <3> SUFFICES ASSUME S \in SUBSET I PROVE Kept(kept[S], s, S, X)
        OBVIOUS
      <3>1. Kept(kept[S \ {Max(S)}], s, S \ {Max(S)}, X)
        BY <2>2
      <3> HIDE DEF Good
      <3>2. Max(S) \in S /\ S \ {Max(S)} \in SUBSET (1 .. Max(S) - 1)
        <4> HIDE DEF n
        <4>1. QED
          BY <1>1, <2>2, MaxPlace
      <3>3. Max(S) \in Nat /\ s[Max(S)] \in X
        BY <1>1, <3>2
      <3>4. kept[S] = Append(kept[S \ {Max(S)}], s[Max(S)])
        BY <1>7, <2>2
      <3>5. S = (S \ {Max(S)}) \cup {Max(S)}
        BY <3>2
      <3>6. Kept(Append(kept[S \ {Max(S)}], s[Max(S)]), s, (S \ {Max(S)}) \cup {Max(S)}, X)
        BY <3>1, <3>2, <3>3, KeptStep
      <3>7. QED
        BY <3>4, <3>5, <3>6
    <2>3. Good \in SUBSET (SUBSET (1 .. n))
      OBVIOUS
    <2> HIDE DEF Good, n
    <2>4. QED
      BY <1>1, <2>1, <2>2, <2>3, PlacesInduction
  <1>9. I \in Good
    BY <1>1, <1>8
  <1> HIDE DEF kept
  <1>10. QED
    BY <1>6, <1>9

------------------------------------------------------------------------------
(* What the operations do to the binds and keymaps *)

\* The registrations of s are those t begins with.
Grows(s, t) == \A i \in DOMAIN s.reg : i \in DOMAIN t.reg /\ t.reg[i] = s.reg[i]

\* The same roots are made and enabled.
RootsSame(s, t) ==
    \A r \in Roots : /\ Root(r) \in t.made <=> Root(r) \in s.made
                     /\ Root(r) \in t.enabled <=> Root(r) \in s.enabled

\* The submap of a root is not one of a prefix.
LEMMA RootSubmap ==
    /\ <<>> \in Submaps /\ ~Chain(<<>>)
    /\ \A r \in Roots : /\ Base[r] \in Submaps /\ ~Chain(Base[r])
                        /\ Root(r) \in Keymap /\ Root(r)[1] = r /\ Root(r)[2] = Base[r]
  <1>1. <<>> \in Submaps /\ ~Chain(<<>>)
    BY DEF Submaps, Chain
  <1>2. ASSUME NEW r \in Roots PROVE Base[r] \in Submaps
    BY KeymapsAssumption DEF Submaps
  <1>3. ASSUME NEW r \in Roots, Base[r] # <<>> PROVE Last(Base[r]) \notin Keys
    <2>1. Len(Base[r]) \in DOMAIN Base[r]
      BY <1>2, <1>3 DEF Submaps
    <2>2. QED
      BY <2>1, KeymapsAssumption DEF Last
  <1>4. QED
    BY <1>1, <1>2, <1>3 DEF Chain, Root, Keymap

\* What accepts or is armed stays so when binds are registered.
LEMMA GrowsKeeps ==
    ASSUME NEW s, NEW t, Grows(s, t), NEW sub, NEW key
    PROVE  /\ Accepts(s, sub) => Accepts(t, sub)
           /\ Armed(s, sub, key) => Armed(t, sub, key)
  BY DEF Grows, Accepts, Armed

\* Disarming what is not a way out of a prefix: same registrations but for `on`.
LEMMA SetKeeps ==
    ASSUME NEW s, Sound(s), NEW t \in KM, DOMAIN t.reg = DOMAIN s.reg,
           \A i \in DOMAIN s.reg :
             /\ t.reg[i] = [s.reg[i] EXCEPT !.on = t.reg[i].on]
             /\ ~s.reg[i].user /\ Chain(s.reg[i].sub) => t.reg[i].on = s.reg[i].on,
           t.held = s.held, t.made = s.made, t.marks = s.marks, t.next = s.next,
           t.enabled \subseteq s.made
    PROVE  Sound(t)
  <1> USE DEF Sound, SoundBut
  <1>1. \A i \in DOMAIN s.reg :
          /\ s.reg[i] \in Bind /\ t.reg[i] \in Bind
          /\ t.reg[i].rec = s.reg[i].rec /\ t.reg[i].sub = s.reg[i].sub
          /\ t.reg[i].key = s.reg[i].key /\ t.reg[i].want = s.reg[i].want
          /\ t.reg[i].exit = s.reg[i].exit /\ t.reg[i].user = s.reg[i].user
          /\ t.reg[i].root = s.reg[i].root
    <2>1. \A i \in DOMAIN s.reg : s.reg[i] \in Bind
      BY DEF KM
    <2>2. \A i \in DOMAIN t.reg : t.reg[i] \in Bind
      BY DEF KM
    <2>3. QED
      BY <2>1, <2>2 DEF Bind
  <1>2. Numbered(t)
    BY <1>1 DEF Numbered
  <1>3. Named(t)
    BY DEF Named
  <1>4. Owned(t)
    BY <1>1 DEF Owned
  <1>5. \A sub : Accepts(s, sub) => Accepts(t, sub)
    BY <1>1 DEF Accepts
  <1>6. ASSUME NEW sub, NEW key, Chain(sub), key \notin Keys, Armed(s, sub, key)
        PROVE  Armed(t, sub, key)
    BY <1>1, <1>6 DEF Armed, Owned
  <1>7. Ways(t, {})
    BY <1>6, KeymapsAssumption DEF Ways
  <1>8. Exits(t)
    BY <1>1, <1>5 DEF Exits, Abandons
  <1>9. QED
    BY <1>2, <1>3, <1>4, <1>7, <1>8

\* Unbinding: only binds on the chords of the user go.
LEMMA UnbindKeeps ==
    ASSUME NEW s, Sound(s), NEW t \in KM,
           \A i \in DOMAIN t.reg : \E j \in DOMAIN s.reg : t.reg[i] = s.reg[j],
           \A j \in DOMAIN s.reg :
             s.reg[j].key \notin Keys => \E i \in DOMAIN t.reg : t.reg[i] = s.reg[j],
           t.held = s.held, t.made = s.made, t.marks = s.marks, t.next = s.next,
           t.enabled = s.enabled
    PROVE  Sound(t)
  <1> USE DEF Sound, SoundBut
  <1>1. Numbered(t) /\ Named(t) /\ Owned(t)
    BY DEF Numbered, Named, Owned
  <1>2. \A sub : Accepts(s, sub) => Accepts(t, sub)
    BY KeymapsAssumption DEF Accepts
  <1>3. \A sub, key : key \notin Keys /\ Armed(s, sub, key) => Armed(t, sub, key)
    BY DEF Armed
  <1>4. Ways(t, {})
    BY <1>3, KeymapsAssumption DEF Ways
  <1>5. Exits(t)
    BY <1>2 DEF Exits, Abandons
  <1>6. QED
    BY <1>1, <1>4, <1>5

\* t is s with one more bind, on `key` in the submap `sub`.
Added(s, t, X, sub, key) ==
    /\ SoundBut(t, X) /\ Grows(s, t)
    /\ t.made = s.made /\ t.enabled = s.enabled /\ t.marks = s.marks
    /\ \E i \in DOMAIN t.reg : t.reg[i].sub = sub /\ t.reg[i].key = key /\ t.reg[i].on

\* Registering a bind: a fresh record, or one more time a record of the config's.
LEMMA AddKeeps ==
    ASSUME NEW s, NEW X, SoundBut(s, X), NEW k \in s.made, NEW rec \in 1 .. s.next,
           NEW key \in Keys \cup {"s-G", "catchall"}, NEW want \in Submaps \cup {Stay},
           NEW exit \in Submaps \cup {Stay}, NEW user \in BOOLEAN,
           user => key \in Keys,
           rec # s.next =>
             user /\ \A i \in DOMAIN s.reg : s.reg[i].rec = rec => s.reg[i].user,
           key = "catchall" /\ Chain(k[2]) =>
             exit = Stay /\ want \in {<<>>, Base[k[1]]} /\ Accepts(s, want)
    PROVE  Added(s, KeymapAdd(s, k, rec, key, want, exit, user), X, k[2], key)
  <1> DEFINE t == KeymapAdd(s, k, rec, key, want, exit, user)
             b == [rec |-> rec, sub |-> k[2], key |-> key, on |-> TRUE, want |-> want,
                   exit |-> exit, user |-> user, root |-> k[1]]
             n == Len(s.reg)
  <1>1. /\ s.reg \in Seq(Bind) /\ s.held \in SUBSET (Keymap \X Nat)
        /\ s.made \in SUBSET Keymap /\ s.next \in Nat \ {0} /\ s \in KM
        /\ s.marks \in SUBSET (Keymap \X {"exit", "catchall"})
        /\ s.enabled \in SUBSET Keymap
    BY DEF SoundBut, KM
  <1>2. k[1] \in Roots /\ k[2] \in Submaps /\ k \in Keymap
    BY <1>1 DEF Keymap
  <1>3. b \in Bind /\ rec \in Nat
    BY <1>1, <1>2 DEF Bind
  <1>4. /\ t.reg = Append(s.reg, b) /\ t.held = s.held \cup {<<k, rec>>}
        /\ t.next = IF rec = s.next THEN s.next + 1 ELSE s.next
        /\ t.made = s.made /\ t.enabled = s.enabled /\ t.marks = s.marks
        /\ t = [reg |-> t.reg, held |-> t.held, made |-> t.made, marks |-> t.marks,
                enabled |-> t.enabled, next |-> t.next]
    <2> HIDE DEF b
    <2>1. t = [s EXCEPT !.reg = Append(@, b), !.held = @ \cup {<<k, rec>>},
                        !.next = IF rec = @ THEN @ + 1 ELSE @]
      BY DEF KeymapAdd, b
    <2> HIDE DEF t
    <2>2. s = [reg |-> s.reg, held |-> s.held, made |-> s.made, marks |-> s.marks,
               enabled |-> s.enabled, next |-> s.next]
      BY <1>1 DEF KM
    <2>3. QED
      BY <2>1, <2>2
  <1> HIDE DEF t, b
  <1>5. /\ n \in Nat /\ DOMAIN s.reg = 1 .. n /\ DOMAIN t.reg = 1 .. n + 1
        /\ \A i \in DOMAIN s.reg : i \in DOMAIN t.reg /\ t.reg[i] = s.reg[i]
        /\ n + 1 \in DOMAIN t.reg /\ t.reg[n + 1] = b
        /\ \A i \in DOMAIN t.reg : i \in DOMAIN s.reg \/ i = n + 1
        /\ t.reg \in Seq(Bind)
    BY <1>1, <1>3, <1>4
  <1> HIDE DEF n
  <1>6. Grows(s, t)
    BY <1>5 DEF Grows
  <1>7. t \in KM
    <2>1. t.held \in SUBSET (Keymap \X Nat) /\ t.next \in Nat \ {0}
      BY <1>1, <1>2, <1>3, <1>4
    <2>2. QED
      BY <1>1, <1>4, <1>5, <2>1 DEF KM
  <1>8. /\ b.rec = rec /\ b.sub = k[2] /\ b.key = key /\ b.on /\ b.want = want
        /\ b.exit = exit /\ b.user = user /\ b.root = k[1]
    BY DEF b
  <1>9. /\ 1 .. s.next - 1 \subseteq 1 .. t.next - 1 /\ rec \in 1 .. t.next - 1
        /\ s.next \notin 1 .. s.next - 1
    BY <1>1, <1>4
  <1>10. /\ \A i \in DOMAIN s.reg : s.reg[i].rec \in 1 .. s.next - 1
         /\ s.held \subseteq s.made \X (1 .. s.next - 1)
    BY DEF SoundBut, Numbered
  <1>11. Numbered(t)
    <2>1. \A i \in DOMAIN t.reg : t.reg[i].rec \in 1 .. t.next - 1
      BY <1>5, <1>8, <1>9, <1>10
    <2>2. t.held \subseteq t.made \X (1 .. t.next - 1)
      BY <1>4, <1>9, <1>10
    <2>3. QED
      BY <1>4, <2>1, <2>2 DEF SoundBut, Numbered
  <1>12. Named(t)
    BY <1>4 DEF SoundBut, Named
  <1>13. Owned(t)
    <2>1. ASSUME NEW i \in DOMAIN t.reg, NEW j \in DOMAIN t.reg, t.reg[i].rec = t.reg[j].rec
          PROVE  t.reg[i].user = t.reg[j].user
      <3>1. \A a \in DOMAIN s.reg : s.reg[a].rec = rec => s.reg[a].user = user
        <4>1. CASE rec = s.next
          BY <1>9, <1>10, <4>1
        <4>2. CASE rec # s.next
          <5>1. \A a \in DOMAIN s.reg : s.reg[a] \in Bind
            BY <1>1
          <5>2. \A a \in DOMAIN s.reg : s.reg[a].user \in BOOLEAN
            BY <5>1 DEF Bind
          <5>3. user = TRUE
            BY <4>2
          <5>4. QED
            BY <4>2, <5>2, <5>3
        <4>3. QED
          BY <4>1, <4>2
      <3>2. QED
        BY <1>5, <1>8, <2>1, <3>1 DEF SoundBut, Owned
    <2>2. \A i \in DOMAIN t.reg : t.reg[i].user => t.reg[i].key \in Keys
      BY <1>5, <1>8 DEF SoundBut, Owned
    <2>3. ASSUME NEW i \in DOMAIN t.reg, NEW c \in t.made, ~t.reg[i].user,
                 <<c, t.reg[i].rec>> \in t.held
          PROVE  c[2] = t.reg[i].sub
      <3>1. CASE i \in DOMAIN s.reg
        <4>1. s.reg[i].rec # rec
          <5>1. CASE rec = s.next
            BY <1>9, <1>10, <3>1, <5>1
          <5>2. CASE rec # s.next
            BY <1>5, <2>3, <3>1, <5>2
          <5>3. QED
            BY <5>1, <5>2
        <4>2. <<c, s.reg[i].rec>> \in s.held
          BY <1>4, <1>5, <2>3, <3>1, <4>1
        <4>3. QED
          BY <1>4, <1>5, <2>3, <3>1, <4>2 DEF SoundBut, Owned
      <3>2. CASE i = n + 1
        <4>1. t.reg[i].rec = rec /\ ~user /\ rec = s.next
          BY <1>5, <1>8, <2>3, <3>2
        <4>2. <<c, rec>> \notin s.held
          BY <1>9, <1>10, <4>1
        <4>3. c = k
          BY <1>4, <2>3, <4>1, <4>2
        <4>4. QED
          BY <1>5, <1>8, <3>2, <4>3
      <3>3. QED
        BY <1>5, <3>1, <3>2
    <2>4. QED
      BY <2>1, <2>2, <2>3 DEF Owned
  <1>14. Ways(t, X)
    BY <1>4, <1>6, GrowsKeeps DEF SoundBut, Ways
  <1>15. Exits(t)
    <2>1. \A c : Abandons(s, c) => Abandons(t, c)
      BY <1>6, GrowsKeeps DEF Abandons
    <2>2. Abandons(s, b)
      BY <1>8 DEF Abandons
    <2>3. \A i \in DOMAIN t.reg : Abandons(t, t.reg[i])
      BY <1>5, <2>1, <2>2 DEF SoundBut, Exits
    <2>4. \A r \in Roots : <<Root(r), "exit">> \in t.marks => Accepts(t, Base[r])
      BY <1>4, <1>6, GrowsKeeps DEF SoundBut, Exits
    <2>5. QED
      BY <2>3, <2>4 DEF Exits
  <1>16. SoundBut(t, X)
    BY <1>7, <1>11, <1>12, <1>13, <1>14, <1>15 DEF SoundBut
  <1>17. \E i \in DOMAIN t.reg : t.reg[i].sub = k[2] /\ t.reg[i].key = key /\ t.reg[i].on
    BY <1>5, <1>8
  <1>18. QED
    BY <1>4, <1>6, <1>16, <1>17 DEF Added, t

\* A mark is put on a keymap: an exit, where the compositor accepts its submap.
LEMMA MarkKeeps ==
    ASSUME NEW s, NEW X, SoundBut(s, X), NEW k \in s.made, NEW mark \in {"exit", "catchall"},
           NEW t \in KM, t.reg = s.reg, t.held = s.held, t.made = s.made,
           t.enabled = s.enabled, t.next = s.next, t.marks = s.marks \cup {<<k, mark>>},
           mark = "exit" /\ k = Root(k[1]) => Accepts(s, Base[k[1]])
    PROVE  SoundBut(t, X)
  <1>1. Numbered(t) /\ Named(t) /\ Owned(t) /\ Ways(t, X)
    BY DEF SoundBut, Numbered, Named, Owned, Ways, Armed
  <1>2. \A sub : Accepts(t, sub) <=> Accepts(s, sub)
    BY DEF Accepts
  <1>3. \A i \in DOMAIN t.reg : Abandons(t, t.reg[i])
    BY <1>2 DEF SoundBut, Exits, Abandons
  <1>4. ASSUME NEW r \in Roots, <<Root(r), "exit">> \in t.marks PROVE Accepts(t, Base[r])
    <2>1. CASE <<Root(r), "exit">> \in s.marks
      BY <1>2, <2>1 DEF SoundBut, Exits
    <2>2. CASE <<Root(r), "exit">> = <<k, mark>>
      <3>1. k = Root(r) /\ mark = "exit" /\ k[1] = r
        BY <2>2, RootSubmap
      <3>2. QED
        BY <1>2, <3>1
    <2>3. QED
      BY <1>4, <2>1, <2>2
  <1>5. QED
    BY <1>1, <1>3, <1>4 DEF SoundBut, Exits

\* t is s with the mark on k, and with the bind it stands for.
Marked(s, t, X, k, mark, key) ==
    /\ SoundBut(t, X) /\ Grows(s, t)
    /\ t.made = s.made /\ t.enabled = s.enabled
    /\ t.marks = s.marks \cup {<<k, mark>>}
    /\ <<k, mark>> \notin s.marks => Armed(t, k[2], key)

\* A way out is registered once, for good.
LEMMA OnceKeeps ==
    ASSUME NEW s, NEW X, SoundBut(s, X), NEW k \in s.made, NEW mark \in {"exit", "catchall"},
           NEW key \in {"s-G", "catchall"}, mark = "exit" => key = "s-G", NEW to \in Submaps,
           key = "catchall" /\ Chain(k[2]) => to \in {<<>>, Base[k[1]]} /\ Accepts(s, to)
    PROVE  Marked(s, Once(s, k, mark, key, to), X, k, mark, key)
  <1> DEFINE t == Once(s, k, mark, key, to)
             s1 == [s EXCEPT !.marks = @ \cup {<<k, mark>>}]
             u == KeymapAdd(s, k, s.next, key, to, Stay, FALSE)
             b == [rec |-> s.next, sub |-> k[2], key |-> key, on |-> TRUE, want |-> to,
                   exit |-> Stay, user |-> FALSE, root |-> k[1]]
  <1>1. CASE <<k, mark>> \in s.marks
    BY <1>1 DEF Once, Grows, Marked
  <1>2. CASE <<k, mark>> \notin s.marks
    <2>1. s.next \in Nat \ {0} /\ s.next \in 1 .. s.next
      <3>1. s \in KM
        BY DEF SoundBut
      <3>2. s.next \in Nat \ {0}
        BY <3>1 DEF KM
      <3>3. QED
        BY <3>2
    <2>2. /\ SoundBut(u, X) /\ Grows(s, u)
          /\ u.made = s.made /\ u.enabled = s.enabled /\ u.marks = s.marks
          /\ \E i \in DOMAIN u.reg : u.reg[i].sub = k[2] /\ u.reg[i].key = key /\ u.reg[i].on
      <3>1. Added(s, u, X, k[2], key)
        BY <2>1, AddKeeps
      <3> HIDE DEF u
      <3>2. QED
        BY <3>1 DEF Added
    <2>3. t = KeymapAdd(s1, k, s1.next, key, to, Stay, FALSE)
      BY <1>2 DEF Once, Switch
    <2>4. s = [reg |-> s.reg, held |-> s.held, made |-> s.made, marks |-> s.marks,
               enabled |-> s.enabled, next |-> s.next]
      BY DEF SoundBut, KM
    <2>5. u = [reg |-> Append(s.reg, b), held |-> s.held \cup {<<k, s.next>>},
               made |-> s.made, marks |-> s.marks, enabled |-> s.enabled,
               next |-> s.next + 1]
      <3> HIDE DEF b
      <3>1. u = [s EXCEPT !.reg = Append(@, b), !.held = @ \cup {<<k, s.next>>},
                          !.next = IF s.next = @ THEN @ + 1 ELSE @]
        BY DEF KeymapAdd, b
      <3> HIDE DEF u
      <3>2. QED
        BY <2>4, <3>1
    <2>6. s1 = [reg |-> s.reg, held |-> s.held, made |-> s.made,
                marks |-> s.marks \cup {<<k, mark>>}, enabled |-> s.enabled,
                next |-> s.next]
      <3> DEFINE M == s.marks \cup {<<k, mark>>}
      <3>1. s1 = [s EXCEPT !.marks = M]
        OBVIOUS
      <3> HIDE DEF s1, M
      <3>2. s1 = [reg |-> s.reg, held |-> s.held, made |-> s.made, marks |-> M,
                  enabled |-> s.enabled, next |-> s.next]
        BY <2>4, <3>1
      <3>3. QED
        BY <3>2 DEF M
    <2>7. t = [reg |-> Append(s.reg, b), held |-> s.held \cup {<<k, s.next>>},
               made |-> s.made, marks |-> s.marks \cup {<<k, mark>>},
               enabled |-> s.enabled, next |-> s.next + 1]
      <3> HIDE DEF b, s1, t
      <3>1. s1.next = s.next
        BY <2>6
      <3>2. t = [s1 EXCEPT !.reg = Append(@, b), !.held = @ \cup {<<k, s.next>>},
                           !.next = IF s.next = @ THEN @ + 1 ELSE @]
        BY <2>3, <3>1 DEF KeymapAdd, b
      <3>3. QED
        BY <2>6, <3>2
    <2> HIDE DEF u, t, b, s1
    <2>8. /\ t.reg = u.reg /\ t.held = u.held /\ t.made = u.made /\ t.enabled = u.enabled
          /\ t.next = u.next /\ t.marks = u.marks \cup {<<k, mark>>}
      BY <2>5, <2>7
    <2>9. u \in KM /\ s.made \in SUBSET Keymap
      BY <2>2 DEF SoundBut, KM
    <2>10. t \in KM
      <3>1. u.marks \cup {<<k, mark>>} \in SUBSET (Keymap \X {"exit", "catchall"})
        <4>1. u.marks \in SUBSET (Keymap \X {"exit", "catchall"})
          BY <2>9 DEF KM
        <4>2. QED
          BY <2>9, <4>1
      <3>2. /\ u.reg \in Seq(Bind) /\ u.held \in SUBSET (Keymap \X Nat)
            /\ u.made \in SUBSET Keymap /\ u.enabled \in SUBSET Keymap
            /\ u.next \in Nat \ {0}
        BY <2>9 DEF KM
      <3>3. t = [reg |-> u.reg, held |-> u.held, made |-> u.made,
                 marks |-> u.marks \cup {<<k, mark>>}, enabled |-> u.enabled,
                 next |-> u.next]
        BY <2>7, <2>8
      <3>4. QED
        BY <3>1, <3>2, <3>3 DEF KM
    <2>11. mark = "exit" /\ k = Root(k[1]) => Accepts(u, Base[k[1]])
      <3>1. k = Root(k[1]) => k[2] = Base[k[1]]
        BY DEF Root
      <3>2. mark = "exit" => Accepts(u, k[2])
        BY <2>2 DEF Accepts
      <3>3. QED
        BY <3>1, <3>2
    <2>12. SoundBut(t, X)
      BY <2>2, <2>8, <2>10, <2>11, MarkKeeps
    <2>13. Grows(s, t) /\ Armed(t, k[2], key)
      BY <2>2, <2>8 DEF Grows, Armed
    <2>14. QED
      BY <2>2, <2>8, <2>12, <2>13 DEF t, Marked
  <1>3. QED
    BY <1>1, <1>2

\* The s-G of a keymap, and its catchall.
LEMMA ExitOnce ==
    ASSUME NEW s, NEW X, SoundBut(s, X), NEW k \in s.made, NEW to \in Submaps
    PROVE  Marked(s, Once(s, k, "exit", "s-G", to), X, k, "exit", "s-G")
  <1>1. /\ "exit" \in {"exit", "catchall"} /\ "s-G" \in {"s-G", "catchall"}
        /\ "exit" = "exit" => "s-G" = "s-G" /\ ~("s-G" = "catchall")
    OBVIOUS
  <1>2. QED
    BY <1>1, OnceKeeps

LEMMA CatchallOnce ==
    ASSUME NEW s, NEW X, SoundBut(s, X), NEW k \in s.made, NEW to \in Submaps,
           Chain(k[2]) => to \in {<<>>, Base[k[1]]} /\ Accepts(s, to)
    PROVE  Marked(s, Once(s, k, "catchall", "catchall", to), X, k, "catchall", "catchall")
  <1>1. /\ "catchall" \in {"exit", "catchall"} /\ "catchall" \in {"s-G", "catchall"}
        /\ ~("catchall" = "exit")
    OBVIOUS
  <1>2. QED
    BY <1>1, OnceKeeps

\* A root is given its exit.
LEMMA RootExitKeeps ==
    ASSUME NEW s, Sound(s), NEW r \in Roots, Root(r) \in s.made, NEW c \in BOOLEAN
    PROVE  LET t == EnsureExit(s, Root(r), <<>>, c)
           IN  /\ Sound(t) /\ t.made = s.made /\ t.enabled = s.enabled
               /\ Accepts(t, Base[r])
  <1> DEFINE k == Root(r)
             g == Once(s, k, "exit", "s-G", <<>>)
             h == Once(g, k, "catchall", "catchall", <<>>)
             t == EnsureExit(s, k, <<>>, c)
  <1>1. k[2] = Base[r] /\ ~Chain(k[2]) /\ <<>> \in Submaps /\ k \in s.made
    BY RootSubmap
  <1> HIDE DEF k
  <1>2. CASE k[2] = <<>>
    <2>1. t = s
      BY <1>2 DEF EnsureExit
    <2>2. QED
      BY <1>1, <1>2, <2>1 DEF k, Accepts
  <1>3. CASE k[2] # <<>>
    <2>1. /\ SoundBut(g, {}) /\ g.made = s.made /\ g.enabled = s.enabled
          /\ <<k, "exit">> \in g.marks
      <3>1. Marked(s, g, {}, k, "exit", "s-G")
        BY <1>1, ExitOnce DEF Sound
      <3> HIDE DEF g
      <3>2. QED
        BY <3>1 DEF Marked
    <2>2. c => t = h
      BY <1>3 DEF EnsureExit
    <2>3. ~c => t = g
      BY <1>3 DEF EnsureExit
    <2> HIDE DEF g, t
    <2>4. /\ SoundBut(h, {}) /\ h.made = s.made /\ h.enabled = s.enabled
          /\ <<k, "exit">> \in h.marks
      <3>1. k \in g.made
        BY <1>1, <2>1
      <3>2. Marked(g, h, {}, k, "catchall", "catchall")
        BY <1>1, <2>1, <3>1, CatchallOnce
      <3> HIDE DEF h
      <3>3. QED
        BY <2>1, <3>2 DEF Marked
    <2> HIDE DEF h
    <2>5. /\ SoundBut(t, {}) /\ t.made = s.made /\ t.enabled = s.enabled
          /\ <<k, "exit">> \in t.marks
      BY <2>1, <2>2, <2>3, <2>4
    <2>6. Accepts(t, Base[r])
      BY <2>5 DEF SoundBut, Exits, k
    <2>7. QED
      BY <2>5, <2>6 DEF Sound, t, k
  <1>4. QED
    BY <1>2, <1>3

\* The keymap of a prefix is given its ways out.
LEMMA ChildExitKeeps ==
    ASSUME NEW s, NEW k \in s.made, SoundBut(s, {k}), Chain(k[2]),
           NEW to \in {<<>>, Base[k[1]]}, Accepts(s, to),
           \A mark : <<k, mark>> \notin s.marks
    PROVE  LET t == EnsureExit(s, k, to, TRUE)
           IN  /\ Sound(t) /\ t.made = s.made /\ t.enabled = s.enabled /\ Grows(s, t)
  <1> DEFINE g == Once(s, k, "exit", "s-G", to)
             h == Once(g, k, "catchall", "catchall", to)
             t == EnsureExit(s, k, to, TRUE)
  <1>1. t = h
    BY DEF EnsureExit, Chain
  <1>2. to \in Submaps
    <2>1. k[1] \in Roots
      BY DEF SoundBut, KM, Keymap
    <2>2. QED
      BY <2>1, RootSubmap
  <1>3. /\ SoundBut(g, {k}) /\ g.made = s.made /\ g.enabled = s.enabled /\ Grows(s, g)
        /\ g.marks = s.marks \cup {<<k, "exit">>}
        /\ Armed(g, k[2], "s-G")
    <2>1. Marked(s, g, {k}, k, "exit", "s-G")
      <3> HIDE DEF h, t
      <3>1. SoundBut(s, {k}) /\ k \in s.made /\ to \in Submaps
        BY <1>2
      <3>2. QED
        BY <3>1, ExitOnce
    <2> HIDE DEF g
    <2>2. QED
      BY <2>1 DEF Marked
  <1> HIDE DEF g, t
  <1>4. Accepts(g, to) /\ <<k, "catchall">> \notin g.marks /\ k \in g.made
    BY <1>3, GrowsKeeps
  <1>5. /\ SoundBut(h, {k}) /\ h.made = s.made /\ h.enabled = s.enabled /\ Grows(g, h)
        /\ Armed(h, k[2], "catchall")
    <2>1. Marked(g, h, {k}, k, "catchall", "catchall")
      BY <1>2, <1>3, <1>4, CatchallOnce
    <2> HIDE DEF h
    <2>2. QED
      BY <1>3, <1>4, <2>1 DEF Marked
  <1> HIDE DEF h
  <1>6. Armed(h, k[2], "s-G")
    BY <1>3, <1>5, GrowsKeeps
  <1>7. Sound(h)
    BY <1>5, <1>6 DEF Sound, SoundBut, Ways
  <1>8. Grows(s, h)
    BY <1>3, <1>5 DEF Grows
  <1>9. QED
    BY <1>1, <1>5, <1>7, <1>8 DEF t

\* A keymap is made: one of a prefix still lacks its ways out.
LEMMA MakeKeeps ==
    ASSUME NEW s, Sound(s), NEW k \in Keymap, k \notin s.made, k = Root(k[1]) \/ Chain(k[2])
    PROVE  LET t == MakeKeymap(s, k)
           IN  /\ SoundBut(t, {k}) /\ (k = Root(k[1]) => Sound(t))
               /\ t.made = s.made \cup {k} /\ t.enabled = s.enabled \cup {k}
               /\ t.reg = s.reg /\ \A mark : <<k, mark>> \notin t.marks
  <1> DEFINE t == MakeKeymap(s, k)
             M == s.made \cup {k}
             E == s.enabled \cup {k}
  <1>1. /\ s \in KM /\ s.reg \in Seq(Bind) /\ s.held \in SUBSET (Keymap \X Nat)
        /\ s.made \in SUBSET Keymap /\ s.next \in Nat \ {0}
        /\ s.marks \in SUBSET (Keymap \X {"exit", "catchall"})
        /\ s.enabled \in SUBSET Keymap
    BY DEF Sound, SoundBut, KM
  <1>2. t = [s EXCEPT !.made = M, !.enabled = E]
    BY DEF MakeKeymap
  <1> HIDE DEF t
  <1>3. M \in SUBSET Keymap /\ E \in SUBSET Keymap /\ s.made \subseteq M /\ k \in M
    BY <1>1
  <1>4. t = [reg |-> s.reg, held |-> s.held, made |-> M, marks |-> s.marks,
             enabled |-> E, next |-> s.next]
    <2> HIDE DEF M, E
    <2>1. QED
      BY <1>1, <1>2 DEF KM
  <1>5. /\ t.reg = s.reg /\ t.held = s.held /\ t.made = M /\ t.marks = s.marks
        /\ t.enabled = E /\ t.next = s.next
    <2> HIDE DEF M, E
    <2>1. QED
      BY <1>4
  <1>6. t \in KM
    <2> HIDE DEF M, E
    <2>1. QED
      BY <1>1, <1>3, <1>4 DEF KM
  <1>7. /\ s.held \subseteq s.made \X (1 .. s.next - 1)
        /\ s.marks \subseteq s.made \X {"exit", "catchall"}
        /\ \A i \in DOMAIN s.reg : s.reg[i].rec \in 1 .. s.next - 1
        /\ s.enabled \subseteq s.made
    BY DEF Sound, SoundBut, Numbered
  <1>8. Numbered(t)
    <2>1. t.held \subseteq t.made \X (1 .. t.next - 1) /\ t.marks \subseteq t.made \X {"exit", "catchall"}
      <3> HIDE DEF M
      <3>1. QED
        BY <1>3, <1>5, <1>7
    <2>2. t.enabled \subseteq t.made
      BY <1>5, <1>7
    <2>3. QED
      BY <1>5, <1>7, <2>1, <2>2 DEF Numbered
  <1>9. Named(t)
    BY <1>5 DEF Sound, SoundBut, Named
  <1>10. Owned(t)
    <2>1. \A rec : <<k, rec>> \notin s.held
      BY <1>7
    <2>2. QED
      BY <1>5, <2>1 DEF Sound, SoundBut, Owned
  <1>11. \A sub, key : Armed(t, sub, key) <=> Armed(s, sub, key)
    BY <1>5 DEF Armed
  <1>12. \A sub : Accepts(t, sub) <=> Accepts(s, sub)
    BY <1>5 DEF Accepts
  <1>13. Ways(t, {k})
    BY <1>5, <1>11 DEF Sound, SoundBut, Ways
  <1>14. Exits(t)
    BY <1>5, <1>12 DEF Sound, SoundBut, Exits, Abandons
  <1>15. SoundBut(t, {k})
    BY <1>6, <1>8, <1>9, <1>10, <1>13, <1>14 DEF SoundBut
  <1>16. k = Root(k[1]) => Sound(t)
    <2>1. k = Root(k[1]) => ~Chain(k[2])
      <3>1. k[1] \in Roots
        BY DEF Keymap
      <3>2. QED
        BY <3>1, RootSubmap
    <2>2. QED
      BY <1>13, <1>15, <2>1 DEF Sound, SoundBut, Ways
  <1>17. \A mark : <<k, mark>> \notin t.marks
    BY <1>5, <1>7
  <1>18. QED
    BY <1>5, <1>15, <1>16, <1>17 DEF t

\* How far define-key! has come: the keymap `k` it is in, of the root r, and the binds s,
\* in which the roots are those of s0 and the exit of the sequence is accepted.
On(s0, r, exit) ==
    {at \in [s : KM, k : Keymap] :
       /\ Sound(at.s) /\ at.k \in at.s.made /\ at.k[1] = r
       /\ Accepts(at.s, exit) /\ RootsSame(s0, at.s)}

\* One chord further down.
LEMMA DescendKeeps ==
    ASSUME NEW s0, NEW r \in Roots, NEW exit \in {<<>>, Base[r]}, NEW at \in On(s0, r, exit),
           NEW chord \in Keys
    PROVE  Descend(at, chord, exit) \in On(s0, r, exit)
  <1> DEFINE child == <<at.k[1], Append(at.k[2], chord)>>
             m == MakeKeymap(at.s, child)
             w == Switch(m, at.k, chord, child[2])
             t == EnsureExit(w, child, exit, TRUE)
             d == Descend(at, chord, exit)
  <1>1. /\ at \in [s : KM, k : Keymap] /\ Sound(at.s) /\ at.k \in at.s.made /\ at.k[1] = r
        /\ Accepts(at.s, exit) /\ RootsSame(s0, at.s)
    BY DEF On
  <1>2. at.k \in Keymap /\ at.k[2] \in Submaps /\ at.s \in KM
    BY <1>1 DEF Keymap
  <1>3. chord \in Words /\ chord # "catchall"
    BY KeymapsAssumption DEF Words
  <1>4. child[2] \in Submaps /\ Chain(child[2])
    <2> DEFINE c2 == Append(at.k[2], chord)
    <2>1. c2 \in Seq(Words) /\ Len(c2) = Len(at.k[2]) + 1 /\ c2[Len(at.k[2]) + 1] = chord
          /\ c2 # <<>>
      BY <1>2, <1>3 DEF Submaps
    <2> HIDE DEF c2
    <2>2. Last(c2) = chord
      BY <2>1 DEF Last
    <2>3. QED
      BY <2>1, <2>2 DEF Submaps, Chain, c2
  <1>5. child \in Keymap /\ child[1] = r
    BY <1>1, <1>4 DEF Keymap
  <1>6. \A q \in Roots : child # Root(q)
    BY <1>4, RootSubmap
  <1>7. d = [k |-> child, s |-> IF child \in at.s.made THEN at.s ELSE t]
    BY DEF Descend
  <1> HIDE DEF child, d, t
  <1>8. CASE child \in at.s.made
    <2>1. d = [k |-> child, s |-> at.s]
      BY <1>7, <1>8
    <2>2. QED
      BY <1>1, <1>2, <1>5, <1>8, <2>1 DEF On, d
  <1>9. CASE child \notin at.s.made
    <2>1. /\ SoundBut(m, {child}) /\ m.made = at.s.made \cup {child}
          /\ m.enabled = at.s.enabled \cup {child}
          /\ m.reg = at.s.reg /\ \A mark : <<child, mark>> \notin m.marks
      <3> HIDE DEF m
      <3>1. QED
        BY <1>1, <1>4, <1>5, <1>9, MakeKeeps DEF m
    <2> HIDE DEF m
    <2>2. m.next \in Nat \ {0} /\ m.next \in 1 .. m.next
      <3>1. m \in KM
        BY <2>1 DEF SoundBut
      <3>2. m.next \in Nat \ {0}
        BY <3>1 DEF KM
      <3>3. QED
        BY <3>2
    <2>3. Added(m, w, {child}, at.k[2], chord)
      <3>1. w = KeymapAdd(m, at.k, m.next, chord, child[2], Stay, FALSE)
        BY DEF Switch
      <3> HIDE DEF w
      <3>2. at.k \in m.made
        BY <1>1, <2>1
      <3>3. Added(m, KeymapAdd(m, at.k, m.next, chord, child[2], Stay, FALSE), {child},
                  at.k[2], chord)
        BY <1>3, <1>4, <2>1, <2>2, <3>2, AddKeeps
      <3>4. QED
        BY <3>1, <3>3
    <2> HIDE DEF w
    <2>4. /\ SoundBut(w, {child}) /\ w.made = m.made /\ w.enabled = m.enabled
          /\ w.marks = m.marks /\ Grows(m, w)
      BY <2>3 DEF Added
    <2>5. Accepts(w, exit)
      <3>1. Accepts(m, exit)
        BY <1>1, <2>1 DEF Accepts
      <3>2. QED
        BY <2>4, <3>1, GrowsKeeps
    <2>6. Sound(t) /\ t.made = w.made /\ t.enabled = w.enabled /\ Grows(w, t)
      <3>1. child \in w.made /\ \A mark : <<child, mark>> \notin w.marks
        BY <2>1, <2>4
      <3>2. exit \in {<<>>, Base[child[1]]}
        BY <1>5
      <3>3. QED
        BY <1>4, <2>4, <2>5, <3>1, <3>2, ChildExitKeeps DEF t
    <2>7. Accepts(t, exit)
      BY <2>5, <2>6, GrowsKeeps
    <2>8. RootsSame(s0, t)
      BY <1>1, <1>6, <2>1, <2>4, <2>6 DEF RootsSame
    <2>9. t \in KM /\ child \in t.made
      BY <2>1, <2>4, <2>6 DEF Sound, SoundBut
    <2>10. d = [k |-> child, s |-> t]
      BY <1>7, <1>9
    <2>11. QED
      BY <1>5, <2>6, <2>7, <2>8, <2>9, <2>10 DEF On, d
  <1>10. QED
    BY <1>8, <1>9

\* All the chords but the last.
LEMMA DescendAllKeeps ==
    ASSUME NEW s0, NEW r \in Roots, NEW exit \in {<<>>, Base[r]}, NEW at \in On(s0, r, exit),
           NEW chords \in Seq(Keys)
    PROVE  DescendAll(at, chords, exit) \in On(s0, r, exit)
  <1> DEFINE n == Len(chords)
             A == On(s0, r, exit)
             F == [p \in A \X (1 .. n) |-> Descend(p[1], chords[p[2]], exit)]
             IsDown(f) == f = [S \in SUBSET (1 .. n) |->
                 IF S = {} THEN at ELSE Descend(f[S \ {Max(S)}], chords[Max(S)], exit)]
             down == CHOOSE f : IsDown(f)
             Good == {S \in SUBSET (1 .. n) : down[S] \in A}
  <1>1. n \in Nat /\ DOMAIN chords = 1 .. n /\ \A i \in 1 .. n : chords[i] \in Keys
    OBVIOUS
  <1> HIDE DEF A
  <1>2. \A a \in A, i \in 1 .. n : Descend(a, chords[i], exit) \in A
    BY <1>1, DescendKeeps DEF A
  <1>3. F \in [A \X (1 .. n) -> A]
    <2> HIDE DEF n
    <2>1. QED
      BY <1>2
  <1>4. \A S \in SUBSET (1 .. n) : S # {} => Max(S) \in 1 .. n /\ S \ {Max(S)} \in SUBSET (1 .. n)
    <2> HIDE DEF n
    <2>1. QED
      BY <1>1, MaxPlace
  <1>5. PICK f \in [SUBSET (1 .. n) -> A] : IsFold(f, at, F, 1 .. n)
    <2> HIDE DEF F, n
    <2>1. at \in A
      BY DEF A
    <2>2. QED
      BY <1>1, <1>3, <2>1, FoldTyped
  <1>6. IsDown(f)
    <2> HIDE DEF n
    <2> DEFINE h == [S \in SUBSET (1 .. n) |->
                 IF S = {} THEN at ELSE Descend(f[S \ {Max(S)}], chords[Max(S)], exit)]
    <2>1. ASSUME NEW S \in SUBSET (1 .. n) PROVE f[S] = h[S]
      <3>1. f[S] = IF S = {} THEN at ELSE F[<<f[S \ {Max(S)}], Max(S)>>]
        <4> HIDE DEF F
        <4>1. QED
          BY <1>5 DEF IsFold
      <3>2. S # {} => f[S \ {Max(S)}] \in A /\ Max(S) \in 1 .. n
        BY <1>4, <1>5
      <3>3. QED
        BY <3>1, <3>2
    <2>2. DOMAIN f = SUBSET (1 .. n)
      OBVIOUS
    <2>3. f = h
      BY <2>1, <2>2
    <2>4. QED
      BY <2>3
  <1>7. IsDown(down)
    <2> HIDE DEF IsDown
    <2>1. QED
      BY <1>6
  <1>8. DescendAll(at, chords, exit) = down[1 .. n]
    <2>1. DescendAll(at, chords, exit) =
            (CHOOSE g : g = [S \in SUBSET DOMAIN chords |->
               IF S = {} THEN at ELSE Descend(g[S \ {Max(S)}], chords[Max(S)], exit)])[DOMAIN chords]
      BY DEF DescendAll, FoldLeft, MapThenFoldSet
    <2>2. QED
      BY <1>1, <2>1
  <1>9. \A S \in SUBSET (1 .. n) : down[S] =
          IF S = {} THEN at ELSE Descend(down[S \ {Max(S)}], chords[Max(S)], exit)
    <2> HIDE DEF down, n
    <2>1. QED
      BY <1>7
  <1>10. Good = SUBSET (1 .. n)
    <2> HIDE DEF down, n
    <2>1. {} \in Good
      BY <1>9 DEF A
    <2>2. ASSUME NEW S \in SUBSET (1 .. n), S # {}, S \ {Max(S)} \in Good PROVE S \in Good
      <3>1. down[S \ {Max(S)}] \in A /\ Max(S) \in 1 .. n
        BY <1>4, <2>2
      <3>2. down[S] = Descend(down[S \ {Max(S)}], chords[Max(S)], exit)
        BY <1>9, <2>2
      <3>3. down[S] \in A
        BY <1>2, <3>1, <3>2
      <3>4. QED
        BY <3>3
    <2>3. Good \in SUBSET (SUBSET (1 .. n))
      OBVIOUS
    <2> HIDE DEF Good
    <2>4. QED
      BY <1>1, <2>1, <2>2, <2>3, PlacesInduction
  <1>11. 1 .. n \in Good
    BY <1>10
  <1> HIDE DEF down
  <1>12. QED
    BY <1>8, <1>11 DEF A

\* A whole sequence is bound.
LEMMA DefineKeeps ==
    ASSUME NEW s, Sound(s), NEW r \in Roots, Root(r) \in s.made, NEW seq \in Seqs,
           NEW topLevel \in BOOLEAN, NEW want \in Wants
    PROVE  LET t == DefineKeyIn(s, r, seq, topLevel, want)
           IN  Sound(t) /\ RootsSame(s, t)
  <1> DEFINE exit == IF topLevel THEN <<>> ELSE Base[r]
             base == EnsureExit(s, Root(r), <<>>, Base[r] # exit)
             last == DescendAll([s |-> base, k |-> Root(r)], Front(seq), exit)
             t == DefineKeyIn(s, r, seq, topLevel, want)
  <1>1. t = KeymapAdd(last.s, last.k, last.s.next, Last(seq), want, exit, TRUE)
    BY DEF DefineKeyIn
  <1>2. Front(seq) \in Seq(Keys) /\ Last(seq) \in Keys
    <2>1. seq \in Seq(Keys) /\ seq # <<>>
      BY KeymapsAssumption
    <2>2. Len(seq) \in Nat /\ Len(seq) >= 1
      BY <2>1
    <2>3. QED
      BY <2>1, <2>2 DEF Front, Last
  <1>3. exit \in {<<>>, Base[r]} /\ exit \in Submaps
    BY RootSubmap
  <1>4. want \in Submaps \cup {Stay}
    BY RootSubmap DEF Wants
  <1>5. (Base[r] # exit) \in BOOLEAN
    OBVIOUS
  <1> HIDE DEF exit, t
  <1>6. /\ Sound(base) /\ base.made = s.made /\ base.enabled = s.enabled
        /\ Accepts(base, Base[r])
    BY <1>5, RootExitKeeps
  <1> HIDE DEF base
  <1>7. [s |-> base, k |-> Root(r)] \in On(s, r, exit)
    <2>1. base \in KM /\ Root(r) \in Keymap /\ Root(r)[1] = r
      BY <1>6, RootSubmap DEF Sound, SoundBut
    <2>2. Accepts(base, exit)
      BY <1>3, <1>6 DEF Accepts
    <2>3. RootsSame(s, base)
      BY <1>6 DEF RootsSame
    <2>4. QED
      BY <1>6, <2>1, <2>2, <2>3 DEF On
  <1>8. last \in On(s, r, exit)
    BY <1>2, <1>3, <1>7, DescendAllKeeps
  <1> HIDE DEF last
  <1>9. /\ last.s \in KM /\ last.k \in Keymap /\ SoundBut(last.s, {}) /\ last.k \in last.s.made
        /\ RootsSame(s, last.s)
    BY <1>8 DEF On, Sound
  <1>10. last.s.next \in 1 .. last.s.next
    <2>1. last.s.next \in Nat \ {0}
      BY <1>9 DEF KM
    <2>2. QED
      BY <2>1
  <1>11. Last(seq) # "catchall" /\ Last(seq) \in Keys \cup {"s-G", "catchall"}
    BY <1>2, KeymapsAssumption
  <1>12. Added(last.s, KeymapAdd(last.s, last.k, last.s.next, Last(seq), want, exit, TRUE),
               {}, last.k[2], Last(seq))
    BY <1>2, <1>3, <1>4, <1>9, <1>10, <1>11, AddKeeps
  <1>13. Added(last.s, t, {}, last.k[2], Last(seq))
    BY <1>1, <1>12
  <1>14. Sound(t) /\ RootsSame(s, t)
    BY <1>9, <1>13 DEF Added, Sound, RootsSame
  <1>15. QED
    BY <1>14 DEF t

\* The fields of km are all there is of it.
LEMMA Fields ==
    ASSUME NEW s \in KM
    PROVE  /\ s = [reg |-> s.reg, held |-> s.held, made |-> s.made, marks |-> s.marks,
                   enabled |-> s.enabled, next |-> s.next]
           /\ s.reg \in Seq(Bind) /\ s.held \in SUBSET (Keymap \X Nat)
           /\ s.made \in SUBSET Keymap /\ s.next \in Nat \ {0}
           /\ s.marks \in SUBSET (Keymap \X {"exit", "catchall"})
           /\ s.enabled \in SUBSET Keymap
  BY DEF KM

\* Another list of binds.
LEMMA WithReg ==
    ASSUME NEW s \in KM, NEW reg
    PROVE  [s EXCEPT !.reg = reg] =
             [reg |-> reg, held |-> s.held, made |-> s.made, marks |-> s.marks,
              enabled |-> s.enabled, next |-> s.next]
  <1>1. s = [reg |-> s.reg, held |-> s.held, made |-> s.made, marks |-> s.marks,
             enabled |-> s.enabled, next |-> s.next]
    BY Fields
  <1>2. QED
    BY <1>1

\* Arming or disarming records that are not the ways out of a prefix.
LEMMA EnabledSetKeeps ==
    ASSUME NEW s, Sound(s), NEW R, NEW on \in BOOLEAN, NEW E \in SUBSET s.made,
           \A i \in DOMAIN s.reg :
             s.reg[i].rec \in R /\ ~s.reg[i].user => ~Chain(s.reg[i].sub)
    PROVE  Sound([reg |-> EnabledSet(s, R, on).reg, held |-> s.held, made |-> s.made,
                  marks |-> s.marks, enabled |-> E, next |-> s.next])
  <1> DEFINE reg == [i \in DOMAIN s.reg |->
                       IF s.reg[i].rec \in R /\ Found(s, i)
                       THEN [s.reg[i] EXCEPT !.on = on] ELSE s.reg[i]]
             t == [reg |-> reg, held |-> s.held, made |-> s.made,
                   marks |-> s.marks, enabled |-> E, next |-> s.next]
  <1>1. s \in KM
    BY DEF Sound, SoundBut
  <1>2. EnabledSet(s, R, on).reg = reg
    <2>1. EnabledSet(s, R, on) = [s EXCEPT !.reg = reg]
      BY DEF EnabledSet
    <2> HIDE DEF reg
    <2>2. [s EXCEPT !.reg = reg] =
            [reg |-> reg, held |-> s.held, made |-> s.made, marks |-> s.marks,
             enabled |-> s.enabled, next |-> s.next]
      BY <1>1, WithReg
    <2>3. QED
      BY <2>1, <2>2
  <1>3. /\ s.reg \in Seq(Bind) /\ DOMAIN s.reg = 1 .. Len(s.reg) /\ Len(s.reg) \in Nat
        /\ \A i \in DOMAIN s.reg : s.reg[i] \in Bind
    BY <1>1, Fields
  <1>4. ASSUME NEW i \in DOMAIN s.reg
        PROVE  /\ reg[i] \in Bind
               /\ reg[i] = [s.reg[i] EXCEPT !.on = reg[i].on]
               /\ ~s.reg[i].user /\ Chain(s.reg[i].sub) => reg[i].on = s.reg[i].on
    <2>1. s.reg[i] \in Bind
      BY <1>3
    <2>2. /\ [s.reg[i] EXCEPT !.on = on] \in Bind
          /\ [s.reg[i] EXCEPT !.on = on].on = on
          /\ [s.reg[i] EXCEPT !.on = s.reg[i].on] = s.reg[i]
      BY <2>1 DEF Bind
    <2>3. CASE s.reg[i].rec \in R /\ Found(s, i)
      BY <2>2, <2>3
    <2>4. CASE ~(s.reg[i].rec \in R /\ Found(s, i))
      BY <2>1, <2>2, <2>4
    <2>5. QED
      BY <2>3, <2>4
  <1>5. reg \in Seq(Bind) /\ DOMAIN reg = DOMAIN s.reg
    <2>1. reg \in [1 .. Len(s.reg) -> Bind]
      BY <1>3, <1>4
    <2> HIDE DEF reg
    <2>2. QED
      BY <1>3, <2>1
  <1> HIDE DEF reg
  <1>6. E \in SUBSET Keymap
    BY <1>1, Fields
  <1>7. t \in KM
    BY <1>1, <1>5, <1>6, Fields DEF KM
  <1>8. /\ t.reg = reg /\ t.held = s.held /\ t.made = s.made /\ t.marks = s.marks
        /\ t.next = s.next /\ t.enabled = E
    OBVIOUS
  <1> HIDE DEF t
  <1>9. Sound(t)
    BY <1>4, <1>5, <1>7, <1>8, SetKeeps
  <1>10. QED
    BY <1>2, <1>9 DEF t

\* t is s with the root armed or disarmed.
Told(s, t, r, on) ==
    /\ Sound(t) /\ t.made = s.made
    /\ t.enabled = IF on THEN s.enabled \cup {Root(r)} ELSE s.enabled \ {Root(r)}

\* A root is armed or disarmed.
LEMMA KeymapSetKeeps ==
    ASSUME NEW s, Sound(s), NEW r \in Roots, Root(r) \in s.made, NEW on \in BOOLEAN
    PROVE  Told(s, KeymapSet(s, Root(r), on), r, on)
  <1> DEFINE E == IF on THEN s.enabled \cup {Root(r)} ELSE s.enabled \ {Root(r)}
             B == Binds(s, Root(r))
             G == [i \in DOMAIN s.reg |->
                     IF s.reg[i].rec \in B /\ Found(s, i)
                     THEN [s.reg[i] EXCEPT !.on = on] ELSE s.reg[i]]
             e == EnabledSet(s, B, on)
             t == KeymapSet(s, Root(r), on)
             u == [reg |-> e.reg, held |-> s.held, made |-> s.made,
                   marks |-> s.marks, enabled |-> E, next |-> s.next]
  <1>1. s \in KM /\ s.enabled \subseteq s.made
    BY DEF Sound, SoundBut, Numbered
  <1>2. e = [s EXCEPT !.reg = G]
    BY DEF EnabledSet
  <1> HIDE DEF B, G
  <1>3. e = [reg |-> G, held |-> s.held, made |-> s.made, marks |-> s.marks,
             enabled |-> s.enabled, next |-> s.next]
    <2> HIDE DEF e
    <2>1. [s EXCEPT !.reg = G] =
            [reg |-> G, held |-> s.held, made |-> s.made, marks |-> s.marks,
             enabled |-> s.enabled, next |-> s.next]
      BY <1>1, WithReg
    <2>2. QED
      BY <1>2, <2>1
  <1>4. t = u
    <2>1. t = [e EXCEPT !.enabled = IF on THEN @ \cup {Root(r)} ELSE @ \ {Root(r)}]
      BY DEF KeymapSet, B
    <2> HIDE DEF e, t
    <2>2. t = [e EXCEPT !.enabled = E]
      BY <1>3, <2>1
    <2> HIDE DEF E
    <2>3. t = [reg |-> G, held |-> s.held, made |-> s.made, marks |-> s.marks,
               enabled |-> E, next |-> s.next]
      BY <1>3, <2>2
    <2>4. e.reg = G
      BY <1>3
    <2>5. QED
      BY <2>3, <2>4
  <1>5. E \in SUBSET s.made
    BY <1>1
  <1>6. \A i \in DOMAIN s.reg :
          s.reg[i].rec \in B /\ ~s.reg[i].user => ~Chain(s.reg[i].sub)
    <2>1. \A rec \in B : <<Root(r), rec>> \in s.held
      BY DEF B, Binds
    <2>2. Root(r)[2] = Base[r] /\ ~Chain(Base[r])
      BY RootSubmap
    <2>3. ASSUME NEW i \in DOMAIN s.reg, s.reg[i].rec \in B, ~s.reg[i].user
          PROVE  Root(r)[2] = s.reg[i].sub
      BY <2>1, <2>3 DEF Sound, SoundBut, Owned
    <2>4. QED
      BY <2>2, <2>3
  <1>7. Sound(u)
    <2> HIDE DEF E
    <2>1. QED
      BY <1>5, <1>6, EnabledSetKeeps
  <1> HIDE DEF e
  <1>8. u.made = s.made /\ u.enabled = E
    <2> HIDE DEF E
    <2>1. QED
      OBVIOUS
  <1> HIDE DEF t, u
  <1>9. QED
    BY <1>4, <1>7, <1>8 DEF t, Told

\* Every condition is applied: each keymap is then as its own says.
LEMMA ApplyKeeps ==
    ASSUME Sound(km), NEW entries \in Seq(Roots \X Conditions),
           \A i, j \in DOMAIN entries : entries[i][1] = entries[j][1] => i = j,
           \A i \in DOMAIN entries : Root(entries[i][1]) \in km.made,
           NEW w, NEW tags, NEW m \in BOOLEAN
    PROVE  LET t == ConditionApply(entries, w, tags, m)
           IN  /\ Sound(t) /\ t.made = km.made
               /\ \A i \in DOMAIN entries :
                    (Root(entries[i][1]) \in t.enabled) = Holds(entries[i][2], w, tags, m)
  <1> DEFINE n == Len(entries)
             R(i) == Root(entries[i][1])
             H(i) == Holds(entries[i][2], w, tags, m)
             A == {s \in KM : Sound(s) /\ s.made = km.made}
             F == [p \in A \X (1 .. n) |-> KeymapSet(p[1], R(p[2]), H(p[2]))]
             IsApplied(f) == f = [S \in SUBSET (1 .. n) |->
                 IF S = {} THEN km ELSE KeymapSet(f[S \ {Max(S)}], R(Max(S)), H(Max(S)))]
             told == CHOOSE f : IsApplied(f)
             Good == {S \in SUBSET (1 .. n) :
                        told[S] \in A /\ \A i \in S : (R(i) \in told[S].enabled) = H(i)}
  <1>1. /\ n \in Nat /\ DOMAIN entries = 1 .. n
        /\ \A i \in 1 .. n : entries[i][1] \in Roots /\ entries[i][2] \in Conditions
    OBVIOUS
  <1>2. \A i \in 1 .. n : H(i) \in BOOLEAN
    <2>1. \A c \in Conditions : Holds(c, w, tags, m) \in BOOLEAN
      BY KeymapsAssumption DEF Holds
    <2>2. QED
      BY <1>1, <2>1
  <1> HIDE DEF H
  <1>3. ASSUME NEW s \in A, NEW i \in 1 .. n
        PROVE  LET t == KeymapSet(s, R(i), H(i))
               IN  /\ t \in A
                   /\ t.enabled = IF H(i) THEN s.enabled \cup {R(i)} ELSE s.enabled \ {R(i)}
    <2>1. Sound(s) /\ s.made = km.made /\ entries[i][1] \in Roots /\ R(i) \in s.made
      BY <1>1
    <2> DEFINE t == KeymapSet(s, R(i), H(i))
    <2>2. /\ Sound(t) /\ t.made = s.made
          /\ t.enabled = IF H(i) THEN s.enabled \cup {R(i)} ELSE s.enabled \ {R(i)}
      <3> DEFINE on == H(i)
                 r == entries[i][1]
      <3>1. on \in BOOLEAN /\ r \in Roots /\ Root(r) \in s.made /\ Sound(s)
        BY <1>2, <2>1
      <3>2. t = KeymapSet(s, Root(r), on)
        OBVIOUS
      <3> HIDE DEF on, r, t
      <3>3. Told(s, t, r, on)
        BY <3>1, <3>2, KeymapSetKeeps
      <3>4. QED
        BY <3>3 DEF on, r, Told
    <2> HIDE DEF t
    <2>3. t \in A
      BY <2>1, <2>2 DEF Sound, SoundBut
    <2>4. QED
      BY <2>2, <2>3 DEF t
  <1>4. km \in A
    BY DEF Sound, SoundBut
  <1> HIDE DEF A
  <1>5. F \in [A \X (1 .. n) -> A]
    <2> HIDE DEF n, R
    <2>1. QED
      BY <1>3
  <1>6. \A S \in SUBSET (1 .. n) : S # {} =>
          Max(S) \in S /\ Max(S) \in 1 .. n /\ S \ {Max(S)} \in SUBSET (1 .. n)
    <2> HIDE DEF n
    <2>1. QED
      BY <1>1, MaxPlace
  <1>7. PICK f \in [SUBSET (1 .. n) -> A] : IsFold(f, km, F, 1 .. n)
    <2> HIDE DEF F, n
    <2>1. QED
      BY <1>1, <1>4, <1>5, FoldTyped
  <1>8. IsApplied(f)
    <2> HIDE DEF n, R
    <2> DEFINE h == [S \in SUBSET (1 .. n) |->
                 IF S = {} THEN km ELSE KeymapSet(f[S \ {Max(S)}], R(Max(S)), H(Max(S)))]
    <2>1. ASSUME NEW S \in SUBSET (1 .. n) PROVE f[S] = h[S]
      <3>1. f[S] = IF S = {} THEN km ELSE F[<<f[S \ {Max(S)}], Max(S)>>]
        <4> HIDE DEF F
        <4>1. QED
          BY <1>7 DEF IsFold
      <3>2. S # {} => f[S \ {Max(S)}] \in A /\ Max(S) \in 1 .. n
        BY <1>6, <1>7
      <3>3. QED
        BY <3>1, <3>2
    <2>2. DOMAIN f = SUBSET (1 .. n)
      OBVIOUS
    <2>3. f = h
      BY <2>1, <2>2
    <2>4. QED
      BY <2>3
  <1>9. IsApplied(told)
    <2> HIDE DEF IsApplied
    <2>1. QED
      BY <1>8
  <1>10. ConditionApply(entries, w, tags, m) = told[1 .. n]
    <2>1. ConditionApply(entries, w, tags, m) =
            (CHOOSE g : g = [S \in SUBSET DOMAIN entries |->
               IF S = {} THEN km ELSE KeymapSet(g[S \ {Max(S)}], R(Max(S)), H(Max(S)))])[DOMAIN entries]
      BY DEF ConditionApply, FoldLeft, MapThenFoldSet, H
    <2>2. QED
      BY <1>1, <2>1
  <1>11. \A S \in SUBSET (1 .. n) : told[S] =
           IF S = {} THEN km ELSE KeymapSet(told[S \ {Max(S)}], R(Max(S)), H(Max(S)))
    <2> HIDE DEF told, n, R
    <2>1. QED
      BY <1>9
  <1>12. \A i, j \in 1 .. n : i # j => R(i) # R(j)
    BY <1>1 DEF Root
  <1> HIDE DEF told, n, R
  <1>13. Good = SUBSET (1 .. n)
    <2>1. {} \in Good
      BY <1>4, <1>11
    <2>2. ASSUME NEW S \in SUBSET (1 .. n), S # {}, S \ {Max(S)} \in Good PROVE S \in Good
      <3> DEFINE k == Max(S)
                 s == told[S \ {k}]
                 t == KeymapSet(s, R(k), H(k))
      <3>1. k \in S /\ k \in 1 .. n
        BY <1>6, <2>2
      <3>2. s \in A /\ \A i \in S \ {k} : (R(i) \in s.enabled) = H(i)
        BY <2>2
      <3>3. told[S] = t
        BY <1>11, <2>2
      <3>4. t \in A /\ t.enabled = IF H(k) THEN s.enabled \cup {R(k)} ELSE s.enabled \ {R(k)}
        BY <1>3, <3>1, <3>2
      <3> HIDE DEF k, s, t
      <3>5. ASSUME NEW i \in S PROVE (R(i) \in t.enabled) = H(i)
        <4>1. CASE i = k
          BY <1>2, <3>1, <3>4, <4>1
        <4>2. CASE i # k
          <5>1. R(i) # R(k)
            BY <1>12, <3>1, <4>2
          <5>2. (R(i) \in s.enabled) = H(i)
            BY <3>2, <4>2
          <5>3. QED
            BY <3>4, <5>1, <5>2
        <4>3. QED
          BY <4>1, <4>2
      <3>6. QED
        BY <3>3, <3>4, <3>5
    <2>3. Good \in SUBSET (SUBSET (1 .. n))
      OBVIOUS
    <2> HIDE DEF Good
    <2>4. QED
      BY <1>1, <2>1, <2>2, <2>3, PlacesInduction
  <1>14. 1 .. n \in Good
    BY <1>13
  <1>15. told[1 .. n] \in A /\ \A i \in 1 .. n : (R(i) \in told[1 .. n].enabled) = H(i)
    BY <1>14
  <1>16. QED
    BY <1>1, <1>10, <1>15 DEF A, R, H

------------------------------------------------------------------------------
(* Keys *)

\* What a key leads to, when each bind it fires leads into E from wherever it is run.
LEMMA PressedLeads ==
    ASSUME km.reg \in Seq(Bind), NEW key, Fires(key) # {}, NEW E,
           \A i \in Fires(key), cur \in {current} \cup E : Fire(cur, km.reg[i]) \in E
    PROVE  Pressed(key) \in E
  <1> DEFINE n == Len(km.reg)
             I == Fires(key)
             A == {current} \cup E
             F == [p \in A \X I |-> Fire(p[1], km.reg[p[2]])]
             IsWay(f) == f = [S \in SUBSET I |->
                 IF S = {} THEN current ELSE Fire(f[S \ {Max(S)}], km.reg[Max(S)])]
             way == CHOOSE f : IsWay(f)
             Good == {S \in SUBSET (1 .. n) : S \in SUBSET I => way[S] \in A}
  <1>1. n \in Nat /\ I \in SUBSET (1 .. n)
    <2>1. n \in Nat /\ DOMAIN km.reg = 1 .. n
      OBVIOUS
    <2> HIDE DEF n
    <2>2. QED
      BY <2>1 DEF Fires, Matches
  <1> HIDE DEF I
  <1>2. \A i \in I, cur \in A : Fire(cur, km.reg[i]) \in E
    BY DEF I
  <1>3. F \in [A \X I -> A] /\ current \in A
    <2>1. E \subseteq A
      OBVIOUS
    <2> HIDE DEF A
    <2>2. \A i \in I, cur \in A : Fire(cur, km.reg[i]) \in A
      BY <1>2, <2>1
    <2>3. F \in [A \X I -> A]
      BY <2>2
    <2>4. QED
      BY <2>3 DEF A
  <1> HIDE DEF A
  <1>4. \A S \in SUBSET I : S # {} => Max(S) \in S /\ Max(S) \in I /\ S \ {Max(S)} \in SUBSET I
    <2> HIDE DEF n
    <2>1. \A S \in SUBSET I : S \in SUBSET (1 .. n)
      BY <1>1
    <2>2. QED
      BY <1>1, <2>1, MaxPlace
  <1>5. PICK f \in [SUBSET I -> A] : IsFold(f, current, F, I)
    <2> HIDE DEF F, n
    <2>1. QED
      BY <1>1, <1>3, FoldTyped
  <1>6. IsWay(f)
    <2> DEFINE h == [S \in SUBSET I |->
                 IF S = {} THEN current ELSE Fire(f[S \ {Max(S)}], km.reg[Max(S)])]
    <2>1. ASSUME NEW S \in SUBSET I PROVE f[S] = h[S]
      <3>1. f[S] = IF S = {} THEN current ELSE F[<<f[S \ {Max(S)}], Max(S)>>]
        <4> HIDE DEF F
        <4>1. QED
          BY <1>5 DEF IsFold
      <3>2. S # {} => f[S \ {Max(S)}] \in A /\ Max(S) \in I
        BY <1>4, <1>5
      <3>3. QED
        BY <3>1, <3>2
    <2>2. DOMAIN f = SUBSET I
      OBVIOUS
    <2>3. f = h
      BY <2>1, <2>2
    <2>4. QED
      BY <2>3
  <1>7. IsWay(way)
    <2> HIDE DEF IsWay
    <2>1. QED
      BY <1>6
  <1>8. Pressed(key) = way[I]
    BY DEF Pressed, FoldAt, MapThenFoldSet, I
  <1>9. \A S \in SUBSET I : way[S] =
          IF S = {} THEN current ELSE Fire(way[S \ {Max(S)}], km.reg[Max(S)])
    <2> HIDE DEF way
    <2>1. QED
      BY <1>7
  <1> HIDE DEF way, n
  <1>10. Good = SUBSET (1 .. n)
    <2>1. {} \in Good
      BY <1>3, <1>9
    <2>2. ASSUME NEW S \in SUBSET (1 .. n), S # {}, S \ {Max(S)} \in Good PROVE S \in Good
      <3> SUFFICES ASSUME S \in SUBSET I PROVE way[S] \in A
        OBVIOUS
      <3>1. way[S \ {Max(S)}] \in A /\ Max(S) \in I
        BY <1>4, <2>2
      <3>2. way[S] = Fire(way[S \ {Max(S)}], km.reg[Max(S)])
        BY <1>9, <2>2
      <3> DEFINE cur == way[S \ {Max(S)}]
                 i == Max(S)
      <3>3. Fire(cur, km.reg[i]) \in E
        <4>1. cur \in A /\ i \in I
          BY <3>1
        <4> HIDE DEF cur, i
        <4>2. QED
          BY <1>2, <4>1
      <3>4. way[S] \in E
        BY <3>2, <3>3
      <3>5. QED
        BY <3>4 DEF A
    <2>3. Good \in SUBSET (SUBSET (1 .. n))
      OBVIOUS
    <2> HIDE DEF Good
    <2>4. QED
      BY <1>1, <2>1, <2>2, <2>3, PlacesInduction
  <1>11. \A S \in SUBSET I : way[S] \in A
    BY <1>1, <1>10
  <1>12. I # {} /\ I \in SUBSET I
    BY DEF I
  <1>13. way[I \ {Max(I)}] \in A /\ Max(I) \in I
    BY <1>4, <1>11, <1>12
  <1>14. way[I] = Fire(way[I \ {Max(I)}], km.reg[Max(I)])
    BY <1>9, <1>12
  <1>15. QED
    BY <1>2, <1>8, <1>13, <1>14

\* The way out of a prefix, by the keys for it and by any other.
LEMMA SoundIsLeft == Sound(km) => PrefixIsLeft
  <1> SUFFICES ASSUME Sound(km), current \in ChainSubmaps
               PROVE  /\ Matches("s-G") # {} /\ Matches("catchall") # {}
                      /\ \A key \in Keys : Matches(key) = {} =>
                           /\ \A i \in Fires(key) : ~km.reg[i].user
                           /\ Pressed(key) \in {<<>>} \cup {Base[r] : r \in Roots}
    BY DEF PrefixIsLeft, PrefixNotStranded, AbandonReturns
  <1>1. Chain(current) /\ Armed(km, current, "s-G") /\ Armed(km, current, "catchall")
    BY DEF ChainSubmaps, Sound, SoundBut, Named, Ways
  <1>2. Matches("s-G") # {} /\ Matches("catchall") # {}
    BY <1>1 DEF Armed, Matches
  <1>3. ASSUME NEW key \in Keys, Matches(key) = {}
        PROVE  /\ \A i \in Fires(key) : ~km.reg[i].user
               /\ Pressed(key) \in {<<>>} \cup {Base[r] : r \in Roots}
    <2> DEFINE E == {<<>>} \cup {Base[r] : r \in Roots}
    <2>1. Fires(key) = Matches("catchall")
      BY <1>3 DEF Fires
    <2>2. \A i \in Fires(key) : /\ i \in DOMAIN km.reg /\ km.reg[i].key = "catchall"
                               /\ km.reg[i].sub = current
      BY <2>1 DEF Matches
    <2>3. \A i \in Fires(key) : ~km.reg[i].user
      BY <2>2, KeymapsAssumption DEF Sound, SoundBut, Owned
    <2>4. km.reg \in Seq(Bind)
      BY Fields DEF Sound, SoundBut
    <2>5. \A i \in DOMAIN km.reg : km.reg[i].sub # Stay /\ km.reg[i].root \in Roots
      <3>1. \A i \in DOMAIN km.reg : km.reg[i] \in Bind
        BY <2>4
      <3>2. \A i \in DOMAIN km.reg : km.reg[i].sub \in Submaps /\ km.reg[i].root \in Roots
        BY <3>1 DEF Bind
      <3>3. QED
        BY <3>2, KeymapsAssumption DEF Submaps
    <2>6. Stay # <<>>
      BY KeymapsAssumption, RootSubmap DEF Submaps
    <2>7. \A cur : Goto(cur, Stay) = cur
      BY <2>5, <2>6 DEF Goto
    <2>8. ASSUME NEW i \in Fires(key), NEW cur PROVE Fire(cur, km.reg[i]) \in E
      <3>1. /\ km.reg[i].exit = Stay
            /\ km.reg[i].want \in {<<>>, Base[km.reg[i].root]}
            /\ Accepts(km, km.reg[i].want)
        BY <1>1, <2>2 DEF Sound, SoundBut, Exits, Abandons
      <3>2. Goto(cur, km.reg[i].want) = km.reg[i].want
        BY <3>1 DEF Goto, Accepts
      <3>3. Fire(cur, km.reg[i]) = km.reg[i].want
        BY <2>7, <3>1, <3>2 DEF Fire
      <3>4. km.reg[i].root \in Roots
        BY <2>2, <2>5
      <3>5. QED
        BY <3>1, <3>3, <3>4
    <2> HIDE DEF E
    <2>9. Pressed(key) \in E
      BY <1>2, <2>1, <2>4, <2>8, PressedLeads
    <2>10. QED
      BY <2>3, <2>9 DEF E
  <1>4. QED
    BY <1>2, <1>3

------------------------------------------------------------------------------
(* Invariance *)

\* Nothing made, nothing bound.
LEMMA NothingSound ==
    Sound([reg |-> <<>>, held |-> {}, made |-> {}, marks |-> {}, enabled |-> {}, next |-> 1])
  <1> DEFINE s == [reg |-> <<>>, held |-> {}, made |-> {}, marks |-> {}, enabled |-> {},
                   next |-> 1]
  <1>1. s \in KM
    BY DEF KM
  <1>2. /\ DOMAIN s.reg = {} /\ s.held = {} /\ s.made = {} /\ s.marks = {}
        /\ s.enabled = {} /\ s.next = 1
    OBVIOUS
  <1> HIDE DEF s
  <1>3. Numbered(s) /\ Named(s) /\ Owned(s) /\ Ways(s, {}) /\ Exits(s)
    BY <1>2 DEF Numbered, Named, Owned, Ways, Exits
  <1>4. Sound(s)
    BY <1>1, <1>3 DEF Sound, SoundBut
  <1>5. QED
    BY <1>4 DEF s

\* The invariant holds initially.
LEMMA InitInv == Init => IInv
  <1> SUFFICES ASSUME Init PROVE IInv
    OBVIOUS
  <1> USE DEF Init
  <1>1. km = [reg |-> <<>>, held |-> {}, made |-> {}, marks |-> {}, enabled |-> {}, next |-> 1]
    BY DEF NoKeymaps
  <1>2. Sound(km)
    BY <1>1, NothingSound
  <1>3. Conditioned /\ unseen \subseteq Attached
    BY DEF Conditioned, Attached, AttachedFollows
  <1>4. focus \in Windows \cup {NoWindow} /\ tagged \subseteq Windows /\ mode \in BOOLEAN
    OBVIOUS
  <1>5. calls \in 0 .. MaxCalls
    BY KeymapsAssumption
  <1>6. QED
    BY <1>1, <1>2, <1>3, <1>4, <1>5 DEF IInv

\* A call that registers binds and leaves the roots as they are, or makes one.
LEMMA RegistersStep ==
    ASSUME IInv, NEW s, Registers(s), Sound(s),
           \A r \in Attached : Root(r) \in s.made,
           \A r \in Attached : Root(r) \in s.enabled <=> Root(r) \in km.enabled
    PROVE  IInv'
  <1> USE DEF Registers
  <1>1. Sound(km')
    OBVIOUS
  <1>2. Conditioned'
    <2>1. \A i \in DOMAIN conds : conds[i][1] \in Attached
      BY DEF Attached
    <2>2. (\A r \in Attached : Made(r))'
      BY DEF Attached, Made
    <2>3. AttachedFollows'
      BY <2>1 DEF IInv, Conditioned, AttachedFollows
    <2>4. QED
      BY <2>2, <2>3 DEF IInv, Conditioned, Attached
  <1>3. calls' \in 0 .. MaxCalls
    BY KeymapsAssumption DEF IInv
  <1>4. QED
    BY <1>1, <1>2, <1>3 DEF IInv, Attached

\* The binds alone change.
LEMMA ReboundStep ==
    ASSUME IInv, NEW reg, Rebound(reg), Sound([km EXCEPT !.reg = reg])
    PROVE  IInv'
  <1> USE DEF Rebound
  <1>1. km \in KM
    BY DEF IInv, Sound, SoundBut
  <1>2. km' = [reg |-> reg, held |-> km.held, made |-> km.made, marks |-> km.marks,
               enabled |-> km.enabled, next |-> km.next]
    BY <1>1, WithReg
  <1>3. km'.made = km.made /\ km'.enabled = km.enabled
    BY <1>2
  <1>4. Conditioned'
    BY <1>3 DEF IInv, Conditioned, AttachedFollows, Attached, Made
  <1>5. QED
    BY <1>4 DEF IInv, Attached

\* Neither the binds nor the conditions change, nor what they are of.
LEMMA StayStep ==
    ASSUME IInv, UNCHANGED <<km, conds, focus, tagged, mode, calls, unseen>>
    PROVE  IInv'
  BY DEF IInv, Conditioned, AttachedFollows, Attached, Made

\* All the conditions are applied.
LEMMA ApplyStep ==
    ASSUME IInv, conds' \in Seq(Roots \X Conditions),
           \A i, j \in DOMAIN conds' : conds'[i][1] = conds'[j][1] => i = j,
           \A i \in DOMAIN conds' : Made(conds'[i][1]),
           focus' \in Windows \cup {NoWindow}, mode' \in BOOLEAN,
           UNCHANGED <<tagged, calls>>, Looked,
           km' = ConditionApply(conds', focus', tagged, mode')
    PROVE  IInv'
  <1>1. /\ Sound(km') /\ km'.made = km.made
        /\ \A i \in DOMAIN conds' :
             (Root(conds'[i][1]) \in km'.enabled) = Holds(conds'[i][2], focus', tagged, mode')
    BY ApplyKeeps DEF IInv, Made
  <1>2. Conditioned'
    BY <1>1 DEF Conditioned, AttachedFollows, Attached, Made, Looked
  <1>3. QED
    BY <1>1, <1>2 DEF IInv, Looked

\* What is left when one entry goes.
LEMMA RemoveAtIs ==
    ASSUME NEW X, NEW s \in Seq(X), NEW i \in DOMAIN s
    PROVE  /\ RemoveAt(s, i) \in Seq(X)
           /\ \A a \in DOMAIN RemoveAt(s, i) : \E b \in DOMAIN s : RemoveAt(s, i)[a] = s[b]
           /\ \A b \in DOMAIN s \ {i} :
                \E a \in DOMAIN RemoveAt(s, i) : RemoveAt(s, i)[a] = s[b]
  <1> DEFINE n == Len(s)
             q == SubSeq(s, 1, i - 1)
             r == SubSeq(s, i + 1, n)
             t == RemoveAt(s, i)
  <1>1. n \in Nat /\ DOMAIN s = 1 .. n /\ i \in 1 .. n
    OBVIOUS
  <1>2. /\ q \in Seq(X) /\ Len(q) = i - 1
        /\ \A a \in 1 .. i - 1 : q[a] = s[a]
    BY <1>1
  <1>3. /\ r \in Seq(X) /\ Len(r) = n - i
        /\ \A a \in 1 .. n - i : r[a] = s[i + a]
    <2>1. /\ r \in Seq(X)
          /\ Len(r) = IF i + 1 <= n THEN n - (i + 1) + 1 ELSE 0
          /\ \A a \in 1 .. n - (i + 1) + 1 : r[a] = s[i + 1 + a - 1]
      BY <1>1
    <2> HIDE DEF r, n
    <2>2. \A a \in 1 .. n - i : a \in 1 .. n - (i + 1) + 1 /\ i + 1 + a - 1 = i + a
      BY <1>1
    <2>3. Len(r) = n - i
      BY <1>1, <2>1
    <2>4. QED
      BY <2>1, <2>2, <2>3
  <1>4. t = q \o r
    BY DEF RemoveAt
  <1> HIDE DEF q, r, t, n
  <1>5. /\ t \in Seq(X) /\ Len(t) = n - 1 /\ DOMAIN t = 1 .. n - 1
        /\ \A a \in 1 .. i - 1 : t[a] = s[a]
        /\ \A a \in i .. n - 1 : t[a] = s[a + 1]
    <2>1. t \in Seq(X) /\ Len(t) = n - 1 /\ DOMAIN t = 1 .. n - 1
      <3>1. t \in Seq(X) /\ Len(t) = Len(q) + Len(r)
        BY <1>2, <1>3, <1>4, ConcatProperties
      <3>2. Len(t) = n - 1
        BY <1>1, <1>2, <1>3, <3>1
      <3>3. QED
        BY <3>1, <3>2
    <2>2. ASSUME NEW a \in 1 .. i - 1 PROVE t[a] = s[a]
      BY <1>1, <1>2, <1>3, <1>4
    <2>3. ASSUME NEW a \in i .. n - 1 PROVE t[a] = s[a + 1]
      <3>1. a - (i - 1) \in 1 .. n - i /\ i + (a - (i - 1)) = a + 1
        BY <1>1
      <3>2. t[a] = r[a - (i - 1)]
        BY <1>1, <1>2, <1>3, <1>4
      <3>3. r[a - (i - 1)] = s[i + (a - (i - 1))]
        BY <1>3, <3>1
      <3>4. QED
        BY <3>1, <3>2, <3>3
    <2>4. QED
      BY <2>1, <2>2, <2>3
  <1>6. ASSUME NEW a \in DOMAIN t PROVE \E b \in DOMAIN s : t[a] = s[b]
    <2>1. CASE a \in 1 .. i - 1
      <3>1. a \in 1 .. n
        BY <1>1, <2>1
      <3>2. QED
        BY <1>1, <1>5, <2>1, <3>1
    <2>2. CASE a \in i .. n - 1
      <3>1. a + 1 \in 1 .. n
        BY <1>1, <2>2
      <3>2. QED
        BY <1>1, <1>5, <2>2, <3>1
    <2>3. a \in 1 .. i - 1 \/ a \in i .. n - 1
      BY <1>1, <1>5
    <2>4. QED
      BY <2>1, <2>2, <2>3
  <1>7. ASSUME NEW b \in DOMAIN s \ {i} PROVE \E a \in DOMAIN t : t[a] = s[b]
    <2>1. CASE b \in 1 .. i - 1
      <3>1. b \in 1 .. n - 1
        BY <1>1, <2>1
      <3>2. QED
        BY <1>5, <2>1, <3>1
    <2>2. CASE b \in i + 1 .. n
      <3>1. b - 1 \in i .. n - 1 /\ b - 1 + 1 = b /\ b - 1 \in 1 .. n - 1
        BY <1>1, <2>2
      <3>2. t[b - 1] = s[b - 1 + 1]
        BY <1>5, <3>1
      <3>3. QED
        BY <1>5, <3>1, <3>2
    <2>3. b \in 1 .. i - 1 \/ b \in i + 1 .. n
      BY <1>1
    <2>4. QED
      BY <2>1, <2>2, <2>3
  <1>8. QED
    BY <1>5, <1>6, <1>7 DEF t

\* What is left of the binds when binds of the user's chords go.
LEMMA UnbindStep ==
    ASSUME IInv, NEW reg \in Seq(Bind), Rebound(reg),
           \A i \in DOMAIN reg : \E j \in DOMAIN km.reg : reg[i] = km.reg[j],
           \A j \in DOMAIN km.reg :
             km.reg[j].key \notin Keys => \E i \in DOMAIN reg : reg[i] = km.reg[j]
    PROVE  IInv'
  <1> DEFINE t == [km EXCEPT !.reg = reg]
  <1>1. Sound(km) /\ km \in KM
    BY DEF IInv, Sound, SoundBut
  <1>2. t = [reg |-> reg, held |-> km.held, made |-> km.made, marks |-> km.marks,
             enabled |-> km.enabled, next |-> km.next]
    BY <1>1, WithReg
  <1> HIDE DEF t
  <1>3. t \in KM
    BY <1>1, <1>2, Fields DEF KM
  <1>4. /\ t.reg = reg /\ t.held = km.held /\ t.made = km.made /\ t.marks = km.marks
        /\ t.next = km.next /\ t.enabled = km.enabled
    BY <1>2
  <1>5. Sound(t)
    BY <1>1, <1>3, <1>4, UnbindKeeps
  <1>6. QED
    BY <1>5, ReboundStep DEF t

\* The calls that register binds.
LEMMA ScriptRegisters ==
    ASSUME IInv, NEW r \in Roots,
           HlMakeKeymap(r) \/ DefineKey(r) \/ DefineKeymap(r)
             \/ HlKeymapAdd(r) \/ HlKeymapAddAgain(r)
    PROVE  IInv'
  <1>1. Sound(km) /\ km \in KM /\ \A q \in Attached : q \in Roots /\ Made(q)
    BY DEF IInv, Conditioned, Sound, SoundBut, Attached
  <1>2. ~Made(r) => LET t == MakeKeymap(km, Root(r))
                    IN  /\ Sound(t) /\ t.made = km.made \cup {Root(r)}
                        /\ t.enabled = km.enabled \cup {Root(r)}
    <2>1. Root(r) \in Keymap /\ Root(r) = Root(Root(r)[1])
      BY RootSubmap
    <2>2. QED
      BY <1>1, <2>1, MakeKeeps DEF Made
  <1>3. \A q \in Attached : q # r => Root(q) # Root(r)
    BY DEF Root
  <1>4. ASSUME NEW s, Sound(s), Made(r), RootsSame(km, s), Registers(s) PROVE IInv'
    <2>1. \A q \in Attached : /\ Root(q) \in s.made
                             /\ (Root(q) \in s.enabled <=> Root(q) \in km.enabled)
      BY <1>1, <1>4 DEF RootsSame, Made
    <2>2. QED
      BY <1>4, <2>1, RegistersStep
  <1>5. ASSUME NEW rec \in 1 .. km.next, NEW key \in Keys,
               NEW want \in Submaps \cup {Stay}, NEW exit \in Submaps \cup {Stay},
               Made(r),
               rec # km.next =>
                 \A i \in DOMAIN km.reg : km.reg[i].rec = rec => km.reg[i].user,
               Registers(KeymapAdd(km, Root(r), rec, key, want, exit, TRUE))
        PROVE  IInv'
    <2> DEFINE t == KeymapAdd(km, Root(r), rec, key, want, exit, TRUE)
    <2>1. Root(r) \in km.made /\ SoundBut(km, {}) /\ key # "catchall"
          /\ key \in Keys \cup {"s-G", "catchall"}
      BY <1>1, <1>5, KeymapsAssumption DEF Made, Sound
    <2>2. Added(km, t, {}, Root(r)[2], key)
      BY <1>5, <2>1, AddKeeps
    <2> HIDE DEF t
    <2>3. Sound(t) /\ RootsSame(km, t)
      BY <2>2 DEF Added, Sound, RootsSame
    <2>4. QED
      BY <1>4, <1>5, <2>3 DEF t
  <1>6. CASE HlMakeKeymap(r)
    <2> DEFINE t == MakeKeymap(km, Root(r))
    <2>1. ~Made(r) /\ Registers(t)
      BY <1>6 DEF HlMakeKeymap
    <2>2. Sound(t) /\ t.made = km.made \cup {Root(r)} /\ t.enabled = km.enabled \cup {Root(r)}
      BY <1>2, <2>1
    <2> HIDE DEF t
    <2>3. /\ \A q \in Attached : Root(q) \in t.made
          /\ \A q \in Attached : Root(q) \in t.enabled <=> Root(q) \in km.enabled
      BY <1>1, <1>3, <2>1, <2>2 DEF Made
    <2>4. QED
      BY <2>1, <2>2, <2>3, RegistersStep
  <1>7. CASE DefineKey(r)
    <2>1. PICK seq \in Seqs, top \in BOOLEAN, want \in Wants :
            Registers(DefineKeyIn(km, r, seq, top, want))
      BY <1>7 DEF DefineKey
    <2>2. Made(r) /\ Root(r) \in km.made
      BY <1>7 DEF DefineKey, Made
    <2> DEFINE t == DefineKeyIn(km, r, seq, top, want)
    <2>3. Sound(t) /\ RootsSame(km, t)
      BY <1>1, <2>2, DefineKeeps
    <2>4. Registers(t)
      BY <2>1
    <2> HIDE DEF t
    <2>5. QED
      BY <1>4, <2>2, <2>3, <2>4
  <1>8. CASE DefineKeymap(r)
    <2>1. PICK seq \in Seqs, top \in BOOLEAN :
            Registers(KeymapSet(DefineKeyIn(MakeKeymap(km, Root(r)), r, seq, top, Stay),
                                Root(r), FALSE))
      BY <1>8 DEF DefineKeymap
    <2>2. ~Made(r)
      BY <1>8 DEF DefineKeymap
    <2> DEFINE m == MakeKeymap(km, Root(r))
               d == DefineKeyIn(m, r, seq, top, Stay)
               t == KeymapSet(d, Root(r), FALSE)
    <2>3. Registers(t)
      BY <2>1
    <2>4. Sound(m) /\ m.made = km.made \cup {Root(r)} /\ m.enabled = km.enabled \cup {Root(r)}
      BY <1>2, <2>2
    <2> HIDE DEF m
    <2>5. Stay \in Wants
      BY KeymapsAssumption, RootSubmap DEF Wants, Submaps
    <2>6. Sound(d) /\ RootsSame(m, d)
      BY <2>4, <2>5, DefineKeeps
    <2> HIDE DEF d
    <2>7. Root(r) \in d.made
      BY <2>4, <2>6 DEF RootsSame
    <2>8. Told(d, t, r, FALSE)
      BY <2>6, <2>7, KeymapSetKeeps
    <2> HIDE DEF t
    <2>9. Sound(t) /\ t.made = d.made /\ t.enabled = d.enabled \ {Root(r)}
      BY <2>8 DEF Told
    <2>10. ASSUME NEW q \in Attached
           PROVE  Root(q) \in t.made /\ (Root(q) \in t.enabled <=> Root(q) \in km.enabled)
      <3>1. q \in Roots /\ Made(q) /\ q # r /\ Root(q) # Root(r)
        BY <1>1, <1>3, <2>2
      <3>2. /\ Root(q) \in d.made <=> Root(q) \in m.made
            /\ Root(q) \in d.enabled <=> Root(q) \in m.enabled
        BY <2>6, <3>1 DEF RootsSame
      <3>3. QED
        BY <2>4, <2>9, <3>1, <3>2 DEF Made
    <2>11. QED
      BY <2>3, <2>9, <2>10, RegistersStep
  <1>9. CASE HlKeymapAdd(r)
    <2>1. PICK key \in Keys :
            Registers(KeymapAdd(km, Root(r), km.next, key, Stay, Stay, TRUE))
      BY <1>9 DEF HlKeymapAdd
    <2>2. Made(r) /\ km.next \in 1 .. km.next
      <3>1. km.next \in Nat \ {0}
        BY <1>1, Fields
      <3>2. QED
        BY <1>9, <3>1 DEF HlKeymapAdd
    <2>3. QED
      BY <1>5, <2>1, <2>2
  <1>10. CASE HlKeymapAddAgain(r)
    <2>1. PICK i \in DOMAIN km.reg :
            /\ km.reg[i].user
            /\ Registers(KeymapAdd(km, Root(r), km.reg[i].rec, km.reg[i].key,
                                   km.reg[i].want, km.reg[i].exit, TRUE))
      BY <1>10 DEF HlKeymapAddAgain
    <2>2. Made(r)
      BY <1>10 DEF HlKeymapAddAgain
    <2> DEFINE b == km.reg[i]
    <2>3. b \in Bind
      BY <1>1, Fields
    <2>4. b.rec \in 1 .. km.next
      <3>1. b.rec \in 1 .. km.next - 1 /\ km.next \in Nat
        BY <1>1, Fields DEF Sound, SoundBut, Numbered
      <3> HIDE DEF b
      <3>2. QED
        BY <3>1
    <2>5. b.key \in Keys /\ \A j \in DOMAIN km.reg : km.reg[j].rec = b.rec => km.reg[j].user
      BY <1>1, <2>1 DEF Sound, SoundBut, Owned
    <2>6. b.want \in Submaps \cup {Stay} /\ b.exit \in Submaps \cup {Stay}
      BY <2>3 DEF Bind
    <2>7. Registers(KeymapAdd(km, Root(r), b.rec, b.key, b.want, b.exit, TRUE))
      BY <2>1
    <2> HIDE DEF b
    <2>8. QED
      BY <1>5, <2>2, <2>4, <2>5, <2>6, <2>7
  <1>11. QED
    BY <1>6, <1>7, <1>8, <1>9, <1>10

\* The calls on the binds.
LEMMA ScriptRebinds == IInv /\ (HlUnbind \/ HlUnbindKey \/ HlBindEnabledSet) => IInv'
  <1> SUFFICES ASSUME IInv, HlUnbind \/ HlUnbindKey \/ HlBindEnabledSet PROVE IInv'
    OBVIOUS
  <1>1. Sound(km) /\ km \in KM /\ km.reg \in Seq(Bind)
    BY Fields DEF IInv, Sound, SoundBut
  <1>2. \A i \in DOMAIN km.reg : km.reg[i].user => km.reg[i].key \in Keys
    BY <1>1 DEF Sound, SoundBut, Owned
  <1>3. CASE HlUnbind
    <2>1. PICK i \in DOMAIN km.reg : km.reg[i].user /\ Rebound(RemoveAt(km.reg, i))
      BY <1>3 DEF HlUnbind
    <2> DEFINE reg == RemoveAt(km.reg, i)
    <2>2. /\ reg \in Seq(Bind)
          /\ \A a \in DOMAIN reg : \E b \in DOMAIN km.reg : reg[a] = km.reg[b]
          /\ \A b \in DOMAIN km.reg \ {i} : \E a \in DOMAIN reg : reg[a] = km.reg[b]
      BY <1>1, RemoveAtIs
    <2>3. Rebound(reg)
      BY <2>1
    <2> HIDE DEF reg
    <2>4. \A j \in DOMAIN km.reg :
            km.reg[j].key \notin Keys => \E a \in DOMAIN reg : reg[a] = km.reg[j]
      BY <1>2, <2>1, <2>2
    <2>5. QED
      BY <2>2, <2>3, <2>4, UnbindStep
  <1>4. CASE HlUnbindKey
    <2>1. PICK key \in Keys :
            Rebound(Keep(km.reg, {i \in DOMAIN km.reg : km.reg[i].key # key}))
      BY <1>4 DEF HlUnbindKey
    <2> DEFINE I == {i \in DOMAIN km.reg : km.reg[i].key # key}
               reg == Keep(km.reg, I)
    <2>2. Rebound(reg)
      BY <2>1
    <2>3. I \in SUBSET (DOMAIN km.reg)
      OBVIOUS
    <2>4. \A j \in DOMAIN km.reg : km.reg[j].key \notin Keys => j \in I
      OBVIOUS
    <2> HIDE DEF I
    <2>5. Kept(reg, km.reg, I, Bind)
      BY <1>1, <2>3, KeepIs
    <2> HIDE DEF reg
    <2>6. /\ reg \in Seq(Bind)
          /\ \A i \in DOMAIN reg : \E j \in DOMAIN km.reg : reg[i] = km.reg[j]
          /\ \A j \in DOMAIN km.reg :
               km.reg[j].key \notin Keys => \E i \in DOMAIN reg : reg[i] = km.reg[j]
      BY <2>3, <2>4, <2>5 DEF Kept
    <2>7. QED
      BY <2>2, <2>6, UnbindStep
  <1>5. CASE HlBindEnabledSet
    <2>1. PICK i \in DOMAIN km.reg, on \in BOOLEAN :
            km.reg[i].user /\ Rebound(EnabledSet(km, {km.reg[i].rec}, on).reg)
      BY <1>5 DEF HlBindEnabledSet
    <2> DEFINE R == {km.reg[i].rec}
               reg == EnabledSet(km, R, on).reg
    <2>2. Rebound(reg)
      BY <2>1
    <2> HIDE DEF R
    <2>3. \A j \in DOMAIN km.reg : km.reg[j].rec \in R /\ ~km.reg[j].user => FALSE
      BY <1>1, <2>1 DEF Sound, SoundBut, Owned, R
    <2>4. km.enabled \in SUBSET km.made
      BY <1>1 DEF Sound, SoundBut, Numbered
    <2>5. Sound([reg |-> reg, held |-> km.held, made |-> km.made, marks |-> km.marks,
                 enabled |-> km.enabled, next |-> km.next])
      BY <1>1, <2>3, <2>4, EnabledSetKeeps
    <2> HIDE DEF reg
    <2>6. Sound([km EXCEPT !.reg = reg])
      <3>1. [km EXCEPT !.reg = reg] =
              [reg |-> reg, held |-> km.held, made |-> km.made, marks |-> km.marks,
               enabled |-> km.enabled, next |-> km.next]
        BY <1>1, WithReg
      <3>2. QED
        BY <2>5, <3>1
    <2>7. QED
      BY <2>2, <2>6, ReboundStep
  <1>6. QED
    BY <1>3, <1>4, <1>5

\* A script arms or disarms a keymap by hand.
LEMMA ScriptSets == ASSUME IInv, NEW r \in Roots, HlKeymapSet(r) PROVE IInv'
  <1>1. PICK on \in BOOLEAN : km' = KeymapSet(km, Root(r), on)
    BY DEF HlKeymapSet
  <1>2. Sound(km) /\ Root(r) \in km.made /\ \A q \in Attached : q \in Roots /\ Made(q)
    BY DEF IInv, Conditioned, HlKeymapSet, Made, Attached
  <1>3. Told(km, km', r, on)
    BY <1>1, <1>2, KeymapSetKeeps
  <1>4. /\ Sound(km') /\ km'.made = km.made
        /\ \A q \in Roots : q # r => (Root(q) \in km'.enabled <=> Root(q) \in km.enabled)
    <2>1. \A q \in Roots : q # r => Root(q) # Root(r)
      BY DEF Root
    <2>2. QED
      BY <1>3, <2>1 DEF Told
  <1>5. /\ unseen' = unseen \cup ({r} \cap Attached)
        /\ UNCHANGED <<conds, current, focus, tagged, mode, calls>>
    BY DEF HlKeymapSet
  <1>6. \A i \in DOMAIN conds : conds[i][1] \in Attached /\ conds[i][1] \in Roots
    BY <1>2 DEF Attached
  <1>7. AttachedFollows'
    <2> SUFFICES ASSUME NEW i \in DOMAIN conds, conds[i][1] \notin unseen'
                 PROVE  (Root(conds[i][1]) \in km'.enabled)
                          = Holds(conds[i][2], focus, tagged, mode)
      BY <1>5 DEF AttachedFollows, Holds
    <2>1. conds[i][1] \notin unseen /\ conds[i][1] # r
      BY <1>5, <1>6
    <2>2. (Root(conds[i][1]) \in km.enabled) = Holds(conds[i][2], focus, tagged, mode)
      BY <2>1 DEF IInv, Conditioned, AttachedFollows
    <2>3. QED
      BY <1>4, <1>6, <2>1, <2>2
  <1>8. Conditioned'
    BY <1>4, <1>5, <1>7 DEF IInv, Conditioned, Attached, Made
  <1>9. unseen' \subseteq Attached'
    BY <1>5 DEF IInv, Attached
  <1>10. QED
    BY <1>4, <1>5, <1>8, <1>9 DEF IInv

\* A keymap is attached: its old condition, if any, goes.
LEMMA ScriptAttaches == ASSUME IInv, NEW r \in Roots, Attach(r) PROVE IInv'
  <1> DEFINE I == {i \in DOMAIN conds : conds[i][1] # r}
             rest == Keep(conds, I)
  <1>1. PICK c \in Conditions : conds' = <<<<r, c>>>> \o rest
    BY DEF Attach
  <1>2. conds \in Seq(Roots \X Conditions) /\ I \in SUBSET (DOMAIN conds)
    BY DEF IInv, Conditioned
  <1>3. Kept(rest, conds, I, Roots \X Conditions)
    <2> HIDE DEF I
    <2>1. QED
      BY <1>2, KeepIs
  <1>4. \A i \in I : i \in DOMAIN conds /\ conds[i][1] # r /\ Made(conds[i][1])
    BY DEF IInv, Conditioned, Attached
  <1>5. \A i, j \in I : conds[i][1] = conds[j][1] => i = j
    BY DEF IInv, Conditioned
  <1>6. Made(r)
    BY DEF Attach
  <1> HIDE DEF I, rest
  <1>7. /\ rest \in Seq(Roots \X Conditions)
        /\ \A j \in DOMAIN rest : rest[j][1] # r /\ Made(rest[j][1])
    BY <1>3, <1>4 DEF Kept
  <1>8. \A j, l \in DOMAIN rest : rest[j][1] = rest[l][1] => j = l
    <2> SUFFICES ASSUME NEW j \in DOMAIN rest, NEW l \in DOMAIN rest, j < l
                 PROVE  rest[j][1] # rest[l][1]
      <3>1. \A j \in DOMAIN rest : j \in Nat
        BY <1>7
      <3>2. QED
        BY <3>1
    <2>1. PICK a, b \in I : a < b /\ rest[j] = conds[a] /\ rest[l] = conds[b]
      BY <1>3 DEF Kept
    <2>2. a \in Nat /\ b \in Nat
      BY <1>2
    <2>3. QED
      BY <1>5, <2>1, <2>2
  <1>9. /\ conds' \in Seq(Roots \X Conditions) /\ Len(conds') = 1 + Len(rest)
        /\ DOMAIN conds' = 1 .. 1 + Len(rest) /\ DOMAIN rest = 1 .. Len(rest)
        /\ Len(rest) \in Nat
        /\ conds'[1] = <<r, c>>
        /\ \A i \in 2 .. 1 + Len(rest) : conds'[i] = rest[i - 1]
    <2> DEFINE one == <<<<r, c>>>>
    <2>1. one \in Seq(Roots \X Conditions) /\ Len(one) = 1 /\ one[1] = <<r, c>>
      OBVIOUS
    <2>2. conds' = one \o rest
      BY <1>1
    <2> HIDE DEF one
    <2>3. /\ conds' \in Seq(Roots \X Conditions)
          /\ Len(conds') = Len(one) + Len(rest)
          /\ \A i \in 1 .. Len(one) + Len(rest) :
               conds'[i] = IF i <= Len(one) THEN one[i] ELSE rest[i - Len(one)]
      BY <1>7, <2>1, <2>2, ConcatProperties
    <2>4. Len(rest) \in Nat /\ DOMAIN rest = 1 .. Len(rest)
      BY <1>7
    <2>5. QED
      BY <2>1, <2>3, <2>4
  <1>10. ASSUME NEW i \in DOMAIN conds'
         PROVE  \/ i = 1 /\ conds'[i][1] = r
                \/ /\ i - 1 \in DOMAIN rest /\ i # 1 /\ i \in Nat
                   /\ conds'[i] = rest[i - 1] /\ conds'[i][1] # r
    <2>1. i = 1 \/ i \in 2 .. 1 + Len(rest)
      BY <1>9
    <2>2. CASE i = 1
      BY <1>9, <2>2
    <2>3. CASE i \in 2 .. 1 + Len(rest)
      <3>1. i - 1 \in DOMAIN rest /\ i # 1 /\ i \in Nat
        BY <1>9, <2>3
      <3>2. conds'[i] = rest[i - 1]
        BY <1>9, <2>3
      <3>3. QED
        BY <1>7, <3>1, <3>2
    <2>4. QED
      BY <2>1, <2>2, <2>3
  <1>11. \A i, j \in DOMAIN conds' : conds'[i][1] = conds'[j][1] => i = j
    <2> SUFFICES ASSUME NEW i \in DOMAIN conds', NEW j \in DOMAIN conds',
                        conds'[i][1] = conds'[j][1]
                 PROVE  i = j
      OBVIOUS
    <2>1. CASE i = 1
      BY <1>10, <2>1
    <2>2. CASE i # 1
      <3>1. /\ i - 1 \in DOMAIN rest /\ i \in Nat /\ conds'[i] = rest[i - 1]
            /\ conds'[i][1] # r
        BY <1>10, <2>2
      <3>2. /\ j - 1 \in DOMAIN rest /\ j \in Nat /\ conds'[j] = rest[j - 1]
        BY <1>10, <3>1
      <3>3. i - 1 = j - 1
        BY <1>8, <3>1, <3>2
      <3>4. QED
        BY <3>1, <3>2, <3>3
    <2>3. QED
      BY <2>1, <2>2
  <1>12. \A i \in DOMAIN conds' : Made(conds'[i][1])
    BY <1>6, <1>7, <1>10
  <1>13. /\ focus' \in Windows \cup {NoWindow} /\ mode' \in BOOLEAN
         /\ UNCHANGED <<tagged, calls>> /\ Looked
         /\ km' = ConditionApply(conds', focus', tagged, mode')
    BY DEF IInv, Attach
  <1>14. QED
    BY <1>9, <1>11, <1>12, <1>13, ApplyStep

\* What the compositor and the user do, besides the tags.
LEMMA UserSteps ==
    ASSUME IInv, \/ HlSubmapActivate \/ WindowActive \/ ModeActiveSet
                 \/ \E key \in Keys \cup {"s-G"} : Press(key)
    PROVE  IInv'
  <1>1. /\ conds \in Seq(Roots \X Conditions)
        /\ \A i, j \in DOMAIN conds : conds[i][1] = conds[j][1] => i = j
        /\ \A i \in DOMAIN conds : Made(conds[i][1])
    BY DEF IInv, Conditioned, Attached
  <1>2. CASE HlSubmapActivate
    BY <1>2, StayStep DEF HlSubmapActivate
  <1>3. CASE \E key \in Keys \cup {"s-G"} : Press(key)
    BY <1>3, StayStep DEF Press
  <1>4. CASE WindowActive
    <2>1. /\ focus' \in Windows \cup {NoWindow} /\ Looked
          /\ UNCHANGED <<conds, current, tagged, mode, calls>>
          /\ km' = ConditionApply(conds, focus', tagged, mode)
      BY <1>4 DEF WindowActive
    <2>2. mode' \in BOOLEAN
      BY <2>1 DEF IInv
    <2>3. QED
      BY <1>1, <2>1, <2>2, ApplyStep
  <1>5. CASE ModeActiveSet
    <2>1. /\ mode' = ~mode /\ Looked
          /\ UNCHANGED <<conds, current, focus, tagged, calls>>
          /\ km' = ConditionApply(conds, focus, tagged, mode')
      BY <1>5 DEF ModeActiveSet
    <2>2. mode' \in BOOLEAN /\ focus' \in Windows \cup {NoWindow}
      BY <2>1 DEF IInv
    <2>3. QED
      BY <1>1, <2>1, <2>2, ApplyStep
  <1>6. QED
    BY <1>2, <1>3, <1>4, <1>5

\* The tags of a window change: what is attached is stale when it is the focused one,
\* and means what it meant otherwise.
LEMMA TagStep == ASSUME IInv, NEW w \in Windows, WindowTag(w) PROVE IInv'
  <1>1. UNCHANGED <<km, conds, current, focus, mode, calls>> /\ tagged' \subseteq Windows
    BY DEF WindowTag, IInv
  <1>2. unseen \subseteq Attached /\ Attached' = Attached
    BY <1>1 DEF IInv, Attached
  <1>3. \A i \in DOMAIN conds : conds[i][1] \in Attached
    BY DEF Attached
  <1>4. unseen \subseteq unseen' /\ unseen' \subseteq Attached
    BY <1>2 DEF WindowTag
  <1>5. AttachedFollows'
    <2>1. CASE w = focus
      BY <1>1, <1>3, <2>1 DEF WindowTag, AttachedFollows
    <2>2. CASE w # focus
      <3>1. focus \in tagged' <=> focus \in tagged
        BY <2>2 DEF WindowTag
      <3>2. ASSUME NEW i \in DOMAIN conds, conds[i][1] \notin unseen
            PROVE  (Root(conds[i][1]) \in km.enabled)
                     = Holds(conds[i][2], focus, tagged', mode)
        <4>1. (Root(conds[i][1]) \in km.enabled) = Holds(conds[i][2], focus, tagged, mode)
          BY <3>2 DEF IInv, Conditioned, AttachedFollows
        <4>2. Holds(conds[i][2], focus, tagged', mode)
                = Holds(conds[i][2], focus, tagged, mode)
          BY <3>1 DEF Holds
        <4>3. QED
          BY <4>1, <4>2
      <3>3. QED
        BY <1>1, <1>4, <3>2 DEF AttachedFollows
    <2>3. QED
      BY <2>1, <2>2
  <1>6. Conditioned'
    BY <1>1, <1>5 DEF IInv, Conditioned, Attached, Made
  <1>7. QED
    BY <1>1, <1>2, <1>4, <1>6 DEF IInv

\* A config reload starts the next generation from nothing.
LEMMA ResetStep == IInv /\ Reset => IInv'
  <1> SUFFICES ASSUME IInv, Reset PROVE IInv'
    OBVIOUS
  <1>1. /\ km' = NoKeymaps /\ conds' = <<>> /\ mode' = FALSE /\ calls' = 0
        /\ unseen' = {} /\ focus' = focus /\ tagged' = tagged
    BY DEF Reset, Looked
  <1>2. DOMAIN conds' = {}
    BY <1>1
  <1>3. Conditioned'
    BY <1>1, <1>2 DEF Conditioned, AttachedFollows, Attached
  <1>4. Sound(km')
    BY <1>1, NothingSound DEF NoKeymaps
  <1>5. calls' \in 0 .. MaxCalls
    BY <1>1, KeymapsAssumption
  <1>6. QED
    BY <1>1, <1>3, <1>4, <1>5 DEF IInv

\* Every step preserves the invariant.
LEMMA InvStep == IInv /\ [Next]_vars => IInv'
  <1> SUFFICES ASSUME IInv, [Next]_vars PROVE IInv'
    OBVIOUS
  <1>1. CASE Script
    BY <1>1, ScriptRegisters, ScriptRebinds, ScriptSets, ScriptAttaches, UserSteps
       DEF Script
  <1>2. CASE User
    BY <1>2, UserSteps, TagStep DEF User
  <1>3. CASE Reset
    BY <1>3, ResetStep
  <1>4. CASE UNCHANGED vars
    BY <1>4, StayStep DEF vars
  <1>5. QED
    BY <1>1, <1>2, <1>3, <1>4 DEF Next

LEMMA Invariance == Spec => []IInv
  BY InitInv, InvStep, PTL DEF Spec

------------------------------------------------------------------------------
(* The theorems *)

\* The variables have their types whatever scripts and the user do: every armed bind
\* has a record that was handed out, only keymaps that were made hold binds or are
\* armed, and what awaits a look of the registry is attached.
THEOREM TypeCorrect == Spec => []TypeOK
  <1>1. IInv => TypeOK
    <2> SUFFICES ASSUME IInv PROVE TypeOK
      OBVIOUS
    <2>1. km \in KM /\ Numbered(km)
      BY DEF IInv, Sound, SoundBut
    <2>2. \A i \in DOMAIN km.reg : km.reg[i] \in Bind
      BY <2>1, Fields
    <2>3. \A i \in DOMAIN km.reg : km.reg[i].on \in BOOLEAN /\ km.reg[i].root \in Roots
      BY <2>2 DEF Bind
    <2>4. conds \in Seq(Roots \X Conditions)
      BY DEF IInv, Conditioned
    <2>5. \A i \in DOMAIN conds : conds[i] \in Roots \X Conditions
      BY <2>4
    <2>6. QED
      BY <2>1, <2>3, <2>5 DEF IInv, Numbered, TypeOK
  <1>2. QED
    BY <1>1, Invariance, PTL

\* A keymap that is attached to a condition is armed exactly while the condition holds
\* of the focused window and the mode, but for what a script or a tag did since the
\* registry last looked, over focus changes, attaches, re-attaches and reloads
\* (hl--condition-apply, hl-keymaps-recheck!).
THEOREM Follows == Spec => []AttachedFollows
  <1>1. IInv => AttachedFollows
    BY DEF IInv, Conditioned
  <1>2. QED
    BY <1>1, Invariance, PTL

\* A key sequence that has begun can be left, with s-G and with any key nothing is bound
\* to, which runs no action of the config and leads to the default map or to the submap
\* of a mode, whatever was disarmed, unbound, rebound or shared with another keymap since
\* (hl--ensure-exit!, hl-keymap-disable!).
THEOREM Left == Spec => []PrefixIsLeft
  <1>1. IInv => PrefixIsLeft
    BY SoundIsLeft DEF IInv
  <1>2. QED
    BY <1>1, Invariance, PTL

=============================================================================
