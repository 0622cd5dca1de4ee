------------------------------ MODULE Watch_proofs ------------------------------
(* Proofs about Watch.tla, for any config, any links and directories, any size   *)
(* of the kernel's queue and of the buffer, and any number of edits.             *)
EXTENDS Watch, SequenceTheorems, TLAPS

------------------------------------------------------------------------------
(* The invariant *)

\* What is not attached has read nothing.
DetachedReadNothing == ~up => read = {}

\* The place the hook was given is noted.
HookedIsNoted == hooked # None => hooked \in loaded

\* What is covered is noted, and its directory is watched.
CoveredIsWatched == \A f \in covered : link[f] \in loaded /\ Dir[link[f]] \in alive

IInv == TypeOK /\ DetachedReadNothing /\ HookedIsNoted /\ CoveredIsWatched /\ NoEditLost

------------------------------------------------------------------------------
(* Sequences of paths *)

Paths == Names \cup Places

\* An event is appended to the queue.
LEMMA Appended ==
    ASSUME NEW s \in Seq(Paths), NEW p \in Paths
    PROVE  /\ Append(s, p) \in Seq(Paths) /\ Len(Append(s, p)) = Len(s) + 1
           /\ ToSet(Append(s, p)) = ToSet(s) \cup {p}
  <1>1. /\ Append(s, p) \in Seq(Paths) /\ Len(Append(s, p)) = Len(s) + 1 /\ Len(s) \in Nat
        /\ \A i \in 1..Len(s) : Append(s, p)[i] = s[i]
        /\ Append(s, p)[Len(s) + 1] = p
    BY AppendProperties, LenProperties
  <1>2. DOMAIN Append(s, p) = 1..(Len(s) + 1) /\ DOMAIN s = 1..Len(s)
    BY <1>1, LenProperties
  <1>3. 1..(Len(s) + 1) = (1..Len(s)) \cup {Len(s) + 1}
    BY <1>1
  <1>4. QED
    BY <1>1, <1>2, <1>3 DEF ToSet

\* The first event is taken off the batch.
LEMMA Taking ==
    ASSUME NEW s \in Seq(Paths), s # <<>>
    PROVE  /\ Head(s) \in Paths /\ Tail(s) \in Seq(Paths) /\ Len(Tail(s)) <= Len(s)
           /\ ToSet(s) = {Head(s)} \cup ToSet(Tail(s))
  <1>1. /\ Head(s) \in Paths /\ Tail(s) \in Seq(Paths) /\ Len(Tail(s)) = Len(s) - 1
        /\ \A i \in 1..(Len(s) - 1) : Tail(s)[i] = s[i + 1]
    BY HeadTailProperties
  <1>2. Len(s) \in Nat \ {0} /\ Head(s) = s[1]
    BY EmptySeq, LenProperties
  <1>3. DOMAIN Tail(s) = 1..(Len(s) - 1) /\ DOMAIN s = 1..Len(s)
    BY <1>1, LenProperties
  <1>4. \A i \in 1..Len(s) : i = 1 \/ i - 1 \in 1..(Len(s) - 1)
    BY <1>2
  <1>5. \A i \in 1..(Len(s) - 1) : i + 1 \in 1..Len(s)
    BY <1>2
  <1>6. ToSet(s) \subseteq {Head(s)} \cup ToSet(Tail(s))
    <2> SUFFICES ASSUME NEW i \in 1..Len(s) PROVE s[i] \in {Head(s)} \cup ToSet(Tail(s))
      BY <1>3 DEF ToSet
    <2>1. CASE i = 1
      BY <1>2, <2>1
    <2>2. CASE i # 1
      <3>1. i - 1 \in 1..(Len(s) - 1) /\ (i - 1) + 1 = i
        BY <1>2, <2>2
      <3>2. Tail(s)[i - 1] = s[i]
        BY <1>1, <3>1
      <3>3. QED
        BY <1>3, <3>1, <3>2 DEF ToSet
    <2>3. QED
      BY <2>1, <2>2
  <1>7. {Head(s)} \cup ToSet(Tail(s)) \subseteq ToSet(s)
    <2>1. 1 \in DOMAIN s
      BY <1>2, <1>3
    <2>2. QED
      BY <1>1, <1>2, <1>3, <1>5, <2>1 DEF ToSet
  <1>8. QED
    BY <1>1, <1>2, <1>6, <1>7

\* A part of a sequence.
LEMMA Part ==
    ASSUME NEW S, NEW s \in Seq(S), NEW m \in 1..(Len(s) + 1), NEW n \in 0..Len(s)
    PROVE  /\ SubSeq(s, m, n) \in Seq(S)
           /\ Len(SubSeq(s, m, n)) = IF m <= n THEN n - m + 1 ELSE 0
           /\ \A i \in 1..(n - m + 1) : SubSeq(s, m, n)[i] = s[m + i - 1]
  <1>1. Len(s) \in Nat /\ \A i \in 1..Len(s) : s[i] \in S
    BY LenProperties, ElementOfSeq
  <1>2. m \in Int /\ n \in Int /\ \A i \in m..n : i \in 1..Len(s)
    BY <1>1
  <1>3. \A i \in m..n : s[i] \in S
    BY <1>1, <1>2
  <1>4. QED
    BY <1>2, <1>3, SubSeqProperties

\* What a read takes and what it leaves are the queue.
LEMMA Splitting ==
    ASSUME NEW s \in Seq(Paths), NEW n \in 1..Len(s)
    PROVE  /\ SubSeq(s, 1, n) \in Seq(Paths) /\ Len(SubSeq(s, 1, n)) = n
           /\ SubSeq(s, n + 1, Len(s)) \in Seq(Paths)
           /\ Len(SubSeq(s, n + 1, Len(s))) <= Len(s)
           /\ ToSet(s) \subseteq ToSet(SubSeq(s, 1, n)) \cup ToSet(SubSeq(s, n + 1, Len(s)))
  <1> DEFINE first == SubSeq(s, 1, n)
             rest  == SubSeq(s, n + 1, Len(s))
  <1>0. /\ Len(s) \in Nat /\ n \in Nat /\ n \in 0..Len(s) /\ Len(s) \in 0..Len(s)
        /\ 1 \in 1..(Len(s) + 1) /\ n + 1 \in 1..(Len(s) + 1)
    BY LenProperties
  <1>1. /\ first \in Seq(Paths) /\ Len(first) = n
        /\ \A i \in 1..(n - 1 + 1) : first[i] = s[1 + i - 1]
    BY <1>0, Part
  <1>2. /\ rest \in Seq(Paths) /\ Len(rest) = IF n + 1 <= Len(s) THEN Len(s) - (n + 1) + 1 ELSE 0
        /\ \A i \in 1..(Len(s) - (n + 1) + 1) : rest[i] = s[(n + 1) + i - 1]
    BY <1>0, Part
  <1> HIDE DEF first, rest
  <1>3. DOMAIN first = 1..n /\ DOMAIN rest = 1..(Len(s) - n) /\ DOMAIN s = 1..Len(s)
    BY <1>0, <1>1, <1>2, LenProperties
  <1>4. ASSUME NEW i \in 1..Len(s) PROVE s[i] \in ToSet(first) \cup ToSet(rest)
    <2>1. CASE i <= n
      <3>1. i \in 1..n /\ i \in 1..(n - 1 + 1) /\ 1 + i - 1 = i
        BY <1>0, <2>1
      <3>2. first[i] = s[i]
        BY <1>1, <3>1
      <3>3. QED
        BY <1>3, <3>1, <3>2 DEF ToSet
    <2>2. CASE ~(i <= n)
      <3>1. /\ i - n \in 1..(Len(s) - n) /\ i - n \in 1..(Len(s) - (n + 1) + 1)
            /\ (n + 1) + (i - n) - 1 = i
        BY <1>0, <2>2
      <3>2. rest[i - n] = s[i]
        BY <1>2, <3>1
      <3>3. QED
        BY <1>3, <3>1, <3>2 DEF ToSet
    <2>3. QED
      BY <2>1, <2>2
  <1>5. ToSet(s) \subseteq ToSet(first) \cup ToSet(rest)
    BY <1>3, <1>4 DEF ToSet
  <1>6. QED
    BY <1>0, <1>1, <1>2, <1>5 DEF first, rest

------------------------------------------------------------------------------
(* Types *)

FilesTyped ==
    /\ content \in [Places -> {"absent", "partial", "whole"}]
    /\ link \in [Names -> Places] /\ live \subseteq Dirs /\ edits \in 0 .. MaxEdits

KernelTyped ==
    /\ alive \subseteq live \cap dirs /\ dirs \subseteq Dirs
    /\ queue \in Seq(Paths) /\ Len(queue) <= QueueLimit

LoaderTyped ==
    /\ loaded \subseteq Paths /\ batch \in Seq(Paths) /\ Len(batch) <= BufferLen
    /\ up \in BOOLEAN /\ asked \in BOOLEAN
    /\ \E i, j \in 0 .. Len(Files) : todo = SubSeq(Files, i + 1, j)
    /\ hooked \in Paths \cup {None}

HistoryTyped ==
    /\ changed \subseteq read /\ covered \subseteq read /\ read \subseteq Names
    /\ ~Idle => up /\ ~asked
    /\ hooked # None => ~Idle

LEMMA TypeOKIs ==
    /\ TypeOK <=> FilesTyped /\ KernelTyped /\ LoaderTyped /\ HistoryTyped
    /\ TypeOK' <=> FilesTyped' /\ KernelTyped' /\ LoaderTyped' /\ HistoryTyped'
  BY DEF TypeOK, FilesTyped, KernelTyped, LoaderTyped, HistoryTyped, Paths

\* Every name has a first place, and a directory, as every place has.
LEMMA Constants ==
    /\ \A f \in Names : Targets[f][1] \in Places /\ ToSet(Targets[f]) \subseteq Places
    /\ \A p \in Paths : Dir[p] \in Dirs
    /\ Names \subseteq Paths /\ Places \subseteq Paths
    /\ Len(Files) \in Nat \ {0} /\ Files[1] \in Names
    /\ BufferLen \in Nat \ {0} /\ QueueLimit \in Nat \ {0} /\ MaxEdits \in Nat
  <1>1. ASSUME NEW f \in Names
        PROVE  Targets[f][1] \in Places /\ ToSet(Targets[f]) \subseteq Places
    <2>1. Targets[f] \in Seq(Places) /\ Targets[f] # <<>>
      BY WatchAssumption
    <2>2. DOMAIN Targets[f] = 1..Len(Targets[f]) /\ Len(Targets[f]) \in Nat \ {0}
      BY <2>1, LenProperties, EmptySeq
    <2>3. \A i \in 1..Len(Targets[f]) : Targets[f][i] \in Places
      BY <2>1, ElementOfSeq
    <2>4. QED
      BY <2>2, <2>3 DEF ToSet
  <1>2. \A p \in Paths : Dir[p] \in Dirs
    BY WatchAssumption DEF Paths, Dirs
  <1>3. Len(Files) \in Nat \ {0} /\ Files[1] \in Names
    <2>1. Files \in Seq(Names) /\ Files # <<>>
      BY WatchAssumption
    <2>2. Len(Files) \in Nat \ {0}
      BY <2>1, LenProperties, EmptySeq
    <2>3. QED
      BY <2>1, <2>2, ElementOfSeq
  <1>4. QED
    BY <1>1, <1>2, <1>3, WatchAssumption DEF Paths

\* What is left of a load is a part of the files, and so is a part of it.
LEMMA TodoIs ==
    ASSUME LoaderTyped, ~Idle
    PROVE  todo \in Seq(Names) /\ Len(todo) \in Nat \ {0} /\ Head(todo) \in Names
  <1>1. PICK i \in 0..Len(Files), j \in 0..Len(Files) : todo = SubSeq(Files, i + 1, j)
    BY DEF LoaderTyped
  <1>2. Files \in Seq(Names) /\ i + 1 \in 1..(Len(Files) + 1)
    BY Constants, WatchAssumption
  <1>3. todo \in Seq(Names)
    BY <1>1, <1>2, Part
  <1>4. todo # <<>>
    BY DEF Idle
  <1>5. QED
    BY <1>3, <1>4, HeadTailProperties, EmptySeq, LenProperties

LEMMA PartOfTodo ==
    ASSUME LoaderTyped, ~Idle, NEW n \in 1..Len(todo)
    PROVE  \E i, j \in 0..Len(Files) : SubSeq(todo, 2, n) = SubSeq(Files, i + 1, j)
  <1>1. PICK i \in 0..Len(Files), j \in 0..Len(Files) : todo = SubSeq(Files, i + 1, j)
    BY DEF LoaderTyped
  <1>2. Files \in Seq(Names) /\ Len(Files) \in Nat \ {0} /\ i + 1 \in 1..(Len(Files) + 1)
    BY Constants, WatchAssumption
  <1>3. Len(todo) = IF i + 1 <= j THEN j - (i + 1) + 1 ELSE 0
    BY <1>1, <1>2, Part
  <1>4. i + 1 <= j /\ Len(todo) = j - i /\ n \in Nat
    BY <1>2, <1>3, TodoIs
  <1>5. CASE n = 1
    <2>1. SubSeq(todo, 2, n) = <<>> /\ SubSeq(Files, 0 + 1, 0) = <<>>
      BY <1>5, SubSeqEmpty
    <2>2. 0 \in 0..Len(Files)
      BY <1>2
    <2>3. QED
      BY <2>1, <2>2
  <1>6. CASE n # 1
    <2>1. /\ i + 1 \in 1..Len(Files) /\ j \in 1..Len(Files)
          /\ 2 \in 1..(j - (i + 1) + 1) /\ n \in 1..(j - (i + 1) + 1)
      BY <1>2, <1>4, <1>6
    <2>2. SubSeq(todo, 2, n) = SubSeq(Files, (i + 1) + 2 - 1, (i + 1) + n - 1)
      BY <1>1, <1>2, <2>1, SubSeqOfSubSeq
    <2>3. /\ (i + 1) + 2 - 1 = (i + 1) + 1 /\ (i + 1) + n - 1 = i + n
          /\ i + 1 \in 0..Len(Files) /\ i + n \in 0..Len(Files)
      BY <1>2, <1>4, <2>1
    <2>4. QED
      BY <2>2, <2>3
  <1>7. QED
    BY <1>5, <1>6

LEMMA InitIs == Init => IInv
  <1> SUFFICES ASSUME Init PROVE IInv
    OBVIOUS
  <1>1. FilesTyped
    <2>1. content \in [Places -> {"absent", "partial", "whole"}] /\ live \subseteq Dirs
      BY DEF Init
    <2>2. link \in [Names -> Places]
      BY Constants DEF Init
    <2>3. edits \in 0..MaxEdits
      BY Constants DEF Init
    <2>4. QED
      BY <2>1, <2>2, <2>3 DEF FilesTyped
  <1>2. KernelTyped /\ HistoryTyped
    BY Constants DEF Init, KernelTyped, HistoryTyped
  <1>3. LoaderTyped
    <2>1. Files \in Seq(Names)
      BY WatchAssumption
    <2>2. todo = SubSeq(Files, 0 + 1, Len(Files))
      BY <2>1, SubSeqFull DEF Init
    <2>3. 0 \in 0..Len(Files) /\ Len(Files) \in 0..Len(Files) /\ Len(<<>>) = 0
      BY Constants
    <2>4. \E i, j \in 0 .. Len(Files) : todo = SubSeq(Files, i + 1, j)
      BY <2>2, <2>3
    <2>5. loaded \subseteq Paths /\ batch \in Seq(Paths) /\ Len(batch) <= BufferLen
      BY <2>3, Constants DEF Init
    <2>6. QED
      BY <2>4, <2>5 DEF Init, LoaderTyped
  <1>4. DetachedReadNothing /\ HookedIsNoted /\ CoveredIsWatched /\ NoEditLost
    BY DEF Init, DetachedReadNothing, HookedIsNoted, CoveredIsWatched, NoEditLost, StaleIsNoticed, Stale
  <1>5. QED
    BY <1>1, <1>2, <1>3, <1>4, TypeOKIs DEF IInv

------------------------------------------------------------------------------
(* The file system *)

\* The queue after an event on p holds what it held, and p if it could.
LEMMA Notified ==
    ASSUME KernelTyped, NEW p \in Paths, Notify(p)
    PROVE  /\ queue' \in Seq(Paths) /\ Len(queue') <= QueueLimit
           /\ ToSet(queue) \subseteq ToSet(queue') /\ UNCHANGED <<alive, threadVars>>
           /\ Dir[p] \in alive /\ ~Overflows(p) => p \in ToSet(queue')
  <1>1. queue \in Seq(Paths) /\ Len(queue) <= QueueLimit /\ Len(queue) \in Nat /\ QueueLimit \in Nat
    BY Constants, LenProperties DEF KernelTyped
  <1>2. CASE Dir[p] \in alive /\ ~Overflows(p)
    <2>1. queue' = Append(queue, p) /\ Len(queue) # QueueLimit
      BY <1>2 DEF Notify, Overflows
    <2>2. QED
      BY <1>1, <2>1, Appended DEF Notify
  <1>3. CASE ~(Dir[p] \in alive /\ ~Overflows(p))
    BY <1>1, <1>3 DEF Notify
  <1>4. QED
    BY <1>2, <1>3

\* What the loader and the reader of events hold is as it was.
LEMMA LoaderRests ==
    ASSUME IInv, UNCHANGED threadVars, changed' \subseteq read, covered' \subseteq covered
    PROVE  LoaderTyped' /\ HistoryTyped' /\ DetachedReadNothing' /\ HookedIsNoted'
  <1>1. LoaderTyped /\ HistoryTyped /\ DetachedReadNothing /\ HookedIsNoted
    BY TypeOKIs DEF IInv
  <1>2. UNCHANGED <<loaded, dirs, batch, up, asked, todo, hooked, read>>
    BY DEF threadVars
  <1>3. LoaderTyped'
    BY <1>1, <1>2 DEF LoaderTyped
  <1>4. QED
    BY <1>1, <1>2, <1>3 DEF HistoryTyped, DetachedReadNothing, HookedIsNoted, Idle

\* What is noticed stays noticed while the loader rests and the queue loses nothing.
LEMMA StaysNoticed ==
    ASSUME UNCHANGED threadVars, ToSet(queue) \subseteq ToSet(queue'), NEW p
    PROVE  /\ Noticed(p) => Noticed(p)'
           /\ p \in ToSet(queue') => Noticed(p)'
  BY DEF Noticed, threadVars

\* The content at one place changes, and if it is whole by then the files covered
\* there have an event.
LEMMA WriteKeeps ==
    ASSUME IInv, NEW p \in Places, NEW c \in {"absent", "partial", "whole"}, Write(p, c),
           UNCHANGED <<alive, threadVars>>,
           queue' \in Seq(Paths), Len(queue') <= QueueLimit, ToSet(queue) \subseteq ToSet(queue'),
           covered' \subseteq covered,
           c = "whole" => \A f \in covered' : link[f] = p => p \in ToSet(queue')
    PROVE  IInv'
  <1>0. /\ FilesTyped /\ KernelTyped /\ HistoryTyped /\ CoveredIsWatched /\ NoEditLost
    BY TypeOKIs DEF IInv
  <1>1. /\ edits < MaxEdits /\ edits' = edits + 1 /\ content' = [content EXCEPT ![p] = c]
        /\ UNCHANGED <<link, live>> /\ changed' = changed \cup {f \in read : link[f] = p}
    BY DEF Write, Edit
  <1>2. FilesTyped'
    BY <1>0, <1>1, Constants DEF FilesTyped
  <1>3. KernelTyped' /\ UNCHANGED dirs
    BY <1>0, <1>1 DEF KernelTyped, threadVars
  <1>4. LoaderTyped' /\ HistoryTyped' /\ DetachedReadNothing' /\ HookedIsNoted'
    BY <1>0, <1>1, LoaderRests DEF HistoryTyped
  <1>5. CoveredIsWatched'
    BY <1>0, <1>1 DEF CoveredIsWatched, threadVars
  <1>6. NoEditLost'
    <2> SUFFICES ASSUME NEW f \in Names, Stale(f)' PROVE Noticed(link[f])'
      BY DEF NoEditLost, StaleIsNoticed
    <2>1. f \in covered' /\ f \in covered /\ f \in changed' /\ link'[f] = link[f] /\ content'[link[f]] = "whole"
      BY <1>1 DEF Stale, Whole
    <2>2. link[f] \in Places /\ UNCHANGED link
      BY <1>0, <1>1 DEF FilesTyped
    <2>3. CASE link[f] = p
      <3>1. c = "whole"
        BY <1>0, <1>1, <2>1, <2>3 DEF FilesTyped
      <3>2. p \in ToSet(queue')
        BY <2>1, <2>3, <3>1
      <3>3. QED
        BY <2>2, <2>3, <3>2, StaysNoticed
    <2>4. CASE link[f] # p
      <3>1. content[link[f]] = "whole" /\ f \in changed
        BY <1>0, <1>1, <2>1, <2>2, <2>4 DEF FilesTyped
      <3>2. Noticed(link[f])
        BY <1>0, <2>1, <3>1 DEF NoEditLost, StaleIsNoticed, Stale, Whole
      <3>3. QED
        BY <2>2, <3>2, StaysNoticed
    <2>5. QED
      BY <2>3, <2>4
  <1>7. QED
    BY <1>2, <1>3, <1>4, <1>5, <1>6, TypeOKIs DEF IInv

\* An event on the place written is queued for the files covered there.
LEMMA NotifyingWriteKeeps ==
    ASSUME IInv, NEW p \in Places, NEW c \in {"absent", "partial", "whole"}, Write(p, c),
           Notify(p), covered' = StillCovered(p)
    PROVE  IInv'
  <1>0. KernelTyped /\ CoveredIsWatched /\ p \in Paths
    BY TypeOKIs, Constants DEF IInv
  <1>1. /\ queue' \in Seq(Paths) /\ Len(queue') <= QueueLimit
        /\ ToSet(queue) \subseteq ToSet(queue') /\ UNCHANGED <<alive, threadVars>>
        /\ Dir[p] \in alive /\ ~Overflows(p) => p \in ToSet(queue')
    BY <1>0, Notified
  <1>2. covered' \subseteq covered /\ (covered' # {} => ~Overflows(p))
    BY DEF StillCovered
  <1>3. \A f \in covered' : link[f] = p => p \in ToSet(queue')
    BY <1>0, <1>1, <1>2 DEF CoveredIsWatched
  <1>4. QED
    BY <1>1, <1>2, <1>3, WriteKeeps

\* Every change to the file system keeps the invariant.
LEMMA EditorKeeps == ASSUME IInv, Editor PROVE IInv'
  <1>0. /\ FilesTyped /\ KernelTyped /\ HistoryTyped /\ CoveredIsWatched /\ NoEditLost
        /\ queue \in Seq(Paths) /\ Len(queue) <= QueueLimit
    BY TypeOKIs DEF IInv, KernelTyped
  <1>1. ASSUME NEW p \in Places, BeginWrite(p) PROVE IInv'
    <2>1. Write(p, "partial")
      BY <1>1 DEF BeginWrite
    <2>2. CASE content[p] = "absent"
      BY <1>1, <2>1, <2>2, NotifyingWriteKeeps DEF BeginWrite
    <2>3. CASE content[p] # "absent"
      <3>1. UNCHANGED <<alive, queue, threadVars, covered>>
        BY <1>1, <2>3 DEF BeginWrite
      <3>2. /\ queue' \in Seq(Paths) /\ Len(queue') <= QueueLimit
            /\ ToSet(queue) \subseteq ToSet(queue') /\ covered' \subseteq covered
        BY <1>0, <3>1
      <3>3. QED
        BY <2>1, <3>1, <3>2, WriteKeeps
    <2>4. QED
      BY <2>2, <2>3
  <1>2. ASSUME NEW p \in Places, EndWrite(p) PROVE IInv'
    BY <1>2, NotifyingWriteKeeps DEF EndWrite
  <1>3. ASSUME NEW p \in Places, RenameSave(p) PROVE IInv'
    BY <1>3, NotifyingWriteKeeps DEF RenameSave
  <1>4. ASSUME NEW p \in Places, Delete(p) PROVE IInv'
    <2>1. Write(p, "absent") /\ UNCHANGED <<alive, queue, threadVars, covered>>
      BY <1>4 DEF Delete
    <2>2. /\ queue' \in Seq(Paths) /\ Len(queue') <= QueueLimit
          /\ ToSet(queue) \subseteq ToSet(queue') /\ covered' \subseteq covered
      BY <1>0, <2>1
    <2>3. QED
      BY <2>1, <2>2, WriteKeeps
  <1>5. ASSUME NEW g \in Names, NEW p \in Places, Repoint(g, p) PROVE IInv'
    <2>1. /\ p \in Places /\ link' = [link EXCEPT ![g] = p] /\ UNCHANGED <<content, live, changed>>
          /\ edits < MaxEdits /\ edits' = edits + 1 /\ covered' \subseteq covered \ {g}
      BY <1>5, Constants DEF Repoint, Edit, StillCovered
    <2>2. /\ queue' \in Seq(Paths) /\ Len(queue') <= QueueLimit
          /\ ToSet(queue) \subseteq ToSet(queue') /\ UNCHANGED <<alive, threadVars>>
      <3>1. g \in Paths /\ Notify(g)
        BY <1>5, Constants DEF Repoint
      <3>2. QED
        BY <1>0, <3>1, Notified
    <2>3. FilesTyped'
      BY <1>0, <2>1, Constants DEF FilesTyped
    <2>4. KernelTyped' /\ UNCHANGED <<loaded, dirs>>
      BY <1>0, <2>1, <2>2 DEF KernelTyped, threadVars
    <2>5. LoaderTyped' /\ HistoryTyped' /\ DetachedReadNothing' /\ HookedIsNoted'
      BY <1>0, <2>1, <2>2, LoaderRests DEF HistoryTyped
    <2>6. \A f \in covered' : f \in covered /\ f \in Names /\ f # g /\ link'[f] = link[f]
      BY <1>0, <2>1 DEF FilesTyped, HistoryTyped
    <2>7. CoveredIsWatched'
      BY <1>0, <2>2, <2>4, <2>6 DEF CoveredIsWatched
    <2>8. NoEditLost'
      <3> SUFFICES ASSUME NEW f \in Names, Stale(f)' PROVE Noticed(link[f])'
        BY DEF NoEditLost, StaleIsNoticed
      <3>1. f \in covered' /\ f \in changed /\ content[link'[f]] = "whole"
        BY <2>1 DEF Stale, Whole
      <3>2. link'[f] = link[f] /\ f \in covered
        BY <2>6, <3>1
      <3>3. Noticed(link[f])
        BY <1>0, <3>1, <3>2 DEF NoEditLost, StaleIsNoticed, Stale, Whole
      <3>4. QED
        BY <2>2, <3>2, <3>3 DEF Noticed, threadVars
    <2>9. QED
      BY <2>3, <2>4, <2>5, <2>7, <2>8, TypeOKIs DEF IInv
  <1>6. ASSUME NEW d \in Dirs, RemoveDir(d) PROVE IInv'
    <2>1. /\ live' = live \ {d} /\ alive' = alive \ {d}
          /\ content' = [p \in Places |-> IF Dir[p] = d THEN "absent" ELSE content[p]]
          /\ covered' = {f \in covered : Dir[link[f]] # d}
          /\ changed' = changed \cup {f \in read : Dir[link[f]] = d}
          /\ edits < MaxEdits /\ edits' = edits + 1 /\ UNCHANGED <<link, queue, threadVars>>
      BY <1>6 DEF RemoveDir, Edit
    <2>2. FilesTyped'
      BY <1>0, <2>1, Constants DEF FilesTyped
    <2>3. KernelTyped' /\ UNCHANGED <<loaded, dirs>>
      BY <1>0, <2>1 DEF KernelTyped, threadVars
    <2>4. LoaderTyped' /\ HistoryTyped' /\ DetachedReadNothing' /\ HookedIsNoted'
      BY <1>0, <2>1, LoaderRests DEF HistoryTyped
    <2>5. CoveredIsWatched'
      BY <1>0, <2>1, <2>3 DEF CoveredIsWatched
    <2>6. NoEditLost'
      <3> SUFFICES ASSUME NEW f \in Names, Stale(f)' PROVE Noticed(link[f])'
        BY DEF NoEditLost, StaleIsNoticed
      <3>1. f \in covered /\ Dir[link[f]] # d /\ f \in changed /\ content'[link[f]] = "whole"
        BY <2>1 DEF Stale, Whole
      <3>2. content[link[f]] = "whole"
        BY <1>0, <2>1, <3>1 DEF FilesTyped
      <3>3. Noticed(link[f])
        BY <1>0, <3>1, <3>2 DEF NoEditLost, StaleIsNoticed, Stale, Whole
      <3>4. QED
        BY <2>1, <3>3 DEF Noticed, threadVars
    <2>7. QED
      BY <2>2, <2>3, <2>4, <2>5, <2>6, TypeOKIs DEF IInv
  <1>7. ASSUME NEW d \in Dirs, MakeDir(d) PROVE IInv'
    <2>1. /\ live' = live \cup {d} /\ edits < MaxEdits /\ edits' = edits + 1
          /\ UNCHANGED <<content, link, alive, queue, threadVars, changed, covered>>
      BY <1>7 DEF MakeDir, Edit
    <2>2. FilesTyped'
      BY <1>0, <2>1, Constants DEF FilesTyped
    <2>3. KernelTyped' /\ UNCHANGED <<loaded, dirs>>
      BY <1>0, <2>1 DEF KernelTyped, threadVars
    <2>4. LoaderTyped' /\ HistoryTyped' /\ DetachedReadNothing' /\ HookedIsNoted'
      BY <1>0, <2>1, LoaderRests DEF HistoryTyped
    <2>5. CoveredIsWatched' /\ NoEditLost'
      BY <1>0, <2>1, <2>3 DEF CoveredIsWatched, NoEditLost, StaleIsNoticed, Stale, Noticed, Whole, threadVars
    <2>6. QED
      BY <2>2, <2>3, <2>4, <2>5, TypeOKIs DEF IInv
  <1>8. QED
    BY <1>1, <1>2, <1>3, <1>4, <1>5, <1>6, <1>7 DEF Editor

------------------------------------------------------------------------------
(* The event loop's thread *)

\* A step of the thread leaves the files alone.
LEMMA FilesRest == FilesTyped /\ UNCHANGED fileVars => FilesTyped'
  BY DEF FilesTyped, fileVars

\* A read takes events off the queue and into the batch.
LEMMA WakeupKeeps == ASSUME IInv, Wakeup PROVE IInv'
  <1> DEFINE n == IF Len(queue) < BufferLen THEN Len(queue) ELSE BufferLen
  <1>0. /\ FilesTyped /\ KernelTyped /\ LoaderTyped /\ HistoryTyped /\ queue # <<>> /\ batch = <<>>
        /\ queue \in Seq(Paths) /\ Len(queue) <= QueueLimit /\ QueueLimit \in Nat /\ BufferLen \in Nat \ {0}
    BY TypeOKIs, Constants DEF IInv, Wakeup, KernelTyped
  <1>1. n \in 1..Len(queue) /\ n <= BufferLen
    BY <1>0, EmptySeq, LenProperties
  <1>2. /\ batch' = SubSeq(queue, 1, n) /\ queue' = SubSeq(queue, n + 1, Len(queue))
        /\ UNCHANGED <<fileVars, alive, loaded, dirs, up, asked, todo, hooked, read, changed, covered>>
    BY DEF Wakeup, Taken
  <1> HIDE DEF n
  <1>3. /\ batch' \in Seq(Paths) /\ Len(batch') = n /\ queue' \in Seq(Paths)
        /\ Len(queue') <= Len(queue) /\ ToSet(queue) \subseteq ToSet(batch') \cup ToSet(queue')
    BY <1>0, <1>1, <1>2, Splitting
  <1>4. FilesTyped' /\ KernelTyped'
    BY <1>0, <1>2, <1>3, LenProperties, FilesRest DEF KernelTyped, fileVars
  <1>5. LoaderTyped' /\ HistoryTyped'
    BY <1>0, <1>1, <1>2, <1>3 DEF LoaderTyped, HistoryTyped, Idle
  <1>6. DetachedReadNothing' /\ HookedIsNoted' /\ CoveredIsWatched'
    BY <1>2 DEF IInv, DetachedReadNothing, HookedIsNoted, CoveredIsWatched, fileVars
  <1>7. \A p : Noticed(p) => Noticed(p)'
    <2>1. ToSet(batch) = {}
      BY <1>0 DEF ToSet
    <2>2. QED
      BY <1>2, <1>3, <2>1 DEF Noticed
  <1>8. NoEditLost'
    BY <1>2, <1>7 DEF IInv, NoEditLost, StaleIsNoticed, Stale, Whole, fileVars
  <1>9. QED
    BY <1>4, <1>5, <1>6, <1>8, TypeOKIs DEF IInv

\* The event of a file that is covered matches, and asks for a reload.
LEMMA HandleEventKeeps == ASSUME IInv, HandleEvent PROVE IInv'
  <1>0. /\ FilesTyped /\ KernelTyped /\ LoaderTyped /\ HistoryTyped /\ batch # <<>> /\ Idle
        /\ batch \in Seq(Paths) /\ Len(batch) <= BufferLen /\ BufferLen \in Nat
    BY TypeOKIs, Constants DEF IInv, HandleEvent, LoaderTyped
  <1>1. /\ batch' = Tail(batch) /\ asked' = (asked \/ (up /\ Matches(Head(batch))))
        /\ UNCHANGED <<fileVars, alive, queue, loaded, dirs, up, todo, hooked, read, changed, covered>>
    BY DEF HandleEvent
  <1>2. /\ batch' \in Seq(Paths) /\ Len(batch') <= Len(batch) /\ Len(batch) \in Nat /\ Len(batch') \in Nat
        /\ ToSet(batch) = {Head(batch)} \cup ToSet(batch')
    BY <1>0, <1>1, Taking, LenProperties
  <1>3. FilesTyped' /\ KernelTyped'
    BY <1>0, <1>1, FilesRest DEF KernelTyped, fileVars
  <1>4. LoaderTyped' /\ HistoryTyped'
    <2>1. asked' \in BOOLEAN
      BY <1>1, Zenon
    <2>2. LoaderTyped'
      BY <1>0, <1>1, <1>2, <2>1 DEF LoaderTyped
    <2>3. HistoryTyped'
      BY <1>0, <1>1 DEF HistoryTyped, Idle
    <2>4. QED
      BY <2>2, <2>3
  <1>5. DetachedReadNothing' /\ HookedIsNoted' /\ CoveredIsWatched'
    BY <1>1 DEF IInv, DetachedReadNothing, HookedIsNoted, CoveredIsWatched, fileVars
  <1>6. NoEditLost'
    <2> SUFFICES ASSUME NEW f \in Names, Stale(f)' PROVE Noticed(link[f])'
      BY DEF NoEditLost, StaleIsNoticed
    <2>1. Stale(f) /\ UNCHANGED link
      BY <1>1 DEF Stale, Whole, fileVars
    <2>2. Noticed(link[f])
      BY <2>1 DEF IInv, NoEditLost, StaleIsNoticed
    <2>3. f \in read /\ up /\ Matches(link[f])
      <3>1. f \in covered
        BY <2>1 DEF Stale
      <3>2. f \in read /\ up
        BY <1>0, <3>1 DEF HistoryTyped, IInv, DetachedReadNothing
      <3>3. link[f] \in loaded /\ Dir[link[f]] \in dirs
        BY <1>0, <3>1 DEF IInv, CoveredIsWatched, KernelTyped
      <3>4. QED
        BY <3>2, <3>3 DEF Matches
    <2>4. CASE link[f] = Head(batch)
      <3>1. asked'
        BY <1>1, <2>3, <2>4, Zenon
      <3>2. QED
        BY <3>1 DEF Noticed
    <2>5. CASE link[f] # Head(batch)
      <3>1. asked => asked'
        BY <1>1, Zenon
      <3>2. link[f] \in ToSet(queue) \cup ToSet(batch) => link[f] \in ToSet(queue') \cup ToSet(batch')
        BY <1>1, <1>2, <2>5
      <3>3. QED
        BY <2>1, <2>2, <3>1, <3>2 DEF Noticed
    <2>6. QED
      BY <2>4, <2>5
  <1>7. QED
    BY <1>3, <1>4, <1>5, <1>6, TypeOKIs DEF IInv

\* A load, and an unload, begin with nothing read and nothing asked for.
LEMMA NothingRead ==
    ASSUME IInv, UNCHANGED <<fileVars, alive, queue, loaded, dirs, batch>>,
           read' = {}, changed' = {}, covered' = {}, asked' = FALSE, up' \in BOOLEAN,
           \/ todo' = Files /\ hooked' = None /\ up'
           \/ UNCHANGED <<todo, hooked>> /\ Idle
    PROVE  IInv'
  <1>0. FilesTyped /\ KernelTyped /\ LoaderTyped /\ HistoryTyped
    BY TypeOKIs DEF IInv
  <1>1. FilesTyped' /\ KernelTyped'
    BY <1>0, FilesRest DEF KernelTyped, fileVars
  <1>2. \E i, j \in 0 .. Len(Files) : todo' = SubSeq(Files, i + 1, j)
    <2>1. CASE todo' = Files
      <3>1. Files \in Seq(Names) /\ 0 \in 0..Len(Files) /\ Len(Files) \in 0..Len(Files)
        BY Constants, WatchAssumption
      <3>2. todo' = SubSeq(Files, 0 + 1, Len(Files))
        BY <2>1, <3>1, SubSeqFull
      <3>3. QED
        BY <3>1, <3>2
    <2>2. CASE UNCHANGED todo
      BY <1>0, <2>2 DEF LoaderTyped
    <2>3. QED
      BY <2>1, <2>2
  <1>3. LoaderTyped'
    BY <1>0, <1>2 DEF LoaderTyped
  <1>4. HistoryTyped'
    BY <1>0 DEF HistoryTyped, Idle
  <1>5. DetachedReadNothing' /\ HookedIsNoted' /\ CoveredIsWatched' /\ NoEditLost'
    BY DEF IInv, DetachedReadNothing, HookedIsNoted, CoveredIsWatched, NoEditLost, StaleIsNoticed, Stale
  <1>6. QED
    BY <1>1, <1>3, <1>4, <1>5, TypeOKIs DEF IInv

\* The hook's place is noted, and its directory watched if it can be.
LEMMA HookKeeps == ASSUME IInv, Hook PROVE IInv'
  <1> DEFINE f == Head(todo)
             p == hooked'
  <1>0. FilesTyped /\ KernelTyped /\ LoaderTyped /\ HistoryTyped /\ ~Idle /\ hooked = None
    BY TypeOKIs DEF IInv, Hook
  <1>1. /\ hooked' = Canonical(f) /\ loaded' = loaded \cup {p}
        /\ UNCHANGED <<fileVars, queue, batch, up, asked, todo, read, changed, covered>>
    BY DEF Hook, NoteLoaded
  <1>2. f \in Names /\ p \in Paths
    <2>1. f \in Names
      BY <1>0, TodoIs
    <2>2. QED
      BY <1>0, <1>1, <2>1, Constants DEF Canonical, FilesTyped
  <1>3. /\ alive \subseteq alive' /\ alive' \subseteq live' \cap dirs' /\ dirs' \subseteq Dirs
    <2>1. Dir[p] \in Dirs
      BY <1>2, Constants
    <2>2. CASE p \in loaded \/ Dir[p] \in dirs \/ Dir[p] \notin live
      <3>1. UNCHANGED <<dirs, alive>>
        BY <2>2 DEF Hook, NoteLoaded
      <3>2. QED
        BY <1>0, <1>1, <3>1 DEF KernelTyped, fileVars
    <2>3. CASE ~(p \in loaded \/ Dir[p] \in dirs \/ Dir[p] \notin live)
      <3>1. dirs' = dirs \cup {Dir[p]} /\ alive' = alive \cup {Dir[p]}
        BY <2>3 DEF Hook, NoteLoaded
      <3>2. QED
        BY <1>0, <1>1, <2>1, <2>3, <3>1 DEF KernelTyped, fileVars
    <2>4. QED
      BY <2>2, <2>3
  <1> HIDE DEF f
  <1>4. FilesTyped' /\ KernelTyped'
    BY <1>0, <1>1, <1>3, FilesRest DEF KernelTyped
  <1>5. LoaderTyped' /\ HistoryTyped'
    BY <1>0, <1>1, <1>2 DEF LoaderTyped, HistoryTyped, Idle
  <1>6. DetachedReadNothing' /\ HookedIsNoted' /\ CoveredIsWatched' /\ NoEditLost'
    BY <1>1, <1>3 DEF IInv, DetachedReadNothing, HookedIsNoted, CoveredIsWatched, NoEditLost,
                      StaleIsNoticed, Stale, Noticed, Whole, fileVars
  <1>7. QED
    BY <1>4, <1>5, <1>6, TypeOKIs DEF IInv

\* A file is covered when it is read at the place that was noted, and not before.
LEMMA ReadKeeps == ASSUME IInv, Read PROVE IInv'
  <1> DEFINE f == Head(todo)
             p == link[f]
  <1>0. /\ FilesTyped /\ KernelTyped /\ LoaderTyped /\ HistoryTyped /\ ~Idle /\ hooked # None
        /\ hooked \in loaded
    BY TypeOKIs DEF IInv, Read, HookedIsNoted
  <1>1. /\ read' = read \cup {f} /\ hooked' = None
        /\ covered' = IF f \notin read /\ hooked = p /\ Dir[p] \in alive THEN covered \cup {f} ELSE covered
        /\ UNCHANGED <<fileVars, alive, queue, loaded, dirs, batch, up, asked, changed>>
    BY DEF Read
  <1>2. f \in Names
    BY <1>0, TodoIs
  <1>3. \E i, j \in 0..Len(Files) : todo' = SubSeq(Files, i + 1, j)
    <2>1. PICK n \in 1..Len(todo) : todo' = SubSeq(todo, 2, n)
      BY DEF Read
    <2>2. QED
      BY <1>0, <2>1, PartOfTodo
  <1> HIDE DEF f
  <1>4. FilesTyped' /\ KernelTyped'
    BY <1>0, <1>1, FilesRest DEF KernelTyped, fileVars
  <1>5. LoaderTyped'
    BY <1>0, <1>1, <1>3 DEF LoaderTyped
  <1>6. HistoryTyped'
    BY <1>0, <1>1, <1>2 DEF HistoryTyped
  <1>7. DetachedReadNothing' /\ HookedIsNoted'
    BY <1>0, <1>1 DEF IInv, DetachedReadNothing, HookedIsNoted, HistoryTyped
  <1>8. CoveredIsWatched'
    <2>1. \A g \in covered' : g \in covered \/ (g = f /\ hooked = link[g] /\ Dir[link[g]] \in alive)
      BY <1>1
    <2>2. QED
      BY <1>0, <1>1, <2>1 DEF IInv, CoveredIsWatched, fileVars
  <1>9. NoEditLost'
    <2> SUFFICES ASSUME NEW g \in Names, Stale(g)' PROVE Noticed(link[g])'
      BY DEF NoEditLost, StaleIsNoticed
    <2>1. g \in covered' /\ g \in changed /\ Whole(link[g])
      BY <1>1 DEF Stale, Whole, fileVars
    <2>2. g \in covered
      BY <1>0, <1>1, <2>1 DEF HistoryTyped
    <2>3. Noticed(link[g])
      BY <2>1, <2>2 DEF IInv, NoEditLost, StaleIsNoticed, Stale
    <2>4. QED
      BY <1>1, <2>3 DEF Noticed, fileVars
  <1>10. QED
    BY <1>4, <1>5, <1>6, <1>7, <1>8, <1>9, TypeOKIs DEF IInv

LEMMA StepKeeps == IInv /\ [Next]_vars => IInv'
  <1> SUFFICES ASSUME IInv, [Next]_vars PROVE IInv'
    OBVIOUS
  <1>1. CASE Editor
    BY <1>1, EditorKeeps
  <1>2. CASE Wakeup
    BY <1>2, WakeupKeeps
  <1>3. CASE HandleEvent
    BY <1>3, HandleEventKeeps
  <1>4. CASE BeginReload
    <2>1. up' = TRUE
      BY <1>4, TypeOKIs DEF BeginReload, IInv, LoaderTyped
    <2>2. QED
      BY <1>4, <2>1, NothingRead DEF BeginReload, Load
  <1>5. CASE Detach
    BY <1>5, NothingRead DEF Detach
  <1>6. CASE Reattach
    BY <1>6, NothingRead DEF Reattach, Load
  <1>7. CASE Hook
    BY <1>7, HookKeeps
  <1>8. CASE Read
    BY <1>8, ReadKeeps
  <1>9. CASE UNCHANGED vars
    <2>1. UNCHANGED <<content, link, live, edits, alive, queue, loaded, dirs, batch, up, asked, todo,
                      hooked, read, changed, covered>>
      BY <1>9 DEF vars, fileVars, threadVars
    <2>2. QED
      BY <2>1 DEF IInv, TypeOK, Idle, DetachedReadNothing, HookedIsNoted, CoveredIsWatched,
                  NoEditLost, StaleIsNoticed, Stale, Noticed, Whole
  <1>10. QED
    BY <1>1, <1>2, <1>3, <1>4, <1>5, <1>6, <1>7, <1>8, <1>9 DEF Next

THEOREM Invariance == Spec => []IInv
  BY InitIs, StepKeeps, PTL DEF Spec

\* The variables of the watcher keep their types, and a load agrees with the
\* plugin's state, for any config, queue and number of edits.
THEOREM TypeCorrect == Spec => []TypeOK
  <1>1. IInv => TypeOK
    BY DEF IInv
  <1>2. QED
    BY <1>1, Invariance, PTL

\* No edit of a file that stayed watched is lost on its way: while the file is whole
\* and not what the running config read, its event is queued or being handled, or a
\* reload has been asked for (hl--watch-note-loaded!, hl--watch-on-readable).
THEOREM EditsAreNoticed == Spec => []NoEditLost
  <1>1. IInv => NoEditLost
    BY DEF IInv
  <1>2. QED
    BY <1>1, Invariance, PTL

=============================================================================
