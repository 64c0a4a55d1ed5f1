------------------------- MODULE BufferMarksProofs -------------------------
(***************************************************************************)
(* For any names of buffers, any flags and any bounds.                     *)
(*                                                                         *)
(* That only orphans are left is about ids only: a buffer gets marks in a  *)
(* step after which it exists, or from a client that speaks of it; that    *)
(* these are never another buffer's needs that ids rise.  The types (Sound) *)
(* need that no mark goes beyond the backlog and no id beyond the last one *)
(* given; the order of the rows (InLine), that the numbers of the queue    *)
(* rise and are above those of the backlog.  What is shown and what is     *)
(* saved (Agree) are one invariant on top of these: a restart shows what   *)
(* was saved, and a row is counted when it is stored.                      *)
(***************************************************************************)
EXTENDS BufferMarks, FiniteSetTheorems, FunctionTheorems, SequenceTheorems,
        WellFoundedInduction, TLAPS

\* A record of three functions on the ids, whatever their values.
IsMarks(m) ==
    /\ m = [lastSeen |-> m.lastSeen, highlights |-> m.highlights, active |-> m.active]
    /\ m.lastSeen = [b \in Ids |-> m.lastSeen[b]]
    /\ m.highlights = [b \in Ids |-> m.highlights[b]]
    /\ m.active = [b \in Ids |-> m.active[b]]

\* A message of the queue, whatever its number and flags.
Queued == [n : Nat, target : Targets, flags : Flags]

Shape ==
    /\ bufferOf \in [Targets -> Nat]
    /\ lastId \in Nat /\ received \in Nat
    /\ queue \in Seq(Queued)
    /\ IsMarks(marks) /\ IsMarks(saved)

IInv == Shape /\ OnlyOrphansAreLeft

-----------------------------------------------------------------------------
\* What stands for no marks is none.
LEMMA NoMarksAreBlank == IsMarks(NoMarks) /\ \A b \in Ids : Blank(NoMarks, b)
BY DEF IsMarks, NoMarks, Blank

\* Replacing the marks of some buffers by none leaves these blank and the others alone.
LEMMA ReplacedByNone ==
    ASSUME NEW m, NEW B
    PROVE  /\ IsMarks(Replaced(m, B, NoMarks))
           /\ \A b \in Ids \intersect B : Blank(Replaced(m, B, NoMarks), b)
           /\ \A b \in Ids \ B : Blank(m, b) => Blank(Replaced(m, B, NoMarks), b)
BY DEF Replaced, NoMarks, Blank, IsMarks

-----------------------------------------------------------------------------
(* Processing the queue.                                                   *)

\* Finitely many messages make a buffer.
LEMMA MakersAreCounted ==
    ASSUME Shape
    PROVE  /\ IsFiniteSet(Makers) /\ Cardinality(Makers) \in Nat
           /\ \A S \in SUBSET Makers : Cardinality(S) \in Nat
<1>1. IsFiniteSet(DOMAIN queue)
  <2>1. DOMAIN queue = 1 .. Len(queue) /\ Len(queue) \in Nat
    BY DEF Shape
  <2> QED
    BY <2>1, FS_Interval
<1>2. Makers \subseteq DOMAIN queue
  BY DEF Makers
<1>3. \A S \in SUBSET Makers : IsFiniteSet(S)
  BY <1>1, <1>2, FS_Subset
<1> QED
  BY <1>3, FS_CardinalityType

\* A buffer that exists keeps its id.
LEMMA BuffersStay ==
    ASSUME Shape, NEW t \in Targets, bufferOf[t] # 0
    PROVE  WithMade[t] = bufferOf[t] /\ BuffersAfter[t] = bufferOf[t]
<1>1. {i \in Makers : queue[i].target = t} = {}
  BY DEF Makers
<1>2. WithMade[t] = bufferOf[t]
  BY <1>1 DEF WithMade
<1>3. t = Status => ~NeedsStatus
  BY <1>2 DEF NeedsStatus
<1> QED
  BY <1>2, <1>3, StatusIsATarget DEF BuffersAfter, WithMade

\* The tables hold ids afterwards, and the status buffer is there if it is needed.
LEMMA TablesAfter ==
    ASSUME Shape
    PROVE  /\ WithMade \in [Targets -> Nat] /\ BuffersAfter \in [Targets -> Nat] /\ LastIdAfter \in Nat
           /\ NeedsStatus => BuffersAfter[Status] # 0
<1>1. lastId \in Nat /\ bufferOf \in [Targets -> Nat]
  BY DEF Shape
<1>2. WithMade \in [Targets -> Nat]
  <2> SUFFICES ASSUME NEW t \in Targets PROVE WithMade[t] \in Nat
    BY DEF WithMade
  <2> DEFINE made == {i \in Makers : queue[i].target = t}
             upTo == {i \in Makers : \E j \in made : i <= j}
  <2>1. Cardinality(upTo) \in Nat
    BY MakersAreCounted
  <2>2. lastId + Cardinality(upTo) \in Nat
    BY <1>1, <2>1
  <2> QED
    BY <1>1, <2>2 DEF WithMade
<1>3. lastId + Cardinality(Makers) + 1 \in Nat \ {0}
  BY <1>1, MakersAreCounted
<1>4. BuffersAfter \in [Targets -> Nat]
  BY <1>2, <1>3 DEF BuffersAfter
<1>5. LastIdAfter \in Nat
  BY <1>1, MakersAreCounted DEF LastIdAfter
<1>6. NeedsStatus => BuffersAfter[Status] # 0
  BY <1>2, <1>3, StatusIsATarget DEF BuffersAfter
<1> QED
  BY <1>2, <1>4, <1>5, <1>6

\* Each message of the queue is counted for a buffer that exists afterwards.
LEMMA PlacesExist ==
    ASSUME Shape, NEW i \in DOMAIN queue
    PROVE  \E t \in Targets : BuffersAfter[t] = PlaceOf(queue[i]) /\ BuffersAfter[t] # 0
<1> DEFINE t == queue[i].target
<1>1. t \in Targets
  <2>1. queue[i] \in Queued
    BY DEF Shape
  <2> QED
    BY <2>1 DEF Queued
<1>2. CASE WithMade[t] # 0
  <2>1. t = Status => ~NeedsStatus
    BY <1>2 DEF NeedsStatus
  <2>2. BuffersAfter[t] = WithMade[t]
    BY <1>1, <2>1, TablesAfter DEF BuffersAfter
  <2> QED
    BY <1>1, <1>2, <2>2 DEF PlaceOf
<1>3. CASE WithMade[t] = 0
  <2>1. Homeless # {}
    BY <1>3 DEF Homeless
  <2>2. BuffersAfter[Status] # 0
    <3>1. CASE NeedsStatus
      BY <3>1, TablesAfter
    <3>2. CASE ~NeedsStatus
      BY <2>1, <3>2, TablesAfter, StatusIsATarget DEF NeedsStatus, BuffersAfter
    <3> QED
      BY <3>1, <3>2
  <2> QED
    BY <1>3, <2>2, StatusIsATarget DEF PlaceOf
<1> QED
  BY <1>2, <1>3

\* A turn counts only for buffers that exist after it.
LEMMA ProcessMessagesStep == IInv /\ ProcessMessages => IInv'
<1> SUFFICES ASSUME IInv, ProcessMessages PROVE IInv'
  OBVIOUS
<1>0. Shape /\ OnlyOrphansAreLeft
  BY DEF IInv
<1>1. bufferOf' = BuffersAfter /\ lastId' = LastIdAfter /\ queue' = <<>>
      /\ UNCHANGED <<saved, received, orphans>>
  BY DEF ProcessMessages
<1>2. Existing \subseteq Existing'
  <2> SUFFICES ASSUME NEW t \in Targets, bufferOf[t] # 0 PROVE bufferOf'[t] = bufferOf[t]
    BY DEF Existing
  <2> QED
    BY <1>0, <1>1, BuffersStay
<1>3. CASE UNCHANGED syncer
  <2>1. Shape'
    BY <1>0, <1>1, <1>3, TablesAfter DEF Shape, IsMarks, syncer
  <2>2. OnlyOrphansAreLeft'
    BY <1>0, <1>1, <1>2, <1>3 DEF OnlyOrphansAreLeft, syncer, Blank, Ids
  <2> QED
    BY <2>1, <2>2 DEF IInv
<1>4. CASE Count
  <2>1. Shape'
    <3>1. IsMarks(marks')
      <4>1. marks.lastSeen = [b \in Ids |-> marks.lastSeen[b]]
        BY <1>0 DEF Shape, IsMarks
      <4> QED
        BY <1>4, <4>1 DEF Count, IsMarks
    <3> QED
      BY <1>0, <1>1, <3>1, TablesAfter DEF Shape, IsMarks, Ids
  <2>2. ASSUME NEW b \in Ids, b \notin Existing', Blank(marks, b) PROVE Blank(marks', b)
    <3>1. \A i \in DOMAIN queue : PlaceOf(queue[i]) # b
      BY <1>0, <1>1, <2>2, PlacesExist DEF Existing
    <3>2. b \notin Touched /\ NewHighlights(b) = {}
      BY <3>1 DEF Touched, NewHighlights
    <3>3. Cardinality(NewHighlights(b)) = 0
      BY <3>2, FS_EmptySet
    <3>4. /\ marks'.lastSeen[b] = marks.lastSeen[b]
          /\ marks'.highlights[b] = marks.highlights[b] + Cardinality(NewHighlights(b))
          /\ marks'.active[b] <=> (marks.active[b] \/ b \in Touched)
      BY <1>4 DEF Count
    <3>5. marks'.highlights[b] = 0
      BY <2>2, <3>3, <3>4 DEF Blank
    <3> QED
      BY <2>2, <3>2, <3>4, <3>5 DEF Blank
  <2>3. OnlyOrphansAreLeft'
    BY <1>0, <1>1, <1>2, <2>2 DEF OnlyOrphansAreLeft, Blank, Ids
  <2> QED
    BY <2>1, <2>3 DEF IInv
<1> QED
  BY <1>3, <1>4 DEF ProcessMessages

-----------------------------------------------------------------------------
(* What clients ask for, the end of the network, storing and restarting.   *)

\* A client that sets marks of an id without a buffer is noted.
LEMMA MarksOnlyStep ==
    ASSUME IInv, NEW b, NEW id, RequestSetLastSeenMsg(b, id) \/ RequestMarkBufferAsRead(b)
    PROVE  IInv'
<1>0. Shape /\ OnlyOrphansAreLeft
  BY DEF IInv
<1>1. UNCHANGED <<bufferOf, lastId, saved, queue, received>>
  BY DEF RequestSetLastSeenMsg, RequestMarkBufferAsRead, tables
<1>2. Existing' = Existing
  BY <1>1 DEF Existing
<1>3. CASE RequestSetLastSeenMsg(b, id)
  <2>1. IsMarks(marks') /\ \A c \in Ids \ {b} : Blank(marks, c) => Blank(marks', c)
    BY <1>0, <1>3 DEF RequestSetLastSeenMsg, Shape, IsMarks, Blank
  <2>2. orphans \subseteq orphans' /\ (b \in Ids \ Existing => b \in orphans')
    BY <1>3 DEF RequestSetLastSeenMsg
  <2> QED
    BY <1>0, <1>1, <1>2, <2>1, <2>2 DEF IInv, Shape, OnlyOrphansAreLeft, IsMarks, Blank, Ids
<1>4. CASE RequestMarkBufferAsRead(b)
  <2>1. IsMarks(marks') /\ \A c \in Ids : Blank(marks, c) => Blank(marks', c)
    BY <1>0, <1>4 DEF RequestMarkBufferAsRead, Shape, IsMarks, Blank
  <2>2. orphans' = orphans
    BY <1>4 DEF RequestMarkBufferAsRead
  <2> QED
    BY <1>0, <1>1, <1>2, <2>1, <2>2 DEF IInv, Shape, OnlyOrphansAreLeft, IsMarks, Blank, Ids
<1> QED
  BY <1>3, <1>4

\* Taking the buffer of target t out of the table with its marks.
LEMMA TakenOut ==
    ASSUME IInv, NEW t \in Targets, bufferOf[t] # 0,
           bufferOf' = [bufferOf EXCEPT ![t] = 0],
           saved' = Replaced(saved, {bufferOf[t]}, NoMarks),
           marks' = Replaced(marks, {bufferOf[t]}, NoMarks),
           UNCHANGED <<lastId, queue, received, orphans>>
    PROVE  IInv'
<1>0. Shape /\ OnlyOrphansAreLeft
  BY DEF IInv
<1>1. Existing \subseteq Existing' \union {bufferOf[t]}
  BY <1>0 DEF Existing, Shape
<1>2. \A b \in Ids \ Existing' : Blank(saved, b) => Blank(saved', b)
  BY ReplacedByNone
<1>3. \A b \in Ids \ Existing' : Blank(marks, b) => Blank(marks', b)
  BY ReplacedByNone
<1>4. \A b \in Ids \intersect {bufferOf[t]} : Blank(saved', b) /\ Blank(marks', b)
  BY ReplacedByNone
<1>5. OnlyOrphansAreLeft'
  BY <1>0, <1>1, <1>2, <1>3, <1>4 DEF OnlyOrphansAreLeft, Blank, Ids
<1>6. IsMarks(saved') /\ IsMarks(marks')
  BY ReplacedByNone
<1>7. Shape'
  BY <1>0, <1>6 DEF Shape, IsMarks, Ids
<1> QED
  BY <1>5, <1>7 DEF IInv

\* A new name leaves the id as it is.
LEMMA RenameStep ==
    ASSUME IInv, NEW t \in Targets, NEW new \in Targets, RenameBuffer(t, new)
    PROVE  IInv'
<1>0. Shape /\ OnlyOrphansAreLeft
  BY DEF IInv
<1>1. /\ bufferOf' = [bufferOf EXCEPT ![t] = 0, ![new] = bufferOf[t]]
      /\ bufferOf[t] # 0 /\ bufferOf[new] = 0 /\ t # new
      /\ UNCHANGED <<lastId, saved, marks, queue, received, orphans>>
  BY DEF RenameBuffer, syncer
<1>2. Existing \subseteq Existing'
  BY <1>0, <1>1 DEF Existing, Shape
<1>3. Shape'
  BY <1>0, <1>1 DEF Shape, IsMarks, Ids
<1>4. OnlyOrphansAreLeft'
  BY <1>0, <1>1, <1>2 DEF OnlyOrphansAreLeft, Blank, Ids
<1> QED
  BY <1>3, <1>4 DEF IInv

\* Every step leaves nothing of a buffer that is gone.
LEMMA IInvStep == IInv /\ [Next]_vars => IInv'
<1> SUFFICES ASSUME IInv, [Next]_vars PROVE IInv'
  OBVIOUS
<1>0. Shape /\ OnlyOrphansAreLeft
  BY DEF IInv
<1>1. ASSUME NEW t \in Targets, NEW f \in Flags, RecvMessage(t, f) PROVE IInv'
  <2>1. queue' \in Seq(Queued) /\ received' \in Nat
    BY <1>0, <1>1 DEF RecvMessage, Shape, Queued
  <2>2. UNCHANGED <<bufferOf, lastId, saved, marks, orphans>>
    BY <1>1 DEF RecvMessage, tables, syncer
  <2> QED
    BY <1>0, <2>1, <2>2 DEF IInv, Shape, OnlyOrphansAreLeft, Existing, IsMarks, Blank, Ids
<1>2. ASSUME NEW t \in Targets, RemoveBuffer(t) PROVE IInv'
  BY <1>2, TakenOut DEF RemoveBuffer
<1>3. ASSUME NEW t1 \in Targets, NEW t2 \in Targets, MergeBuffersPermanently(t1, t2) PROVE IInv'
  BY <1>3, TakenOut DEF MergeBuffersPermanently
<1>4. CASE PurgeBufferIds
  <2> DEFINE gone == {b \in Ids \ Existing : marks.lastSeen[b] > 0}
  <2>1. /\ marks' = Replaced(marks, gone, NoMarks) /\ orphans' = orphans \ gone
        /\ UNCHANGED <<bufferOf, lastId, saved, queue, received>>
    BY <1>4 DEF PurgeBufferIds, tables
  <2> HIDE DEF gone
  <2>2. Existing' = Existing
    BY <2>1 DEF Existing
  <2>3. IsMarks(marks') /\ \A b \in Ids : b \in gone \/ Blank(marks, b) => Blank(marks', b)
    BY <2>1, ReplacedByNone
  <2>4. OnlyOrphansAreLeft'
    BY <1>0, <2>1, <2>2, <2>3 DEF OnlyOrphansAreLeft, Blank, Ids
  <2>5. Shape'
    BY <1>0, <2>1, <2>3 DEF Shape, IsMarks, Ids
  <2> QED
    BY <2>4, <2>5 DEF IInv
<1>5. CASE DestroyNetwork
  <2>1. /\ bufferOf' = [t \in Targets |-> 0] /\ saved' = NoMarks /\ queue' = <<>>
        /\ orphans' = orphans \union Existing /\ UNCHANGED <<lastId, marks, received>>
    BY <1>5 DEF DestroyNetwork, NetworkDeleted, syncer
  <2>2. OnlyOrphansAreLeft'
    BY <1>0, <2>1, NoMarksAreBlank DEF OnlyOrphansAreLeft, Blank, Ids
  <2>3. Shape'
    BY <1>0, <2>1, NoMarksAreBlank DEF Shape, IsMarks, Ids
  <2> QED
    BY <2>2, <2>3 DEF IInv
<1>6. CASE StoreDirtyIds
  <2>1. UNCHANGED <<bufferOf, lastId, marks, queue, received, orphans>>
    BY <1>6 DEF StoreDirtyIds
  <2>2. IsMarks(saved')
    BY <1>6 DEF StoreDirtyIds, IsMarks, Ids
  <2>3. \A b \in Ids \ Existing : Blank(saved, b) => Blank(saved', b)
    BY <1>6 DEF StoreDirtyIds, Blank, LastSeenColumn
  <2>4. Existing' = Existing
    BY <2>1 DEF Existing
  <2>5. OnlyOrphansAreLeft'
    BY <1>0, <2>1, <2>3, <2>4 DEF OnlyOrphansAreLeft, Blank, Ids
  <2>6. Shape'
    BY <1>0, <2>1, <2>2 DEF Shape, IsMarks, Ids
  <2> QED
    BY <2>5, <2>6 DEF IInv
<1>7. CASE Restart
  <2>1. marks' = saved /\ queue' = <<>> /\ UNCHANGED <<bufferOf, lastId, saved, received>>
    BY <1>7 DEF Restart, tables
  <2> QED
    BY <1>0, <2>1 DEF IInv, Shape, OnlyOrphansAreLeft, Existing, IsMarks, Blank, Ids
<1>8. CASE UNCHANGED vars
  BY <1>0, <1>8 DEF vars, tables, syncer, IInv, Shape, OnlyOrphansAreLeft, Existing, IsMarks, Blank, Ids
<1> QED
  BY <1>1, <1>2, <1>3, <1>4, <1>5, <1>6, <1>7, <1>8, ProcessMessagesStep, MarksOnlyStep, RenameStep DEF Next

\* Of a buffer that is gone nothing is left in the table, and in memory only if it is an orphan.
LEMMA OnlyOrphans == Spec => []OnlyOrphansAreLeft
<1>1. Init => IInv
  <2> SUFFICES ASSUME Init PROVE IInv
    OBVIOUS
  <2>1. OnlyOrphansAreLeft
    BY NoMarksAreBlank DEF Init, OnlyOrphansAreLeft
  <2>2. Shape
    BY NoMarksAreBlank DEF Init, Shape
  <2> QED
    BY <2>1, <2>2 DEF IInv
<1>2. Spec => []IInv
  BY <1>1, IInvStep, PTL DEF Spec
<1> QED
  BY <1>2, PTL DEF IInv
-----------------------------------------------------------------------------
(* The order in which the messages of a turn are stored.                   *)

\* In a total order of 1 .. n, given by what is up to each element, the elements are
\* told apart by how much that is, and each number up to n is one of them.
LEMMA ChainsAreRanked ==
    ASSUME NEW n \in Nat, NEW below \in [1 .. n -> SUBSET (1 .. n)],
           \A i \in 1 .. n : i \in below[i],
           \A i, j \in 1 .. n : i \in below[j] \/ j \in below[i],
           \A i, j \in 1 .. n : i \in below[j] /\ j \in below[i] => i = j,
           \A i, j \in 1 .. n : i \in below[j] => below[i] \subseteq below[j]
    PROVE  /\ \A i \in 1 .. n : Cardinality(below[i]) \in 1 .. n
           /\ \A i, j \in 1 .. n : Cardinality(below[i]) <= Cardinality(below[j]) => i \in below[j]
           /\ \A k \in 1 .. n : \E i \in 1 .. n : Cardinality(below[i]) = k
<1> DEFINE rank == [i \in 1 .. n |-> Cardinality(below[i])]
<1>1. IsFiniteSet(1 .. n) /\ Cardinality(1 .. n) = n
  BY FS_Interval
<1>2. \A i \in 1 .. n : IsFiniteSet(below[i]) /\ Cardinality(below[i]) \in Nat /\ Cardinality(below[i]) <= n
  BY <1>1, FS_Subset, FS_CardinalityType
<1>3. \A i \in 1 .. n : Cardinality(below[i]) \in 1 .. n
  <2> SUFFICES ASSUME NEW i \in 1 .. n PROVE Cardinality(below[i]) # 0
    BY <1>2
  <2> QED
    BY <1>2, FS_EmptySet
<1>4. ASSUME NEW i \in 1 .. n, NEW j \in 1 .. n, j \notin below[i]
      PROVE  Cardinality(below[i]) < Cardinality(below[j])
  <2>1. below[i] \in SUBSET below[j] /\ below[i] # below[j]
    BY <1>4
  <2>2. Cardinality(below[i]) <= Cardinality(below[j]) /\ Cardinality(below[i]) # Cardinality(below[j])
    BY <1>2, <2>1, FS_Subset
  <2> QED
    BY <1>2, <2>2
<1>5. ASSUME NEW i \in 1 .. n, NEW j \in 1 .. n, Cardinality(below[i]) <= Cardinality(below[j])
      PROVE  i \in below[j]
  <2> SUFFICES ASSUME i \notin below[j] PROVE FALSE
    OBVIOUS
  <2>1. Cardinality(below[j]) < Cardinality(below[i])
    BY <1>4
  <2> QED
    BY <1>2, <1>5, <2>1
<1>6. rank \in Injection(1 .. n, 1 .. n)
  <2>1. ASSUME NEW i \in 1 .. n, NEW j \in 1 .. n, rank[i] = rank[j] PROVE i = j
    <3>1. Cardinality(below[i]) <= Cardinality(below[j]) /\ Cardinality(below[j]) <= Cardinality(below[i])
      BY <1>2, <2>1
    <3> QED
      BY <1>5, <3>1
  <2>2. rank \in [1 .. n -> 1 .. n]
    BY <1>3
  <2> HIDE DEF rank
  <2> QED
    BY <2>1, <2>2 DEF Injection, IsInjective
<1>7. rank \in Surjection(1 .. n, 1 .. n)
  <2> HIDE DEF rank
  <2> QED
    BY <1>1, <1>6, FS_Injection
<1>8. \A k \in 1 .. n : \E i \in 1 .. n : Cardinality(below[i]) = k
  BY <1>7 DEF Surjection
<1> QED
  BY <1>3, <1>5, <1>8

\* Each message of the queue gets one row, and passes another one only if that waits.
LEMMA RowsAreOrdered ==
    ASSUME NEW n \in Nat, DOMAIN queue = 1 .. n
    PROVE  /\ \A k \in 1 .. n : Stored(k) \in 1 .. n
           /\ \A k, l \in 1 .. n : Stored(k) = Stored(l) => k = l
           /\ \A i \in 1 .. n : \E k \in 1 .. n : Stored(k) = i
           /\ \A k, l \in 1 .. n : k < l => Stored(k) < Stored(l) \/ Waits(Stored(l))
<1> DEFINE Low(i) == {j \in DOMAIN queue : UpTo(j, i)}
           below == [i \in 1 .. n |-> Low(i)]
<1>1. \A i, j \in 1 .. n : UpTo(j, i) <=> (((Waits(j) <=> Waits(i)) /\ j <= i) \/ (~Waits(j) /\ Waits(i)))
  <2> TAKE i, j \in 1 .. n
  <2> QED
    BY Zenon DEF UpTo
<1>2. below \in [1 .. n -> SUBSET (1 .. n)]
  OBVIOUS
<1>3. \A i, j \in 1 .. n : j \in below[i] <=> UpTo(j, i)
  OBVIOUS
<1>4. /\ \A i \in 1 .. n : i \in below[i]
      /\ \A i, j \in 1 .. n : i \in below[j] \/ j \in below[i]
      /\ \A i, j \in 1 .. n : i \in below[j] /\ j \in below[i] => i = j
  <2> HIDE DEF below
  <2> QED
    BY <1>1, <1>3
<1>5. ASSUME NEW i \in 1 .. n, NEW j \in 1 .. n, i \in below[j] PROVE below[i] \subseteq below[j]
  <2> SUFFICES ASSUME NEW l \in below[i] PROVE l \in below[j]
    OBVIOUS
  <2> l \in 1 .. n
    BY <1>2
  <2> HIDE DEF below
  <2> QED
    BY <1>1, <1>3, <1>5
<1>6. /\ \A i \in 1 .. n : Cardinality(below[i]) \in 1 .. n
      /\ \A i, j \in 1 .. n : Cardinality(below[i]) <= Cardinality(below[j]) => i \in below[j]
      /\ \A k \in 1 .. n : \E i \in 1 .. n : Cardinality(below[i]) = k
  <2> HIDE DEF below
  <2> QED
    BY <1>2, <1>4, <1>5, ChainsAreRanked
<1>7. \A k \in 1 .. n : Stored(k) \in 1 .. n /\ Cardinality(below[Stored(k)]) = k
  <2> TAKE k \in 1 .. n
  <2>1. Stored(k) = CHOOSE i \in 1 .. n : Cardinality(Low(i)) = k
    BY DEF Stored
  <2>2. \E i \in 1 .. n : Cardinality(Low(i)) = k
    BY <1>6
  <2>3. Stored(k) \in 1 .. n /\ Cardinality(Low(Stored(k))) = k
    <3> HIDE DEF Low
    <3> QED
      BY <2>1, <2>2
  <2> QED
    BY <2>3
<1> HIDE DEF below
<1>8. ASSUME NEW i \in 1 .. n PROVE \E k \in 1 .. n : Stored(k) = i
  <2> DEFINE k == Cardinality(below[i])
  <2>1. k \in 1 .. n /\ Stored(k) \in 1 .. n /\ Cardinality(below[Stored(k)]) = k
    BY <1>6, <1>7
  <2> HIDE DEF k
  <2>2. Stored(k) \in below[i] /\ i \in below[Stored(k)]
    <3>1. /\ Cardinality(below[Stored(k)]) <= Cardinality(below[i])
          /\ Cardinality(below[i]) <= Cardinality(below[Stored(k)])
      BY <2>1 DEF k
    <3> QED
      BY <1>6, <2>1, <3>1, Zenon
  <2> QED
    BY <1>4, <2>1, <2>2
<1>9. ASSUME NEW k \in 1 .. n, NEW l \in 1 .. n, k < l PROVE Stored(k) < Stored(l) \/ Waits(Stored(l))
  <2>0. /\ Stored(k) \in 1 .. n /\ Cardinality(below[Stored(k)]) = k
        /\ Stored(l) \in 1 .. n /\ Cardinality(below[Stored(l)]) = l
    BY <1>7
  <2>1. Stored(k) # Stored(l)
    BY <2>0, <1>9
  <2>2. Stored(k) \in below[Stored(l)]
    <3>1. Cardinality(below[Stored(k)]) <= Cardinality(below[Stored(l)])
      BY <2>0, <1>9
    <3> QED
      BY <1>6, <2>0, <3>1, Zenon
  <2> QED
    BY <1>1, <1>3, <2>0, <2>1, <2>2
<1> QED
  BY <1>7, <1>8, <1>9

-----------------------------------------------------------------------------
(* Types, and how far ids, marks and message numbers go.                   *)

MarksUpTo(k) == [lastSeen : [Ids -> 0 .. k], highlights : [Ids -> 0 .. k], active : [Ids -> BOOLEAN]]

\* No id is used that was not given, and no mark goes beyond the backlog.
Bounded ==
    /\ orphans \subseteq 1 .. lastId
    /\ \A i \in DOMAIN backlog : backlog[i].buffer <= lastId
    /\ Len(backlog) + Len(queue) <= received
    /\ marks \in MarksUpTo(Len(backlog)) /\ saved \in MarksUpTo(Len(backlog))

Sound == TypeOK /\ Bounded

\* What the types say of sequences, ids and rows, in the form the proofs use.
LEMMA SoundShape ==
    ASSUME Sound
    PROVE  /\ Shape
           /\ Len(backlog) \in Nat /\ DOMAIN backlog = 1 .. Len(backlog)
           /\ Len(queue) \in Nat /\ DOMAIN queue = 1 .. Len(queue)
           /\ lastId \in Nat /\ received \in Nat /\ MaxMessages \in Nat /\ MaxBuffers \in Nat
           /\ Existing \subseteq 1 .. lastId /\ 1 .. lastId \subseteq Ids
           /\ \A i \in DOMAIN backlog : backlog[i] \in Row /\ backlog[i].buffer \in 0 .. lastId /\ backlog[i].n \in Nat
           /\ \A i \in DOMAIN queue : queue[i] \in Message /\ queue[i].n \in Nat
<1>1. TypeOK
  BY DEF Sound
<1>2. Shape
  <2>1. bufferOf \in [Targets -> Nat] /\ lastId \in Nat /\ received \in Nat
    BY <1>1, BoundsAreNumbers DEF TypeOK
  <2>2. queue \in Seq(Queued)
    <3>1. Message \subseteq Queued
      BY BoundsAreNumbers DEF Message, Queued
    <3> QED
      BY <1>1, <3>1 DEF TypeOK
  <2>3. IsMarks(marks) /\ IsMarks(saved)
    BY <1>1 DEF TypeOK, Marks, IsMarks
  <2> QED
    BY <2>1, <2>2, <2>3 DEF Shape
<1>3. Existing \subseteq 1 .. lastId /\ 1 .. lastId \subseteq Ids
  BY <1>1, BoundsAreNumbers DEF TypeOK, Existing, Ids
<1>4. \A i \in DOMAIN backlog : backlog[i] \in Row
  BY <1>1 DEF TypeOK
<1>5. \A i \in DOMAIN backlog : backlog[i].buffer \in 0 .. lastId /\ backlog[i].n \in Nat
  BY <1>2, <1>4, BoundsAreNumbers DEF Row, Sound, Bounded, Shape
<1>6. \A i \in DOMAIN queue : queue[i] \in Message
  BY <1>1 DEF TypeOK
<1>7. \A i \in DOMAIN queue : queue[i].n \in Nat
  BY <1>6, BoundsAreNumbers DEF Message
<1> QED
  BY <1>1, <1>2, <1>3, <1>4, <1>5, <1>6, <1>7, BoundsAreNumbers DEF TypeOK

\* Buffers that are made get ids that were not given before.
LEMMA IdsAreNew ==
    ASSUME Sound
    PROVE  /\ LastIdAfter \in Nat /\ lastId <= LastIdAfter
           /\ BuffersAfter \in [Targets -> 0 .. LastIdAfter]
           /\ \A t \in Targets : BuffersAfter[t] \in {bufferOf[t]} \union {b \in Nat : b > lastId}
           /\ \A i \in DOMAIN queue : PlaceOf(queue[i]) \in 1 .. LastIdAfter
           /\ \A b \in {BuffersAfter[t] : t \in Targets} \ {0} : b \in Existing \/ b > lastId
<1> DEFINE size == Cardinality(Makers)
<1>0. Shape /\ lastId \in Nat /\ bufferOf \in [Targets -> 0 .. lastId]
  BY SoundShape DEF Sound, TypeOK
<1>1. /\ IsFiniteSet(Makers) /\ size \in Nat
      /\ \A S \in SUBSET Makers : /\ IsFiniteSet(S) /\ Cardinality(S) \in Nat /\ Cardinality(S) <= size
  BY <1>0, MakersAreCounted, FS_Subset
<1>2. WithMade \in [Targets -> Nat] /\ BuffersAfter \in [Targets -> Nat] /\ LastIdAfter \in Nat
  BY <1>0, TablesAfter
<1>3. LastIdAfter = lastId + size + (IF NeedsStatus THEN 1 ELSE 0)
  BY DEF LastIdAfter
<1>4. ASSUME NEW t \in Targets
      PROVE  WithMade[t] <= lastId + size /\ (WithMade[t] = bufferOf[t] \/ WithMade[t] > lastId)
  <2> DEFINE made == {i \in Makers : queue[i].target = t}
             upTo == {i \in Makers : \E j \in made : i <= j}
  <2>1. CASE made = {}
    <3>1. WithMade[t] = bufferOf[t]
      BY <2>1 DEF WithMade
    <3> QED
      BY <1>0, <1>1, <3>1
  <2>2. CASE made # {}
    <3>1. WithMade[t] = lastId + Cardinality(upTo)
      BY <2>2 DEF WithMade
    <3>2. Cardinality(upTo) \in Nat /\ Cardinality(upTo) <= size /\ IsFiniteSet(upTo)
      BY <1>1
    <3>3. upTo # {}
      <4>1. PICK j \in made : TRUE
        BY <2>2
      <4>2. j \in Nat
        BY <1>0 DEF Makers, Shape
      <4> QED
        BY <4>1, <4>2
    <3>4. Cardinality(upTo) # 0
      BY <3>2, <3>3, FS_EmptySet
    <3> HIDE DEF upTo, size
    <3> QED
      BY <1>0, <1>1, <3>1, <3>2, <3>4
  <2> QED
    BY <2>1, <2>2
<1>5. ASSUME NEW t \in Targets
      PROVE  BuffersAfter[t] <= LastIdAfter /\ (BuffersAfter[t] = bufferOf[t] \/ BuffersAfter[t] > lastId)
  <2>1. CASE t = Status /\ NeedsStatus
    <3>1. BuffersAfter[t] = lastId + size + 1
      BY <1>2, <2>1 DEF BuffersAfter
    <3> HIDE DEF size
    <3> QED
      BY <1>0, <1>1, <1>3, <2>1, <3>1
  <2>2. CASE ~(t = Status /\ NeedsStatus)
    <3>1. BuffersAfter[t] = WithMade[t]
      BY <1>2, <2>2 DEF BuffersAfter
    <3>2. lastId + size <= LastIdAfter
      <4> HIDE DEF size
      <4> QED
        BY <1>0, <1>1, <1>3
    <3> HIDE DEF size
    <3> QED
      BY <1>0, <1>1, <1>2, <1>4, <3>1, <3>2
  <2> QED
    BY <2>1, <2>2
<1>6. lastId <= LastIdAfter
  <2> HIDE DEF size
  <2> QED
    BY <1>0, <1>1, <1>3
<1>7. BuffersAfter \in [Targets -> 0 .. LastIdAfter]
  BY <1>2, <1>5
<1>8. \A i \in DOMAIN queue : PlaceOf(queue[i]) \in 1 .. LastIdAfter
  BY <1>0, <1>2, <1>7, PlacesExist
<1>9. \A t \in Targets : BuffersAfter[t] \in {bufferOf[t]} \union {b \in Nat : b > lastId}
  BY <1>2, <1>5
<1>10. \A b \in {BuffersAfter[t] : t \in Targets} \ {0} : b \in Existing \/ b > lastId
  BY <1>9 DEF Existing
<1> QED
  BY <1>2, <1>6, <1>7, <1>8, <1>9, <1>10

\* The rows of a turn, one for each message of the queue.
LEMMA RowsAreRows ==
    ASSUME Sound, LastIdAfter <= MaxBuffers
    PROVE  /\ Rows \in Seq(Row) /\ Len(Rows) = Len(queue)
           /\ \A k \in 1 .. Len(queue) : /\ Stored(k) \in 1 .. Len(queue)
                                         /\ Rows[k] = RowOf(queue[Stored(k)])
                                         /\ Rows[k].n = queue[Stored(k)].n
                                         /\ Rows[k].flags = queue[Stored(k)].flags
                                         /\ Rows[k].buffer = PlaceOf(queue[Stored(k)])
<1> DEFINE size == Len(queue)
<1>1. size \in Nat /\ DOMAIN queue = 1 .. size /\ queue \in Seq(Message)
  BY SoundShape DEF Sound, TypeOK
<1> HIDE DEF size
<1>2. \A k \in 1 .. size : Stored(k) \in 1 .. size
  BY <1>1, RowsAreOrdered
<1>3. Rows = [k \in 1 .. size |-> RowOf(queue[Stored(k)])]
  BY <1>1 DEF Rows
<1>4. \A i \in 1 .. size : queue[i] \in Message
  BY <1>1 DEF size
<1>5. \A i \in 1 .. size : PlaceOf(queue[i]) \in 0 .. MaxBuffers
  <2>1. LastIdAfter \in Nat /\ \A i \in 1 .. size : PlaceOf(queue[i]) \in 1 .. LastIdAfter
    BY <1>1, IdsAreNew
  <2> QED
    BY <2>1, BoundsAreNumbers
<1>6. \A i \in 1 .. size : RowOf(queue[i]) \in Row
  BY <1>4, <1>5 DEF RowOf, Row, Message
<1>7. Rows \in Seq(Row) /\ Len(Rows) = size
  BY <1>1, <1>2, <1>3, <1>6, IsASeq
<1>8. \A k \in 1 .. size : Rows[k] = RowOf(queue[Stored(k)])
  BY <1>3
<1> QED
  BY <1>2, <1>7, <1>8 DEF RowOf, size

\* Marks taken away leave marks that go no further.
LEMMA MarksReplaced ==
    ASSUME NEW k \in Nat, NEW m \in MarksUpTo(k), NEW B
    PROVE  Replaced(m, B, NoMarks) \in MarksUpTo(k)
<1>1. m.lastSeen \in [Ids -> 0 .. k] /\ m.highlights \in [Ids -> 0 .. k] /\ m.active \in [Ids -> BOOLEAN]
  BY DEF MarksUpTo
<1> DEFINE f == [b \in Ids |-> IF b \in B THEN 0 ELSE m.lastSeen[b]]
           g == [b \in Ids |-> IF b \in B THEN 0 ELSE m.highlights[b]]
           h == [b \in Ids |-> IF b \in B THEN FALSE ELSE m.active[b]]
<1>2. f \in [Ids -> 0 .. k] /\ g \in [Ids -> 0 .. k] /\ h \in [Ids -> BOOLEAN]
  <2>1. f \in [Ids -> 0 .. k]
    BY <1>1
  <2>2. g \in [Ids -> 0 .. k]
    BY <1>1
  <2>3. \A b \in Ids : (IF b \in B THEN FALSE ELSE m.active[b]) \in BOOLEAN
    BY <1>1
  <2>4. h \in [Ids -> BOOLEAN]
    BY <2>3, Zenon
  <2> QED
    BY <2>1, <2>2, <2>4
<1>3. Replaced(m, B, NoMarks) = [lastSeen |-> f, highlights |-> g, active |-> h]
  BY DEF Replaced, NoMarks
<1> HIDE DEF f, g, h
<1> QED
  BY <1>2, <1>3 DEF MarksUpTo

\* Marks within a bound are within a higher one.
LEMMA MarksRise ==
    ASSUME NEW k \in Nat, NEW l \in Nat, k <= l, NEW m \in MarksUpTo(k)
    PROVE  m \in MarksUpTo(l)
BY DEF MarksUpTo

\* How much a set of positions of a sequence may hold.
LEMMA PlacesAreFew ==
    ASSUME NEW n \in Nat, NEW S, S \subseteq 1 .. n
    PROVE  IsFiniteSet(S) /\ Cardinality(S) \in 0 .. n
<1>1. IsFiniteSet(1 .. n) /\ Cardinality(1 .. n) = n
  BY FS_Interval
<1>2. IsFiniteSet(S) /\ Cardinality(S) <= n
  BY <1>1, FS_Subset
<1> QED
  BY <1>2, FS_CardinalityType

\* What is needed for the types after a step that leaves the queue alone or empties it,
\* and gives no ids.
LEMMA SoundAfter ==
    ASSUME Sound, UNCHANGED <<lastId, received>>,
           bufferOf' \in [Targets -> 0 .. lastId], open' \in BOOLEAN,
           (queue' = queue /\ posted' = posted) \/ (queue' = <<>> /\ posted' \in BOOLEAN),
           Len(backlog') = Len(backlog), backlog' \in Seq(Row),
           \A i \in DOMAIN backlog : backlog'[i].buffer <= lastId,
           marks' \in MarksUpTo(Len(backlog)), saved' \in MarksUpTo(Len(backlog)),
           dirty' \in [lastSeen : SUBSET Ids, highlights : SUBSET Ids, active : SUBSET Ids],
           lax' \subseteq Ids, orphans' \subseteq 1 .. lastId
    PROVE  Sound'
<1>1. TypeOK /\ Bounded
  BY DEF Sound
<1>2. Len(backlog) \in Nat /\ Len(queue) \in Nat /\ received \in Nat /\ MaxMessages \in Nat
      /\ received <= MaxMessages /\ Len(backlog) <= received
  BY <1>1, SoundShape DEF TypeOK, Bounded, Sound
<1>3. marks' \in Marks /\ saved' \in Marks
  <2>1. MarksUpTo(MaxMessages) = Marks
    BY DEF MarksUpTo, Marks
  <2> QED
    BY <1>2, <2>1, MarksRise
<1>4. queue' \in Seq(Message) /\ posted' \in BOOLEAN /\ Len(queue') <= Len(queue)
  <2>1. CASE queue' = queue /\ posted' = posted
    BY <1>1, <1>2, <2>1 DEF TypeOK
  <2>2. CASE queue' = <<>> /\ posted' \in BOOLEAN
    BY <1>2, <2>2
  <2> QED
    BY <2>1, <2>2
<1>5. TypeOK'
  <2>1. (bufferOf \in [Targets -> 0..lastId])' /\ (lastId \in 0..MaxBuffers)' /\ (received \in 0..MaxMessages)'
    BY <1>1 DEF TypeOK
  <2>2. (marks \in Marks)' /\ (saved \in Marks)'
    BY <1>3 DEF Marks, Ids
  <2>3. (backlog \in Seq(Row))' /\ (queue \in Seq(Message))'
    BY <1>4 DEF Row, Message
  <2>4. (lax \subseteq Ids)' /\ (orphans \subseteq Ids)'
        /\ (dirty \in [lastSeen : SUBSET Ids, highlights : SUBSET Ids, active : SUBSET Ids])'
    BY SoundShape DEF Ids
  <2> QED
    BY <1>4, <2>1, <2>2, <2>3, <2>4 DEF TypeOK
<1>6. DOMAIN backlog' = DOMAIN backlog
  BY <1>1 DEF TypeOK
<1>7. Bounded'
  <2>1. Len(backlog') + Len(queue') <= received'
    BY <1>1, <1>2, <1>4, LenProperties DEF Bounded
  <2> QED
    BY <1>6, <2>1 DEF Bounded, MarksUpTo, Ids
<1> QED
  BY <1>5, <1>7 DEF Sound

\* Rows moved to another buffer are rows.
LEMMA MovedRows ==
    ASSUME Sound, NEW b, NEW to \in 0 .. lastId
    PROVE  /\ Moved(b, to) \in Seq(Row) /\ Len(Moved(b, to)) = Len(backlog)
           /\ \A i \in DOMAIN backlog : Moved(b, to)[i].buffer <= lastId
<1> DEFINE size == Len(backlog)
<1>1. /\ size \in Nat /\ DOMAIN backlog = 1 .. size /\ lastId \in Nat
      /\ \A i \in 1 .. size : backlog[i] \in Row /\ backlog[i].buffer <= lastId
  BY SoundShape DEF Sound, TypeOK, Bounded
<1>2. lastId <= MaxBuffers /\ MaxBuffers \in Nat
  BY BoundsAreNumbers DEF Sound, TypeOK
<1> HIDE DEF size
<1>3. Moved(b, to) = [i \in 1 .. size |-> IF backlog[i].buffer = b THEN [backlog[i] EXCEPT !.buffer = to] ELSE backlog[i]]
  BY <1>1 DEF Moved
<1>4. \A i \in 1 .. size : [backlog[i] EXCEPT !.buffer = to] \in Row
  BY <1>1, <1>2 DEF Row
<1>5. \A i \in 1 .. size : Moved(b, to)[i] \in Row /\ Moved(b, to)[i].buffer <= lastId
  BY <1>1, <1>3, <1>4 DEF Row
<1>6. Moved(b, to) \in Seq(Row) /\ Len(Moved(b, to)) = size
  BY <1>1, <1>3, <1>5, IsASeq
<1> QED
  BY <1>1, <1>5, <1>6 DEF size

\* A message that is received fits the types: its number is the next one.
LEMMA RecvSound ==
    ASSUME Sound, NEW t \in Targets, NEW f \in Flags, RecvMessage(t, f)
    PROVE  Sound'
<1> DEFINE m == [n |-> received + 1, target |-> t, flags |-> f]
<1>1. TypeOK /\ Bounded
  BY DEF Sound
<1>2. m \in Message /\ received + 1 \in 0 .. MaxMessages
  BY <1>1, BoundsAreNumbers DEF RecvMessage, TypeOK, Message
<1>3. queue' = Append(queue, m) /\ received' = received + 1 /\ posted' = TRUE
      /\ UNCHANGED <<bufferOf, lastId, backlog, saved, marks, dirty, open, lax, orphans>>
  BY DEF RecvMessage, tables, syncer
<1> HIDE DEF m
<1>4. queue' \in Seq(Message) /\ Len(queue') = Len(queue) + 1
  BY <1>1, <1>2, <1>3 DEF TypeOK
<1>5. TypeOK'
  BY <1>1, <1>2, <1>3, <1>4 DEF TypeOK, Marks, Ids
<1>6. Bounded'
  BY <1>1, <1>3, <1>4, SoundShape DEF Bounded, MarksUpTo, Ids
<1> QED
  BY <1>5, <1>6 DEF Sound

\* A turn gives ids to buffers, adds rows and counts them, and all of it fits the types.
LEMMA ProcessMessagesSound == Sound /\ ProcessMessages => Sound'
<1> SUFFICES ASSUME Sound, ProcessMessages PROVE Sound'
  OBVIOUS
<1> DEFINE old == Len(backlog)
           new == Len(queue)
<1>1. TypeOK /\ Bounded
  BY DEF Sound
<1>2. /\ old \in Nat /\ new \in Nat /\ DOMAIN backlog = 1 .. old /\ DOMAIN queue = 1 .. new
      /\ received \in 0 .. MaxMessages /\ MaxMessages \in Nat /\ MaxBuffers \in Nat /\ old + new <= received
      /\ lastId \in Nat
  BY <1>1, SoundShape DEF TypeOK, Bounded
<1>3. /\ bufferOf' = BuffersAfter /\ lastId' = LastIdAfter /\ queue' = <<>> /\ posted' = FALSE
      /\ LastIdAfter <= MaxBuffers
      /\ UNCHANGED <<saved, open, received, lax, orphans>>
  BY DEF ProcessMessages
<1>4. /\ LastIdAfter \in Nat /\ lastId <= LastIdAfter
      /\ BuffersAfter \in [Targets -> 0 .. LastIdAfter]
      /\ \A i \in DOMAIN queue : PlaceOf(queue[i]) \in 1 .. LastIdAfter
  BY IdsAreNew
<1>5. Len(queue') = 0 /\ queue' \in Seq(Message)
  BY <1>3
<1>6. orphans' \subseteq 1 .. lastId' /\ saved' \in MarksUpTo(old)
  <2>1. orphans' \subseteq 1 .. lastId'
    BY <1>1, <1>2, <1>3, <1>4 DEF Bounded
  <2> QED
    BY <1>1, <1>3, <2>1 DEF Bounded
<1>10. /\ (bufferOf \in [Targets -> 0..lastId])' /\ (lastId \in 0..MaxBuffers)' /\ (received \in 0..MaxMessages)'
       /\ (open \in BOOLEAN)' /\ (posted \in BOOLEAN)' /\ (queue \in Seq(Message))'
       /\ (lax \subseteq Ids)' /\ (orphans \subseteq Ids)' /\ (saved \in Marks)'
  <2>1. (bufferOf \in [Targets -> 0..lastId])' /\ (lastId \in 0..MaxBuffers)' /\ (received \in 0..MaxMessages)'
    BY <1>2, <1>3, <1>4
  <2>2. (open \in BOOLEAN)' /\ (posted \in BOOLEAN)'
    BY <1>1, <1>3 DEF TypeOK
  <2>3. (queue \in Seq(Message))'
    BY <1>5 DEF Message
  <2>4. (lax \subseteq Ids)' /\ (orphans \subseteq Ids)' /\ (saved \in Marks)'
    BY <1>1, <1>3 DEF TypeOK, Ids, Marks
  <2> QED
    BY <2>1, <2>2, <2>3, <2>4
<1>7. MarksUpTo(MaxMessages) = Marks
  BY DEF MarksUpTo, Marks
<1>8. CASE UNCHANGED <<backlog, syncer>>
  <2>1. marks' \in MarksUpTo(old) /\ UNCHANGED <<backlog, marks, dirty>>
    BY <1>1, <1>8 DEF Bounded, syncer, MarksUpTo, Ids
  <2>2. TypeOK'
    <3>1. (backlog \in Seq(Row))'
      BY <1>1, <2>1 DEF TypeOK, Row
    <3>2. (marks \in Marks)' /\ (dirty \in [lastSeen : SUBSET Ids, highlights : SUBSET Ids, active : SUBSET Ids])'
      BY <1>1, <2>1 DEF TypeOK, Marks, Ids
    <3> QED
      BY <1>10, <3>1, <3>2 DEF TypeOK
  <2>3. Len(backlog') + Len(queue') <= received'
    BY <1>2, <1>3, <1>5, <2>1
  <2>4. \A i \in DOMAIN backlog' : backlog'[i].buffer <= lastId'
    <3>1. \A i \in DOMAIN backlog : backlog[i].buffer \in Nat /\ backlog[i].buffer <= lastId
      BY <1>2, SoundShape
    <3> QED
      BY <1>2, <1>3, <1>4, <2>1, <3>1
  <2>5. Bounded'
    BY <1>6, <2>1, <2>3, <2>4 DEF Bounded, MarksUpTo, Ids
  <2> QED
    BY <2>2, <2>5 DEF Sound
<1>9. CASE backlog' = Logged(Rows) /\ Count
  <2>1. /\ Rows \in Seq(Row) /\ Len(Rows) = new
        /\ \A k \in 1 .. new : Stored(k) \in 1 .. new /\ Rows[k].buffer = PlaceOf(queue[Stored(k)])
    BY <1>3, RowsAreRows
  <2>2. backlog' \in Seq(Row) /\ Len(backlog') = old + new /\ DOMAIN backlog' = 1 .. (old + new)
        /\ \A i \in 1 .. (old + new) : backlog'[i] = IF i <= old THEN backlog[i] ELSE Rows[i - old]
    <3>1. backlog \in Seq(Row) /\ Rows \in Seq(Row) /\ backlog' = backlog \o Rows
      BY <1>1, <1>9, <2>1 DEF Logged, TypeOK
    <3>2. /\ backlog' \in Seq(Row) /\ Len(backlog') = old + new
          /\ \A i \in 1 .. (old + new) : backlog'[i] = IF i <= old THEN backlog[i] ELSE Rows[i - old]
      <4>1. /\ backlog \o Rows \in Seq(Row) /\ Len(backlog \o Rows) = Len(backlog) + Len(Rows)
            /\ \A i \in 1 .. Len(backlog) + Len(Rows) :
                  (backlog \o Rows)[i] = IF i <= Len(backlog) THEN backlog[i] ELSE Rows[i - Len(backlog)]
        BY <3>1, ConcatProperties
      <4> QED
        BY <2>1, <3>1, <4>1
    <3>3. DOMAIN backlog' = 1 .. Len(backlog')
      BY <3>2
    <3> HIDE DEF old, new
    <3> QED
      BY <3>2, <3>3
  <2>3. \A i \in DOMAIN backlog' : backlog'[i].buffer <= lastId'
    <3> SUFFICES ASSUME NEW i \in 1 .. (old + new) PROVE backlog'[i].buffer <= lastId'
      BY <2>2
    <3>1. CASE i <= old
      <4>1. backlog[i].buffer \in Nat /\ backlog[i].buffer <= lastId
        BY <1>2, <3>1, SoundShape
      <4> QED
        BY <1>2, <1>3, <1>4, <2>2, <3>1, <4>1
    <3>2. CASE i > old
      <4>1. i - old \in 1 .. new
        BY <1>2, <3>2
      <4>2. backlog'[i] = Rows[i - old]
        BY <1>2, <2>2, <3>2
      <4>3. Rows[i - old].buffer \in 1 .. LastIdAfter
        BY <1>2, <1>4, <2>1, <4>1
      <4> QED
        BY <1>3, <1>4, <4>2, <4>3
    <3> QED
      BY <1>2, <3>1, <3>2
  <2>4. marks' \in MarksUpTo(old + new)
    <3>1. \A b \in Ids : Cardinality(NewHighlights(b)) \in 0 .. new
      BY <1>2, PlacesAreFew DEF NewHighlights
    <3>2. marks \in MarksUpTo(old)
      BY <1>1 DEF Bounded
    <3>3. \A b \in Ids : marks.lastSeen[b] \in 0 .. (old + new)
                         /\ marks.highlights[b] + Cardinality(NewHighlights(b)) \in 0 .. (old + new)
                         /\ (marks.active[b] \/ b \in Touched) \in BOOLEAN
      BY <1>2, <3>1, <3>2 DEF MarksUpTo
    <3> HIDE DEF old, new
    <3>4. marks.lastSeen \in [Ids -> 0 .. (old + new)]
      BY <3>2, <3>3 DEF MarksUpTo
    <3> QED
      BY <1>9, <3>3, <3>4 DEF Count, MarksUpTo
  <2>5. dirty' \in [lastSeen : SUBSET Ids, highlights : SUBSET Ids, active : SUBSET Ids]
    <3>1. Touched \subseteq Ids
      BY <1>2, <1>3, <1>4 DEF Touched, Ids
    <3> QED
      BY <1>1, <1>9, <3>1 DEF Count, TypeOK
  <2>6. marks' \in Marks
    BY <1>2, <1>7, <2>4, MarksRise
  <2>7. TypeOK'
    <3>1. (backlog \in Seq(Row))'
      BY <2>2 DEF Row
    <3>2. (marks \in Marks)' /\ (dirty \in [lastSeen : SUBSET Ids, highlights : SUBSET Ids, active : SUBSET Ids])'
      BY <2>5, <2>6 DEF Marks, Ids
    <3> QED
      BY <1>10, <3>1, <3>2 DEF TypeOK
  <2>8. saved' \in MarksUpTo(old + new)
    BY <1>2, <1>6, MarksRise
  <2>9. Len(backlog') + Len(queue') <= received'
    BY <1>2, <1>3, <1>5, <2>2
  <2>10. Bounded'
    BY <1>6, <2>2, <2>3, <2>4, <2>8, <2>9 DEF Bounded, MarksUpTo, Ids
  <2> QED
    BY <2>7, <2>10 DEF Sound
<1> QED
  BY <1>8, <1>9 DEF ProcessMessages

\* Clients set marks of ids that were given, to messages that are there.
LEMMA ClientSound ==
    ASSUME Sound, NEW b \in 1 .. lastId,
           \/ \E id \in DOMAIN backlog : RequestSetLastSeenMsg(b, id)
           \/ RequestMarkBufferAsRead(b)
    PROVE  Sound'
<1> DEFINE size == Len(backlog)
<1>1. TypeOK /\ Bounded
  BY DEF Sound
<1>2. size \in Nat /\ DOMAIN backlog = 1 .. size /\ b \in Ids
  BY SoundShape
<1>3. /\ marks.lastSeen \in [Ids -> 0 .. size] /\ marks.highlights \in [Ids -> 0 .. size]
      /\ marks.active \in [Ids -> BOOLEAN]
  BY <1>1 DEF Bounded, MarksUpTo
<1>4. CASE \E id \in DOMAIN backlog : RequestSetLastSeenMsg(b, id)
  <2>1. PICK id \in 1 .. size : RequestSetLastSeenMsg(b, id)
    BY <1>2, <1>4
  <2>2. HighlightCount(b, id) \in 0 .. size
    BY <1>2, PlacesAreFew DEF HighlightCount, After
  <2>3. marks' = [lastSeen |-> [marks.lastSeen EXCEPT ![b] = id],
                  highlights |-> [marks.highlights EXCEPT ![b] = HighlightCount(b, id)],
                  active |-> [marks.active EXCEPT ![b] = BufferActivity(b, id)]]
    BY <2>1 DEF RequestSetLastSeenMsg
  <2>4. marks' \in MarksUpTo(size)
    <3>1. [marks.lastSeen EXCEPT ![b] = id] \in [Ids -> 0 .. size]
          /\ [marks.highlights EXCEPT ![b] = HighlightCount(b, id)] \in [Ids -> 0 .. size]
      BY <1>2, <1>3, <2>2
    <3>2. BufferActivity(b, id) \in BOOLEAN
      BY DEF BufferActivity
    <3>3. [marks.active EXCEPT ![b] = BufferActivity(b, id)] \in [Ids -> BOOLEAN]
      BY <1>2, <1>3, <3>2, Zenon
    <3> QED
      BY <2>3, <3>1, <3>3 DEF MarksUpTo
  <2>5. /\ dirty' \in [lastSeen : SUBSET Ids, highlights : SUBSET Ids, active : SUBSET Ids]
        /\ lax' \subseteq Ids /\ orphans' \subseteq 1 .. lastId
    BY <1>1, <1>2, <2>1 DEF RequestSetLastSeenMsg, TypeOK, Bounded
  <2>6. UNCHANGED <<bufferOf, lastId, backlog, saved, open, queue, posted, received>>
    BY <2>1 DEF RequestSetLastSeenMsg, tables
  <2> QED
    BY <1>1, <2>4, <2>5, <2>6, SoundAfter DEF TypeOK, Bounded
<1>5. CASE RequestMarkBufferAsRead(b)
  <2>1. marks' = [marks EXCEPT !.highlights[b] = 0, !.active[b] = FALSE]
    BY <1>5 DEF RequestMarkBufferAsRead
  <2>2. marks' \in MarksUpTo(size)
    <3>1. marks' = [lastSeen |-> marks.lastSeen, highlights |-> [marks.highlights EXCEPT ![b] = 0],
                    active |-> [marks.active EXCEPT ![b] = FALSE]]
      BY <1>1, <2>1 DEF Bounded, MarksUpTo
    <3>2. [marks.highlights EXCEPT ![b] = 0] \in [Ids -> 0 .. size]
      BY <1>2, <1>3
    <3>3. [marks.active EXCEPT ![b] = FALSE] \in [Ids -> BOOLEAN]
      BY <1>2, <1>3, Zenon
    <3> QED
      BY <1>3, <3>1, <3>2, <3>3 DEF MarksUpTo
  <2>3. /\ dirty' \in [lastSeen : SUBSET Ids, highlights : SUBSET Ids, active : SUBSET Ids]
        /\ lax' \subseteq Ids /\ orphans' \subseteq 1 .. lastId
    BY <1>1, <1>2, <1>5 DEF RequestMarkBufferAsRead, TypeOK, Bounded
  <2>4. UNCHANGED <<bufferOf, lastId, backlog, saved, open, queue, posted, received>>
    BY <1>5 DEF RequestMarkBufferAsRead, tables
  <2> QED
    BY <1>1, <2>2, <2>3, <2>4, SoundAfter DEF TypeOK, Bounded
<1> QED
  BY <1>4, <1>5

\* Removing, merging and renaming buffers fits the types.
LEMMA BuffersSound ==
    ASSUME Sound,
           \/ \E t \in Targets : RemoveBuffer(t)
           \/ \E t1, t2 \in Targets : MergeBuffersPermanently(t1, t2)
           \/ \E t, new \in Targets : RenameBuffer(t, new)
    PROVE  Sound'
<1>1. TypeOK /\ Bounded
  BY DEF Sound
<1>2. /\ Len(backlog) \in Nat /\ lastId \in Nat /\ 1 .. lastId \subseteq Ids
      /\ \A t \in Targets : bufferOf[t] \in 0 .. lastId
  BY <1>1, SoundShape DEF TypeOK
<1>3. \A B : Replaced(marks, B, NoMarks) \in MarksUpTo(Len(backlog))
             /\ Replaced(saved, B, NoMarks) \in MarksUpTo(Len(backlog))
  BY <1>1, <1>2, MarksReplaced DEF Bounded
<1>4. ASSUME NEW t \in Targets, RemoveBuffer(t) PROVE Sound'
  <2>1. /\ bufferOf' = [bufferOf EXCEPT ![t] = 0] /\ backlog' = Moved(bufferOf[t], 0)
        /\ saved' = Replaced(saved, {bufferOf[t]}, NoMarks)
        /\ marks' = Replaced(marks, {bufferOf[t]}, NoMarks)
        /\ lax' = lax \ {bufferOf[t]}
        /\ UNCHANGED <<lastId, dirty, open, queue, posted, received, orphans>>
    BY <1>4 DEF RemoveBuffer, WithoutBuffer
  <2>2. 0 \in 0 .. lastId /\ bufferOf' \in [Targets -> 0 .. lastId]
    BY <1>1, <1>2, <2>1 DEF TypeOK
  <2>3. backlog' \in Seq(Row) /\ Len(backlog') = Len(backlog)
        /\ \A i \in DOMAIN backlog : backlog'[i].buffer <= lastId
    BY <2>1, <2>2, MovedRows
  <2>4. lax' \subseteq Ids
    BY <1>1, <2>1 DEF TypeOK
  <2> QED
    BY <1>1, <1>3, <2>1, <2>2, <2>3, <2>4, SoundAfter DEF TypeOK, Bounded
<1>5. ASSUME NEW t1 \in Targets, NEW t2 \in Targets, MergeBuffersPermanently(t1, t2) PROVE Sound'
  <2>1. /\ bufferOf' = [bufferOf EXCEPT ![t2] = 0] /\ backlog' = Moved(bufferOf[t2], bufferOf[t1])
        /\ saved' = Replaced(saved, {bufferOf[t2]}, NoMarks)
        /\ marks' = Replaced(marks, {bufferOf[t2]}, NoMarks)
        /\ lax' = (lax \ {bufferOf[t2]}) \union {bufferOf[t1]} /\ bufferOf[t1] # 0
        /\ UNCHANGED <<lastId, dirty, open, queue, posted, received, orphans>>
    BY <1>5 DEF MergeBuffersPermanently
  <2>2. bufferOf[t1] \in 1 .. lastId /\ bufferOf' \in [Targets -> 0 .. lastId]
    BY <1>1, <1>2, <2>1 DEF TypeOK
  <2>3. backlog' \in Seq(Row) /\ Len(backlog') = Len(backlog)
        /\ \A i \in DOMAIN backlog : backlog'[i].buffer <= lastId
    BY <1>2, <2>1, MovedRows
  <2>4. lax' \subseteq Ids
    BY <1>1, <1>2, <2>1, <2>2 DEF TypeOK
  <2> QED
    BY <1>1, <1>3, <2>1, <2>2, <2>3, <2>4, SoundAfter DEF TypeOK, Bounded
<1>6. ASSUME NEW t \in Targets, NEW new \in Targets, RenameBuffer(t, new) PROVE Sound'
  <2>1. /\ bufferOf' = [bufferOf EXCEPT ![t] = 0, ![new] = bufferOf[t]]
        /\ UNCHANGED <<lastId, backlog, saved, marks, dirty, open, queue, posted, received, lax, orphans>>
    BY <1>6 DEF RenameBuffer, syncer
  <2>2. bufferOf' \in [Targets -> 0 .. lastId]
    BY <1>1, <1>2, <2>1 DEF TypeOK
  <2> QED
    BY <1>1, <2>1, <2>2, SoundAfter DEF TypeOK, Bounded
<1> QED
  BY <1>4, <1>5, <1>6

\* Purging takes marks away only.
LEMMA PurgeSound == Sound /\ PurgeBufferIds => Sound'
<1> SUFFICES ASSUME Sound, PurgeBufferIds PROVE Sound'
  OBVIOUS
<1>1. TypeOK /\ Bounded
  BY DEF Sound
<1>2. PICK gone : /\ marks' = Replaced(marks, gone, NoMarks) /\ orphans' = orphans \ gone
                  /\ UNCHANGED <<bufferOf, lastId, backlog, saved, dirty, open, queue, posted, received, lax>>
  BY DEF PurgeBufferIds, tables
<1>3. marks' \in MarksUpTo(Len(backlog))
  BY <1>1, <1>2, SoundShape, MarksReplaced DEF Bounded
<1>4. orphans' \subseteq 1 .. lastId
  BY <1>1, <1>2 DEF Bounded
<1> QED
  BY <1>1, <1>2, <1>3, <1>4, SoundAfter DEF TypeOK, Bounded

\* The end of the network leaves rows without a buffer.
LEMMA DestroySound == Sound /\ DestroyNetwork => Sound'
<1> SUFFICES ASSUME Sound, DestroyNetwork PROVE Sound'
  OBVIOUS
<1> DEFINE size == Len(backlog)
<1>1. TypeOK /\ Bounded
  BY DEF Sound
<1>2. /\ size \in Nat /\ DOMAIN backlog = 1 .. size /\ lastId \in Nat /\ MaxBuffers \in Nat
      /\ Existing \subseteq 1 .. lastId /\ \A i \in 1 .. size : backlog[i] \in Row
  BY SoundShape
<1>3. /\ bufferOf' = [t \in Targets |-> 0] /\ saved' = NoMarks /\ queue' = <<>> /\ open' = FALSE
      /\ backlog' = [i \in DOMAIN backlog |-> [backlog[i] EXCEPT !.buffer = 0]]
      /\ lax' = {} /\ orphans' = orphans \union Existing
      /\ UNCHANGED <<lastId, marks, dirty, posted, received>>
  BY DEF DestroyNetwork, NetworkDeleted, syncer
<1>4. \A i \in 1 .. size : [backlog[i] EXCEPT !.buffer = 0] \in Row /\ [backlog[i] EXCEPT !.buffer = 0].buffer = 0
  BY <1>2 DEF Row
<1> HIDE DEF size
<1>5. backlog' \in Seq(Row) /\ Len(backlog') = size /\ \A i \in 1 .. size : backlog'[i].buffer = 0
  <2>1. backlog' = [i \in 1 .. size |-> [backlog[i] EXCEPT !.buffer = 0]]
    BY <1>2, <1>3
  <2>2. backlog' \in Seq(Row) /\ Len(backlog') = size
    BY <1>2, <1>4, <2>1, IsASeq
  <2> QED
    BY <1>4, <2>1, <2>2
<1>6. saved' \in MarksUpTo(size)
  BY <1>2, <1>3 DEF NoMarks, MarksUpTo
<1>7. bufferOf' \in [Targets -> 0 .. lastId] /\ orphans' \subseteq 1 .. lastId
  BY <1>1, <1>2, <1>3 DEF Bounded
<1>8. \A i \in DOMAIN backlog : backlog'[i].buffer <= lastId
  BY <1>2, <1>5
<1> QED
  BY <1>1, <1>3, <1>5, <1>6, <1>7, <1>8, SoundAfter DEF TypeOK, Bounded, size

\* The newest row of a buffer is a row of it, and none of its rows is newer.
LEMMA NewestRow ==
    ASSUME Sound, NEW b
    PROVE  /\ LastMsg(b) \in 0 .. Len(backlog)
           /\ \A i \in DOMAIN backlog : backlog[i].buffer = b => i <= LastMsg(b)
<1> DEFINE rows == After(backlog, b, 0)
           size == Len(backlog)
<1>1. size \in Nat /\ DOMAIN backlog = 1 .. size
  BY SoundShape
<1>2. rows = {i \in 1 .. size : backlog[i].buffer = b}
  BY <1>1 DEF After
<1>3. CASE rows = {}
  BY <1>1, <1>2, <1>3 DEF LastMsg
<1>4. CASE rows # {}
  <2>1. IsFiniteSet(rows) /\ rows \subseteq 1 .. size
    BY <1>1, <1>2, PlacesAreFew
  <2>2. \E m \in rows : \A i \in rows : i <= m
    <3> DEFINE below == {size - i : i \in rows}
    <3>1. below \subseteq Nat /\ below # {}
      BY <1>1, <1>4, <2>1
    <3>2. PICK k \in below : \A j \in below : <<j, k>> \notin OpToRel(<, Nat)
      <4> HIDE DEF below
      <4> QED
        BY <3>1, NatLessThanWellFounded, WFMin
    <3>3. \A j \in below : ~(j < k)
      <4> HIDE DEF below
      <4> QED
        BY <3>1, <3>2 DEF OpToRel
    <3>4. PICK m \in rows : k = size - m
      OBVIOUS
    <3>5. \A i \in rows : size - i \in below
      OBVIOUS
    <3>6. \A i \in rows : i <= m
      <4> HIDE DEF rows, below, size
      <4> QED
        BY <1>1, <2>1, <3>3, <3>4, <3>5
    <3> QED
      BY <3>4, <3>6
  <2>3. LastMsg(b) = Max(rows)
    BY <1>4 DEF LastMsg
  <2>4. Max(rows) \in rows /\ \A i \in rows : i <= Max(rows)
    <3> HIDE DEF rows
    <3> QED
      BY <2>2 DEF Max
  <2> QED
    BY <1>1, <1>2, <2>1, <2>3, <2>4
<1> QED
  BY <1>3, <1>4

\* The column is the last message seen, or the newest of the buffer if that is older.
LEMMA ColumnIsSeen ==
    ASSUME Sound, NEW b \in Ids
    PROVE  /\ LastSeenColumn(b) \in 0 .. Len(backlog)
           /\ b \notin dirty.lastSeen \/ b \notin Existing \/ marks.lastSeen[b] = 0
                 => LastSeenColumn(b) = saved.lastSeen[b]
           /\ b \in dirty.lastSeen /\ b \in Existing /\ marks.lastSeen[b] # 0
                 => /\ LastSeenColumn(b) <= marks.lastSeen[b]
                    /\ After(backlog, b, LastSeenColumn(b)) = After(backlog, b, marks.lastSeen[b])
<1> DEFINE size == Len(backlog)
           seen == marks.lastSeen[b]
           last == LastMsg(b)
<1>1. size \in Nat /\ DOMAIN backlog = 1 .. size /\ seen \in 0 .. size /\ saved.lastSeen[b] \in 0 .. size
  BY SoundShape DEF Sound, Bounded, MarksUpTo
<1>2. last \in 0 .. size /\ \A i \in 1 .. size : backlog[i].buffer = b => i <= last
  BY <1>1, NewestRow
<1> HIDE DEF size, last, seen
<1>3. Min({seen, last}) = IF seen <= last THEN seen ELSE last
  <2>1. \A x, y \in Int : {x, y} # {} /\ (x <= y => Min({x, y}) = x)
    <3> SUFFICES ASSUME NEW x \in Int, NEW y \in Int, x <= y PROVE Min({x, y}) = x
      OBVIOUS
    <3>1. x \in {x, y} /\ \A z \in {x, y} : x <= z
      OBVIOUS
    <3>2. \A m \in {x, y} : (\A z \in {x, y} : m <= z) => m = x
      OBVIOUS
    <3> QED
      BY <3>1, <3>2 DEF Min
  <2>2. {seen, last} = {last, seen}
    OBVIOUS
  <2> QED
    BY <1>1, <1>2, <2>1, <2>2
<1>4. LastSeenColumn(b) = IF b \in dirty.lastSeen \intersect Existing /\ seen > 0
                          THEN Min({seen, last}) ELSE saved.lastSeen[b]
  BY DEF LastSeenColumn, seen, last
<1>5. ASSUME b \in dirty.lastSeen, b \in Existing, seen # 0
      PROVE  LastSeenColumn(b) <= seen /\ After(backlog, b, LastSeenColumn(b)) = After(backlog, b, seen)
  <2>1. LastSeenColumn(b) = IF seen <= last THEN seen ELSE last
    BY <1>1, <1>3, <1>4, <1>5
  <2>2. ASSUME last < seen PROVE After(backlog, b, last) = After(backlog, b, seen)
    BY <1>1, <1>2, <2>2 DEF After
  <2> QED
    BY <1>1, <1>2, <2>1, <2>2
<1>6. LastSeenColumn(b) \in 0 .. size
  BY <1>1, <1>2, <1>3, <1>4
<1>7. b \notin dirty.lastSeen \/ b \notin Existing \/ seen = 0 => LastSeenColumn(b) = saved.lastSeen[b]
  BY <1>1, <1>4
<1> QED
  BY <1>5, <1>6, <1>7 DEF size, seen

\* Storing writes marks within the bounds into the table.
LEMMA StoreSound == Sound /\ StoreDirtyIds => Sound'
<1> SUFFICES ASSUME Sound, StoreDirtyIds PROVE Sound'
  OBVIOUS
<1> DEFINE size == Len(backlog)
           ls == [b \in Ids |-> LastSeenColumn(b)]
           hs == [b \in Ids |-> IF b \in dirty.highlights \intersect Existing
                                THEN marks.highlights[b] ELSE saved.highlights[b]]
           as == [b \in Ids |-> IF b \in dirty.active \intersect Existing THEN marks.active[b] ELSE saved.active[b]]
<1>1. TypeOK /\ Bounded
  BY DEF Sound
<1>2. /\ marks.highlights \in [Ids -> 0 .. size] /\ saved.highlights \in [Ids -> 0 .. size]
      /\ marks.active \in [Ids -> BOOLEAN] /\ saved.active \in [Ids -> BOOLEAN]
  BY <1>1 DEF Bounded, MarksUpTo
<1>3. ls \in [Ids -> 0 .. size]
  BY ColumnIsSeen
<1>4. hs \in [Ids -> 0 .. size]
  BY <1>2
<1>5. as \in [Ids -> BOOLEAN]
  <2>1. \A b \in Ids : (IF b \in dirty.active \intersect Existing THEN marks.active[b] ELSE saved.active[b]) \in BOOLEAN
    BY <1>2
  <2> QED
    BY <2>1, Zenon
<1>6. saved' = [lastSeen |-> ls, highlights |-> hs, active |-> as]
      /\ UNCHANGED <<bufferOf, lastId, backlog, marks, open, queue, posted, received, lax, orphans>>
      /\ dirty' = Clean
  BY DEF StoreDirtyIds
<1>7. saved' \in MarksUpTo(size)
  <2> HIDE DEF ls, hs, as, size
  <2> QED
    BY <1>3, <1>4, <1>5, <1>6 DEF MarksUpTo
<1>8. dirty' \in [lastSeen : SUBSET Ids, highlights : SUBSET Ids, active : SUBSET Ids]
  BY <1>6 DEF Clean
<1> HIDE DEF ls, hs, as
<1> QED
  BY <1>1, <1>6, <1>7, <1>8, SoundAfter DEF TypeOK, Bounded

\* A restart takes the marks from the table.
LEMMA RestartSound == Sound /\ Restart => Sound'
<1> SUFFICES ASSUME Sound, Restart PROVE Sound'
  OBVIOUS
<1>1. TypeOK /\ Bounded
  BY DEF Sound
<1>2. /\ marks' = saved /\ dirty' = Clean /\ queue' = <<>> /\ posted' = FALSE /\ lax' \subseteq Existing /\ orphans' = {}
      /\ UNCHANGED <<bufferOf, lastId, backlog, saved, open, received>>
  BY DEF Restart, tables
<1>3. dirty' \in [lastSeen : SUBSET Ids, highlights : SUBSET Ids, active : SUBSET Ids]
  BY <1>2 DEF Clean
<1>4. lax' \subseteq Ids /\ orphans' \subseteq 1 .. lastId
  BY <1>2, SoundShape
<1> QED
  BY <1>1, <1>2, <1>3, <1>4, SoundAfter DEF TypeOK, Bounded

\* Every step keeps the types and the bounds.
LEMMA SoundStep == Sound /\ [Next]_vars => Sound'
<1> SUFFICES ASSUME Sound, [Next]_vars PROVE Sound'
  OBVIOUS
<1>1. CASE UNCHANGED vars
  <2>1. UNCHANGED <<bufferOf, lastId, backlog, saved, marks, dirty, open, queue, posted, received, lax, orphans>>
    BY <1>1 DEF vars, tables, syncer
  <2> QED
    BY <2>1, SoundAfter DEF Sound, TypeOK, Bounded
<1>2. CASE Next
  BY <1>2, RecvSound, ProcessMessagesSound, ClientSound, BuffersSound, PurgeSound, DestroySound, StoreSound,
     RestartSound DEF Next
<1> QED
  BY <1>1, <1>2

\* At the start there is nothing, which fits the types.
LEMMA TypesAtFirst == Init => Sound
<1> SUFFICES ASSUME Init PROVE Sound
  OBVIOUS
<1>1. NoMarks \in MarksUpTo(0) /\ NoMarks \in Marks
  BY BoundsAreNumbers DEF NoMarks, MarksUpTo, Marks
<1>2. TypeOK
  <2>1. bufferOf \in [Targets -> 0 .. lastId] /\ lastId \in 0 .. MaxBuffers /\ received \in 0 .. MaxMessages
    BY BoundsAreNumbers DEF Init
  <2>2. backlog \in Seq(Row) /\ queue \in Seq(Message)
    BY DEF Init
  <2>3. open \in BOOLEAN /\ posted \in BOOLEAN
    BY DEF Init
  <2>4. dirty \in [lastSeen : SUBSET Ids, highlights : SUBSET Ids, active : SUBSET Ids] /\ marks \in Marks /\ saved \in Marks
    BY <1>1 DEF Init, Clean
  <2>5. lax \subseteq Ids /\ orphans \subseteq Ids
    BY DEF Init
  <2> QED
    BY <2>1, <2>2, <2>3, <2>4, <2>5 DEF TypeOK
<1>3. Bounded
  BY <1>1 DEF Init, Bounded
<1> QED
  BY <1>2, <1>3 DEF Sound

\* Each id that is used was given, each mark is that of a message that was received, and
\* each row has the form the table gives it.
THEOREM TypeCorrectness == Spec => []TypeOK
<1>1. Spec => []Sound
  BY TypesAtFirst, SoundStep, PTL DEF Spec
<1> QED
  BY <1>1, PTL DEF Sound

-----------------------------------------------------------------------------
(* The order of the rows.                                                  *)

\* The messages were received in the order of their numbers.
Numbered ==
    /\ \A i \in DOMAIN backlog : backlog[i].n <= received
    /\ \A i \in DOMAIN queue : queue[i].n <= received
    /\ \A i, j \in DOMAIN queue : i < j => queue[i].n < queue[j].n

InLine == Numbered /\ StoredOnceInOrder

\* What is needed for the order after a step that moves rows to other buffers only, and
\* leaves the queue alone or empties it.
LEMMA StillInLine ==
    ASSUME InLine, received' = received,
           DOMAIN backlog' = DOMAIN backlog,
           \A i \in DOMAIN backlog : backlog'[i].n = backlog[i].n /\ backlog'[i].flags = backlog[i].flags,
           UNCHANGED <<queue, posted>> \/ queue' = <<>>
    PROVE  InLine'
<1>1. DOMAIN queue' \subseteq DOMAIN queue /\ \A i \in DOMAIN queue' : queue'[i] = queue[i]
  OBVIOUS
<1>2. Numbered'
  BY <1>1 DEF InLine, Numbered
<1>3. StoredOnceInOrder'
  <2>1. \A i, j \in DOMAIN backlog' :
          i < j => /\ backlog'[i].n # backlog'[j].n
                   /\ backlog'[i].n > backlog'[j].n => "Redirected" \in backlog'[j].flags
    BY DEF InLine, StoredOnceInOrder, Redirected
  <2>2. \A i \in DOMAIN backlog', j \in DOMAIN queue' : backlog'[i].n < queue'[j].n
    BY <1>1 DEF InLine, StoredOnceInOrder
  <2>3. queue' # <<>> => posted'
    BY DEF InLine, StoredOnceInOrder
  <2> QED
    BY <2>1, <2>2, <2>3 DEF StoredOnceInOrder, Redirected
<1> QED
  BY <1>2, <1>3 DEF InLine

\* A message that is received is the last in line.
LEMMA RecvInLine ==
    ASSUME Sound, InLine, NEW t \in Targets, NEW f \in Flags, RecvMessage(t, f)
    PROVE  InLine'
<1> DEFINE m == [n |-> received + 1, target |-> t, flags |-> f]
           size == Len(queue)
<1>1. /\ size \in Nat /\ DOMAIN queue = 1 .. size /\ received \in Nat /\ queue \in Seq(Message)
      /\ \A i \in DOMAIN backlog : backlog[i].n \in Nat
      /\ \A i \in DOMAIN queue : queue[i].n \in Nat
  BY SoundShape DEF Sound, TypeOK
<1>2. queue' = Append(queue, m) /\ received' = received + 1 /\ posted' = TRUE /\ backlog' = backlog
  BY DEF RecvMessage, tables
<1>3. m.n = received + 1
  OBVIOUS
<1> HIDE DEF m
<1>4. /\ DOMAIN queue' = 1 .. (size + 1) /\ queue'[size + 1] = m
      /\ \A i \in 1 .. size : queue'[i] = queue[i]
  BY <1>1, <1>2
<1> HIDE DEF size
<1>5. Numbered'
  BY <1>1, <1>2, <1>3, <1>4 DEF InLine, Numbered
<1>6. \A i \in DOMAIN backlog, j \in DOMAIN queue' : backlog[i].n < queue'[j].n
  BY <1>1, <1>3, <1>4 DEF InLine, Numbered, StoredOnceInOrder
<1>7. StoredOnceInOrder'
  BY <1>2, <1>6 DEF InLine, StoredOnceInOrder, Redirected
<1> QED
  BY <1>5, <1>7 DEF InLine

\* The table after a turn: the rows that were there, and one row for each message.
LEMMA TableAfter ==
    ASSUME Sound, LastIdAfter <= MaxBuffers, NEW log, log = Logged(Rows)
    PROVE  /\ DOMAIN log = 1 .. (Len(backlog) + Len(queue))
           /\ \A i \in 1 .. Len(backlog) : log[i] = backlog[i]
           /\ \A i \in (Len(backlog) + 1) .. (Len(backlog) + Len(queue)) :
                 LET k == Stored(i - Len(backlog))
                 IN  /\ k \in 1 .. Len(queue)
                     /\ log[i].n = queue[k].n /\ log[i].flags = queue[k].flags
                     /\ log[i].buffer = PlaceOf(queue[k])
<1> DEFINE old == Len(backlog)
           new == Len(queue)
<1>1. old \in Nat /\ new \in Nat /\ backlog \in Seq(Row)
  BY SoundShape DEF Sound, TypeOK
<1>2. /\ Rows \in Seq(Row) /\ Len(Rows) = new
      /\ \A k \in 1 .. new : /\ Stored(k) \in 1 .. new
                             /\ Rows[k].n = queue[Stored(k)].n /\ Rows[k].flags = queue[Stored(k)].flags
                             /\ Rows[k].buffer = PlaceOf(queue[Stored(k)])
  BY RowsAreRows
<1>3. /\ log \in Seq(Row) /\ Len(log) = old + new
      /\ \A i \in 1 .. (old + new) : log[i] = IF i <= old THEN backlog[i] ELSE Rows[i - old]
  <2>1. log = backlog \o Rows
    BY DEF Logged
  <2>2. /\ backlog \o Rows \in Seq(Row) /\ Len(backlog \o Rows) = Len(backlog) + Len(Rows)
        /\ \A i \in 1 .. Len(backlog) + Len(Rows) :
              (backlog \o Rows)[i] = IF i <= Len(backlog) THEN backlog[i] ELSE Rows[i - Len(backlog)]
    BY <1>1, <1>2, ConcatProperties
  <2> QED
    BY <1>2, <2>1, <2>2
<1>4. DOMAIN log = 1 .. Len(log)
  BY <1>3
<1> HIDE DEF old, new
<1>5. DOMAIN log = 1 .. (old + new) /\ \A i \in 1 .. old : log[i] = backlog[i]
  BY <1>1, <1>3, <1>4
<1>6. \A i \in (old + 1) .. (old + new) : i - old \in 1 .. new /\ log[i] = Rows[i - old]
  BY <1>1, <1>3
<1> QED
  BY <1>2, <1>5, <1>6 DEF old, new

\* The rows of a turn are later than those before, and in order among themselves.
LEMMA ProcessMessagesInLine == Sound /\ InLine /\ ProcessMessages => InLine'
<1> SUFFICES ASSUME Sound, InLine, ProcessMessages PROVE InLine'
  OBVIOUS
<1> DEFINE old == Len(backlog)
           new == Len(queue)
<1>1. queue' = <<>> /\ LastIdAfter <= MaxBuffers /\ received' = received
  BY DEF ProcessMessages
<1>2. /\ old \in Nat /\ new \in Nat /\ DOMAIN backlog = 1 .. old /\ DOMAIN queue = 1 .. new /\ received \in Nat
      /\ \A i \in DOMAIN backlog : backlog[i].n \in Nat
      /\ \A i \in DOMAIN queue : queue[i].n \in Nat
  BY SoundShape
<1>3. CASE backlog' = backlog
  BY <1>1, <1>3, StillInLine
<1>4. CASE backlog' = Logged(Rows)
  <2>1. /\ DOMAIN backlog' = 1 .. (old + new)
        /\ \A i \in 1 .. old : backlog'[i] = backlog[i]
        /\ \A i \in (old + 1) .. (old + new) :
              LET k == Stored(i - old)
              IN  k \in 1 .. new /\ backlog'[i].n = queue[k].n /\ backlog'[i].flags = queue[k].flags
    BY <1>1, <1>4, TableAfter
  <2>2. /\ \A k, l \in 1 .. new : Stored(k) = Stored(l) => k = l
        /\ \A k, l \in 1 .. new : k < l => Stored(k) < Stored(l) \/ Waits(Stored(l))
    BY <1>2, RowsAreOrdered
  <2>3. \A i \in 1 .. new : Waits(i) => "Redirected" \in queue[i].flags
    BY DEF Waits, Redirected
  <2> HIDE DEF old, new
  <2>4. \A i \in (old + 1) .. (old + new) : i - old \in 1 .. new
    BY <1>2
  <2>5. ASSUME NEW i \in 1 .. (old + new), NEW j \in 1 .. (old + new), i < j
        PROVE  /\ backlog'[i].n # backlog'[j].n
               /\ backlog'[i].n > backlog'[j].n => "Redirected" \in backlog'[j].flags
    <3>1. CASE j <= old
      <4>1. i \in DOMAIN backlog /\ j \in DOMAIN backlog /\ backlog'[i] = backlog[i] /\ backlog'[j] = backlog[j]
        BY <1>2, <2>1, <2>5, <3>1
      <4> QED
        BY <2>5, <4>1 DEF InLine, StoredOnceInOrder, Redirected
    <3>2. CASE i <= old /\ j > old
      <4> DEFINE l == Stored(j - old)
      <4>1. /\ i \in DOMAIN backlog /\ backlog'[i] = backlog[i]
            /\ l \in DOMAIN queue /\ backlog'[j].n = queue[l].n
        BY <1>2, <2>1, <3>2
      <4>2. backlog[i].n < queue[l].n
        BY <4>1 DEF InLine, StoredOnceInOrder
      <4> HIDE DEF l
      <4> QED
        BY <1>2, <4>1, <4>2
    <3>3. CASE i > old
      <4> DEFINE k == Stored(i - old)
                 l == Stored(j - old)
      <4>1. /\ k \in 1 .. new /\ l \in 1 .. new
            /\ backlog'[i].n = queue[k].n /\ backlog'[j].n = queue[l].n /\ backlog'[j].flags = queue[l].flags
        <5>1. i \in (old + 1) .. (old + new) /\ j \in (old + 1) .. (old + new)
          BY <1>2, <2>5, <3>3
        <5> QED
          BY <2>1, <5>1
      <4>2. i - old \in 1 .. new /\ j - old \in 1 .. new /\ i - old < j - old
        BY <1>2, <2>5, <3>3
      <4>3. k # l /\ (k < l \/ Waits(l))
        BY <2>2, <4>2
      <4> HIDE DEF k, l
      <4>4. \A x, y \in 1 .. new : x < y => queue[x].n < queue[y].n
        BY <1>2 DEF InLine, Numbered
      <4>5. queue[k].n \in Nat /\ queue[l].n \in Nat
        BY <1>2, <4>1
      <4>6. queue[k].n # queue[l].n
        <5>1. k < l \/ l < k
          BY <1>2, <4>1, <4>3
        <5> QED
          BY <4>1, <4>4, <4>5, <5>1
      <4>7. queue[k].n > queue[l].n => Waits(l)
        BY <4>1, <4>3, <4>4, <4>5
      <4> QED
        BY <2>3, <4>1, <4>6, <4>7
    <3> QED
      BY <1>2, <3>1, <3>2, <3>3
  <2>6. StoredOnceInOrder'
    BY <1>1, <2>1, <2>5 DEF StoredOnceInOrder, Redirected
  <2>7. \A i \in 1 .. (old + new) : backlog'[i].n <= received
    <3> SUFFICES ASSUME NEW i \in 1 .. (old + new) PROVE backlog'[i].n <= received
      OBVIOUS
    <3>1. CASE i <= old
      BY <1>2, <2>1, <3>1 DEF InLine, Numbered
    <3>2. CASE i > old
      <4>1. i \in (old + 1) .. (old + new)
        BY <1>2, <3>2
      <4>2. Stored(i - old) \in DOMAIN queue /\ backlog'[i].n = queue[Stored(i - old)].n
        BY <1>2, <2>1, <4>1
      <4> QED
        BY <4>2 DEF InLine, Numbered
    <3> QED
      BY <1>2, <3>1, <3>2
  <2>8. Numbered'
    BY <1>1, <2>1, <2>7 DEF Numbered
  <2> QED
    BY <2>6, <2>8 DEF InLine
<1> QED
  BY <1>3, <1>4 DEF ProcessMessages

\* Every step keeps the order.
LEMMA InLineStep == Sound /\ InLine /\ [Next]_vars => InLine'
<1> SUFFICES ASSUME Sound, InLine, [Next]_vars PROVE InLine'
  OBVIOUS
<1>1. ASSUME NEW b, NEW id, RequestSetLastSeenMsg(b, id) \/ RequestMarkBufferAsRead(b) PROVE InLine'
  BY <1>1, StillInLine DEF RequestSetLastSeenMsg, RequestMarkBufferAsRead, tables
<1>2. ASSUME NEW t \in Targets, RemoveBuffer(t) PROVE InLine'
  BY <1>2, StillInLine DEF RemoveBuffer, WithoutBuffer, Moved
<1>3. ASSUME NEW t1 \in Targets, NEW t2 \in Targets, MergeBuffersPermanently(t1, t2) PROVE InLine'
  BY <1>3, StillInLine DEF MergeBuffersPermanently, Moved
<1>4. ASSUME NEW t \in Targets, NEW new \in Targets, RenameBuffer(t, new) PROVE InLine'
  BY <1>4, StillInLine DEF RenameBuffer
<1>5. CASE PurgeBufferIds \/ StoreDirtyIds \/ Restart \/ UNCHANGED vars
  BY <1>5, StillInLine DEF PurgeBufferIds, StoreDirtyIds, Restart, vars, tables
<1>6. CASE DestroyNetwork
  <2>1. /\ backlog' = [i \in DOMAIN backlog |-> [backlog[i] EXCEPT !.buffer = 0]]
        /\ queue' = <<>> /\ received' = received
    BY <1>6 DEF DestroyNetwork, NetworkDeleted
  <2>2. \A i \in DOMAIN backlog : backlog[i] \in Row
    BY SoundShape
  <2>3. \A i \in DOMAIN backlog : /\ [backlog[i] EXCEPT !.buffer = 0].n = backlog[i].n
                                  /\ [backlog[i] EXCEPT !.buffer = 0].flags = backlog[i].flags
    BY <2>2 DEF Row
  <2> QED
    BY <2>1, <2>3, StillInLine
<1> QED
  BY <1>1, <1>2, <1>3, <1>4, <1>5, <1>6, RecvInLine, ProcessMessagesInLine DEF Next

\* Each message is stored at most once, and none before an earlier one unless that was redirected
\* and had to wait for a buffer: whatever else happens between its arrival and its turn.
THEOREM StoredInOrder == Spec => []StoredOnceInOrder
<1>1. Init => Sound /\ InLine
  BY TypesAtFirst DEF Init, InLine, Numbered, StoredOnceInOrder
<1>2. Spec => [](Sound /\ InLine)
  BY <1>1, SoundStep, InLineStep, PTL DEF Spec
<1> QED
  BY <1>2, PTL DEF InLine

-----------------------------------------------------------------------------
(* What is shown, and what is saved.                                       *)

\* UnseenIsShown of buffer b.
Shown(b) ==
    /\ marks.highlights[b] = Cardinality({i \in After(backlog, b, marks.lastSeen[b]) : IsHighlight(backlog[i])})
    /\ (\E i \in After(backlog, b, marks.lastSeen[b]) : ByOthers(backlog[i])) => marks.active[b]

\* SavedUnlessDirty of buffer b; its saved last message seen is never a later one.
Kept(b) ==
    /\ b \notin dirty.highlights => saved.highlights[b] = marks.highlights[b]
    /\ b \notin dirty.active => saved.active[b] = marks.active[b]
    /\ saved.lastSeen[b] <= marks.lastSeen[b]
    /\ b \notin dirty.lastSeen /\ b \notin lax
          => After(backlog, b, saved.lastSeen[b]) = After(backlog, b, marks.lastSeen[b])

Agree == \A b \in Existing : (b \notin lax => Shown(b)) /\ Kept(b)

\* What is needed of a buffer of which a step changes neither rows nor marks.
LEMMA Untouched ==
    ASSUME NEW b,
           \A x : After(backlog', b, x) = After(backlog, b, x),
           \A i \in DOMAIN backlog : backlog'[i].flags = backlog[i].flags,
           marks'.lastSeen[b] = marks.lastSeen[b], marks'.highlights[b] = marks.highlights[b],
           marks'.active[b] = marks.active[b]
    PROVE  /\ Shown(b) => Shown(b)'
           /\ /\ Kept(b) /\ (b \in lax => b \in lax')
              /\ saved'.lastSeen[b] = saved.lastSeen[b] /\ saved'.highlights[b] = saved.highlights[b]
              /\ saved'.active[b] = saved.active[b]
              /\ b \in dirty.lastSeen <=> b \in dirty'.lastSeen
              /\ b \in dirty.highlights <=> b \in dirty'.highlights
              /\ b \in dirty.active <=> b \in dirty'.active
              => Kept(b)'
<1> DEFINE x == marks.lastSeen[b]
<1>1. After(backlog, b, x) \subseteq DOMAIN backlog
  BY DEF After
<1>2. \A i \in After(backlog, b, x) : /\ IsHighlight(backlog'[i]) <=> IsHighlight(backlog[i])
                                      /\ ByOthers(backlog'[i]) <=> ByOthers(backlog[i])
  BY <1>1 DEF IsHighlight, ByOthers
<1>3. ASSUME Shown(b) PROVE Shown(b)'
  <2>1. {i \in After(backlog', b, x) : IsHighlight(backlog'[i])} = {i \in After(backlog, b, x) : IsHighlight(backlog[i])}
    BY <1>2
  <2>2. (\E i \in After(backlog', b, x) : ByOthers(backlog'[i])) => \E i \in After(backlog, b, x) : ByOthers(backlog[i])
    BY <1>2
  <2>3. x = marks'.lastSeen[b]
    OBVIOUS
  <2> HIDE DEF x
  <2> QED
    BY <1>3, <2>1, <2>2, <2>3 DEF Shown, x
<1> HIDE DEF x
<1> QED
  BY <1>3 DEF Kept

\* An id that was not given yet has no rows and no marks.
LEMMA UnusedIds ==
    ASSUME Sound, OnlyOrphansAreLeft, NEW b \in Ids, b > lastId
    PROVE  Shown(b) /\ Kept(b)
<1>1. lastId \in Nat /\ b \notin Existing /\ b \notin orphans
  <2>1. lastId \in Nat /\ b \in Nat /\ b \notin 1 .. lastId
    BY SoundShape DEF Ids
  <2> QED
    BY <2>1, SoundShape DEF Sound, Bounded
<1>2. Blank(marks, b) /\ Blank(saved, b)
  BY <1>1 DEF OnlyOrphansAreLeft
<1>3. \A x : After(backlog, b, x) = {}
  <2>1. \A i \in DOMAIN backlog : backlog[i].buffer # b
    BY <1>1, SoundShape DEF Ids
  <2> QED
    BY <2>1 DEF After
<1>4. Shown(b)
  BY <1>2, <1>3, FS_EmptySet DEF Shown, Blank
<1>5. marks.active[b] = FALSE /\ saved.active[b] = FALSE
  <2>1. marks.active[b] \in BOOLEAN /\ saved.active[b] \in BOOLEAN
    BY DEF Sound, Bounded, MarksUpTo
  <2> QED
    BY <1>2, <2>1 DEF Blank
<1>6. Kept(b)
  <2>1. marks.lastSeen[b] = 0 /\ saved.lastSeen[b] = 0 /\ marks.highlights[b] = 0 /\ saved.highlights[b] = 0
    BY <1>2 DEF Blank
  <2>2. saved.lastSeen[b] <= marks.lastSeen[b]
    BY <2>1
  <2> QED
    BY <1>3, <1>5, <2>1, <2>2 DEF Kept
<1> QED
  BY <1>4, <1>6

\* The rows of a turn that a buffer gets, and how many of them are highlights.
LEMMA RowsAdded ==
    ASSUME Sound, LastIdAfter <= MaxBuffers, backlog' = Logged(Rows),
           NEW b, NEW x \in 0 .. Len(backlog)
    PROVE  LET new == {i \in DOMAIN backlog' \ DOMAIN backlog : backlog'[i].buffer = b}
           IN  /\ After(backlog', b, x) = After(backlog, b, x) \union new
               /\ \A i \in DOMAIN backlog : backlog'[i] = backlog[i]
               /\ new # {} => b \in Touched
               /\ Cardinality({i \in After(backlog', b, x) : IsHighlight(backlog'[i])})
                    = Cardinality({i \in After(backlog, b, x) : IsHighlight(backlog[i])}) + Cardinality(NewHighlights(b))
<1> DEFINE old == Len(backlog)
           size == Len(queue)
           new == {i \in DOMAIN backlog' \ DOMAIN backlog : backlog'[i].buffer = b}
           before == {i \in After(backlog, b, x) : IsHighlight(backlog[i])}
           added == {i \in new : IsHighlight(backlog'[i])}
           f == [i \in added |-> Stored(i - old)]
<1>1. old \in Nat /\ size \in Nat /\ DOMAIN backlog = 1 .. old /\ DOMAIN queue = 1 .. size
  BY SoundShape
<1>2. /\ DOMAIN backlog' = 1 .. (old + size)
      /\ \A i \in 1 .. old : backlog'[i] = backlog[i]
      /\ \A i \in (old + 1) .. (old + size) :
            LET k == Stored(i - old)
            IN  k \in 1 .. size /\ backlog'[i].flags = queue[k].flags /\ backlog'[i].buffer = PlaceOf(queue[k])
  BY TableAfter
<1>3. /\ \A k, l \in 1 .. size : Stored(k) = Stored(l) => k = l
      /\ \A i \in 1 .. size : \E k \in 1 .. size : Stored(k) = i
  BY <1>1, RowsAreOrdered
<1> HIDE DEF old, size
<1>4. DOMAIN backlog' \ DOMAIN backlog = (old + 1) .. (old + size)
  BY <1>1, <1>2
<1>5. After(backlog', b, x) = After(backlog, b, x) \union new
  <2>1. x \in 0 .. old
    BY DEF old
  <2>2. \A i \in 1 .. (old + size) : i \in 1 .. old \/ i \in (old + 1) .. (old + size)
    BY <1>1
  <2>3. \A i \in (old + 1) .. (old + size) : i > x
    BY <1>1, <2>1
  <2> QED
    BY <1>1, <1>2, <1>4, <2>2, <2>3 DEF After
<1>6. new # {} => b \in Touched
  <2> SUFFICES ASSUME NEW i \in (old + 1) .. (old + size), backlog'[i].buffer = b PROVE b \in Touched
    BY <1>4
  <2> QED
    BY <1>1, <1>2 DEF Touched
<1>7. NewHighlights(b) = {k \in 1 .. size : PlaceOf(queue[k]) = b /\ "Highlight" \in queue[k].flags /\ "Self" \notin queue[k].flags}
  BY <1>1 DEF NewHighlights, IsHighlight, ByOthers
<1>8. added = {i \in (old + 1) .. (old + size) : /\ backlog'[i].buffer = b
                                                /\ "Highlight" \in backlog'[i].flags
                                                /\ "Self" \notin backlog'[i].flags}
  BY <1>4 DEF IsHighlight, ByOthers
<1>9. f \in Bijection(added, NewHighlights(b))
  <2> HIDE DEF added
  <2>1. \A i \in added : f[i] = Stored(i - old) /\ f[i] \in NewHighlights(b)
    BY <1>2, <1>7, <1>8
  <2>2. ASSUME NEW i \in added, NEW j \in added, f[i] = f[j] PROVE i = j
    <3>1. i - old \in 1 .. size /\ j - old \in 1 .. size
      BY <1>1, <1>8
    <3>2. i - old = j - old
      BY <1>3, <2>1, <2>2, <3>1
    <3> QED
      BY <1>1, <1>8, <3>2
  <2>3. ASSUME NEW k \in NewHighlights(b) PROVE \E i \in added : f[i] = k
    <3>1. PICK l \in 1 .. size : Stored(l) = k
      BY <1>3, <1>7
    <3>2. old + l \in (old + 1) .. (old + size) /\ (old + l) - old = l
      BY <1>1, <3>1
    <3>3. Stored((old + l) - old) = k
      BY <3>1, <3>2
    <3>4. backlog'[old + l].flags = queue[k].flags /\ backlog'[old + l].buffer = PlaceOf(queue[k])
      BY <1>2, <3>2, <3>3
    <3>5. old + l \in added
      BY <1>7, <1>8, <3>2, <3>4
    <3> QED
      BY <2>1, <3>3, <3>5
  <2>4. f \in [added -> NewHighlights(b)]
    BY <2>1
  <2> HIDE DEF f
  <2> QED
    BY <2>2, <2>3, <2>4 DEF Bijection, Injection, Surjection, IsInjective
<1>10. IsFiniteSet(before) /\ IsFiniteSet(added) /\ before \intersect added = {}
  <2>1. before \subseteq 1 .. old /\ added \subseteq 1 .. (old + size) /\ before \intersect added = {}
    BY <1>1, <1>4 DEF After
  <2> HIDE DEF before, added
  <2>2. IsFiniteSet(before)
    BY <1>1, <2>1, PlacesAreFew
  <2>3. old + size \in Nat
    BY <1>1
  <2>4. IsFiniteSet(added)
    BY <2>1, <2>3, PlacesAreFew
  <2> QED
    BY <2>1, <2>2, <2>4
<1>11. Cardinality(added) = Cardinality(NewHighlights(b))
  <2> HIDE DEF added, f
  <2> QED
    BY <1>9, <1>10, FS_Bijection DEF ExistsBijection
<1>12. {i \in After(backlog', b, x) : IsHighlight(backlog'[i])} = before \union added
  <2>1. \A i \in After(backlog, b, x) : i \in 1 .. old
    BY <1>1 DEF After
  <2> QED
    BY <1>2, <1>5, <2>1
<1>13. Cardinality(before \union added) = Cardinality(before) + Cardinality(added)
  <2> HIDE DEF before, added
  <2>1. Cardinality(before \union added) = Cardinality(before) + Cardinality(added) - Cardinality(before \intersect added)
    BY <1>10, FS_Union
  <2>2. Cardinality(before \intersect added) = 0
    BY <1>10, FS_EmptySet
  <2>3. Cardinality(before) \in Nat /\ Cardinality(added) \in Nat
    BY <1>10, FS_CardinalityType
  <2> QED
    BY <2>1, <2>2, <2>3
<1> QED
  <2> HIDE DEF before, added
  <2> QED
    BY <1>1, <1>2, <1>5, <1>6, <1>11, <1>12, <1>13 DEF before

\* A turn counts for a buffer what it adds to the rows of it, and marks it as dirty.
LEMMA ProcessMessagesAgree == Sound /\ OnlyOrphansAreLeft /\ Agree /\ ProcessMessages => Agree'
<1> SUFFICES ASSUME Sound, OnlyOrphansAreLeft, Agree, ProcessMessages, NEW b \in Existing' PROVE (b \notin lax => Shown(b))' /\ Kept(b)'
  BY DEF Agree
<1>1. /\ bufferOf' = BuffersAfter /\ LastIdAfter <= MaxBuffers /\ UNCHANGED <<saved, lax>>
  BY DEF ProcessMessages
<1>2. b \in Ids /\ (b \in Existing \/ b > lastId)
  <2>1. /\ LastIdAfter \in Nat /\ BuffersAfter \in [Targets -> 0 .. LastIdAfter]
        /\ \A c \in {BuffersAfter[t] : t \in Targets} \ {0} : c \in Existing \/ c > lastId
    BY IdsAreNew
  <2>2. b \in {BuffersAfter[t] : t \in Targets} \ {0}
    BY <1>1 DEF Existing
  <2> QED
    BY <1>1, <2>1, <2>2, BoundsAreNumbers DEF Ids
<1>3. (b \notin lax => Shown(b)) /\ Kept(b)
  BY <1>2, UnusedIds DEF Agree
<1>4. CASE UNCHANGED <<backlog, syncer>>
  <2>1. UNCHANGED <<backlog, marks, dirty>>
    BY <1>4 DEF syncer
  <2> QED
    BY <1>1, <1>3, <2>1 DEF Shown, Kept
<1>5. CASE backlog' = Logged(Rows) /\ Count
  <2> DEFINE seen == marks.lastSeen[b]
             keep == saved.lastSeen[b]
             new == {i \in DOMAIN backlog' \ DOMAIN backlog : backlog'[i].buffer = b}
  <2>1. seen \in 0 .. Len(backlog) /\ keep \in 0 .. Len(backlog) /\ marks.highlights[b] \in Nat
        /\ marks.active[b] \in BOOLEAN /\ saved.active[b] \in BOOLEAN
    BY <1>2 DEF Sound, Bounded, MarksUpTo
  <2>2. /\ After(backlog', b, seen) = After(backlog, b, seen) \union new
        /\ \A i \in DOMAIN backlog : backlog'[i] = backlog[i]
        /\ new # {} => b \in Touched
        /\ Cardinality({i \in After(backlog', b, seen) : IsHighlight(backlog'[i])})
             = Cardinality({i \in After(backlog, b, seen) : IsHighlight(backlog[i])}) + Cardinality(NewHighlights(b))
    BY <1>1, <1>5, <2>1, RowsAdded
  <2>3. After(backlog', b, keep) = After(backlog, b, keep) \union new
    BY <1>1, <1>5, <2>1, RowsAdded
  <2>4. /\ marks'.lastSeen[b] = seen
        /\ marks'.highlights[b] = marks.highlights[b] + Cardinality(NewHighlights(b))
        /\ marks'.active[b] = (marks.active[b] \/ b \in Touched)
    BY <1>2, <1>5 DEF Count
  <2>5. /\ dirty'.lastSeen = dirty.lastSeen
        /\ dirty'.active = dirty.active \union {c \in Touched : ~marks.active[c]}
        /\ dirty'.highlights = dirty.highlights \union {c \in Touched : NewHighlights(c) # {}}
    BY <1>5 DEF Count, Sound, TypeOK
  <2> HIDE DEF seen, keep, new
  <2>6. b \notin lax => Shown(b)'
    <3> SUFFICES ASSUME b \notin lax PROVE Shown(b)'
      OBVIOUS
    <3>1. /\ marks.highlights[b] = Cardinality({i \in After(backlog, b, seen) : IsHighlight(backlog[i])})
          /\ (\E i \in After(backlog, b, seen) : ByOthers(backlog[i])) => marks.active[b]
      BY <1>3 DEF Shown, seen
    <3>2. marks'.highlights[b] = Cardinality({i \in After(backlog', b, seen) : IsHighlight(backlog'[i])})
      BY <2>2, <2>4, <3>1
    <3>3. ASSUME NEW i \in After(backlog', b, seen), ByOthers(backlog'[i]) PROVE marks.active[b] \/ b \in Touched
      <4>1. CASE i \in After(backlog, b, seen)
        <5>1. backlog'[i] = backlog[i]
          BY <2>2, <4>1 DEF After
        <5> QED
          BY <3>1, <3>3, <4>1, <5>1
      <4>2. CASE i \in new
        BY <2>2, <4>2
      <4> QED
        BY <2>2, <3>3, <4>1, <4>2
    <3>4. (\E i \in After(backlog', b, seen) : ByOthers(backlog'[i])) => marks'.active[b]
      BY <2>4, <3>3, Zenon
    <3> QED
      BY <2>4, <3>2, <3>4 DEF Shown
  <2>7. Kept(b)'
    <3>1. b \notin dirty'.highlights => saved'.highlights[b] = marks'.highlights[b]
      <4> SUFFICES ASSUME b \notin dirty'.highlights PROVE saved.highlights[b] = marks'.highlights[b]
        BY <1>1
      <4>1. saved.highlights[b] = marks.highlights[b] /\ b \notin {c \in Touched : NewHighlights(c) # {}}
        BY <1>3, <2>5 DEF Kept
      <4>2. NewHighlights(b) = {}
        BY <4>1 DEF NewHighlights, Touched
      <4> QED
        BY <2>1, <2>4, <4>1, <4>2, FS_EmptySet
    <3>2. b \notin dirty'.active => saved'.active[b] = marks'.active[b]
      <4> SUFFICES ASSUME b \notin dirty'.active PROVE saved.active[b] = marks'.active[b]
        BY <1>1
      <4>1. saved.active[b] = marks.active[b] /\ (b \in Touched => marks.active[b])
        BY <1>3, <2>5 DEF Kept
      <4>2. (marks.active[b] \/ b \in Touched) = marks.active[b]
        BY <2>1, <4>1, Zenon
      <4> QED
        BY <2>4, <4>1, <4>2
    <3>3. saved'.lastSeen[b] = keep /\ keep <= seen
      BY <1>1, <1>3 DEF Kept, seen, keep
    <3>4. b \notin dirty.lastSeen /\ b \notin lax => After(backlog', b, keep) = After(backlog', b, seen)
      BY <1>3, <2>2, <2>3 DEF Kept, seen, keep
    <3> QED
      BY <1>1, <2>4, <2>5, <3>1, <3>2, <3>3, <3>4 DEF Kept
  <2> QED
    BY <1>1, <2>6, <2>7
<1> QED
  BY <1>4, <1>5 DEF ProcessMessages

\* Setting the last message seen counts the rows anew; marking as read gives up counting.
LEMMA ClientAgree ==
    ASSUME Sound, Agree, NEW b \in 1 .. lastId,
           \/ \E id \in DOMAIN backlog : RequestSetLastSeenMsg(b, id)
           \/ RequestMarkBufferAsRead(b)
    PROVE  Agree'
<1>1. UNCHANGED <<bufferOf, backlog, saved>> /\ Existing' = Existing
  BY DEF RequestSetLastSeenMsg, RequestMarkBufferAsRead, tables, Existing
<1>2. SUFFICES ASSUME NEW c \in Existing PROVE (c \notin lax => Shown(c))' /\ Kept(c)'
  BY <1>1 DEF Agree
<1>3. (c \notin lax => Shown(c)) /\ Kept(c) /\ c \in Ids /\ b \in Ids
  BY SoundShape DEF Agree
<1>4. marks \in MarksUpTo(Len(backlog)) /\ saved \in MarksUpTo(Len(backlog))
  BY DEF Sound, Bounded
<1>5. ASSUME NEW id \in DOMAIN backlog, RequestSetLastSeenMsg(b, id) PROVE (c \notin lax => Shown(c))' /\ Kept(c)'
  <2>1. /\ marks' = [lastSeen |-> [marks.lastSeen EXCEPT ![b] = id],
                     highlights |-> [marks.highlights EXCEPT ![b] = HighlightCount(b, id)],
                     active |-> [marks.active EXCEPT ![b] = BufferActivity(b, id)]]
        /\ dirty' = [lastSeen |-> dirty.lastSeen \union {b}, highlights |-> dirty.highlights \union {b},
                     active |-> dirty.active \union {b}]
        /\ lax' = lax \ {b} /\ marks.lastSeen[b] < id
    BY <1>5 DEF RequestSetLastSeenMsg
  <2>2. CASE c # b
    <3>1. marks'.lastSeen[c] = marks.lastSeen[c] /\ marks'.highlights[c] = marks.highlights[c]
          /\ marks'.active[c] = marks.active[c]
      BY <1>3, <1>4, <2>1, <2>2 DEF MarksUpTo
    <3>2. /\ c \in dirty.lastSeen <=> c \in dirty'.lastSeen
          /\ c \in dirty.highlights <=> c \in dirty'.highlights
          /\ c \in dirty.active <=> c \in dirty'.active
          /\ c \in lax <=> c \in lax'
      BY <2>1, <2>2
    <3> QED
      BY <1>1, <1>3, <3>1, <3>2, Untouched
  <2>3. CASE c = b
    <3>1. marks'.lastSeen[b] = id /\ marks'.highlights[b] = HighlightCount(b, id)
          /\ marks'.active[b] = BufferActivity(b, id)
      BY <1>3, <1>4, <2>1 DEF MarksUpTo
    <3>2. Shown(b)'
      BY <1>1, <3>1 DEF Shown, HighlightCount, BufferActivity
    <3>3. b \in dirty'.lastSeen /\ b \in dirty'.highlights /\ b \in dirty'.active
      BY <2>1
    <3>4. saved.lastSeen[b] <= id
      <4>1. saved.lastSeen[b] \in Nat /\ marks.lastSeen[b] \in Nat /\ id \in Nat
        BY <1>3, <1>4, SoundShape DEF MarksUpTo
      <4>2. saved.lastSeen[b] <= marks.lastSeen[b]
        BY <1>3, <2>3 DEF Kept
      <4> QED
        BY <2>1, <4>1, <4>2
    <3> QED
      BY <1>1, <2>3, <3>1, <3>2, <3>3, <3>4 DEF Kept
  <2> QED
    BY <2>2, <2>3
<1>6. ASSUME RequestMarkBufferAsRead(b) PROVE (c \notin lax => Shown(c))' /\ Kept(c)'
  <2>1. /\ marks' = [marks EXCEPT !.highlights[b] = 0, !.active[b] = FALSE]
        /\ dirty' = [dirty EXCEPT !.highlights = @ \union {b}, !.active = @ \union {b}]
        /\ lax' = lax \union (Existing \intersect {b})
    BY <1>6 DEF RequestMarkBufferAsRead
  <2>2. /\ dirty'.lastSeen = dirty.lastSeen /\ dirty'.highlights = dirty.highlights \union {b}
        /\ dirty'.active = dirty.active \union {b}
    BY <2>1 DEF Sound, TypeOK
  <2>3. marks'.lastSeen = marks.lastSeen /\ marks'.highlights = [marks.highlights EXCEPT ![b] = 0]
        /\ marks'.active = [marks.active EXCEPT ![b] = FALSE]
    BY <1>4, <2>1 DEF MarksUpTo
  <2>4. CASE c # b
    <3>1. marks'.lastSeen[c] = marks.lastSeen[c] /\ marks'.highlights[c] = marks.highlights[c]
          /\ marks'.active[c] = marks.active[c]
      BY <1>3, <1>4, <2>3, <2>4 DEF MarksUpTo
    <3>2. /\ c \in dirty.lastSeen <=> c \in dirty'.lastSeen
          /\ c \in dirty.highlights <=> c \in dirty'.highlights
          /\ c \in dirty.active <=> c \in dirty'.active
          /\ c \in lax <=> c \in lax'
      BY <2>1, <2>2, <2>4
    <3> QED
      BY <1>1, <1>3, <3>1, <3>2, Untouched
  <2>5. CASE c = b
    <3>1. b \in lax' /\ b \in dirty'.highlights /\ b \in dirty'.active
      BY <2>1, <2>2, <2>5
    <3> QED
      BY <1>1, <1>3, <2>3, <2>5, <3>1 DEF Kept
  <2> QED
    BY <2>4, <2>5
<1> QED
  BY <1>5, <1>6

\* The marks that a buffer has after it was taken away, if anything still has its id.
LEMMA ReplacedMarks ==
    ASSUME NEW m, NEW B, NEW c \in Ids
    PROVE  /\ c \in B => /\ Replaced(m, B, NoMarks).lastSeen[c] = 0 /\ Replaced(m, B, NoMarks).highlights[c] = 0
                         /\ Replaced(m, B, NoMarks).active[c] = FALSE
           /\ c \notin B => /\ Replaced(m, B, NoMarks).lastSeen[c] = m.lastSeen[c]
                            /\ Replaced(m, B, NoMarks).highlights[c] = m.highlights[c]
                            /\ Replaced(m, B, NoMarks).active[c] = m.active[c]
BY DEF Replaced, NoMarks

\* The buffer gone is taken away, and its rows with it or put into another buffer.
LEMMA TakenAwayAgree ==
    ASSUME Sound, Agree, NEW gone \in 1 .. lastId, NEW to \in 0 .. lastId, to = 0 \/ to \in lax',
           Existing' \subseteq Existing,
           backlog' = Moved(gone, to),
           saved' = Replaced(saved, {gone}, NoMarks), marks' = Replaced(marks, {gone}, NoMarks),
           lax \ {gone} \subseteq lax', dirty' = dirty
    PROVE  Agree'
<1>1. SUFFICES ASSUME NEW c \in Existing' PROVE (c \notin lax => Shown(c))' /\ Kept(c)'
  BY DEF Agree
<1>2. (c \notin lax => Shown(c)) /\ Kept(c) /\ c \in Ids /\ c # 0 /\ Len(backlog) \in Nat /\ lastId \in Nat
  BY SoundShape DEF Agree, Existing
<1>3. marks \in MarksUpTo(Len(backlog)) /\ saved \in MarksUpTo(Len(backlog))
  BY DEF Sound, Bounded
<1>4. /\ DOMAIN backlog' = DOMAIN backlog
      /\ \A i \in DOMAIN backlog :
            /\ backlog'[i].flags = backlog[i].flags
            /\ backlog'[i].buffer = IF backlog[i].buffer = gone THEN to ELSE backlog[i].buffer
  <2>1. \A i \in DOMAIN backlog : backlog[i] \in Row
    BY SoundShape
  <2>2. \A i \in DOMAIN backlog : /\ [backlog[i] EXCEPT !.buffer = to].flags = backlog[i].flags
                                  /\ [backlog[i] EXCEPT !.buffer = to].buffer = to
    BY <2>1 DEF Row
  <2> QED
    BY <2>2 DEF Moved
<1>5. CASE c = gone
  <2>1. /\ marks'.lastSeen[c] = 0 /\ marks'.highlights[c] = 0 /\ marks'.active[c] = FALSE
        /\ saved'.lastSeen[c] = 0 /\ saved'.highlights[c] = 0 /\ saved'.active[c] = FALSE
    BY <1>2, <1>3, <1>5, ReplacedMarks
  <2>2. Kept(c)'
    <3>1. saved'.lastSeen[c] <= marks'.lastSeen[c]
      BY <2>1
    <3> QED
      BY <2>1, <3>1 DEF Kept
  <2>3. c \notin lax' => After(backlog', c, 0) = {}
    BY <1>2, <1>4, <1>5 DEF After
  <2>4. c \notin lax' => Shown(c)'
    BY <2>1, <2>3, FS_EmptySet DEF Shown
  <2> QED
    BY <2>2, <2>4
<1>6. CASE c # gone /\ c = to
  <2>1. c \in lax'
    BY <1>2, <1>6
  <2>2. /\ marks'.lastSeen[c] = marks.lastSeen[c] /\ marks'.highlights[c] = marks.highlights[c]
        /\ marks'.active[c] = marks.active[c]
        /\ saved'.lastSeen[c] = saved.lastSeen[c] /\ saved'.highlights[c] = saved.highlights[c]
        /\ saved'.active[c] = saved.active[c]
    <3>1. c \notin {gone} /\ c \in Ids
      BY <1>2, <1>6
    <3>2. /\ Replaced(marks, {gone}, NoMarks).lastSeen[c] = marks.lastSeen[c]
          /\ Replaced(marks, {gone}, NoMarks).highlights[c] = marks.highlights[c]
          /\ Replaced(marks, {gone}, NoMarks).active[c] = marks.active[c]
      BY <3>1, ReplacedMarks, ZenonT(60)
    <3>3. /\ Replaced(saved, {gone}, NoMarks).lastSeen[c] = saved.lastSeen[c]
          /\ Replaced(saved, {gone}, NoMarks).highlights[c] = saved.highlights[c]
          /\ Replaced(saved, {gone}, NoMarks).active[c] = saved.active[c]
      BY <3>1, ReplacedMarks, ZenonT(60)
    <3> QED
      BY <3>2, <3>3
  <2> QED
    BY <1>2, <2>1, <2>2 DEF Kept
<1>7. CASE c # gone /\ c # to
  <2>1. \A x : After(backlog', c, x) = After(backlog, c, x)
    BY <1>4, <1>7 DEF After
  <2>2. /\ marks'.lastSeen[c] = marks.lastSeen[c] /\ marks'.highlights[c] = marks.highlights[c]
        /\ marks'.active[c] = marks.active[c]
        /\ saved'.lastSeen[c] = saved.lastSeen[c] /\ saved'.highlights[c] = saved.highlights[c]
        /\ saved'.active[c] = saved.active[c]
    <3>1. c \notin {gone} /\ c \in Ids
      BY <1>2, <1>7
    <3>2. /\ Replaced(marks, {gone}, NoMarks).lastSeen[c] = marks.lastSeen[c]
          /\ Replaced(marks, {gone}, NoMarks).highlights[c] = marks.highlights[c]
          /\ Replaced(marks, {gone}, NoMarks).active[c] = marks.active[c]
      BY <3>1, ReplacedMarks, ZenonT(60)
    <3>3. /\ Replaced(saved, {gone}, NoMarks).lastSeen[c] = saved.lastSeen[c]
          /\ Replaced(saved, {gone}, NoMarks).highlights[c] = saved.highlights[c]
          /\ Replaced(saved, {gone}, NoMarks).active[c] = saved.active[c]
      BY <3>1, ReplacedMarks, ZenonT(60)
    <3> QED
      BY <3>2, <3>3
  <2>3. c \in lax => c \in lax'
    BY <1>7
  <2> QED
    BY <1>2, <1>4, <2>1, <2>2, <2>3, Untouched
<1> QED
  BY <1>5, <1>6, <1>7

\* Removing, merging and renaming buffers keeps what is shown and saved of the others.
LEMMA BuffersAgree ==
    ASSUME Sound, Agree,
           \/ \E t \in Targets : RemoveBuffer(t)
           \/ \E t1, t2 \in Targets : MergeBuffersPermanently(t1, t2)
           \/ \E t, new \in Targets : RenameBuffer(t, new)
    PROVE  Agree'
<1>1. bufferOf \in [Targets -> 0 .. lastId] /\ lastId \in Nat
  BY SoundShape DEF Sound, TypeOK
<1>2. ASSUME NEW t \in Targets, RemoveBuffer(t) PROVE Agree'
  <2>1. /\ bufferOf[t] \in 1 .. lastId /\ bufferOf' = [bufferOf EXCEPT ![t] = 0] /\ backlog' = Moved(bufferOf[t], 0)
        /\ saved' = Replaced(saved, {bufferOf[t]}, NoMarks) /\ marks' = Replaced(marks, {bufferOf[t]}, NoMarks)
        /\ lax' = lax \ {bufferOf[t]} /\ dirty' = dirty
    BY <1>1, <1>2 DEF RemoveBuffer, WithoutBuffer
  <2>2. Existing' \subseteq Existing
    BY <1>1, <2>1 DEF Existing
  <2>3. 0 \in 0 .. lastId /\ lax \ {bufferOf[t]} \subseteq lax'
    BY <1>1, <2>1
  <2> QED
    BY <2>1, <2>2, <2>3, TakenAwayAgree
<1>3. ASSUME NEW t1 \in Targets, NEW t2 \in Targets, MergeBuffersPermanently(t1, t2) PROVE Agree'
  <2>1. /\ bufferOf[t2] \in 1 .. lastId /\ bufferOf[t1] \in 0 .. lastId
        /\ bufferOf' = [bufferOf EXCEPT ![t2] = 0] /\ backlog' = Moved(bufferOf[t2], bufferOf[t1])
        /\ saved' = Replaced(saved, {bufferOf[t2]}, NoMarks) /\ marks' = Replaced(marks, {bufferOf[t2]}, NoMarks)
        /\ lax' = (lax \ {bufferOf[t2]}) \union {bufferOf[t1]} /\ dirty' = dirty
    BY <1>1, <1>3 DEF MergeBuffersPermanently
  <2>2. Existing' \subseteq Existing
    BY <1>1, <2>1 DEF Existing
  <2>3. bufferOf[t1] \in lax' /\ lax \ {bufferOf[t2]} \subseteq lax'
    BY <2>1
  <2> QED
    BY <2>1, <2>2, <2>3, TakenAwayAgree
<1>4. ASSUME NEW t \in Targets, NEW new \in Targets, RenameBuffer(t, new) PROVE Agree'
  <2>1. /\ bufferOf' = [bufferOf EXCEPT ![t] = 0, ![new] = bufferOf[t]]
        /\ UNCHANGED <<backlog, saved, marks, dirty, lax>>
    BY <1>4 DEF RenameBuffer, syncer
  <2>2. Existing' \subseteq Existing
    BY <1>1, <2>1 DEF Existing
  <2> QED
    BY <2>1, <2>2 DEF Agree, Shown, Kept
<1> QED
  BY <1>2, <1>3, <1>4

\* Storing makes the table agree with the memory.
LEMMA StoreAgree == Sound /\ Agree /\ StoreDirtyIds => Agree'
<1> SUFFICES ASSUME Sound, Agree, StoreDirtyIds PROVE Agree'
  OBVIOUS
<1>1. /\ UNCHANGED <<bufferOf, backlog, marks, lax>> /\ dirty' = Clean
      /\ saved' = [lastSeen |-> [b \in Ids |-> LastSeenColumn(b)],
                   highlights |-> [b \in Ids |-> IF b \in dirty.highlights \intersect Existing
                                                 THEN marks.highlights[b] ELSE saved.highlights[b]],
                   active |-> [b \in Ids |-> IF b \in dirty.active \intersect Existing
                                             THEN marks.active[b] ELSE saved.active[b]]]
  BY DEF StoreDirtyIds
<1>2. Existing' = Existing
  BY <1>1 DEF Existing
<1>3. SUFFICES ASSUME NEW c \in Existing PROVE (c \notin lax => Shown(c))' /\ Kept(c)'
  BY <1>2 DEF Agree
<1>4. (c \notin lax => Shown(c)) /\ Kept(c) /\ c \in Ids
  BY SoundShape DEF Agree
<1>5. Shown(c) => Shown(c)'
  BY <1>1 DEF Shown
<1>6. saved'.highlights[c] = marks.highlights[c] /\ saved'.active[c] = marks.active[c]
      /\ saved'.lastSeen[c] = LastSeenColumn(c)
  BY <1>1, <1>4 DEF Kept
<1>7. /\ LastSeenColumn(c) <= marks.lastSeen[c]
      /\ c \notin lax => After(backlog, c, LastSeenColumn(c)) = After(backlog, c, marks.lastSeen[c])
  <2>1. saved.lastSeen[c] \in Nat /\ marks.lastSeen[c] \in Nat /\ saved.lastSeen[c] <= marks.lastSeen[c]
    BY <1>4 DEF Sound, Bounded, MarksUpTo, Kept
  <2>2. CASE c \notin dirty.lastSeen
    BY <1>4, <2>2, ColumnIsSeen DEF Kept
  <2>3. CASE marks.lastSeen[c] = 0
    <3>1. saved.lastSeen[c] = marks.lastSeen[c]
      BY <2>1, <2>3
    <3> QED
      BY <1>4, <2>1, <2>3, <3>1, ColumnIsSeen
  <2>4. CASE c \in dirty.lastSeen /\ marks.lastSeen[c] # 0
    BY <1>4, <2>4, ColumnIsSeen
  <2> QED
    BY <2>2, <2>3, <2>4
<1>8. Kept(c)'
  BY <1>1, <1>6, <1>7 DEF Kept
<1> QED
  BY <1>1, <1>4, <1>5, <1>8

\* After a restart, what was clean is shown as before.
LEMMA RestartAgree == Sound /\ Agree /\ Restart => Agree'
<1> SUFFICES ASSUME Sound, Agree, Restart PROVE Agree'
  OBVIOUS
<1>1. /\ UNCHANGED <<bufferOf, backlog, saved>> /\ dirty' = Clean /\ marks' = saved
      /\ lax' = (lax \union dirty.lastSeen \union dirty.highlights \union dirty.active) \intersect Existing
  BY DEF Restart, tables
<1>2. Existing' = Existing
  BY <1>1 DEF Existing
<1>3. SUFFICES ASSUME NEW c \in Existing PROVE (c \notin lax => Shown(c))' /\ Kept(c)'
  BY <1>2 DEF Agree
<1>4. (c \notin lax => Shown(c)) /\ Kept(c) /\ c \in Ids
  BY SoundShape DEF Agree
<1>5. c \notin lax' => Shown(c)'
  <2> SUFFICES ASSUME c \notin lax' PROVE Shown(c)'
    OBVIOUS
  <2>1. c \notin lax /\ c \notin dirty.lastSeen /\ c \notin dirty.highlights /\ c \notin dirty.active
    BY <1>1
  <2>2. /\ marks'.highlights[c] = marks.highlights[c] /\ marks'.active[c] = marks.active[c]
        /\ After(backlog', c, marks'.lastSeen[c]) = After(backlog, c, marks.lastSeen[c])
    BY <1>1, <1>4, <2>1 DEF Kept
  <2> QED
    BY <1>1, <1>4, <2>1, <2>2 DEF Shown
<1>6. Kept(c)'
  <2>1. saved.lastSeen[c] <= saved.lastSeen[c]
    BY <1>4 DEF Sound, Bounded, MarksUpTo
  <2> QED
    BY <1>1, <2>1 DEF Kept
<1> QED
  BY <1>5, <1>6

\* Every step keeps what is shown and what is saved.
LEMMA AgreeStep == Sound /\ OnlyOrphansAreLeft /\ Agree /\ [Next]_vars => Agree'
<1> SUFFICES ASSUME Sound, OnlyOrphansAreLeft, Agree, [Next]_vars PROVE Agree'
  OBVIOUS
<1>1. ASSUME UNCHANGED <<bufferOf, backlog, saved, marks, dirty, lax>> PROVE Agree'
  BY <1>1 DEF Agree, Existing, Shown, Kept
<1>2. ASSUME NEW t \in Targets, NEW f \in Flags, RecvMessage(t, f) PROVE Agree'
  BY <1>1, <1>2 DEF RecvMessage, tables, syncer
<1>3. CASE UNCHANGED vars
  BY <1>1, <1>3 DEF vars, tables, syncer
<1>4. CASE PurgeBufferIds
  <2>1. PICK gone \in SUBSET (Ids \ Existing) :
          /\ marks' = Replaced(marks, gone, NoMarks)
          /\ UNCHANGED <<bufferOf, backlog, saved, dirty, lax>>
    BY <1>4 DEF PurgeBufferIds, tables
  <2>2. Existing' = Existing
    BY <2>1 DEF Existing
  <2> SUFFICES ASSUME NEW c \in Existing PROVE (c \notin lax => Shown(c))' /\ Kept(c)'
    BY <2>2 DEF Agree
  <2>3. (c \notin lax => Shown(c)) /\ Kept(c) /\ c \in Ids /\ c \notin gone /\ Len(backlog) \in Nat
    BY <2>1, SoundShape DEF Agree
  <2>4. marks'.lastSeen[c] = marks.lastSeen[c] /\ marks'.highlights[c] = marks.highlights[c]
        /\ marks'.active[c] = marks.active[c]
    <3>1. c \in Ids /\ c \notin gone
      BY <2>3
    <3>2. /\ Replaced(marks, gone, NoMarks).lastSeen[c] = marks.lastSeen[c]
          /\ Replaced(marks, gone, NoMarks).highlights[c] = marks.highlights[c]
          /\ Replaced(marks, gone, NoMarks).active[c] = marks.active[c]
      BY <3>1, ReplacedMarks, ZenonT(60)
    <3> QED
      BY <2>1, <3>2
  <2> QED
    BY <2>1, <2>3, <2>4, Untouched
<1>5. CASE DestroyNetwork
  <2>1. Existing' = {}
    BY <1>5 DEF DestroyNetwork, NetworkDeleted, Existing
  <2> QED
    BY <2>1 DEF Agree
<1> QED
  BY <1>2, <1>3, <1>4, <1>5, ProcessMessagesAgree, ClientAgree, BuffersAgree, StoreAgree, RestartAgree DEF Next

\* The three invariants together, with the one about ids.
LEMMA AlwaysAgree == Spec => [](Sound /\ Agree)
<1>1. Init => Agree
  BY DEF Init, Agree, Existing
<1> QED
  BY <1>1, TypesAtFirst, SoundStep, AgreeStep, OnlyOrphans, PTL DEF Spec

-----------------------------------------------------------------------------
(* What is left of a buffer is never another's.                            *)

\* An id that has been given is given to no other buffer.
LEMMA OrphansStayAlone == Sound /\ NeverAnothers /\ [Next]_vars => NeverAnothers'
<1> SUFFICES ASSUME Sound, NeverAnothers, [Next]_vars PROVE NeverAnothers'
  OBVIOUS
<1>1. orphans \subseteq 1 .. lastId /\ lastId \in Nat /\ bufferOf \in [Targets -> 0 .. lastId]
  BY DEF Sound, Bounded, TypeOK
<1>2. ASSUME orphans' \subseteq orphans, Existing' \subseteq Existing PROVE NeverAnothers'
  BY <1>2 DEF NeverAnothers
<1>3. ASSUME bufferOf' = bufferOf, orphans' \subseteq orphans PROVE NeverAnothers'
  BY <1>2, <1>3 DEF Existing
<1>4. CASE ProcessMessages
  <2>1. bufferOf' = BuffersAfter /\ orphans' = orphans
    BY <1>4 DEF ProcessMessages
  <2>2. \A b \in {BuffersAfter[t] : t \in Targets} \ {0} : b \in Existing \/ b > lastId
    BY IdsAreNew
  <2>3. \A b \in orphans : ~(b > lastId)
    BY <1>1
  <2> QED
    BY <2>1, <2>2, <2>3 DEF NeverAnothers, Existing
<1>5. ASSUME NEW b, NEW id, RequestSetLastSeenMsg(b, id) PROVE NeverAnothers'
  <2>1. bufferOf' = bufferOf /\ orphans' = IF b \in Existing THEN orphans ELSE orphans \union {b}
    BY <1>5 DEF RequestSetLastSeenMsg, tables
  <2> QED
    BY <2>1 DEF NeverAnothers, Existing
<1>6. ASSUME NEW t \in Targets, RemoveBuffer(t) PROVE NeverAnothers'
  <2>1. bufferOf' = [bufferOf EXCEPT ![t] = 0] /\ orphans' = orphans
    BY <1>6 DEF RemoveBuffer
  <2> QED
    BY <1>1, <1>2, <2>1 DEF Existing
<1>7. ASSUME NEW t1 \in Targets, NEW t2 \in Targets, MergeBuffersPermanently(t1, t2) PROVE NeverAnothers'
  <2>1. bufferOf' = [bufferOf EXCEPT ![t2] = 0] /\ orphans' = orphans
    BY <1>7 DEF MergeBuffersPermanently
  <2> QED
    BY <1>1, <1>2, <2>1 DEF Existing
<1>8. ASSUME NEW t \in Targets, NEW new \in Targets, RenameBuffer(t, new) PROVE NeverAnothers'
  <2>1. bufferOf' = [bufferOf EXCEPT ![t] = 0, ![new] = bufferOf[t]] /\ orphans' = orphans
    BY <1>8 DEF RenameBuffer
  <2>2. Existing' \subseteq Existing
    BY <1>1, <2>1 DEF Existing
  <2> QED
    BY <1>2, <2>1, <2>2
<1>9. CASE DestroyNetwork
  BY <1>9 DEF DestroyNetwork, NetworkDeleted, Existing, NeverAnothers
<1>10. CASE Restart
  BY <1>10 DEF Restart, NeverAnothers
<1>11. ASSUME NEW t \in Targets, NEW f \in Flags, RecvMessage(t, f) PROVE NeverAnothers'
  BY <1>3, <1>11 DEF RecvMessage, tables
<1>12. ASSUME NEW b, RequestMarkBufferAsRead(b) PROVE NeverAnothers'
  BY <1>3, <1>12 DEF RequestMarkBufferAsRead, tables
<1>13. CASE PurgeBufferIds
  BY <1>3, <1>13 DEF PurgeBufferIds, tables
<1>14. CASE StoreDirtyIds
  BY <1>3, <1>14 DEF StoreDirtyIds
<1>15. CASE UNCHANGED vars
  BY <1>3, <1>15 DEF vars, tables
<1> QED
  BY <1>4, <1>5, <1>6, <1>7, <1>8, <1>9, <1>10, <1>11, <1>12, <1>13, <1>14, <1>15 DEF Next

\* Of a buffer that was removed or merged away nothing is left, neither in memory nor in
\* the table, whatever messages, stores and restarts come between; what a removed network
\* or a late client leaves in memory is never shown as the marks of another buffer.
THEOREM NothingIsLeft == Spec => []NothingLeft
<1>1. Init => NeverAnothers
  BY DEF Init, NeverAnothers
<1>2. Spec => []Sound
  BY AlwaysAgree, PTL
<1>3. Spec => []NeverAnothers
  BY <1>1, <1>2, OrphansStayAlone, PTL DEF Spec
<1> QED
  BY <1>3, OnlyOrphans, PTL DEF NothingLeft

\* Unless a buffer was marked as read, merged into, or the core stopped before its marks
\* were stored, clients are shown how many highlights the backlog has after the last
\* message seen, and no message by others there goes without notice: setting the last
\* message seen, counting each stored message and moving rows keep the two together.
THEOREM WhatIsUnseenIsShown == Spec => []UnseenIsShown
<1>1. Agree => UnseenIsShown
  BY DEF Agree, Shown, UnseenIsShown
<1> QED
  BY <1>1, AlwaysAgree, PTL

\* What is not marked as dirty is in the table as it is in memory, so that a core that
\* stops at any moment comes back with it, and never with a later last message seen.
THEOREM WhatIsCleanIsSaved == Spec => []SavedUnlessDirty
<1>1. Agree => SavedUnlessDirty
  BY DEF Agree, Kept, SavedUnlessDirty
<1> QED
  BY <1>1, AlwaysAgree, PTL
=============================================================================
