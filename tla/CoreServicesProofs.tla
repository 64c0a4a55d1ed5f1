------------------------- MODULE CoreServicesProofs -------------------------
(***************************************************************************)
(* Two small services of the core.  Of the ident server: for any networks,   *)
(* numbers and questions, a server is not told NO-USER about a connection    *)
(* that lasts.  Of the event manager: for any types, objects and filters,    *)
(* its queue is never used.                                                  *)
(***************************************************************************)
EXTENDS IdentServer, FiniteSetTheorems, TLAPS


Ids == 0 .. MaxSocketId

\* A number of which the code keeps the account.
Clean(i) == i # NoId /\ i \notin spoiled

\* The counter was set back.
RacedBack == MaxSocketId \in spoiled

\* i is in the list w, and so far nothing in it is t or higher.
BehindIn(w, i, t) == \E p \in DOMAIN w : w[p] = i /\ \A q \in 1 .. p : w[q] < t

----------------------------------------------------------------------------
(* The inductive invariant.                                                 *)

Counter ==
    /\ socketId <= taken
    /\ \A n \in Networks : /\ mine[n] # NoId => mine[n] < taken
                           /\ stage[n] # "idle" \/ n \in failing => mine[n] # NoId

\* A number that is in order is below the counter once the counter was written, and no
\* other network has it; that holds of every number until the counter is set back.
Below ==
    \A n \in Networks : mine[n] # NoId /\ (Clean(mine[n]) \/ ~RacedBack) =>
        mine[n] <= socketId /\ (stage[n] # "counting" => mine[n] < socketId)
Single ==
    \A n, k \in Networks :
        n # k /\ Clean(mine[n]) /\ mine[k] = mine[n] => stage[n] = "counting" \/ stage[k] = "counting"
Lower == ~RacedBack => \A p \in DOMAIN waiting : waiting[p] < socketId
After ==
    RacedBack => /\ socketId .. MaxSocketId \subseteq spoiled
                 /\ \A n \in Networks : stage[n] = "pushing" => ~Clean(mine[n])

\* Events are about the number of their network, and about the newest connection only
\* if it says so.
Owners ==
    \A x \in DOMAIN posted : Clean(posted[x].id) =>
        /\ posted[x].id < socketId
        /\ \A k \in Networks : mine[k] = posted[x].id /\ stage[k] # "counting" => k = posted[x].port
Adds ==
    \A x \in DOMAIN posted : posted[x].kind = "add" =>
        /\ stage[posted[x].port] = "reporting" /\ mine[posted[x].port] = posted[x].id
        /\ \A y \in DOMAIN posted : posted[y].port = posted[x].port => y <= x
Removes ==
    \A x \in DOMAIN posted :
        posted[x].kind = "remove" /\ Clean(posted[x].id) /\ mine[posted[x].port] = posted[x].id =>
            stage[posted[x].port] = "idle"
Known ==
    \A n \in Networks : stage[n] = "up" =>
        n \in connections /\ \A x \in DOMAIN posted : posted[x].port # n

\* Of a connection under way the number is in the list, where lowestSocketId() looks for it.
Waits ==
    \A n \in Networks : Clean(mine[n]) /\ stage[n] \in {"connecting", "reporting"} =>
        BehindIn(waiting, mine[n], socketId)

Numbered ==
    /\ Len(asked) <= MaxRequests
    /\ \A r \in requestQueue :
          r.requestId \in DOMAIN asked /\ asked[r.requestId].answer = "waits" /\ asked[r.requestId].port = r.port
    /\ \A r, s \in requestQueue : r.requestId = s.requestId => r = s
    /\ \A a \in DOMAIN asked : asked[a].answer = "waits" => \E r \in requestQueue : r.requestId = a

\* A request about a connection that lasts waits for it.
Requests ==
    \A r \in requestQueue : LET i == asked[r.requestId].about IN
        Clean(i) /\ Alive(r.port) /\ mine[r.port] = i =>
            /\ stage[r.port] \in {"connecting", "reporting"}
            /\ i < r.transactionId /\ BehindIn(waiting, i, r.transactionId)

\* No number is asked about before it is in the list.
Questions ==
    \A a \in DOMAIN asked : Clean(asked[a].about) =>
        /\ asked[a].about < socketId
        /\ mine[asked[a].port] = asked[a].about => stage[asked[a].port] \notin {"counting", "pushing"}

IInv == /\ TypeOK /\ Counter /\ Below /\ Single /\ Lower /\ After /\ Owners /\ Adds /\ Removes
        /\ Known /\ Waits /\ Numbered /\ Requests /\ Questions /\ NoUserIsTrue

----------------------------------------------------------------------------
(* The list of numbers.                                                     *)

LEMMA RanksAreRising ==
    ASSUME NEW n \in Nat, NEW places, places \subseteq 1 .. n
    PROVE  /\ Cardinality(places) \in Nat
           /\ \A k \in 1 .. Cardinality(places) : Nth(places, k) \in places
           /\ \A k, l \in 1 .. Cardinality(places) : k < l => Nth(places, k) < Nth(places, l)
           /\ \A i \in places : \E k \in 1 .. Cardinality(places) : Nth(places, k) = i
<1> DEFINE Low(i) == {j \in places : j <= i}
           UpTo(i) == Cardinality(Low(i))
           rank == [i \in places |-> UpTo(i)]
           size == Cardinality(places)
<1>1. IsFiniteSet(places) /\ size \in Nat
  <2>1. IsFiniteSet(1 .. n) /\ places \in SUBSET (1 .. n)
    BY FS_Interval
  <2> QED BY <2>1, FS_Subset, FS_CardinalityType
<1>2. \A i \in places : /\ IsFiniteSet(Low(i)) /\ Low(i) \in SUBSET places
                        /\ UpTo(i) \in Nat /\ UpTo(i) <= size
  BY <1>1, FS_Subset, FS_CardinalityType
<1>3. \A i \in places : UpTo(i) \in 1 .. size
  <2> SUFFICES ASSUME NEW i \in places PROVE UpTo(i) # 0
    BY <1>1, <1>2
  <2>1. i \in Low(i)
    OBVIOUS
  <2> QED BY <1>2, <2>1, FS_EmptySet
<1>4. ASSUME NEW i \in places, NEW j \in places, i < j PROVE UpTo(i) < UpTo(j)
  <2>1. i \in Nat /\ j \in Nat /\ \A k \in places : k \in Nat
    OBVIOUS
  <2>2. \A k \in places : k <= i => k <= j
    BY <1>4, <2>1
  <2>3. j <= j /\ ~(j <= i)
    BY <1>4, <2>1
  <2>4. Low(i) \in SUBSET Low(j) /\ j \in Low(j) /\ j \notin Low(i)
    BY <2>2, <2>3
  <2> HIDE DEF Low
  <2>5. UpTo(i) <= UpTo(j) /\ UpTo(i) # UpTo(j)
    BY <1>2, <2>4, FS_Subset
  <2>6. UpTo(i) \in Nat /\ UpTo(j) \in Nat
    BY <1>2
  <2> HIDE DEF UpTo
  <2> QED BY <2>5, <2>6
<1>5. \A i, j \in places : UpTo(i) = UpTo(j) => i = j
  <2> SUFFICES ASSUME NEW i \in places, NEW j \in places, i # j PROVE UpTo(i) # UpTo(j)
    OBVIOUS
  <2>1. i < j \/ j < i
    OBVIOUS
  <2>2. UpTo(i) \in Nat /\ UpTo(j) \in Nat
    BY <1>2
  <2> HIDE DEF UpTo
  <2> QED BY <1>4, <2>1, <2>2
<1>6. \A k \in 1 .. size : \E i \in places : UpTo(i) = k
  <2> HIDE DEF UpTo, size
  <2>1. rank \in Injection(places, 1 .. size)
    BY <1>3, <1>5 DEF Injection, IsInjective
  <2>2. IsFiniteSet(1 .. size) /\ Cardinality(1 .. size) = size
    BY <1>1, FS_Interval
  <2>3. rank \in Surjection(places, 1 .. size)
    BY <2>1, <2>2, FS_Injection DEF size
  <2> QED BY <2>3 DEF Surjection
<1>7. \A k \in 1 .. size : Nth(places, k) \in places /\ UpTo(Nth(places, k)) = k
  <2> SUFFICES ASSUME NEW k \in 1 .. size PROVE Nth(places, k) \in places /\ UpTo(Nth(places, k)) = k
    OBVIOUS
  <2>1. Nth(places, k) = CHOOSE i \in places : UpTo(i) = k
    BY DEF Nth
  <2> HIDE DEF UpTo, size
  <2> QED BY <1>6, <2>1
<1>8. \A k, l \in 1 .. size : k < l => Nth(places, k) < Nth(places, l)
  <2> SUFFICES ASSUME NEW k \in 1 .. size, NEW l \in 1 .. size, k < l PROVE Nth(places, k) < Nth(places, l)
    OBVIOUS
  <2> DEFINE i == Nth(places, k)
             j == Nth(places, l)
  <2>1. i \in places /\ j \in places /\ UpTo(i) = k /\ UpTo(j) = l /\ k \in Nat /\ l \in Nat
    BY <1>1, <1>7
  <2> HIDE DEF UpTo, i, j, size
  <2>2. i < j \/ i = j \/ j < i
    BY <2>1
  <2>3. j < i => UpTo(j) < UpTo(i)
    BY <1>4, <2>1
  <2>4. i < j
    BY <2>1, <2>2, <2>3
  <2> QED BY <2>4 DEF i, j
<1>9. \A i \in places : Nth(places, UpTo(i)) = i
  <2> HIDE DEF UpTo, size
  <2> QED BY <1>3, <1>5, <1>7
<1> QED
  <2> HIDE DEF UpTo
  <2> QED BY <1>1, <1>3, <1>7, <1>8, <1>9

\* What is left of the list is from the list; a number other than id is as far behind as before.
LEMMA WithoutIs ==
    ASSUME NEW S, NEW s \in Seq(S), NEW id
    PROVE  /\ Without(s, id) \in Seq(S)
           /\ \A p \in DOMAIN Without(s, id) : \E q \in DOMAIN s : Without(s, id)[p] = s[q]
           /\ \A i, t : i # id /\ BehindIn(s, i, t) => BehindIn(Without(s, id), i, t)
<1> DEFINE places == {i \in DOMAIN s : s[i] # id}
           size == Cardinality(places)
           w == [k \in 1 .. size |-> s[Nth(places, k)]]
<1>1. Without(s, id) = w
  BY DEF Without
<1>2. places \subseteq 1 .. Len(s) /\ Len(s) \in Nat /\ DOMAIN s = 1 .. Len(s) /\ \A q \in DOMAIN s : s[q] \in S
  OBVIOUS
<1>3. /\ size \in Nat
      /\ \A k \in 1 .. size : Nth(places, k) \in places
      /\ \A k, l \in 1 .. size : k < l => Nth(places, k) < Nth(places, l)
      /\ \A i \in places : \E k \in 1 .. size : Nth(places, k) = i
  <2> HIDE DEF places
  <2> QED BY <1>2, RanksAreRising
<1>4. \A q \in places : q \in 1 .. Len(s) /\ s[q] # id
  OBVIOUS
<1>5. \A q \in 1 .. Len(s) : s[q] # id => q \in places
  BY <1>2
<1> HIDE DEF places, size
<1>6. w \in Seq(S) /\ DOMAIN w = 1 .. size /\ \A k \in 1 .. size : w[k] = s[Nth(places, k)] /\ Nth(places, k) \in 1 .. Len(s)
  <2>1. \A k \in 1 .. size : s[Nth(places, k)] \in S /\ Nth(places, k) \in 1 .. Len(s)
    BY <1>2, <1>3, <1>4
  <2>2. w \in [1 .. size -> S]
    BY <2>1
  <2>3. w \in Seq(S)
    BY <1>3, <2>2
  <2> QED BY <2>1, <2>3
<1> HIDE DEF w
<1>7. ASSUME NEW i, NEW t, i # id, BehindIn(s, i, t) PROVE BehindIn(w, i, t)
  <2>1. PICK p \in 1 .. Len(s) : s[p] = i /\ \A q \in 1 .. p : s[q] < t
    BY <1>2, <1>7 DEF BehindIn
  <2>2. p \in places
    BY <1>5, <1>7, <2>1
  <2>3. PICK k \in 1 .. size : Nth(places, k) = p
    BY <1>3, <2>2
  <2>4. w[k] = i /\ k \in DOMAIN w
    BY <1>6, <2>1, <2>3
  <2>5. ASSUME NEW l \in 1 .. k PROVE w[l] < t
    <3>1. l \in 1 .. size /\ (l < k \/ l = k)
      BY <1>3, <2>3
    <3>2. Nth(places, l) \in 1 .. Len(s) /\ Nth(places, l) <= p
      BY <1>2, <1>3, <1>6, <2>3, <3>1
    <3>3. Nth(places, l) \in 1 .. p
      BY <1>2, <2>1, <3>2
    <3> QED BY <1>6, <2>1, <3>1, <3>3
  <2> QED BY <2>4, <2>5 DEF BehindIn
<1> QED BY <1>1, <1>2, <1>6, <1>7

\* Nothing that is appended gets in front of a number.
LEMMA BehindAppended ==
    ASSUME NEW S, NEW s \in Seq(S), NEW x, NEW i, NEW t, BehindIn(s, i, t)
    PROVE  BehindIn(Append(s, x), i, t)
<1>1. PICK p \in 1 .. Len(s) : s[p] = i /\ \A q \in 1 .. p : s[q] < t
  BY DEF BehindIn
<1>2. /\ Len(s) \in Nat /\ DOMAIN Append(s, x) = 1 .. Len(s) + 1
      /\ \A q \in 1 .. Len(s) : Append(s, x)[q] = s[q]
  OBVIOUS
<1>3. p \in DOMAIN Append(s, x) /\ \A q \in 1 .. p : q \in 1 .. Len(s)
  BY <1>1, <1>2
<1> QED BY <1>1, <1>2, <1>3 DEF BehindIn

\* The head of a list in which a number is behind is as low.
LEMMA BehindHead ==
    ASSUME NEW S, NEW s \in Seq(S), NEW i, NEW t, BehindIn(s, i, t)
    PROVE  s # <<>> /\ Head(s) < t
<1>1. PICK p \in 1 .. Len(s) : s[p] = i /\ \A q \in 1 .. p : s[q] < t
  BY DEF BehindIn
<1>2. s # <<>> /\ Head(s) = s[1] /\ 1 \in 1 .. p
  BY <1>1
<1> QED BY <1>1, <1>2

\* A higher number to be behind of is easier.
LEMMA BehindHigher ==
    ASSUME NEW s \in Seq(Ids), NEW i, NEW t \in Nat, NEW u \in Nat, t <= u, BehindIn(s, i, t)
    PROVE  BehindIn(s, i, u)
<1>1. PICK p \in 1 .. Len(s) : s[p] = i /\ \A q \in 1 .. p : s[q] < t
  BY DEF BehindIn
<1>2. \A q \in 1 .. p : s[q] \in Nat
  BY <1>1, IdentAssumption DEF Ids
<1>3. \A q \in 1 .. p : s[q] < u
  BY <1>1, <1>2
<1> QED BY <1>1, <1>3 DEF BehindIn

----------------------------------------------------------------------------
(* The steps.                                                               *)

\* The numbers are naturals below the bound, and none is the mark of a network without one.
LEMMA Bounds == Ids \subseteq Nat /\ MaxSocketId \in Ids /\ NoId \notin Ids /\ 0 \in Ids
BY IdentAssumption DEF Ids

Stages == {"idle", "counting", "pushing", "connecting", "reporting", "up"}
Answers == {"waits", "USERID", "NO-USER"}

\* What is in a sequence.
LEMMA InSequence ==
    ASSUME NEW S, NEW s \in Seq(S)
    PROVE  DOMAIN s = 1 .. Len(s) /\ Len(s) \in Nat /\ \A x \in DOMAIN s : s[x] \in S
OBVIOUS

\* What the types say of each element.
LEMMA Typed ==
    ASSUME TypeOK
    PROVE  /\ socketId \in Ids /\ taken \in Ids /\ waiting \in Seq(Ids)
           /\ DOMAIN posted = 1 .. Len(posted) /\ Len(posted) \in Nat
           /\ \A x \in DOMAIN posted :
                 posted[x].kind \in {"add", "remove"} /\ posted[x].port \in Networks /\ posted[x].id \in Ids
           /\ \A n \in Networks : stage[n] \in Stages /\ mine[n] \in Ids \union {NoId}
           /\ DOMAIN asked = 1 .. Len(asked) /\ Len(asked) \in Nat
           /\ \A a \in DOMAIN asked : /\ asked[a].port \in Networks /\ asked[a].about \in Ids \union {NoId}
                                      /\ asked[a].answer \in Answers
           /\ \A r \in requestQueue : r.port \in Networks /\ r.transactionId \in Ids /\ r.requestId \in 1 .. MaxRequests
<1>1. \A x \in DOMAIN posted : posted[x] \in [kind : {"add", "remove"}, port : Networks, id : Ids]
  BY InSequence DEF TypeOK, Ids
<1>2. \A a \in DOMAIN asked : asked[a] \in [port : Networks, about : Ids \union {NoId}, answer : Answers]
  <2>1. asked \in Seq([port : Networks, about : Ids \union {NoId}, answer : Answers])
    BY DEF TypeOK, Ids, Answers
  <2> QED BY <2>1, InSequence
<1>3. \A r \in requestQueue : r \in [port : Networks, transactionId : Ids, requestId : 1 .. MaxRequests]
  BY DEF TypeOK, Ids
<1>4. socketId \in Ids /\ taken \in Ids /\ waiting \in Seq(Ids)
  BY DEF TypeOK, Ids
<1>5. \A n \in Networks : stage[n] \in Stages /\ mine[n] \in Ids \union {NoId}
  BY DEF TypeOK, Ids, Stages
<1>6. /\ DOMAIN posted = 1 .. Len(posted) /\ Len(posted) \in Nat
      /\ DOMAIN asked = 1 .. Len(asked) /\ Len(asked) \in Nat
  BY DEF TypeOK
<1> QED BY <1>1, <1>2, <1>3, <1>4, <1>5, <1>6

\* Nothing is under way at first.
LEMMA InitHolds == Init => IInv
<1> SUFFICES ASSUME Init PROVE IInv
  OBVIOUS
<1>1. TypeOK
  BY IdentAssumption DEF Init, TypeOK
<1>2. Counter /\ Below /\ Single /\ Lower /\ After
  BY IdentAssumption DEF Init, Counter, Below, Single, Lower, After, Clean, RacedBack
<1>3. Owners /\ Adds /\ Removes /\ Known /\ Waits
  BY DEF Init, Owners, Adds, Removes, Known, Waits, Clean
<1>4. Numbered /\ Requests /\ Questions /\ NoUserIsTrue
  BY IdentAssumption DEF Init, Numbered, Requests, Questions, NoUserIsTrue
<1> QED BY <1>1, <1>2, <1>3, <1>4 DEF IInv

\* The number that is read is the counter, and nobody was asked about that one before.
LEMMA ReadHolds ==
    ASSUME IInv, NEW n \in Networks, ReadSocketId(n)
    PROVE  IInv'
<1>1. /\ stage[n] = "idle" /\ stage'[n] = "counting" /\ mine'[n] = socketId
      /\ \A k \in Networks : k # n => stage'[k] = stage[k] /\ mine'[k] = mine[k]
      /\ taken < MaxSocketId /\ taken' = taken + 1
      /\ UNCHANGED <<server, posted, failing, asked, spoiled>>
  BY DEF IInv, TypeOK, ReadSocketId, Goto
<1>2. TypeOK'
  <2>1. taken' \in 0 .. MaxSocketId
    BY <1>1, IdentAssumption DEF IInv, TypeOK
  <2>2. /\ mine' \in [Networks -> 0 .. MaxSocketId \union {NoId}]
        /\ stage' \in [Networks -> {"idle", "counting", "pushing", "connecting", "reporting", "up"}]
    BY DEF IInv, TypeOK, ReadSocketId, Goto
  <2> QED BY <1>1, <2>1, <2>2 DEF IInv, TypeOK, server
<1>3. /\ socketId \in Ids /\ taken \in Ids /\ socketId <= taken
      /\ \A k \in Networks : mine[k] \in Ids \union {NoId}
      /\ \A x \in DOMAIN posted : posted[x].port \in Networks /\ posted[x].id \in Ids
      /\ \A a \in DOMAIN asked : asked[a].port \in Networks /\ asked[a].about \in Ids \union {NoId}
  BY Typed DEF IInv, Counter
<1>4. Counter'
  BY <1>1, <1>3, Bounds DEF IInv, Counter, server
<1>5. ~Clean(socketId) \/ ~RacedBack
  BY <1>3, Bounds DEF IInv, After, Clean, RacedBack, Ids
<1>6. Below'
  BY <1>1, <1>3, Bounds DEF IInv, Below, Clean, RacedBack, server
<1>7. Single' /\ Lower' /\ After'
  BY <1>1, <1>3, Bounds DEF IInv, Single, Lower, After, Clean, RacedBack, server
<1>8. Owners' /\ Adds' /\ Removes' /\ Known'
  <2>1. Owners'
    BY <1>1, <1>3, Bounds DEF IInv, Owners, Clean, server
  <2>2. Adds'
    BY <1>1, <1>3, Bounds DEF IInv, Adds
  <2>3. Removes'
    <3> SUFFICES ASSUME NEW x \in DOMAIN posted, posted[x].kind = "remove", Clean(posted[x].id), mine'[posted[x].port] = posted[x].id
                 PROVE  stage'[posted[x].port] = "idle"
      BY <1>1 DEF Removes, Clean
    <3>1. posted[x].port \in Networks /\ posted[x].id \in Ids /\ posted[x].id < socketId
      BY <1>3 DEF IInv, Owners
    <3>2. posted[x].port # n
      BY <1>1, <1>3, <3>1, Bounds
    <3> QED BY <1>1, <3>1, <3>2 DEF IInv, Removes
  <2>4. Known'
    BY <1>1 DEF IInv, Known, server
  <2> QED BY <2>1, <2>2, <2>3, <2>4
<1>9. Waits'
  BY <1>1 DEF IInv, Waits, Clean, server
<1>10. Numbered' /\ Requests' /\ Questions' /\ NoUserIsTrue'
  <2>1. Numbered'
    BY <1>1 DEF IInv, Numbered, server
  <2>2. Requests'
    BY <1>1 DEF IInv, TypeOK, Requests, Alive, Clean, server
  <2>3. Questions'
    BY <1>1, <1>3, Bounds DEF IInv, Questions, Clean, server
  <2>4. NoUserIsTrue'
    <3> SUFFICES ASSUME NEW a \in DOMAIN asked, asked[a].answer = "NO-USER", Clean(asked[a].about), Alive(asked[a].port)'
                 PROVE  mine'[asked[a].port] # asked[a].about
      BY <1>1 DEF NoUserIsTrue, Clean
    <3>1. asked[a].port # n
      BY <1>1, <1>3 DEF Alive
    <3> QED BY <1>1, <1>3, <3>1 DEF IInv, NoUserIsTrue, Alive, Clean
  <2> QED BY <2>1, <2>2, <2>3, <2>4
<1> QED BY <1>2, <1>4, <1>6, <1>7, <1>8, <1>9, <1>10 DEF IInv

\* What WriteSocketId() leaves in order was in order; if it is not below the number that
\* was read then nothing has raced.
LEMMA WriteSpoils ==
    ASSUME IInv, NEW n \in Networks, WriteSocketId(n)
    PROVE  /\ mine[n] \in Ids /\ mine[n] < taken /\ socketId' = mine[n] + 1
           /\ spoiled \subseteq spoiled' /\ spoiled' \subseteq Ids
           /\ \/ socketId = mine[n] /\ spoiled' = spoiled
              \/ /\ MaxSocketId \in spoiled'
                 /\ \A i \in Ids : i \notin spoiled' => i < mine[n]
                 /\ \A k \in Networks : stage[k] = "pushing" => mine[k] \in spoiled'
                 /\ \A q \in DOMAIN waiting : waiting[q] \notin spoiled' =>
                       \A p \in 1 .. q - 1 : ~(waiting[p] > mine[n])
<1>1. /\ stage[n] = "counting" /\ socketId' = mine[n] + 1
      /\ spoiled' = IF socketId = mine[n] THEN spoiled
                    ELSE spoiled \union mine[n] .. MaxSocketId \union Overtaken(mine[n])
  BY DEF WriteSocketId
<1>2. /\ mine[n] \in Ids /\ mine[n] < taken /\ spoiled \subseteq Ids
      /\ \A k \in Networks : stage[k] = "pushing" => mine[k] \in Ids
      /\ waiting \in Seq(Ids)
  BY <1>1, Typed DEF IInv, Counter, TypeOK, Ids
<1>3. Overtaken(mine[n]) \subseteq Ids
  BY <1>2, InSequence DEF Overtaken
<1>4. mine[n] .. MaxSocketId \subseteq Ids
  BY <1>2, IdentAssumption DEF Ids
<1>5. CASE socketId = mine[n]
  BY <1>1, <1>2, <1>5
<1>6. CASE socketId # mine[n]
  <2>1. spoiled' = spoiled \union mine[n] .. MaxSocketId \union Overtaken(mine[n])
    BY <1>1, <1>6
  <2>2. MaxSocketId \in spoiled'
    BY <1>2, <2>1, IdentAssumption DEF Ids
  <2>3. \A i \in Ids : i \notin spoiled' => i < mine[n]
    BY <1>2, <2>1, IdentAssumption DEF Ids
  <2>4. \A k \in Networks : stage[k] = "pushing" => mine[k] \in spoiled'
    BY <2>1 DEF Overtaken
  <2>5. \A q \in DOMAIN waiting : waiting[q] \notin spoiled' => \A p \in 1 .. q - 1 : ~(waiting[p] > mine[n])
    BY <2>1 DEF Overtaken
  <2> QED BY <1>1, <1>2, <1>3, <1>4, <2>1, <2>2, <2>3, <2>4, <2>5
<1> QED BY <1>5, <1>6

\* The counter is set to the next number, or back to it.
LEMMA WriteHolds ==
    ASSUME IInv, NEW n \in Networks, WriteSocketId(n)
    PROVE  IInv'
<1> DEFINE Same == socketId = mine[n] /\ spoiled' = spoiled
           Race == /\ MaxSocketId \in spoiled'
                   /\ \A i \in Ids : i \notin spoiled' => i < mine[n]
                   /\ \A k \in Networks : stage[k] = "pushing" => mine[k] \in spoiled'
                   /\ \A q \in DOMAIN waiting : waiting[q] \notin spoiled' =>
                         \A p \in 1 .. q - 1 : ~(waiting[p] > mine[n])
<1>1. /\ stage[n] = "counting" /\ stage'[n] = "pushing"
      /\ \A k \in Networks : k # n => stage'[k] = stage[k]
      /\ UNCHANGED <<waiting, connections, requestQueue, posted, mine, failing, asked, taken>>
  BY DEF IInv, TypeOK, WriteSocketId, Goto
<1>2. /\ mine[n] \in Ids /\ mine[n] < taken /\ socketId' = mine[n] + 1
      /\ spoiled \subseteq spoiled' /\ spoiled' \subseteq Ids
      /\ Same \/ Race
  BY WriteSpoils
<1>3. /\ socketId \in Ids /\ taken \in Ids /\ socketId <= taken /\ waiting \in Seq(Ids)
      /\ \A k \in Networks : mine[k] \in Ids \union {NoId}
      /\ \A x \in DOMAIN posted : posted[x].port \in Networks /\ posted[x].id \in Ids
      /\ \A a \in DOMAIN asked : asked[a].port \in Networks /\ asked[a].about \in Ids \union {NoId}
  BY Typed DEF IInv, Counter
<1>4. /\ \A i : i \notin spoiled' => i \notin spoiled
      /\ \A i \in Ids : i \notin spoiled' /\ i < socketId => i < socketId'
      /\ mine[n] \notin spoiled' \/ MaxSocketId \notin spoiled' => Same
  <2>1. socketId \in Nat /\ mine[n] \in Nat /\ \A i \in Ids : i \in Nat
    BY <1>2, <1>3, Bounds
  <2>2. CASE Same
    BY <1>2, <2>1, <2>2
  <2>3. CASE Race
    <3>1. mine[n] \in spoiled' /\ MaxSocketId \in spoiled'
      BY <1>2, <2>1, <2>3
    <3>2. \A i \in Ids : i \notin spoiled' => i < socketId'
      BY <1>2, <2>1, <2>3
    <3> QED BY <1>2, <3>1, <3>2
  <2> QED BY <1>2, <2>2, <2>3
<1>N. /\ socketId \in Nat /\ socketId' \in Nat /\ mine[n] \in Nat /\ mine[n] # NoId
      /\ \A k \in Networks : mine[k] # NoId => mine[k] \in Nat
      /\ \A x \in DOMAIN posted : posted[x].id \in Nat /\ posted[x].id # NoId
  <2>1. \A i \in Ids : i \in Nat /\ i # NoId
    BY Bounds
  <2>2. mine[n] \in Nat /\ mine[n] # NoId /\ socketId \in Nat
    BY <1>2, <1>3, <2>1
  <2>3. socketId' \in Nat
    BY <1>2, <2>2
  <2> QED BY <1>3, <2>1, <2>2, <2>3
<1>5. TypeOK'
  <2>1. socketId' \in 0 .. MaxSocketId
    BY <1>2, <1>3, IdentAssumption DEF Ids
  <2>2. stage' \in [Networks -> {"idle", "counting", "pushing", "connecting", "reporting", "up"}]
    BY DEF IInv, TypeOK, WriteSocketId, Goto
  <2> QED BY <1>1, <1>2, <2>1, <2>2 DEF IInv, TypeOK, Ids
<1>6. Counter'
  BY <1>1, <1>2, <1>3, Bounds DEF IInv, Counter
<1>7. Below'
  <2>1. ASSUME NEW k \in Networks, mine[k] # NoId, mine[k] \notin spoiled' \/ MaxSocketId \notin spoiled'
        PROVE  mine[k] < socketId'
    <3>1. CASE k = n
      BY <1>2, <1>N, <3>1
    <3>2. CASE k # n /\ Same
      <4>1. mine[k] <= socketId
        BY <2>1, <3>2 DEF IInv, Below, Clean, RacedBack
      <4> QED BY <1>2, <1>N, <2>1, <3>2, <4>1
    <3>3. CASE k # n /\ Race
      <4>1. mine[k] \in Ids /\ mine[k] \notin spoiled'
        BY <1>3, <2>1, <3>3
      <4>2. mine[k] < mine[n]
        BY <3>3, <4>1
      <4> QED BY <1>2, <1>N, <2>1, <4>2
    <3> QED BY <1>2, <3>1, <3>2, <3>3
  <2>2. \A k \in Networks : mine[k] # NoId /\ mine[k] < socketId' => mine[k] <= socketId'
    BY <1>N
  <2> QED BY <1>1, <2>1, <2>2 DEF Below, Clean, RacedBack
<1>8. Single'
  <2> SUFFICES ASSUME NEW i \in Networks, NEW k \in Networks, i # k, mine[i] # NoId, mine[i] \notin spoiled', mine[k] = mine[i]
               PROVE  stage'[i] = "counting" \/ stage'[k] = "counting"
    BY <1>1 DEF Single, Clean
  <2>1. CASE i # n /\ k # n
    BY <1>1, <1>4, <2>1 DEF IInv, Single, Clean
  <2>2. ASSUME NEW l \in Networks, l # n, mine[l] = mine[n], mine[n] # NoId, mine[n] \notin spoiled' PROVE stage'[l] = "counting"
    <3>1. mine[l] = socketId /\ Clean(mine[l]) /\ mine[l] # NoId
      BY <1>2, <1>4, <2>2 DEF Clean
    <3>2. ~(mine[l] < socketId)
      BY <1>3, <3>1, Bounds
    <3> QED BY <1>1, <2>2, <3>1, <3>2 DEF IInv, Below
  <2> QED BY <2>1, <2>2
<1>9. Lower'
  <2> SUFFICES ASSUME MaxSocketId \notin spoiled', NEW p \in DOMAIN waiting PROVE waiting[p] < socketId'
    BY <1>1 DEF Lower, RacedBack
  <2>1. waiting[p] < socketId /\ waiting[p] \in Nat
    BY <1>3, <1>4, Bounds, InSequence DEF IInv, Lower, RacedBack
  <2> QED BY <1>2, <1>4, <1>N, <2>1
<1>10. After'
  BY <1>1, <1>2, <1>3, <1>4, Bounds DEF IInv, After, Clean, RacedBack, Ids
<1>11. Owners'
  <2> SUFFICES ASSUME NEW x \in DOMAIN posted, posted[x].id # NoId, posted[x].id \notin spoiled'
               PROVE  /\ posted[x].id < socketId'
                      /\ \A k \in Networks : mine[k] = posted[x].id /\ stage'[k] # "counting" => k = posted[x].port
    BY <1>1 DEF Owners, Clean
  <2>1. Clean(posted[x].id) /\ posted[x].id < socketId /\ posted[x].id \in Ids
    BY <1>3, <1>4 DEF IInv, Owners, Clean
  <2>2. posted[x].id < socketId'
    BY <1>4, <2>1
  <2>3. mine[n] # posted[x].id
    BY <1>3, <1>4, <2>1, Bounds
  <2> QED BY <1>1, <2>1, <2>2, <2>3 DEF IInv, Owners
<1>12. Adds' /\ Removes' /\ Known'
  <2>1. Adds'
    BY <1>1, <1>3 DEF IInv, Adds
  <2>2. Removes'
    <3> SUFFICES ASSUME NEW x \in DOMAIN posted, posted[x].kind = "remove", posted[x].id # NoId, posted[x].id \notin spoiled', mine[posted[x].port] = posted[x].id
                 PROVE  stage'[posted[x].port] = "idle"
      BY <1>1 DEF Removes, Clean
    <3>1. stage[posted[x].port] = "idle"
      BY <1>4 DEF IInv, Removes, Clean
    <3> QED BY <1>1, <1>3, <3>1
  <2>3. Known'
    BY <1>1, <1>3 DEF IInv, Known
  <2> QED BY <2>1, <2>2, <2>3
<1>13. Waits'
  <2> SUFFICES ASSUME NEW k \in Networks, mine[k] # NoId, mine[k] \notin spoiled', stage'[k] \in {"connecting", "reporting"}
               PROVE  BehindIn(waiting, mine[k], socketId')
    BY <1>1 DEF Waits, Clean
  <2>1. k # n /\ Clean(mine[k]) /\ BehindIn(waiting, mine[k], socketId) /\ mine[k] \in Ids
    BY <1>1, <1>3, <1>4 DEF IInv, Waits, Clean
  <2>2. CASE Same
    BY <1>2, <1>3, <2>1, <2>2, BehindHigher, Bounds
  <2>3. CASE Race
    <3>1. PICK p \in DOMAIN waiting : waiting[p] = mine[k]
      BY <2>1 DEF BehindIn
    <3>2. DOMAIN waiting = 1 .. Len(waiting) /\ Len(waiting) \in Nat /\ \A q \in DOMAIN waiting : waiting[q] \in Ids
      BY <1>3, InSequence
    <3>3. \A q \in 1 .. p - 1 : ~(waiting[q] > mine[n])
      BY <2>3, <3>1 DEF Clean
    <3>4. waiting[p] < mine[n]
      BY <2>1, <2>3, <3>1
    <3>5. ASSUME NEW q \in 1 .. p PROVE waiting[q] < mine[n] + 1
      <4>1. q \in DOMAIN waiting /\ waiting[q] \in Nat
        <5>1. p \in 1 .. Len(waiting)
          BY <3>1, <3>2
        <5>2. q \in 1 .. Len(waiting)
          BY <3>2, <5>1
        <5> QED BY <3>2, <5>2, Bounds
      <4>2. CASE q = p
        BY <1>N, <3>4, <4>1, <4>2
      <4>3. CASE q # p
        <5>1. q \in 1 .. p - 1
          BY <3>1, <3>2, <4>3
        <5> QED BY <1>N, <3>3, <4>1, <5>1
      <4> QED BY <4>2, <4>3
    <3> QED BY <1>2, <3>1, <3>5 DEF BehindIn
  <2> QED BY <1>2, <2>2, <2>3
<1>14. Numbered' /\ Requests' /\ Questions' /\ NoUserIsTrue'
  <2>1. Numbered'
    BY <1>1 DEF IInv, Numbered
  <2>2. \A k \in Networks : (Alive(k)' <=> Alive(k)) /\ (Alive(k) => k # n)
    BY <1>1 DEF Alive
  <2>3. Requests'
    <3> SUFFICES ASSUME NEW r \in requestQueue, asked[r.requestId].about # NoId, asked[r.requestId].about \notin spoiled', Alive(r.port)',
                        mine[r.port] = asked[r.requestId].about
                 PROVE  /\ stage'[r.port] \in {"connecting", "reporting"} /\ asked[r.requestId].about < r.transactionId
                        /\ BehindIn(waiting, asked[r.requestId].about, r.transactionId)
      BY <1>1 DEF Requests, Clean
    <3>1. r.port \in Networks
      BY Typed DEF IInv
    <3> QED BY <1>1, <1>4, <2>2, <3>1 DEF IInv, Requests, Clean
  <2>4. Questions'
    BY <1>1, <1>3, <1>4 DEF IInv, Questions, Clean
  <2>5. NoUserIsTrue'
    BY <1>1, <1>2, <1>3, <2>2 DEF IInv, NoUserIsTrue
  <2> QED BY <2>1, <2>3, <2>4, <2>5
<1> QED BY <1>5, <1>6, <1>7, <1>8, <1>9, <1>10, <1>11, <1>12, <1>13, <1>14 DEF IInv

\* A number is put behind lower ones, unless the counter was set back.
LEMMA PushHolds ==
    ASSUME IInv, NEW n \in Networks, PushWaiting(n)
    PROVE  IInv'
<1> DEFINE Pushed == waiting' = Append(waiting, mine[n]) /\ spoiled' = spoiled
           Lost == waiting' = waiting /\ spoiled' = spoiled \union {mine[n]}
<1>1. /\ stage[n] = "pushing" /\ stage'[n] \in {"connecting", "idle"}
      /\ \A k \in Networks : k # n => stage'[k] = stage[k]
      /\ UNCHANGED <<socketId, connections, requestQueue, posted, mine, failing, asked, taken>>
      /\ Pushed \/ Lost
  BY DEF IInv, TypeOK, PushWaiting, Goto
<1>2. /\ socketId \in Ids /\ taken \in Ids /\ socketId <= taken /\ waiting \in Seq(Ids)
      /\ \A k \in Networks : mine[k] \in Ids \union {NoId}
      /\ \A x \in DOMAIN posted : posted[x].port \in Networks /\ posted[x].id \in Ids
      /\ \A a \in DOMAIN asked : asked[a].port \in Networks /\ asked[a].about \in Ids \union {NoId}
      /\ \A r \in requestQueue : r.port \in Networks
  BY Typed DEF IInv, Counter
<1>3. mine[n] \in Ids /\ mine[n] # NoId /\ mine[n] < taken
  BY <1>1, <1>2 DEF IInv, Counter
<1>4. /\ \A i : i \notin spoiled' => i \notin spoiled
      /\ MaxSocketId \in spoiled' <=> MaxSocketId \in spoiled
      /\ mine[n] \notin spoiled' => Pushed
  <2>1. mine[n] # MaxSocketId
    BY <1>2, <1>3, IdentAssumption DEF Ids
  <2> QED BY <1>1, <2>1
<1>5. TypeOK'
  <2>1. waiting' \in Seq(0 .. MaxSocketId) /\ spoiled' \subseteq 0 .. MaxSocketId
    <3>1. spoiled \subseteq Ids
      BY DEF IInv, TypeOK, Ids
    <3>2. CASE Pushed
      BY <1>2, <1>3, <3>1, <3>2 DEF Ids
    <3>3. CASE Lost
      BY <1>2, <1>3, <3>1, <3>3 DEF Ids
    <3> QED BY <1>1, <3>2, <3>3
  <2>2. stage' \in [Networks -> {"idle", "counting", "pushing", "connecting", "reporting", "up"}]
    BY DEF IInv, TypeOK, PushWaiting, Goto
  <2> QED BY <1>1, <2>1, <2>2 DEF IInv, TypeOK
<1>6. Counter' /\ Below' /\ Single'
  <2>1. Counter'
    BY <1>1, <1>3 DEF IInv, Counter
  <2>2. Below'
    BY <1>1, <1>4 DEF IInv, Below, Clean, RacedBack
  <2>3. Single'
    BY <1>1, <1>4 DEF IInv, Single, Clean
  <2> QED BY <2>1, <2>2, <2>3
<1>7. Lower'
  <2> SUFFICES ASSUME MaxSocketId \notin spoiled, NEW p \in DOMAIN waiting' PROVE waiting'[p] < socketId
    BY <1>1, <1>4 DEF Lower, RacedBack
  <2>1. mine[n] < socketId /\ \A q \in DOMAIN waiting : waiting[q] < socketId
    BY <1>1, <1>3 DEF IInv, Lower, Below, RacedBack
  <2>2. CASE Pushed
    <3>1. (p \in DOMAIN waiting /\ waiting'[p] = waiting[p]) \/ waiting'[p] = mine[n]
      BY <1>2, <2>2
    <3> QED BY <2>1, <3>1
  <2>3. CASE Lost
    BY <2>1, <2>3
  <2> QED BY <1>1, <2>2, <2>3
<1>8. After'
  BY <1>1, <1>4 DEF IInv, After, Clean, RacedBack
<1>9. Owners' /\ Adds' /\ Removes' /\ Known'
  <2>1. Owners'
    BY <1>1, <1>4 DEF IInv, Owners, Clean
  <2>2. Adds'
    BY <1>1, <1>2 DEF IInv, Adds
  <2>3. Removes'
    BY <1>1, <1>2, <1>4 DEF IInv, Removes, Clean
  <2>4. Known'
    BY <1>1 DEF IInv, Known
  <2> QED BY <2>1, <2>2, <2>3, <2>4
<1>10. \A i, t : BehindIn(waiting, i, t) => BehindIn(waiting', i, t)
  BY <1>1, <1>2, BehindAppended
<1>11. Waits'
  <2> SUFFICES ASSUME NEW k \in Networks, mine[k] # NoId, mine[k] \notin spoiled', stage'[k] \in {"connecting", "reporting"}
               PROVE  BehindIn(waiting', mine[k], socketId)
    BY <1>1 DEF Waits, Clean
  <2>1. CASE k = n
    <3>1. Pushed /\ MaxSocketId \notin spoiled
      BY <1>1, <1>4, <2>1 DEF IInv, After, Clean, RacedBack
    <3>2. mine[n] < socketId /\ \A q \in DOMAIN waiting : waiting[q] < socketId
      BY <1>1, <1>3, <3>1 DEF IInv, Lower, Below, RacedBack
    <3>3. /\ Len(waiting) + 1 \in DOMAIN waiting' /\ waiting'[Len(waiting) + 1] = mine[n]
          /\ \A q \in 1 .. Len(waiting) + 1 : (q \in DOMAIN waiting /\ waiting'[q] = waiting[q]) \/ waiting'[q] = mine[n]
      BY <1>2, <3>1
    <3>4. \A q \in 1 .. Len(waiting) + 1 : waiting'[q] < socketId
      BY <3>2, <3>3
    <3> QED BY <2>1, <3>3, <3>4 DEF BehindIn
  <2>2. CASE k # n
    BY <1>1, <1>4, <1>10, <2>2 DEF IInv, Waits, Clean
  <2> QED BY <2>1, <2>2
<1>12. ASSUME NEW a \in DOMAIN asked, asked[a].about # NoId, asked[a].about \notin spoiled',
              mine[asked[a].port] = asked[a].about
       PROVE  asked[a].port # n
  BY <1>1, <1>4, <1>12 DEF IInv, Questions, Clean
<1>13. Numbered' /\ Requests' /\ Questions' /\ NoUserIsTrue'
  <2>1. Numbered'
    BY <1>1 DEF IInv, Numbered
  <2>2. Requests'
    <3> SUFFICES ASSUME NEW r \in requestQueue, asked[r.requestId].about # NoId, asked[r.requestId].about \notin spoiled',
                        Alive(r.port)', mine[r.port] = asked[r.requestId].about
                 PROVE  /\ stage'[r.port] \in {"connecting", "reporting"} /\ asked[r.requestId].about < r.transactionId
                        /\ BehindIn(waiting', asked[r.requestId].about, r.transactionId)
      BY <1>1 DEF Requests, Clean
    <3>1. r.port \in Networks /\ r.requestId \in DOMAIN asked /\ asked[r.requestId].port = r.port
      BY <1>2 DEF IInv, Numbered
    <3>2. r.port # n
      BY <1>12, <3>1
    <3>3. Alive(r.port) /\ stage'[r.port] = stage[r.port]
      BY <1>1, <3>1, <3>2 DEF Alive
    <3> QED BY <1>4, <1>10, <3>1, <3>3 DEF IInv, Requests, Clean
  <2>3. Questions'
    BY <1>1, <1>2, <1>4 DEF IInv, Questions, Clean
  <2>4. NoUserIsTrue'
    <3> SUFFICES ASSUME NEW a \in DOMAIN asked, asked[a].answer = "NO-USER", asked[a].about # NoId,
                        asked[a].about \notin spoiled', Alive(asked[a].port)', mine[asked[a].port] = asked[a].about
                 PROVE  FALSE
      BY <1>1 DEF NoUserIsTrue
    <3>1. asked[a].port # n
      BY <1>12
    <3>2. Alive(asked[a].port)
      BY <1>1, <1>2, <3>1 DEF Alive
    <3> QED BY <1>4, <3>2 DEF IInv, NoUserIsTrue
  <2> QED BY <2>1, <2>2, <2>3, <2>4
<1> QED BY <1>5, <1>6, <1>7, <1>8, <1>9, <1>11, <1>13 DEF IInv

\* A sequence and one element more.
LEMMA Appended ==
    ASSUME NEW S, NEW s \in Seq(S), NEW e \in S
    PROVE  /\ Append(s, e) \in Seq(S)
           /\ DOMAIN Append(s, e) = 1 .. Len(s) + 1 /\ Append(s, e)[Len(s) + 1] = e
           /\ \A x \in DOMAIN s : x \in DOMAIN Append(s, e) /\ Append(s, e)[x] = s[x] /\ x <= Len(s)
           /\ \A x \in DOMAIN Append(s, e) : x \in DOMAIN s \/ x = Len(s) + 1
OBVIOUS

EventRecords == [kind : {"add", "remove"}, port : Networks, id : Ids]

\* What is posted is a sequence of events.
LEMMA PostedIs == ASSUME TypeOK PROVE posted \in Seq(EventRecords)
BY DEF TypeOK, EventRecords, Ids

\* The core thread is told of a socket by the last event of its network.
LEMMA InitializedHolds ==
    ASSUME IInv, NEW n \in Networks, SocketInitialized(n)
    PROVE  IInv'
<1> DEFINE e == [kind |-> "add", port |-> n, id |-> mine[n]]
           top == Len(posted) + 1
<1>1. /\ stage[n] = "connecting" /\ stage'[n] = "reporting" /\ n \notin failing
      /\ \A k \in Networks : k # n => stage'[k] = stage[k]
      /\ posted' = Append(posted, e)
      /\ UNCHANGED <<socketId, waiting, connections, requestQueue, mine, failing, asked, spoiled, taken>>
  BY DEF IInv, TypeOK, SocketInitialized, Goto, server
<1>2. /\ socketId \in Ids /\ taken \in Ids /\ socketId <= taken /\ waiting \in Seq(Ids)
      /\ \A k \in Networks : mine[k] \in Ids \union {NoId}
      /\ \A x \in DOMAIN posted : posted[x].port \in Networks /\ posted[x].id \in Ids
      /\ \A a \in DOMAIN asked : asked[a].port \in Networks /\ asked[a].about \in Ids \union {NoId}
      /\ \A r \in requestQueue : r.port \in Networks
      /\ Len(posted) \in Nat
  BY Typed DEF IInv, Counter
<1>3. mine[n] \in Ids /\ mine[n] # NoId
  BY <1>1, <1>2 DEF IInv, Counter
<1>4. e \in EventRecords /\ e.kind = "add" /\ e.port = n /\ e.id = mine[n]
  BY <1>3 DEF EventRecords
<1> HIDE DEF e
<1>5. /\ posted' \in Seq(EventRecords)
      /\ DOMAIN posted' = 1 .. top /\ posted'[top] = e
      /\ \A x \in DOMAIN posted : x \in DOMAIN posted' /\ posted'[x] = posted[x] /\ x <= Len(posted)
      /\ \A x \in DOMAIN posted' : x \in DOMAIN posted \/ x = top
  BY <1>1, <1>4, Appended, PostedIs DEF IInv
<1>6. TypeOK'
  <2>1. posted' \in Seq([kind : {"add", "remove"}, port : Networks, id : 0 .. MaxSocketId])
    BY <1>5 DEF EventRecords, Ids
  <2>2. stage' \in [Networks -> {"idle", "counting", "pushing", "connecting", "reporting", "up"}]
    BY DEF IInv, TypeOK, SocketInitialized, Goto
  <2> QED BY <1>1, <2>1, <2>2 DEF IInv, TypeOK
<1>7. Counter' /\ Below' /\ Single' /\ Lower' /\ After'
  <2>1. Counter'
    BY <1>1 DEF IInv, Counter
  <2>2. Below'
    BY <1>1 DEF IInv, Below, Clean, RacedBack
  <2>3. Single'
    BY <1>1 DEF IInv, Single, Clean
  <2>4. Lower' /\ After'
    BY <1>1 DEF IInv, Lower, After, Clean, RacedBack
  <2> QED BY <2>1, <2>2, <2>3, <2>4
<1>8. Owners'
  <2> SUFFICES ASSUME NEW x \in DOMAIN posted', posted'[x].id \notin spoiled, posted'[x].id # NoId
               PROVE  /\ posted'[x].id < socketId
                      /\ \A k \in Networks : mine[k] = posted'[x].id /\ stage'[k] # "counting" => k = posted'[x].port
    BY <1>1 DEF Owners, Clean
  <2>1. CASE x \in DOMAIN posted
    BY <1>1, <1>5, <2>1 DEF IInv, Owners, Clean
  <2>2. CASE x = top
    <3>1. posted'[x].id = mine[n] /\ posted'[x].port = n /\ Clean(mine[n])
      BY <1>4, <1>5, <2>2 DEF Clean
    <3> QED BY <1>1, <1>3, <3>1 DEF IInv, Below, Single
  <2> QED BY <1>5, <2>1, <2>2
<1>9. Adds'
  <2> SUFFICES ASSUME NEW x \in DOMAIN posted', posted'[x].kind = "add"
               PROVE  /\ stage'[posted'[x].port] = "reporting" /\ mine[posted'[x].port] = posted'[x].id
                      /\ \A y \in DOMAIN posted' : posted'[y].port = posted'[x].port => y <= x
    BY <1>1 DEF Adds
  <2>1. CASE x \in DOMAIN posted
    <3>1. /\ stage[posted[x].port] = "reporting" /\ mine[posted[x].port] = posted[x].id
          /\ \A y \in DOMAIN posted : posted[y].port = posted[x].port => y <= x
          /\ posted'[x] = posted[x]
      BY <1>5, <2>1 DEF IInv, Adds
    <3>2. posted[x].port # n
      BY <1>1, <3>1
    <3> QED BY <1>1, <1>2, <1>4, <1>5, <2>1, <3>1, <3>2
  <2>2. CASE x = top
    BY <1>1, <1>2, <1>4, <1>5, <2>2
  <2> QED BY <1>5, <2>1, <2>2
<1>10. Removes'
  <2> SUFFICES ASSUME NEW x \in DOMAIN posted', posted'[x].kind = "remove", posted'[x].id \notin spoiled,
                      posted'[x].id # NoId, mine[posted'[x].port] = posted'[x].id
               PROVE  stage'[posted'[x].port] = "idle"
    BY <1>1 DEF Removes, Clean
  <2>1. x \in DOMAIN posted /\ posted'[x] = posted[x]
    BY <1>4, <1>5
  <2>2. stage[posted[x].port] = "idle"
    BY <2>1 DEF IInv, Removes, Clean
  <2> QED BY <1>1, <1>2, <2>1, <2>2
<1>11. Known'
  <2> SUFFICES ASSUME NEW k \in Networks, stage'[k] = "up"
               PROVE  k \in connections /\ \A x \in DOMAIN posted' : posted'[x].port # k
    BY <1>1 DEF Known
  <2>1. k # n /\ stage[k] = "up"
    BY <1>1
  <2> QED BY <1>4, <1>5, <2>1 DEF IInv, Known
<1>12. Waits'
  BY <1>1 DEF IInv, Waits, Clean
<1>13. Numbered' /\ Requests' /\ Questions' /\ NoUserIsTrue'
  <2>1. Numbered'
    BY <1>1 DEF IInv, Numbered
  <2>2. \A k \in Networks : Alive(k)' <=> Alive(k)
    BY <1>1 DEF Alive
  <2>3. Requests'
    <3> SUFFICES ASSUME NEW r \in requestQueue, Clean(asked[r.requestId].about), Alive(r.port)',
                        mine[r.port] = asked[r.requestId].about
                 PROVE  /\ stage'[r.port] \in {"connecting", "reporting"} /\ asked[r.requestId].about < r.transactionId
                        /\ BehindIn(waiting, asked[r.requestId].about, r.transactionId)
      BY <1>1 DEF Requests, Clean
    <3> QED BY <1>1, <1>2, <2>2 DEF IInv, Requests
  <2>4. Questions'
    BY <1>1, <1>2 DEF IInv, Questions, Clean
  <2>5. NoUserIsTrue'
    BY <1>1, <1>2, <2>2 DEF IInv, NoUserIsTrue
  <2> QED BY <2>1, <2>3, <2>4, <2>5
<1> QED BY <1>6, <1>7, <1>8, <1>9, <1>10, <1>11, <1>12, <1>13 DEF IInv

\* A connection is given back: it has ended, or its number was given back by mistake.
LEMMA GivenBackHolds ==
    ASSUME IInv, NEW n \in Networks,
           stage[n] \in {"idle", "connecting", "up"}, mine[n] # NoId,
           stage' \in [Networks -> Stages], \A k \in Networks : k # n => stage'[k] = stage[k],
           spoiled' \in {spoiled, spoiled \union {mine[n]}},
           stage'[n] = "idle" \/ (stage'[n] = stage[n] /\ stage[n] = "connecting" /\ mine[n] \in spoiled'),
           failing' \subseteq Networks, failing' \subseteq failing \union {n},
           posted' = Append(posted, [kind |-> "remove", port |-> n, id |-> mine[n]]),
           UNCHANGED <<socketId, waiting, connections, requestQueue, mine, asked, taken>>
    PROVE  IInv'
<1> DEFINE e == [kind |-> "remove", port |-> n, id |-> mine[n]]
           top == Len(posted) + 1
<1>1. /\ stage[n] \notin {"counting", "pushing", "reporting"}
      /\ stage'[n] \in {"idle", "connecting"} /\ (stage'[n] # "idle" => stage'[n] = stage[n] /\ mine[n] \in spoiled')
      /\ \A k \in Networks : k # n => stage'[k] = stage[k]
      /\ posted' = Append(posted, e)
      /\ UNCHANGED <<socketId, waiting, connections, requestQueue, mine, asked, taken>>
  OBVIOUS
<1>2. /\ socketId \in Ids /\ taken \in Ids /\ socketId <= taken /\ waiting \in Seq(Ids)
      /\ \A k \in Networks : mine[k] \in Ids \union {NoId}
      /\ \A x \in DOMAIN posted : posted[x].port \in Networks /\ posted[x].id \in Ids
      /\ \A a \in DOMAIN asked : asked[a].port \in Networks /\ asked[a].about \in Ids \union {NoId}
      /\ \A r \in requestQueue : r.port \in Networks
      /\ Len(posted) \in Nat
  BY Typed DEF IInv, Counter
<1>3. mine[n] \in Ids /\ mine[n] # NoId /\ mine[n] < taken
  BY <1>2 DEF IInv, Counter
<1>4. e \in EventRecords /\ e.kind = "remove" /\ e.port = n /\ e.id = mine[n]
  BY <1>3 DEF EventRecords
<1> HIDE DEF e
<1>5. /\ posted' \in Seq(EventRecords)
      /\ DOMAIN posted' = 1 .. top /\ posted'[top] = e
      /\ \A x \in DOMAIN posted : x \in DOMAIN posted' /\ posted'[x] = posted[x] /\ x <= Len(posted)
      /\ \A x \in DOMAIN posted' : x \in DOMAIN posted \/ x = top
  BY <1>1, <1>4, Appended, PostedIs DEF IInv
<1>6. /\ \A i : i \notin spoiled' => i \notin spoiled
      /\ MaxSocketId \in spoiled' <=> MaxSocketId \in spoiled
      /\ spoiled \subseteq spoiled'
  <2>1. mine[n] # MaxSocketId
    BY <1>2, <1>3, IdentAssumption DEF Ids
  <2> QED BY <2>1
<1>7. TypeOK'
  <2>1. posted' \in Seq([kind : {"add", "remove"}, port : Networks, id : 0 .. MaxSocketId])
    BY <1>5 DEF EventRecords, Ids
  <2>2. spoiled' \subseteq 0 .. MaxSocketId
    BY <1>3 DEF IInv, TypeOK, Ids
  <2> QED BY <1>1, <2>1, <2>2 DEF IInv, TypeOK, Stages
<1>8. Counter' /\ Below' /\ Single' /\ Lower' /\ After'
  <2>1. Counter'
    BY <1>1, <1>3 DEF IInv, Counter
  <2>2. Below'
    BY <1>1, <1>6 DEF IInv, Below, Clean, RacedBack
  <2>3. Single'
    BY <1>1, <1>6 DEF IInv, Single, Clean
  <2>4. Lower' /\ After'
    BY <1>1, <1>6 DEF IInv, Lower, After, Clean, RacedBack
  <2> QED BY <2>1, <2>2, <2>3, <2>4
<1>9. Owners'
  <2> SUFFICES ASSUME NEW x \in DOMAIN posted', posted'[x].id \notin spoiled', posted'[x].id # NoId
               PROVE  /\ posted'[x].id < socketId
                      /\ \A k \in Networks : mine[k] = posted'[x].id /\ stage'[k] # "counting" => k = posted'[x].port
    BY <1>1 DEF Owners, Clean
  <2>1. CASE x \in DOMAIN posted
    BY <1>1, <1>5, <1>6, <2>1 DEF IInv, Owners, Clean
  <2>2. CASE x = top
    <3>1. posted'[x].id = mine[n] /\ posted'[x].port = n /\ Clean(mine[n])
      BY <1>4, <1>5, <1>6, <2>2 DEF Clean
    <3> QED BY <1>1, <1>3, <3>1 DEF IInv, Below, Single
  <2> QED BY <1>5, <2>1, <2>2
<1>10. Adds'
  <2> SUFFICES ASSUME NEW x \in DOMAIN posted', posted'[x].kind = "add"
               PROVE  /\ stage'[posted'[x].port] = "reporting" /\ mine[posted'[x].port] = posted'[x].id
                      /\ \A y \in DOMAIN posted' : posted'[y].port = posted'[x].port => y <= x
    BY <1>1 DEF Adds
  <2>1. x \in DOMAIN posted /\ posted'[x] = posted[x]
    BY <1>4, <1>5
  <2>2. /\ stage[posted[x].port] = "reporting" /\ mine[posted[x].port] = posted[x].id
        /\ \A y \in DOMAIN posted : posted[y].port = posted[x].port => y <= x
    BY <2>1 DEF IInv, Adds
  <2>3. posted[x].port # n
    BY <1>1, <2>2
  <2> QED BY <1>1, <1>2, <1>4, <1>5, <2>1, <2>2, <2>3
<1>11. Removes'
  <2> SUFFICES ASSUME NEW x \in DOMAIN posted', posted'[x].kind = "remove", posted'[x].id \notin spoiled',
                      posted'[x].id # NoId, mine[posted'[x].port] = posted'[x].id
               PROVE  stage'[posted'[x].port] = "idle"
    BY <1>1 DEF Removes, Clean
  <2>1. CASE posted'[x].port = n
    BY <1>1, <2>1
  <2>2. CASE posted'[x].port # n
    <3>1. x \in DOMAIN posted /\ posted'[x] = posted[x]
      BY <1>4, <1>5, <2>2
    <3>2. stage[posted[x].port] = "idle"
      BY <1>6, <3>1 DEF IInv, Removes, Clean
    <3> QED BY <1>1, <1>2, <2>2, <3>1, <3>2
  <2> QED BY <2>1, <2>2
<1>12. Known'
  <2> SUFFICES ASSUME NEW k \in Networks, stage'[k] = "up"
               PROVE  k \in connections /\ \A x \in DOMAIN posted' : posted'[x].port # k
    BY <1>1 DEF Known
  <2>1. k # n /\ stage[k] = "up"
    BY <1>1
  <2> QED BY <1>4, <1>5, <2>1 DEF IInv, Known
<1>13. Waits'
  BY <1>1, <1>6 DEF IInv, Waits, Clean
<1>14. Numbered' /\ Requests' /\ Questions' /\ NoUserIsTrue'
  <2>1. Numbered'
    BY <1>1 DEF IInv, Numbered
  <2>2. \A k \in Networks : Alive(k)' => Alive(k) /\ stage'[k] = stage[k]
    BY <1>1 DEF Alive
  <2>3. Requests'
    <3> SUFFICES ASSUME NEW r \in requestQueue, asked[r.requestId].about # NoId, asked[r.requestId].about \notin spoiled',
                        Alive(r.port)', mine[r.port] = asked[r.requestId].about
                 PROVE  /\ stage'[r.port] \in {"connecting", "reporting"} /\ asked[r.requestId].about < r.transactionId
                        /\ BehindIn(waiting, asked[r.requestId].about, r.transactionId)
      BY <1>1 DEF Requests, Clean
    <3> QED BY <1>2, <1>6, <2>2 DEF IInv, Requests, Clean
  <2>4. Questions'
    BY <1>1, <1>2, <1>6 DEF IInv, Questions, Clean
  <2>5. NoUserIsTrue'
    BY <1>1, <1>2, <1>6, <2>2 DEF IInv, NoUserIsTrue
  <2> QED BY <2>1, <2>3, <2>4, <2>5
<1> QED BY <1>7, <1>8, <1>9, <1>10, <1>11, <1>12, <1>13, <1>14 DEF IInv

\* An attempt or a connection ends.
LEMMA DisconnectedHolds ==
    ASSUME IInv, NEW n \in Networks, SocketDisconnected(n)
    PROVE  IInv'
<1>1. /\ stage[n] \in {"connecting", "up"} /\ stage'[n] = "idle"
      /\ stage' \in [Networks -> Stages] /\ \A k \in Networks : k # n => stage'[k] = stage[k]
      /\ spoiled' = spoiled /\ failing' \subseteq failing \union {n} /\ failing' \subseteq Networks
      /\ posted' = Append(posted, [kind |-> "remove", port |-> n, id |-> mine[n]])
      /\ UNCHANGED <<socketId, waiting, connections, requestQueue, mine, asked, taken>>
  BY DEF IInv, TypeOK, SocketDisconnected, Goto, Stages, server
<1>2. mine[n] # NoId
  BY <1>1 DEF IInv, Counter
<1> QED BY <1>1, <1>2, GivenBackHolds

\* The socket reports the error of a failed attempt, perhaps in the middle of the retry.
LEMMA ErrorHolds ==
    ASSUME IInv, NEW n \in Networks, SocketError(n)
    PROVE  IInv'
<1>1. /\ n \in failing /\ stage[n] \in {"idle", "connecting"} /\ stage' = stage
      /\ stage \in [Networks -> Stages]
      /\ spoiled' = IF stage[n] = "connecting" THEN spoiled \union {mine[n]} ELSE spoiled
      /\ failing' = failing \ {n} /\ failing \subseteq Networks
      /\ posted' = Append(posted, [kind |-> "remove", port |-> n, id |-> mine[n]])
      /\ UNCHANGED <<socketId, waiting, connections, requestQueue, mine, asked, taken>>
  BY DEF IInv, TypeOK, SocketError, Stages, server
<1>2. mine[n] # NoId
  BY <1>1 DEF IInv, Counter
<1>3. /\ spoiled' \in {spoiled, spoiled \union {mine[n]}}
      /\ stage'[n] = "idle" \/ (stage'[n] = stage[n] /\ stage[n] = "connecting" /\ mine[n] \in spoiled')
  BY <1>1
<1> QED BY <1>1, <1>2, <1>3, GivenBackHolds

QuestionRecords == [port : Networks, about : Ids \union {NoId}, answer : Answers]
RequestRecords == [port : Networks, transactionId : Ids, requestId : 1 .. MaxRequests]

\* What was asked is a sequence of questions, and the queue a set of requests.
LEMMA AskedIs == ASSUME TypeOK PROVE asked \in Seq(QuestionRecords) /\ requestQueue \subseteq RequestRecords
BY DEF TypeOK, QuestionRecords, RequestRecords, Answers, Ids

\* A question about a connection under way waits, for its number is behind.
LEMMA RespondHolds ==
    ASSUME IInv, NEW n \in Networks, Respond(n)
    PROVE  IInv'
<1> DEFINE about == IF Alive(n) THEN mine[n] ELSE NoId
           top == Len(asked) + 1
           r == [port |-> n, transactionId |-> socketId, requestId |-> top]
<1>1. /\ Len(asked) < MaxRequests
      /\ UNCHANGED <<socketId, waiting, connections, posted, stage, mine, failing, spoiled, taken>>
  BY DEF Respond
<1>2. PICK answer \in Answers :
        /\ asked' = Append(asked, [port |-> n, about |-> about, answer |-> answer])
        /\ requestQueue' = IF answer = "waits" THEN requestQueue \union {r} ELSE requestQueue
        /\ answer # "USERID" => n \notin connections
        /\ answer = "NO-USER" => ~(LowestSocketId < socketId)
  BY DEF Respond, Ask, Answers
<1> DEFINE q == [port |-> n, about |-> about, answer |-> answer]
<1>3. /\ socketId \in Ids /\ waiting \in Seq(Ids)
      /\ mine[n] \in Ids \union {NoId}
      /\ \A x \in requestQueue : x.port \in Networks
      /\ Len(asked) \in Nat /\ DOMAIN asked = 1 .. Len(asked)
  BY Typed DEF IInv
<1>4. /\ q \in QuestionRecords /\ q.port = n /\ q.about = about /\ q.answer = answer
      /\ r \in RequestRecords /\ r.port = n /\ r.transactionId = socketId /\ r.requestId = top
  <2>1. top \in 1 .. MaxRequests
    BY <1>1, <1>3, IdentAssumption
  <2> QED BY <1>2, <1>3, <2>1 DEF QuestionRecords, RequestRecords
<1>5. about # NoId => Alive(n) /\ about = mine[n]
  OBVIOUS
<1> HIDE DEF q, r, about
<1>6. /\ asked' \in Seq(QuestionRecords) /\ DOMAIN asked' = 1 .. top /\ asked'[top] = q
      /\ \A a \in DOMAIN asked : a \in DOMAIN asked' /\ asked'[a] = asked[a] /\ a <= Len(asked)
      /\ \A a \in DOMAIN asked' : a \in DOMAIN asked \/ a = top
  <2>1. asked \in Seq(QuestionRecords) /\ asked' = Append(asked, q)
    BY <1>2, AskedIs DEF IInv, q
  <2> QED BY <1>4, <2>1, Appended
<1>7. requestQueue' = IF answer = "waits" THEN requestQueue \union {r} ELSE requestQueue
  BY <1>2
<1>8. Len(asked') = top /\ top <= MaxRequests /\ top \notin DOMAIN asked /\ top \in Nat
  <2>1. top \in Nat /\ top <= MaxRequests /\ top \notin 1 .. Len(asked)
    BY <1>1, <1>3, IdentAssumption
  <2>2. Len(asked') \in Nat /\ DOMAIN asked' = 1 .. Len(asked')
    BY <1>6
  <2> QED BY <1>3, <1>6, <2>1, <2>2
<1>9. TypeOK'
  <2>1. asked' \in Seq([port : Networks, about : 0 .. MaxSocketId \union {NoId}, answer : {"waits", "USERID", "NO-USER"}])
    BY <1>6 DEF QuestionRecords, Ids, Answers
  <2>2. requestQueue' \subseteq [port : Networks, transactionId : 0 .. MaxSocketId, requestId : 1 .. MaxRequests]
    BY <1>4, <1>7, AskedIs DEF IInv, RequestRecords, Ids
  <2> QED BY <1>1, <2>1, <2>2 DEF IInv, TypeOK
<1>10. /\ Counter' /\ Below' /\ Single' /\ Lower' /\ After'
       /\ Owners' /\ Adds' /\ Removes' /\ Known' /\ Waits'
  <2>1. Counter' /\ Below' /\ Single' /\ Lower' /\ After'
    BY <1>1 DEF IInv, Counter, Below, Single, Lower, After, Clean, RacedBack
  <2>2. Owners' /\ Adds' /\ Removes' /\ Known' /\ Waits'
    BY <1>1 DEF IInv, Owners, Adds, Removes, Known, Waits, Clean
  <2> QED BY <2>1, <2>2
<1>11. \A k \in Networks : Alive(k)' <=> Alive(k)
  BY <1>1 DEF Alive
<1>12. Clean(about) => /\ stage[n] \in {"connecting", "reporting", "up"} /\ about = mine[n] /\ about < socketId
                       /\ n \notin connections => /\ stage[n] \in {"connecting", "reporting"}
                                                  /\ BehindIn(waiting, about, socketId)
  <2> SUFFICES ASSUME Clean(about)
               PROVE  /\ stage[n] \in {"connecting", "reporting", "up"} /\ about = mine[n] /\ about < socketId
                      /\ n \notin connections => /\ stage[n] \in {"connecting", "reporting"}
                                                 /\ BehindIn(waiting, about, socketId)
    OBVIOUS
  <2>1. stage[n] \in {"connecting", "reporting", "up"} /\ about = mine[n] /\ Clean(mine[n]) /\ mine[n] # NoId
    BY <1>5 DEF Clean, Alive
  <2>2. about < socketId
    BY <2>1 DEF IInv, Below
  <2>3. n \notin connections => stage[n] # "up"
    BY DEF IInv, Known
  <2> QED BY <2>1, <2>2, <2>3 DEF IInv, Waits
<1>13. Numbered'
  <2>1. \A x \in requestQueue : /\ x.requestId \in DOMAIN asked
                                /\ asked[x.requestId].answer = "waits" /\ asked[x.requestId].port = x.port
    BY DEF IInv, Numbered
  <2>2. \A x \in requestQueue' : /\ x.requestId \in DOMAIN asked'
                                 /\ asked'[x.requestId].answer = "waits" /\ asked'[x.requestId].port = x.port
    <3> SUFFICES ASSUME NEW x \in requestQueue'
                 PROVE  /\ x.requestId \in DOMAIN asked'
                        /\ asked'[x.requestId].answer = "waits" /\ asked'[x.requestId].port = x.port
      OBVIOUS
    <3>1. CASE x \in requestQueue
      BY <1>6, <2>1, <3>1
    <3>2. CASE x = r /\ answer = "waits"
      <4>1. top \in DOMAIN asked'
        BY <1>6, <1>8
      <4> QED BY <1>4, <1>6, <3>2, <4>1
    <3> QED BY <1>7, <3>1, <3>2
  <2>3. \A x, y \in requestQueue' : x.requestId = y.requestId => x = y
    <3>1. \A x, y \in requestQueue : x.requestId = y.requestId => x = y
      BY DEF IInv, Numbered
    <3>2. \A x \in requestQueue : x.requestId # r.requestId
      BY <1>4, <1>8, <2>1
    <3> QED BY <1>7, <3>1, <3>2
  <2>4. \A a \in DOMAIN asked' : asked'[a].answer = "waits" => \E x \in requestQueue' : x.requestId = a
    <3> SUFFICES ASSUME NEW a \in DOMAIN asked', asked'[a].answer = "waits"
                 PROVE  \E x \in requestQueue' : x.requestId = a
      OBVIOUS
    <3>1. CASE a \in DOMAIN asked
      <4>1. \E x \in requestQueue : x.requestId = a
        BY <1>6, <3>1 DEF IInv, Numbered
      <4> QED BY <1>7, <4>1
    <3>2. CASE a = top
      BY <1>4, <1>6, <1>7, <3>2
    <3> QED BY <1>6, <3>1, <3>2
  <2> QED BY <1>8, <2>2, <2>3, <2>4 DEF Numbered
<1>14. Requests'
  <2> SUFFICES ASSUME NEW x \in requestQueue', Clean(asked'[x.requestId].about), Alive(x.port),
                      mine[x.port] = asked'[x.requestId].about
               PROVE  /\ stage[x.port] \in {"connecting", "reporting"} /\ asked'[x.requestId].about < x.transactionId
                      /\ BehindIn(waiting, asked'[x.requestId].about, x.transactionId)
    BY <1>1 DEF Requests, Clean, Alive
  <2>1. CASE x \in requestQueue
    <3>1. x.requestId \in DOMAIN asked /\ asked'[x.requestId] = asked[x.requestId]
      BY <1>6, <2>1 DEF IInv, Numbered
    <3> QED BY <2>1, <3>1 DEF IInv, Requests
  <2>2. CASE x = r /\ answer = "waits"
    <3>1. asked'[x.requestId].about = about /\ n \notin connections /\ x.port = n /\ x.transactionId = socketId
      BY <1>2, <1>4, <1>6, <2>2
    <3> QED BY <1>12, <3>1
  <2> QED BY <1>7, <2>1, <2>2
<1>15. Questions'
  <2> SUFFICES ASSUME NEW a \in DOMAIN asked', Clean(asked'[a].about)
               PROVE  /\ asked'[a].about < socketId
                      /\ mine[asked'[a].port] = asked'[a].about => stage[asked'[a].port] \notin {"counting", "pushing"}
    BY <1>1 DEF Questions, Clean
  <2>1. CASE a \in DOMAIN asked
    BY <1>6, <2>1 DEF IInv, Questions
  <2>2. CASE a = top
    BY <1>4, <1>6, <1>12, <2>2
  <2> QED BY <1>6, <2>1, <2>2
<1>16. NoUserIsTrue'
  <2> SUFFICES ASSUME NEW a \in DOMAIN asked', asked'[a].answer = "NO-USER", Clean(asked'[a].about),
                      Alive(asked'[a].port), mine[asked'[a].port] = asked'[a].about
               PROVE  FALSE
    BY <1>1 DEF NoUserIsTrue, Clean, Alive
  <2>1. CASE a \in DOMAIN asked
    BY <1>6, <2>1 DEF IInv, NoUserIsTrue, Clean
  <2>2. CASE a = top
    <3>1. answer = "NO-USER" /\ Clean(about)
      BY <1>4, <1>6, <2>2
    <3>2. BehindIn(waiting, about, socketId)
      BY <1>2, <1>12, <3>1
    <3>3. waiting # <<>> /\ Head(waiting) < socketId
      BY <1>3, <3>2, BehindHead
    <3> QED BY <1>2, <3>1, <3>3 DEF LowestSocketId
  <2> QED BY <1>6, <2>1, <2>2
<1> QED BY <1>9, <1>10, <1>13, <1>14, <1>15, <1>16 DEF IInv

\* A request is given up only when the number of its connection is gone from the list,
\* and that goes when the connection is known or has ended.
LEMMA EventHolds == IInv /\ CoreEvent => IInv'
<1> SUFFICES ASSUME IInv, CoreEvent PROVE IInv'
  OBVIOUS
<1> DEFINE e == Head(posted)
           Adding == /\ e.kind = "add" /\ connections' = connections \union {e.port}
                     /\ stage' = [stage EXCEPT ![e.port] = "up"]
           Removing == /\ e.kind = "remove" /\ connections' = connections \ {e.port}
                       /\ stage' = stage
           Said(r) == Verdict(r, e.id, connections', waiting')
<1>1. /\ posted # <<>> /\ posted' = Tail(posted)
      /\ Adding \/ Removing
      /\ waiting' = Without(waiting, e.id)
      /\ requestQueue' = {r \in requestQueue : Said(r) = "waits"}
      /\ asked' = [a \in DOMAIN asked |->
            IF asked[a].answer = "waits" THEN [asked[a] EXCEPT !.answer = Said(Requested(a))] ELSE asked[a]]
      /\ UNCHANGED <<socketId, mine, failing, spoiled, taken>>
  BY DEF CoreEvent, AddSocket, RemoveSocket, ProcessWaiting, Goto
<1>2. /\ socketId \in Ids /\ taken \in Ids /\ socketId <= taken /\ waiting \in Seq(Ids)
      /\ \A k \in Networks : stage[k] \in Stages /\ mine[k] \in Ids \union {NoId}
      /\ \A x \in DOMAIN posted : posted[x].port \in Networks /\ posted[x].id \in Ids
      /\ \A a \in DOMAIN asked : asked[a].port \in Networks /\ asked[a].about \in Ids \union {NoId}
      /\ \A r \in requestQueue : r.port \in Networks
      /\ Len(posted) \in Nat /\ DOMAIN posted = 1 .. Len(posted)
      /\ Len(asked) \in Nat /\ DOMAIN asked = 1 .. Len(asked)
  BY Typed DEF IInv, Counter
<1>3. posted \in Seq(EventRecords)
  BY PostedIs DEF IInv
<1>4. /\ 1 \in DOMAIN posted /\ posted[1] = e
      /\ posted' \in Seq(EventRecords)
      /\ \A x \in DOMAIN posted' : x \in Nat /\ x + 1 > 1 /\ x + 1 \in DOMAIN posted /\ posted'[x] = posted[x + 1]
  BY <1>1, <1>3
<1>5. e.port \in Networks /\ e.id \in Ids
  BY <1>2, <1>4
<1> HIDE DEF e, Said
<1>6. /\ waiting' \in Seq(Ids)
      /\ \A p \in DOMAIN waiting' : \E q \in DOMAIN waiting : waiting'[p] = waiting[q]
      /\ \A i, t : i # e.id /\ BehindIn(waiting, i, t) => BehindIn(waiting', i, t)
  BY <1>1, <1>2, WithoutIs
<1>7. ASSUME NEW k \in Networks, stage'[k] # stage[k]
      PROVE  /\ k = e.port /\ k \in connections' /\ stage[k] = "reporting" /\ stage'[k] = "up"
             /\ mine[k] = e.id /\ \A y \in DOMAIN posted : posted[y].port = k => y <= 1
  <2>1. Adding /\ k = e.port /\ stage'[k] = "up"
    BY <1>1, <1>5, <1>7 DEF IInv, TypeOK
  <2> QED BY <1>4, <2>1 DEF IInv, Adds
<1>8. ASSUME NEW k \in Networks, Clean(mine[k]), stage'[k] \in {"connecting", "reporting"}
      PROVE  mine[k] # e.id
  <2> SUFFICES ASSUME mine[k] = e.id PROVE FALSE
    OBVIOUS
  <2>1. stage'[k] = stage[k]
    BY <1>7, <1>8
  <2>2. k = e.port
    BY <1>4, <1>8, <2>1 DEF IInv, Owners
  <2>3. CASE Adding
    BY <1>5, <1>8, <2>2, <2>3 DEF IInv, TypeOK
  <2>4. CASE Removing
    <3>1. stage[k] = "idle"
      BY <1>4, <1>8, <2>2, <2>4 DEF IInv, Removes
    <3> QED BY <1>8, <2>1, <3>1
  <2> QED BY <1>1, <2>3, <2>4
<1>9. \A k \in Networks : /\ stage'[k] \in {"idle", "counting", "pushing"} <=> stage[k] \in {"idle", "counting", "pushing"}
                          /\ stage[k] \in {"idle", "counting", "pushing"} => stage'[k] = stage[k]
                          /\ Alive(k)' <=> Alive(k)
  BY <1>7 DEF Alive
<1>10. TypeOK'
  <2>1. connections' \subseteq Networks
    BY <1>1, <1>5 DEF IInv, TypeOK
  <2>2. stage' \in [Networks -> {"idle", "counting", "pushing", "connecting", "reporting", "up"}]
    BY <1>1, <1>5 DEF IInv, TypeOK
  <2>3. requestQueue' \subseteq [port : Networks, transactionId : 0 .. MaxSocketId, requestId : 1 .. MaxRequests]
    BY <1>1 DEF IInv, TypeOK
  <2>4. posted' \in Seq([kind : {"add", "remove"}, port : Networks, id : 0 .. MaxSocketId])
    BY <1>4 DEF EventRecords, Ids
  <2>5. asked' \in Seq([port : Networks, about : 0 .. MaxSocketId \union {NoId}, answer : {"waits", "USERID", "NO-USER"}])
    <3>1. \A a \in DOMAIN asked : asked[a] \in QuestionRecords
      BY AskedIs, InSequence DEF IInv
    <3>2. \A r : Said(r) \in Answers
      BY DEF Said, Verdict, Answers
    <3>3. \A a \in DOMAIN asked : [asked[a] EXCEPT !.answer = Said(Requested(a))] \in QuestionRecords
      BY <3>1, <3>2 DEF QuestionRecords
    <3>4. asked' \in [1 .. Len(asked) -> QuestionRecords]
      BY <1>1, <1>2, <3>1, <3>3
    <3>5. asked' \in Seq(QuestionRecords)
      BY <1>2, <3>4
    <3> QED BY <3>5 DEF QuestionRecords, Ids, Answers
  <2> QED BY <1>1, <1>6, <2>1, <2>2, <2>3, <2>4, <2>5 DEF IInv, TypeOK, Ids
<1>11. Counter' /\ Below' /\ Single' /\ Lower' /\ After'
  <2>1. Counter'
    BY <1>1, <1>9 DEF IInv, Counter
  <2>2. Below'
    BY <1>1, <1>9 DEF IInv, Below, Clean, RacedBack
  <2>3. Single'
    BY <1>1, <1>9 DEF IInv, Single, Clean
  <2>4. Lower'
    BY <1>1, <1>6 DEF IInv, Lower, RacedBack
  <2>5. After'
    BY <1>1, <1>9 DEF IInv, After, Clean, RacedBack
  <2> QED BY <2>1, <2>2, <2>3, <2>4, <2>5
<1>12. Owners' /\ Adds' /\ Removes' /\ Known'
  <2>1. Owners'
    BY <1>1, <1>4, <1>9 DEF IInv, Owners, Clean
  <2>2. Adds'
    <3> SUFFICES ASSUME NEW x \in DOMAIN posted', posted'[x].kind = "add"
                 PROVE  /\ stage'[posted'[x].port] = "reporting" /\ mine[posted'[x].port] = posted'[x].id
                        /\ \A y \in DOMAIN posted' : posted'[y].port = posted'[x].port => y <= x
      BY <1>1 DEF Adds
    <3>1. x \in Nat /\ x + 1 > 1 /\ x + 1 \in DOMAIN posted /\ posted'[x] = posted[x + 1]
      BY <1>4
    <3>2. /\ stage[posted[x + 1].port] = "reporting" /\ mine[posted[x + 1].port] = posted[x + 1].id
          /\ \A y \in DOMAIN posted : posted[y].port = posted[x + 1].port => y <= x + 1
      BY <3>1 DEF IInv, Adds
    <3>3. stage'[posted[x + 1].port] = stage[posted[x + 1].port]
      BY <1>2, <1>7, <3>1
    <3>4. ASSUME NEW y \in DOMAIN posted', posted'[y].port = posted'[x].port PROVE y <= x
      <4>1. y \in Nat /\ y + 1 \in DOMAIN posted /\ posted'[y] = posted[y + 1]
        BY <1>4
      <4>2. y + 1 <= x + 1
        BY <3>1, <3>2, <3>4, <4>1
      <4> QED BY <3>1, <4>1, <4>2
    <3> QED BY <3>1, <3>2, <3>3, <3>4
  <2>3. Removes'
    BY <1>1, <1>2, <1>4, <1>9 DEF IInv, Removes, Clean
  <2>4. Known'
    <3> SUFFICES ASSUME NEW k \in Networks, stage'[k] = "up"
                 PROVE  k \in connections' /\ \A x \in DOMAIN posted' : posted'[x].port # k
      BY DEF Known
    <3>1. CASE stage[k] = "up"
      <4>1. k \in connections /\ \A x \in DOMAIN posted : posted[x].port # k
        BY <3>1 DEF IInv, Known
      <4> QED BY <1>1, <1>4, <4>1
    <3>2. CASE stage[k] # "up"
      BY <1>2, <1>4, <1>7, <3>2
    <3> QED BY <3>1, <3>2
  <2> QED BY <2>1, <2>2, <2>3, <2>4
<1>13. Waits'
  <2> SUFFICES ASSUME NEW k \in Networks, Clean(mine[k]), stage'[k] \in {"connecting", "reporting"}
               PROVE  BehindIn(waiting', mine[k], socketId)
    BY <1>1 DEF Waits, Clean
  <2>1. mine[k] # e.id /\ stage'[k] = stage[k]
    BY <1>7, <1>8
  <2> QED BY <1>6, <2>1 DEF IInv, Waits
<1>14. /\ DOMAIN asked' = DOMAIN asked
       /\ \A a \in DOMAIN asked : /\ asked'[a].port = asked[a].port /\ asked'[a].about = asked[a].about
                                  /\ asked'[a].answer = IF asked[a].answer = "waits" THEN Said(Requested(a))
                                                        ELSE asked[a].answer
  <2>1. \A a \in DOMAIN asked : asked[a] \in QuestionRecords
    BY AskedIs, InSequence DEF IInv
  <2> QED BY <1>1, <2>1 DEF QuestionRecords
<1>15. ASSUME NEW a \in DOMAIN asked, asked[a].answer = "waits"
       PROVE  /\ Requested(a) \in requestQueue /\ Requested(a).requestId = a
              /\ \A r \in requestQueue : r.requestId = a => r = Requested(a)
  <2>1. \E r \in requestQueue : r.requestId = a
    BY <1>15 DEF IInv, Numbered
  <2>2. Requested(a) \in requestQueue /\ Requested(a).requestId = a
    BY <2>1 DEF Requested
  <2> QED BY <2>2 DEF IInv, Numbered
<1>16. ASSUME NEW r \in requestQueue, Clean(asked[r.requestId].about), Alive(r.port),
              mine[r.port] = asked[r.requestId].about
       PROVE  \/ Said(r) = "USERID"
              \/ /\ stage'[r.port] \in {"connecting", "reporting"} /\ asked[r.requestId].about < r.transactionId
                 /\ BehindIn(waiting', asked[r.requestId].about, r.transactionId)
                 /\ Said(r) # "NO-USER"
  <2> DEFINE i == asked[r.requestId].about
  <2>1. /\ stage[r.port] \in {"connecting", "reporting"} /\ i < r.transactionId
        /\ BehindIn(waiting, i, r.transactionId) /\ r.port \in Networks
    BY <1>2, <1>16 DEF IInv, Requests
  <2>2. CASE stage'[r.port] # stage[r.port]
    <3>1. i = e.id /\ r.port \in connections'
      BY <1>7, <1>16, <2>1, <2>2
    <3> QED BY <2>1, <3>1 DEF Said, Verdict
  <2>3. CASE stage'[r.port] = stage[r.port]
    <3>1. i # e.id
      BY <1>8, <1>16, <2>1, <2>3
    <3>2. BehindIn(waiting', i, r.transactionId)
      BY <1>6, <2>1, <3>1
    <3>3. waiting' # <<>> /\ Head(waiting') < r.transactionId
      BY <1>6, <3>2, BehindHead
    <3>4. Said(r) # "NO-USER"
      BY <3>3 DEF Said, Verdict
    <3> QED BY <2>1, <2>3, <3>2, <3>4
  <2> QED BY <2>2, <2>3
<1>17. Numbered'
  <2>1. \A r \in requestQueue : /\ r.requestId \in DOMAIN asked
                                /\ asked[r.requestId].answer = "waits" /\ asked[r.requestId].port = r.port
    BY DEF IInv, Numbered
  <2>2. \A r \in requestQueue' : r \in requestQueue /\ Said(r) = "waits"
    BY <1>1
  <2>3. \A r \in requestQueue' : /\ r.requestId \in DOMAIN asked'
                                 /\ asked'[r.requestId].answer = "waits" /\ asked'[r.requestId].port = r.port
    BY <1>14, <1>15, <2>1, <2>2
  <2>4. \A r, s \in requestQueue' : r.requestId = s.requestId => r = s
    BY <2>2 DEF IInv, Numbered
  <2>5. \A a \in DOMAIN asked' : asked'[a].answer = "waits" => \E r \in requestQueue' : r.requestId = a
    <3> SUFFICES ASSUME NEW a \in DOMAIN asked, asked'[a].answer = "waits"
                 PROVE  \E r \in requestQueue' : r.requestId = a
      BY <1>14
    <3>1. asked[a].answer = "waits" /\ Said(Requested(a)) = "waits"
      BY <1>14
    <3> QED BY <1>1, <1>15, <3>1
  <2>6. Len(asked') = Len(asked)
    <3>1. asked' \in Seq([port : Networks, about : 0 .. MaxSocketId \union {NoId}, answer : {"waits", "USERID", "NO-USER"}])
      BY <1>10 DEF TypeOK
    <3>2. Len(asked') \in Nat /\ DOMAIN asked' = 1 .. Len(asked')
      BY <3>1
    <3> QED BY <1>2, <1>14, <3>2
  <2> QED BY <2>3, <2>4, <2>5, <2>6 DEF IInv, Numbered
<1>18. Requests'
  <2> SUFFICES ASSUME NEW r \in requestQueue', Clean(asked'[r.requestId].about), Alive(r.port)',
                      mine[r.port] = asked'[r.requestId].about
               PROVE  /\ stage'[r.port] \in {"connecting", "reporting"} /\ asked'[r.requestId].about < r.transactionId
                      /\ BehindIn(waiting', asked'[r.requestId].about, r.transactionId)
    BY <1>1 DEF Requests, Clean
  <2>1. /\ r \in requestQueue /\ Said(r) = "waits" /\ r.port \in Networks
        /\ asked'[r.requestId].about = asked[r.requestId].about
    BY <1>1, <1>2, <1>14 DEF IInv, Numbered
  <2>2. Alive(r.port)
    BY <1>9, <2>1
  <2> QED BY <1>16, <2>1, <2>2
<1>19. Questions'
  BY <1>1, <1>2, <1>9, <1>14 DEF IInv, Questions, Clean
<1>20. NoUserIsTrue'
  <2> SUFFICES ASSUME NEW a \in DOMAIN asked, asked'[a].answer = "NO-USER", Clean(asked[a].about),
                      stage'[asked[a].port] \in {"connecting", "reporting", "up"}, mine[asked[a].port] = asked[a].about
               PROVE  FALSE
    BY <1>1, <1>14 DEF NoUserIsTrue, Clean, Alive
  <2>1. Alive(asked[a].port)
    <3>1. asked[a].port \in Networks
      BY <1>2
    <3> QED BY <1>9, <3>1 DEF Alive
  <2>2. CASE asked[a].answer = "NO-USER"
    BY <2>1, <2>2 DEF IInv, NoUserIsTrue, Clean
  <2>3. CASE asked[a].answer = "waits"
    <3>1. Requested(a) \in requestQueue /\ Requested(a).requestId = a /\ Requested(a).port = asked[a].port
      BY <1>15, <2>3 DEF IInv, Numbered
    <3>2. Said(Requested(a)) = "NO-USER"
      BY <1>14, <2>3
    <3> QED BY <1>16, <2>1, <3>1, <3>2
  <2> QED BY <1>14, <2>2, <2>3
<1> QED BY <1>10, <1>11, <1>12, <1>13, <1>17, <1>18, <1>19, <1>20 DEF IInv

\* The invariant holds whoever takes numbers, connects, fails, retries, disconnects or asks.
LEMMA IdentInvariant == Spec => []IInv
<1>1. IInv /\ [Next]_vars => IInv'
  <2> SUFFICES ASSUME IInv, [Next]_vars PROVE IInv'
    OBVIOUS
  <2>1. ASSUME NEW n \in Networks, ReadSocketId(n) PROVE IInv'
    BY <2>1, ReadHolds
  <2>2. ASSUME NEW n \in Networks, WriteSocketId(n) PROVE IInv'
    BY <2>2, WriteHolds
  <2>3. ASSUME NEW n \in Networks, PushWaiting(n) PROVE IInv'
    BY <2>3, PushHolds
  <2>4. ASSUME NEW n \in Networks, SocketInitialized(n) PROVE IInv'
    BY <2>4, InitializedHolds
  <2>5. ASSUME NEW n \in Networks, SocketDisconnected(n) PROVE IInv'
    BY <2>5, DisconnectedHolds
  <2>6. ASSUME NEW n \in Networks, SocketError(n) PROVE IInv'
    BY <2>6, ErrorHolds
  <2>7. ASSUME NEW n \in Networks, Respond(n) PROVE IInv'
    BY <2>7, RespondHolds
  <2>8. CASE CoreEvent
    BY <2>8, EventHolds
  <2>9. CASE UNCHANGED vars
    <3>1. /\ TypeOK' /\ Counter' /\ Below' /\ Single' /\ Lower' /\ After'
      BY <2>9 DEF IInv, vars, server, TypeOK, Counter, Below, Single, Lower, After, Clean, RacedBack
    <3>2. Owners' /\ Adds' /\ Removes' /\ Known' /\ Waits'
      BY <2>9 DEF IInv, vars, server, Owners, Adds, Removes, Known, Waits, Clean
    <3>3. Numbered' /\ Requests' /\ Questions' /\ NoUserIsTrue'
      BY <2>9 DEF IInv, vars, server, Numbered, Requests, Questions, NoUserIsTrue, Clean, Alive
    <3> QED BY <3>1, <3>2, <3>3 DEF IInv
  <2> QED BY <2>1, <2>2, <2>3, <2>4, <2>5, <2>6, <2>7, <2>8, <2>9 DEF Next
<1> QED BY InitHolds, <1>1, PTL DEF Spec

\* Numbers, ports and requests are what they are said to be, and every event has a number.
THEOREM IdentTypes == Spec => []TypeOK
<1>1. IInv => TypeOK
  BY DEF IInv
<1> QED BY IdentInvariant, <1>1, PTL

\* For any networks, however many numbers are taken and questions asked: no server is told
\* NO-USER about a connection that lasts and whose number is in order.
THEOREM NoUserAtAnyTime == Spec => []NoUserIsTrue
<1>1. IInv => NoUserIsTrue
  BY DEF IInv
<1> QED BY IdentInvariant, <1>1, PTL

----------------------------------------------------------------------------
(* The event manager.                                                       *)

CONSTANTS Types, ClassesOf, Registered, Filtering, Posts, MaxPosts
VARIABLES stack, eventQueue, posts

Manager == INSTANCE EventManager

\* Nothing is ever put into EventManager::_eventQueue.
NothingQueued == eventQueue = <<>>

\* An event is only queued behind others, and the one that is dispatched is
\* not in the queue: so the loop of processEvent() never runs, whatever the
\* handlers post.
THEOREM QueueIsNeverUsed == Manager!Spec => []NothingQueued
<1>1. Manager!Init => NothingQueued
  BY DEF Manager!Init, NothingQueued
<1>2. NothingQueued /\ [Manager!Next]_(Manager!vars) => NothingQueued'
  <2> SUFFICES ASSUME NothingQueued, [Manager!Next]_(Manager!vars) PROVE NothingQueued'
    OBVIOUS
  <2>1. ASSUME NEW t \in Types, Manager!PostEvent(t) PROVE NothingQueued'
    BY <2>1 DEF Manager!PostEvent, NothingQueued
  <2>2. ASSUME NEW t \in Types, Manager!Arrive(t) \/ Manager!HandlerPosts(t) PROVE NothingQueued'
    BY <2>1, <2>2 DEF Manager!Arrive, Manager!HandlerPosts
  <2>3. CASE Manager!PassOver \/ Manager!Call \/ Manager!HandlerReturns
    BY <2>3 DEF Manager!PassOver, Manager!Call, Manager!HandlerReturns, NothingQueued
  <2>4. CASE Manager!DispatchEnds
    BY <2>4 DEF Manager!DispatchEnds, NothingQueued
  <2>5. CASE UNCHANGED Manager!vars
    BY <2>5 DEF Manager!vars, NothingQueued
  <2> QED
    BY <2>2, <2>3, <2>4, <2>5 DEF Manager!Next
<1> QED
  BY <1>1, <1>2, PTL DEF Manager!Spec
=============================================================================
