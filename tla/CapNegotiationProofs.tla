------------------------ MODULE CapNegotiationProofs ------------------------
(***************************************************************************)
(* CapNegotiation, for any capabilities and bounds: the types are kept, the *)
(* two sides agree on what is enabled, and, if the server announces no      *)
(* change before its welcome, the core awaits one answer at a time and has  *)
(* SASL over before the end of the negotiation.                             *)
(*                                                                         *)
(* The invariant has two halves.  Views follows what the core knows through *)
(* the lines under way to it, whatever they are, to what the server has     *)
(* turned on.  Course is the negotiation as it was meant: which line is     *)
(* under way, what is queued, and where SASL has got to.  It holds until    *)
(* the server announces its first change.                                   *)
(***************************************************************************)
EXTENDS CapNegotiation, FunctionTheorems, FiniteSetTheorems, SequenceTheorems, TLAPS

\* A set of places is ranked by how many of them there are up to each.
LEMMA PlacesAreRanked ==
    ASSUME NEW n \in Nat, NEW places, places \subseteq 1 .. n
    PROVE  LET UpTo(i) == Cardinality({j \in places : j <= i})
           IN  /\ Cardinality(places) \in Nat
               /\ \A i \in places : UpTo(i) \in 1 .. Cardinality(places)
               /\ \A i, j \in places : UpTo(i) = UpTo(j) => i = j
               /\ \A k \in 1 .. Cardinality(places) : \E i \in places : UpTo(i) = k
<1> DEFINE Low(i) == {j \in places : j <= i}
           UpTo(i) == Cardinality(Low(i))
           rank == [i \in places |-> UpTo(i)]
           size == Cardinality(places)
<1>1. IsFiniteSet(places) /\ size \in Nat
  <2>1. IsFiniteSet(1 .. n) /\ places \in SUBSET (1 .. n)
    BY FS_Interval
  <2> QED BY <2>1, FS_Subset, FS_CardinalityType
<1>2. \A i \in places : /\ IsFiniteSet(Low(i)) /\ Low(i) \in SUBSET places
                        /\ UpTo(i) \in Nat /\ UpTo(i) <= size
  BY <1>1, FS_Subset, FS_CardinalityType
<1>3. \A i \in places : UpTo(i) \in 1 .. size
  <2> SUFFICES ASSUME NEW i \in places PROVE UpTo(i) # 0
    BY <1>1, <1>2
  <2>1. i \in Low(i)
    OBVIOUS
  <2> QED BY <1>2, <2>1, FS_EmptySet
<1>4. ASSUME NEW i \in places, NEW j \in places, i < j PROVE UpTo(i) # UpTo(j)
  <2>1. Low(i) \in SUBSET Low(j) /\ j \in Low(j) /\ j \notin Low(i)
    <3>1. i \in Nat /\ j \in Nat /\ \A k \in places : k \in Nat
      OBVIOUS
    <3>2. \A k \in places : k <= i => k <= j
      BY <1>4, <3>1
    <3>3. j <= j /\ ~(j <= i)
      BY <1>4, <3>1
    <3>4. Low(i) \subseteq Low(j)
      BY <3>2
    <3> QED BY <3>3, <3>4
  <2> HIDE DEF Low
  <2> QED BY <1>2, <2>1, FS_Subset
<1>5. \A i, j \in places : UpTo(i) = UpTo(j) => i = j
  <2> SUFFICES ASSUME NEW i \in places, NEW j \in places, i # j PROVE UpTo(i) # UpTo(j)
    OBVIOUS
  <2>1. i < j \/ j < i
    OBVIOUS
  <2> HIDE DEF UpTo
  <2> QED BY <1>4, <2>1
<1>6. rank \in Surjection(places, 1 .. size)
  <2> HIDE DEF UpTo, size
  <2>1. rank \in Injection(places, 1 .. size)
    BY <1>3, <1>5 DEF Injection, IsInjective
  <2>2. IsFiniteSet(1 .. size) /\ Cardinality(1 .. size) = size
    BY <1>1, FS_Interval
  <2> QED BY <2>1, <2>2, FS_Injection DEF size
<1>7. \A k \in 1 .. size : \E i \in places : UpTo(i) = k
  <2> HIDE DEF UpTo, size
  <2> QED BY <1>6 DEF Surjection
<1> QED BY <1>1, <1>3, <1>5, <1>7

\* InOrder() puts all names it is given into a sequence, each of them once.
LEMMA NamesInOrder ==
    ASSUME NEW names, names \subseteq Caps
    PROVE  /\ InOrder(names) \in Seq(Caps)
           /\ ToSet(InOrder(names)) = names
           /\ \A i, j \in DOMAIN InOrder(names) : InOrder(names)[i] = InOrder(names)[j] => i = j
<1> DEFINE n == Len(KnownCaps)
           places == {i \in DOMAIN KnownCaps : KnownCaps[i] \in names}
           UpTo(i) == Cardinality({j \in places : j <= i})
           size == Cardinality(places)
           Place(k) == CHOOSE i \in places : UpTo(i) = k
<1>1. n \in Nat /\ DOMAIN KnownCaps = 1 .. n /\ \A i \in 1 .. n : KnownCaps[i] \in Caps
  BY CapsAssumption
<1>2. places \subseteq 1 .. n
  BY <1>1
<1>3. /\ size \in Nat
      /\ \A i \in places : UpTo(i) \in 1 .. size
      /\ \A i, j \in places : UpTo(i) = UpTo(j) => i = j
      /\ \A k \in 1 .. size : \E i \in places : UpTo(i) = k
  <2> HIDE DEF places
  <2> QED BY <1>1, <1>2, PlacesAreRanked
<1>4. InOrder(names) = [k \in 1 .. size |-> KnownCaps[Place(k)]]
  BY DEF InOrder
<1>5. \A k \in 1 .. size : Place(k) \in places /\ UpTo(Place(k)) = k
  <2> HIDE DEF places, UpTo, size
  <2> QED BY <1>3
<1>6. \A i \in places : Place(UpTo(i)) = i
  <2> HIDE DEF places, UpTo, size, Place
  <2> QED BY <1>3, <1>5
<1>7. \A k \in 1 .. size : KnownCaps[Place(k)] \in names /\ KnownCaps[Place(k)] \in Caps
  BY <1>1, <1>5
<1>8. DOMAIN InOrder(names) = 1 .. size /\ \A k \in 1 .. size : InOrder(names)[k] = KnownCaps[Place(k)]
  <2> HIDE DEF size, Place
  <2> QED BY <1>4
<1>9. InOrder(names) \in Seq(Caps)
  <2> HIDE DEF size, Place
  <2> QED BY <1>3, <1>4, <1>7, IsASeq
<1>10. names \subseteq ToSet(InOrder(names))
  <2> SUFFICES ASSUME NEW c \in names PROVE c \in ToSet(InOrder(names))
    OBVIOUS
  <2>1. PICK i \in places : KnownCaps[i] = c
    BY DEF Caps
  <2>2. UpTo(i) \in 1 .. size /\ Place(UpTo(i)) = i
    BY <1>3, <1>6
  <2> HIDE DEF UpTo, size, Place, places
  <2> QED BY <1>8, <2>1, <2>2 DEF ToSet
<1>11. ToSet(InOrder(names)) \subseteq names
  <2> HIDE DEF size, Place, places
  <2> QED BY <1>7, <1>8 DEF ToSet
<1>12. \A i, j \in 1 .. size : KnownCaps[Place(i)] = KnownCaps[Place(j)] => i = j
  <2> SUFFICES ASSUME NEW i \in 1 .. size, NEW j \in 1 .. size,
                      KnownCaps[Place(i)] = KnownCaps[Place(j)]
               PROVE  i = j
    OBVIOUS
  <2>1. Place(i) = Place(j)
    BY <1>1, <1>2, <1>5, CapsAssumption
  <2> QED BY <1>5, <2>1
<1> QED
  <2> HIDE DEF size, Place, places
  <2> QED BY <1>8, <1>9, <1>10, <1>11, <1>12

----------------------------------------------------------------------------
(* Sequences and the sets of their elements.                                *)

LEMMA ConcatElements ==
    ASSUME NEW S, NEW s \in Seq(S), NEW t \in Seq(S)
    PROVE  ToSet(s \o t) = ToSet(s) \cup ToSet(t)
<1>1. /\ s \o t \in Seq(S) /\ Len(s \o t) = Len(s) + Len(t)
      /\ \A i \in 1 .. Len(s) + Len(t) : (s \o t)[i] = IF i <= Len(s) THEN s[i] ELSE t[i - Len(s)]
  BY ConcatProperties
<1>2. DOMAIN (s \o t) = 1 .. Len(s) + Len(t) /\ DOMAIN s = 1 .. Len(s) /\ DOMAIN t = 1 .. Len(t)
      /\ Len(s) \in Nat /\ Len(t) \in Nat
  BY <1>1
<1>3. ASSUME NEW x \in ToSet(s \o t) PROVE x \in ToSet(s) \cup ToSet(t)
  <2>1. PICK i \in 1 .. Len(s) + Len(t) : x = (s \o t)[i]
    BY <1>2 DEF ToSet
  <2>2. CASE i <= Len(s)
    BY <1>1, <1>2, <2>1, <2>2 DEF ToSet
  <2>3. CASE i > Len(s)
    <3>1. i - Len(s) \in DOMAIN t /\ x = t[i - Len(s)]
      BY <1>1, <1>2, <2>1, <2>3
    <3> QED BY <3>1 DEF ToSet
  <2> QED BY <1>2, <2>2, <2>3
<1>4. ASSUME NEW i \in DOMAIN s PROVE s[i] \in ToSet(s \o t)
  BY <1>1, <1>2 DEF ToSet
<1>5. ASSUME NEW i \in DOMAIN t PROVE t[i] \in ToSet(s \o t)
  <2>1. Len(s) + i \in DOMAIN (s \o t) /\ (s \o t)[Len(s) + i] = t[i]
    BY <1>1, <1>2
  <2> QED BY <2>1 DEF ToSet
<1> QED BY <1>3, <1>4, <1>5 DEF ToSet

LEMMA HeadAndTailElements ==
    ASSUME NEW S, NEW s \in Seq(S), s # <<>>
    PROVE  ToSet(s) = {Head(s)} \cup ToSet(Tail(s))
<1>1. /\ Tail(s) \in Seq(S) /\ Len(Tail(s)) = Len(s) - 1
      /\ \A i \in 1 .. Len(Tail(s)) : Tail(s)[i] = s[i + 1]
      /\ Len(s) \in Nat \ {0} /\ Head(s) = s[1]
  BY HeadTailProperties, EmptySeq
<1>2. DOMAIN s = 1 .. Len(s) /\ DOMAIN Tail(s) = 1 .. Len(s) - 1
  BY <1>1
<1>3. \A i \in DOMAIN s : s[i] = Head(s) \/ (i - 1 \in DOMAIN Tail(s) /\ s[i] = Tail(s)[i - 1])
  BY <1>1, <1>2
<1>4. \A i \in DOMAIN Tail(s) : i + 1 \in DOMAIN s /\ Tail(s)[i] = s[i + 1]
  BY <1>1, <1>2
<1>5. 1 \in DOMAIN s
  BY <1>1, <1>2
<1> QED BY <1>1, <1>3, <1>4, <1>5 DEF ToSet

\* A queue is cut into the bundle and what is left.
LEMMA BundleAndRest ==
    ASSUME NEW queue \in Seq(Caps), queue # <<>>
    PROVE  /\ FirstBundle(queue) \in Seq(Caps) /\ Len(FirstBundle(queue)) \in 1 .. MaxBundle
           /\ WithoutTheBundle(queue) \in Seq(Caps)
           /\ ToSet(queue) = ToSet(FirstBundle(queue)) \cup ToSet(WithoutTheBundle(queue))
<1> DEFINE n == Len(queue)
           m == IF n < MaxBundle THEN n ELSE MaxBundle
<1>1. n \in Nat \ {0} /\ m \in 1 .. n /\ m <= MaxBundle /\ MaxBundle \in Nat
  BY EmptySeq, CapsAssumption
<1>2. \A i \in 1 .. n : queue[i] \in Caps
  BY ElementOfSeq
<1>3. FirstBundle(queue) = SubSeq(queue, 1, m)
  BY DEF FirstBundle
<1>4. FirstBundle(queue) \in Seq(Caps) /\ Len(FirstBundle(queue)) = m
  <2> HIDE DEF m
  <2>1. SubSeq(queue, 1, m) \in Seq(Caps) /\ Len(SubSeq(queue, 1, m)) = m - 1 + 1
    BY <1>1, <1>2, SubSeqProperties
  <2> QED BY <1>1, <1>3, <2>1
<1>5. WithoutTheBundle(queue) = SubSeq(queue, m + 1, n) /\ SubSeq(queue, m + 1, n) \in Seq(Caps)
  <2> HIDE DEF m
  <2>1. SubSeq(queue, m + 1, n) \in Seq(Caps)
    BY <1>1, <1>2, SubSeqProperties
  <2> QED BY <1>4, <2>1 DEF WithoutTheBundle
<1>6. queue = FirstBundle(queue) \o WithoutTheBundle(queue)
  <2>1. m \in 1 - 1 .. Len(queue) /\ 1 \in 1 .. Len(queue) + 1 /\ n \in m .. Len(queue)
    BY <1>1
  <2> HIDE DEF m
  <2>2. SubSeq(queue, 1, m) \o SubSeq(queue, m + 1, n) = SubSeq(queue, 1, n)
    BY <2>1, ConcatAdjacentSubSeq
  <2>3. SubSeq(queue, 1, n) = queue
    BY SubSeqFull
  <2> QED BY <1>3, <1>5, <2>2, <2>3
<1>7. ToSet(queue) = ToSet(FirstBundle(queue)) \cup ToSet(WithoutTheBundle(queue))
  <2>1. FirstBundle(queue) \in Seq(Caps) /\ WithoutTheBundle(queue) \in Seq(Caps)
    BY <1>4, <1>5
  <2>2. ToSet(FirstBundle(queue) \o WithoutTheBundle(queue))
           = ToSet(FirstBundle(queue)) \cup ToSet(WithoutTheBundle(queue))
    BY ONLY <2>1, ConcatElements
  <2> QED BY <1>6, <2>2
<1>8. m \in 1 .. MaxBundle
  BY <1>1
<1> HIDE DEF m
<1> QED BY <1>4, <1>5, <1>7, <1>8

----------------------------------------------------------------------------
(* The lines, and what a handler works on.                                  *)

Requests == [cmd : {"LS", "REQ", "AUTHENTICATE", "CREDENTIALS", "END"},
             caps : SUBSET Caps, more : BOOLEAN]
Said == {line \in Requests : line.cmd # "LS"}
Replies == [cmd : {"LS", "NEW", "ACK", "NAK", "DEL", "AUTHENTICATE", "SASLREPLY", "WELCOME"},
            caps : SUBSET Caps, more : BOOLEAN]
Records == {s \in Seq(Caps) : Len(s) < MaxBundle}
Clients == [caps : SUBSET Caps, on : SUBSET Caps, individual : Seq(Caps), bundled : Seq(Caps),
            last : Records, active : BOOLEAN, ended : BOOLEAN, out : Seq(Said)]

Wanted == IF useSasl THEN Caps ELSE Caps \ {Sasl}
Once(queue) == \A i, j \in DOMAIN queue : queue[i] = Sasl /\ queue[j] = Sasl => i = j

\* addCap() and serverCapAdded() queue what is wanted and was not listed before.
LEMMA AddCapsIs ==
    ASSUME NEW c \in Clients, NEW names, names \subseteq Caps
    PROVE  LET r == AddCaps(c, names)
               new == (names \ c.caps) \cap Wanted
           IN  /\ r \in Clients
               /\ r.caps = c.caps \cup names /\ r.on = c.on
               /\ r.last = c.last /\ r.ended = c.ended /\ r.out = c.out
               /\ ToSet(r.individual) = ToSet(c.individual) \cup (new \cap {Sasl})
               /\ ToSet(r.bundled) = ToSet(c.bundled) \cup (new \ {Sasl})
               /\ Once(c.individual) => Once(r.individual)
<1> DEFINE added == names \ c.caps
           wanted == IF useSasl THEN added ELSE added \ {Sasl}
           alone == (wanted \cap {Sasl}) \ ToSet(c.individual)
           together == (wanted \ {Sasl}) \ ToSet(c.bundled)
           r == AddCaps(c, names)
           one == InOrder(alone)
           more == InOrder(together)
<1>1. Sasl \in Caps /\ wanted = (names \ c.caps) \cap Wanted
  BY CapsAssumption DEF Wanted
<1>2. alone \subseteq Caps /\ together \subseteq Caps
  BY <1>1
<1>3. one \in Seq(Caps) /\ ToSet(one) = alone /\ \A i, j \in DOMAIN one : one[i] = one[j] => i = j
  <2> HIDE DEF alone
  <2> QED BY <1>2, NamesInOrder
<1>4. more \in Seq(Caps) /\ ToSet(more) = together
  <2> HIDE DEF together
  <2> QED BY <1>2, NamesInOrder
<1>5. c.individual \in Seq(Caps) /\ c.bundled \in Seq(Caps)
  BY DEF Clients
<1>6. r = [c EXCEPT !.caps = c.caps \cup names, !.individual = c.individual \o one,
                    !.bundled = c.bundled \o more]
  BY DEF AddCaps
<1>7. c.individual \o one \in Seq(Caps) /\ c.bundled \o more \in Seq(Caps)
  <2> HIDE DEF one, more
  <2> QED BY <1>3, <1>4, <1>5, ConcatProperties
<1>8. /\ r \in Clients
      /\ r.caps = c.caps \cup names /\ r.on = c.on
      /\ r.last = c.last /\ r.ended = c.ended /\ r.out = c.out
      /\ r.individual = c.individual \o one /\ r.bundled = c.bundled \o more
  <2> HIDE DEF one, more, r
  <2> QED BY <1>6, <1>7 DEF Clients
<1>9. ToSet(c.individual \o one) = ToSet(c.individual) \cup alone
  <2> HIDE DEF one, alone
  <2> QED BY <1>3, <1>5, ConcatElements
<1>10. ToSet(c.bundled \o more) = ToSet(c.bundled) \cup together
  <2> HIDE DEF more, together
  <2> QED BY <1>4, <1>5, ConcatElements
<1>11. Once(c.individual) => Once(c.individual \o one)
  <2> DEFINE s == c.individual \o one
  <2> SUFFICES ASSUME Once(c.individual), NEW i \in DOMAIN s, NEW j \in DOMAIN s,
                      s[i] = Sasl, s[j] = Sasl
               PROVE  i = j
    BY DEF Once
  <2> DEFINE n == Len(c.individual)
  <2>1. /\ n \in Nat /\ Len(one) \in Nat /\ DOMAIN s = 1 .. n + Len(one)
        /\ DOMAIN c.individual = 1 .. n /\ DOMAIN one = 1 .. Len(one)
        /\ \A k \in 1 .. n + Len(one) : s[k] = IF k <= n THEN c.individual[k] ELSE one[k - n]
    <3> HIDE DEF one
    <3> QED BY <1>3, <1>5, ConcatProperties
  <2>2. Sasl \in ToSet(c.individual) => Len(one) = 0
    <3>1. SUFFICES ASSUME Sasl \in ToSet(c.individual) PROVE DOMAIN one = {}
      BY <2>1
    <3>2. alone = {}
      BY <3>1
    <3> HIDE DEF one, alone
    <3> QED BY <1>3, <3>2 DEF ToSet
  <2> HIDE DEF s, one, alone, n
  <2>3. CASE i <= n
    <3>1. c.individual[i] = Sasl /\ i \in DOMAIN c.individual
      BY <2>1, <2>3
    <3>2. Len(one) = 0
      BY <2>2, <3>1 DEF ToSet
    <3>3. j <= n /\ j \in DOMAIN c.individual /\ c.individual[j] = Sasl
      BY <2>1, <3>2
    <3> QED BY <3>1, <3>3 DEF Once
  <2>4. CASE j <= n
    <3>1. c.individual[j] = Sasl /\ j \in DOMAIN c.individual
      BY <2>1, <2>4
    <3>2. Len(one) = 0
      BY <2>2, <3>1 DEF ToSet
    <3>3. i <= n /\ i \in DOMAIN c.individual /\ c.individual[i] = Sasl
      BY <2>1, <3>2
    <3> QED BY <3>1, <3>3 DEF Once
  <2>5. CASE i > n /\ j > n
    <3>1. /\ i - n \in DOMAIN one /\ j - n \in DOMAIN one
          /\ one[i - n] = Sasl /\ one[j - n] = Sasl
      BY <2>1, <2>5
    <3>2. i - n = j - n
      BY <1>3, <3>1
    <3> QED BY <2>1, <3>2
  <2> QED BY <2>1, <2>3, <2>4, <2>5
<1>12. /\ ToSet(c.individual) \cup alone = ToSet(c.individual) \cup (wanted \cap {Sasl})
       /\ ToSet(c.bundled) \cup together = ToSet(c.bundled) \cup (wanted \ {Sasl})
  OBVIOUS
<1> HIDE DEF one, more, alone, together, wanted, r
<1> QED BY <1>1, <1>8, <1>9, <1>10, <1>11, <1>12 DEF r

\* A request takes names out of the queues, which keep the others.
Requested(c, r, m) ==
    /\ InProgress(c)
    /\ m \in Said /\ m.cmd = "REQ"
    /\ r.out = Append(c.out, m) /\ r.ended = c.ended
    /\ ToSet(c.individual) \cup ToSet(c.bundled) = m.caps \cup ToSet(r.individual) \cup ToSet(r.bundled)
    /\ ToSet(r.individual) \subseteq ToSet(c.individual)
    /\ ToSet(r.bundled) \cup ToSet(r.last) \subseteq ToSet(c.bundled)
    /\ Once(c.individual) => Once(r.individual)
    /\ Once(c.individual) /\ Sasl \notin ToSet(c.bundled) /\ Sasl \in m.caps =>
          Sasl \in ToSet(c.individual) /\ Sasl \notin ToSet(r.individual)

Ended(c, r) ==
    /\ ~InProgress(c)
    /\ r.individual = <<>> /\ r.bundled = <<>> /\ r.last = c.last /\ r.ended
    /\ r.out = IF c.ended THEN c.out ELSE Append(c.out, Line("END"))

Sent(c, r) ==
    /\ r \in Clients /\ r.caps = c.caps /\ r.on = c.on
    /\ (\E m \in Said : Requested(c, r, m)) \/ Ended(c, r)

\* Every request, and the end of the negotiation, is one of the two.
LEMMA RequestQueuedCapsIs ==
    ASSUME NEW c \in Clients, InProgress(c)
    PROVE  Sent(c, RequestQueuedCaps(c))
<1> DEFINE r == RequestQueuedCaps(c)
<1>1. c.individual \in Seq(Caps) /\ c.bundled \in Seq(Caps) /\ c.out \in Seq(Said)
  BY DEF Clients
<1>2. <<>> \in Records
  BY CapsAssumption DEF Records
<1>3. CASE c.individual # <<>>
  <2> DEFINE m == Message("REQ", {Head(c.individual)}, FALSE)
  <2>1. /\ Head(c.individual) \in Caps /\ Tail(c.individual) \in Seq(Caps)
        /\ ToSet(c.individual) = {Head(c.individual)} \cup ToSet(Tail(c.individual))
    BY <1>1, <1>3, HeadTailProperties, HeadAndTailElements
  <2>2. m \in Said /\ m.cmd = "REQ" /\ m.caps = {Head(c.individual)}
    BY <2>1 DEF Message, Said, Requests
  <2>3. r = [c EXCEPT !.last = <<>>, !.individual = Tail(c.individual), !.out = Append(c.out, m)]
    BY <1>3 DEF RequestQueuedCaps
  <2>4. Append(c.out, m) \in Seq(Said)
    BY <1>1, <2>2, AppendProperties
  <2>5. /\ r \in Clients /\ r.caps = c.caps /\ r.on = c.on /\ r.ended = c.ended
        /\ r.last = <<>> /\ r.individual = Tail(c.individual) /\ r.bundled = c.bundled
        /\ r.out = Append(c.out, m)
    <3> HIDE DEF r, m
    <3> QED BY <1>2, <2>1, <2>3, <2>4 DEF Clients
  <2>6. /\ Once(c.individual) => Once(Tail(c.individual))
        /\ Once(c.individual) /\ Head(c.individual) = Sasl => Sasl \notin ToSet(Tail(c.individual))
    <3>1. /\ Len(c.individual) \in Nat \ {0} /\ DOMAIN c.individual = 1 .. Len(c.individual)
          /\ DOMAIN Tail(c.individual) = 1 .. Len(c.individual) - 1
          /\ \A i \in 1 .. Len(c.individual) - 1 : Tail(c.individual)[i] = c.individual[i + 1]
          /\ Head(c.individual) = c.individual[1]
      BY <1>1, <1>3, HeadTailProperties, EmptySeq
    <3>2. \A i \in DOMAIN Tail(c.individual) :
             i + 1 \in DOMAIN c.individual /\ i + 1 # 1 /\ c.individual[i + 1] = Tail(c.individual)[i]
      BY <3>1
    <3>3. ASSUME Once(c.individual) PROVE Once(Tail(c.individual))
      <4> SUFFICES ASSUME NEW i \in DOMAIN Tail(c.individual), NEW j \in DOMAIN Tail(c.individual),
                          Tail(c.individual)[i] = Sasl, Tail(c.individual)[j] = Sasl
                   PROVE  i = j
        BY DEF Once
      <4>1. i + 1 = j + 1
        BY <3>2, <3>3 DEF Once
      <4> QED BY <3>1, <4>1
    <3>4. ASSUME Once(c.individual), Head(c.individual) = Sasl, Sasl \in ToSet(Tail(c.individual))
          PROVE  FALSE
      <4>1. PICK i \in DOMAIN Tail(c.individual) : Tail(c.individual)[i] = Sasl
        BY <3>4 DEF ToSet
      <4> QED BY <3>1, <3>2, <3>4, <4>1 DEF Once
    <3> QED BY <3>3, <3>4
  <2>7. ToSet(<<>>) = {}
    BY DEF ToSet
  <2> HIDE DEF r, m
  <2>8. Requested(c, r, m)
    BY <2>1, <2>2, <2>5, <2>6, <2>7 DEF Requested
  <2> QED BY <2>2, <2>5, <2>8 DEF Sent, r
<1>4. CASE c.individual = <<>>
  <2> DEFINE bundle == FirstBundle(c.bundled)
             m == Message("REQ", ToSet(bundle), FALSE)
  <2>1. c.bundled # <<>>
    BY <1>4 DEF InProgress
  <2>2. /\ bundle \in Seq(Caps) /\ Len(bundle) \in 1 .. MaxBundle
        /\ WithoutTheBundle(c.bundled) \in Seq(Caps)
        /\ ToSet(c.bundled) = ToSet(bundle) \cup ToSet(WithoutTheBundle(c.bundled))
    BY <1>1, <2>1, BundleAndRest
  <2>3. ToSet(bundle) \subseteq Caps
    <3>1. \A i \in 1 .. Len(c.bundled) : c.bundled[i] \in Caps
      BY <1>1, ElementOfSeq
    <3>2. ToSet(c.bundled) \subseteq Caps
      BY <1>1, <3>1 DEF ToSet
    <3> QED BY <2>2, <3>2
  <2> HIDE DEF bundle
  <2>4. m \in Said /\ m.cmd = "REQ" /\ m.caps = ToSet(bundle)
    BY <2>3 DEF Message, Said, Requests
  <2>5. bundle # <<>>
    BY <2>2, EmptySeq
  <2>6. Tail(bundle) \in Records /\ ToSet(Tail(bundle)) \subseteq ToSet(bundle)
    BY <2>2, <2>5, HeadTailProperties, HeadAndTailElements, CapsAssumption DEF Records
  <2>7. r = [c EXCEPT !.last = Tail(bundle), !.bundled = WithoutTheBundle(c.bundled),
                      !.out = Append(c.out, m)]
    BY <1>4 DEF RequestQueuedCaps, RecordOf, bundle
  <2>8. Append(c.out, m) \in Seq(Said)
    BY <1>1, <2>4, AppendProperties
  <2>9. /\ r \in Clients /\ r.caps = c.caps /\ r.on = c.on /\ r.ended = c.ended
        /\ r.last = Tail(bundle) /\ r.individual = c.individual
        /\ r.bundled = WithoutTheBundle(c.bundled) /\ r.out = Append(c.out, m)
    <3> HIDE DEF r, m
    <3> QED BY <2>2, <2>6, <2>7, <2>8 DEF Clients
  <2>10. ToSet(c.individual) = {}
    BY <1>4 DEF ToSet
  <2> HIDE DEF r, m
  <2>11. Requested(c, r, m)
    BY <2>2, <2>4, <2>6, <2>9, <2>10 DEF Requested
  <2> QED BY <2>4, <2>9, <2>11 DEF Sent, r
<1> QED BY <1>3, <1>4

LEMMA EndCapNegotiationIs ==
    ASSUME NEW c \in Clients, ~InProgress(c), NEW active_ \in BOOLEAN
    PROVE  Sent(c, EndCapNegotiation([c EXCEPT !.active = active_]))
<1> DEFINE d == [c EXCEPT !.active = active_]
           r == EndCapNegotiation(d)
<1>1. /\ d \in Clients /\ d.caps = c.caps /\ d.on = c.on /\ d.last = c.last /\ d.ended = c.ended
      /\ d.out = c.out /\ d.individual = <<>> /\ d.bundled = <<>>
  BY DEF Clients, InProgress
<1>2. Line("END") \in Said
  BY DEF Line, Message, Said, Requests
<1>3. Append(d.out, Line("END")) \in Seq(Said)
  BY <1>1, <1>2, AppendProperties DEF Clients
<1>4. r = IF d.ended THEN d ELSE [d EXCEPT !.out = Append(d.out, Line("END")), !.ended = TRUE]
  BY DEF EndCapNegotiation
<1> HIDE DEF d, r
<1>5. /\ r \in Clients /\ r.caps = d.caps /\ r.on = d.on /\ r.last = d.last /\ r.ended
      /\ r.out = (IF d.ended THEN d.out ELSE Append(d.out, Line("END")))
      /\ r.individual = d.individual /\ r.bundled = d.bundled
  BY <1>1, <1>3, <1>4 DEF Clients
<1>6. Ended(c, r) /\ r.caps = c.caps /\ r.on = c.on
  BY <1>1, <1>5 DEF Ended
<1> QED BY <1>5, <1>6 DEF Sent, r, d

LEMMA SendNextCapIs ==
    ASSUME NEW c \in Clients
    PROVE  Sent(c, SendNextCap(c))
BY RequestQueuedCapsIs, EndCapNegotiationIs DEF SendNextCap

LEMMA BeginCapNegotiationIs ==
    ASSUME NEW c \in Clients
    PROVE  Sent(c, BeginCapNegotiation(c))
<1>1. CASE InProgress(c)
  <2> DEFINE d == [c EXCEPT !.active = TRUE]
  <2>1. /\ d \in Clients /\ d.caps = c.caps /\ d.on = c.on /\ d.last = c.last /\ d.ended = c.ended
        /\ d.out = c.out /\ d.individual = c.individual /\ d.bundled = c.bundled
    BY DEF Clients
  <2>2. InProgress(d)
    BY <1>1, <2>1 DEF InProgress
  <2>3. BeginCapNegotiation(c) = SendNextCap(d)
    BY <1>1 DEF BeginCapNegotiation
  <2> HIDE DEF d
  <2>4. Sent(d, SendNextCap(d))
    BY <2>1, SendNextCapIs
  <2> QED BY <2>1, <2>2, <2>3, <2>4 DEF Sent, Requested, Ended, InProgress
<1>2. CASE ~InProgress(c)
  <2>1. c.active \in BOOLEAN /\ [c EXCEPT !.active = c.active] = c
    BY DEF Clients
  <2>2. Sent(c, EndCapNegotiation(c))
    BY <1>2, <2>1, EndCapNegotiationIs
  <2> QED BY <1>2, <2>2 DEF BeginCapNegotiation
<1> QED BY <1>1, <1>2

----------------------------------------------------------------------------
(* What the handlers do.                                                    *)

\* The variables and the lines under way have their types; nothing is on that the
\* server would refuse.
Typed ==
    /\ TypeOK
    /\ toServer \in Seq(Requests) /\ toClient \in Seq(Replies)
    /\ enabled \cap refused = {}

\* A line is taken and the core's variables become those of r.
Takes(r) ==
    /\ toClient # <<>> /\ toClient' = Tail(toClient)
    /\ r \in Clients
    /\ caps' = r.caps /\ capsEnabled' = r.on
    /\ individual' = r.individual /\ bundled' = r.bundled /\ lastBundle' = r.last
    /\ active' = r.active /\ ended' = r.ended
    /\ toServer' = toServer \o r.out
    /\ UNCHANGED <<userVars, serverVars, changes, connections>>

LEMMA ClientIs ==
    ASSUME Typed
    PROVE  /\ Client \in Clients
           /\ Client.caps = caps /\ Client.on = capsEnabled
           /\ Client.individual = individual /\ Client.bundled = bundled
           /\ Client.last = lastBundle /\ Client.ended = ended /\ Client.out = <<>>
<1>1. lastBundle \in Records
  BY DEF Typed, TypeOK, Records
<1> QED BY <1>1 DEF Typed, TypeOK, Clients, Client

\* The next line for the core.
LEMMA LineIs ==
    ASSUME Typed, toClient # <<>>
    PROVE  /\ Head(toClient) \in Replies /\ Head(toClient) = toClient[1]
           /\ Tail(toClient) \in Seq(Replies) /\ Len(toClient) \in Nat \ {0}
           /\ Len(Tail(toClient)) = Len(toClient) - 1
           /\ \A i \in 1 .. Len(toClient) - 1 : Tail(toClient)[i] = toClient[i + 1]
BY HeadTailProperties, EmptySeq DEF Typed

\* processIrcEventCap() for LS and NEW.
LEMMA ListHandled ==
    ASSUME Typed, HandleList
    PROVE  LET m == Head(toClient)
               a == AddCaps(Client, m.caps)
           IN  \E r : /\ Takes(r) /\ m.cmd \in {"LS", "NEW"}
                      /\ IF m.more THEN r = a ELSE Sent(a, r)
                      /\ UNCHANGED <<saslDone, deniedVars>>
<1> DEFINE m == Head(toClient)
           a == AddCaps(Client, m.caps)
           r == AfterList(m)
<1>1. toClient # <<>> /\ m.cmd \in {"LS", "NEW"} /\ toClient' = Tail(toClient)
  BY DEF HandleList, Receive
<1>2. m \in Replies
  BY <1>1, LineIs
<1>3. m.caps \subseteq Caps /\ m.more \in BOOLEAN
  <2> HIDE DEF m
  <2> QED BY <1>2 DEF Replies
<1>4. a \in Clients
  <2> HIDE DEF m
  <2> QED BY <1>3, ClientIs, AddCapsIs
<1>5. r = IF m.more THEN a ELSE BeginCapNegotiation(a)
  BY DEF AfterList
<1>6. r \in Clients /\ IF m.more THEN r = a ELSE Sent(a, r)
  <2> HIDE DEF m, a, r
  <2>1. Sent(a, BeginCapNegotiation(a))
    BY <1>4, BeginCapNegotiationIs
  <2> QED BY <1>3, <1>4, <1>5, <2>1 DEF Sent
<1>7. Becomes(r) /\ UNCHANGED <<userVars, serverVars, changes, connections, saslDone, deniedVars>>
  BY DEF HandleList
<1> HIDE DEF m, a, r
<1>8. Takes(r)
  BY <1>1, <1>6, <1>7 DEF Takes, Becomes
<1> QED BY <1>1, <1>6, <1>7, <1>8 DEF m, a

\* ... for ACK.
LEMMA AckHandled ==
    ASSUME Typed, HandleAck
    PROVE  LET m == Head(toClient)
               a == AcknowledgeCaps(Client, m.caps)
           IN  \E r : /\ Takes(r) /\ m.cmd = "ACK"
                      /\ skipped' = skipped /\ unlisted' = unlisted \cup (m.caps \ caps)
                      /\ saslDone' \in BOOLEAN /\ (saslDone => saslDone')
                      /\ \/ Sent(a, r) /\ saslDone' = (saslDone \/ Sasl \in m.caps)
                         \/ Sasl \in m.caps \cap capsEnabled /\ r = a
                         \/ Sasl \in m.caps \ capsEnabled /\ r = [a EXCEPT !.out = <<Line("AUTHENTICATE")>>]
<1> DEFINE m == Head(toClient)
           a == AcknowledgeCaps(Client, m.caps)
           r == AfterAck(a, m.caps, Client)
<1>1. toClient # <<>> /\ m.cmd = "ACK" /\ toClient' = Tail(toClient)
  BY DEF HandleAck, Receive
<1>2. m \in Replies
  BY <1>1, LineIs
<1>3. m.caps \subseteq Caps
  <2> HIDE DEF m
  <2> QED BY <1>2 DEF Replies
<1>4. a = [Client EXCEPT !.on = capsEnabled \cup m.caps]
  BY ClientIs DEF AcknowledgeCaps
<1>5. a \in Clients /\ a.out = <<>>
  <2> HIDE DEF m, a
  <2> QED BY <1>3, <1>4, ClientIs DEF Clients
<1>6. Becomes(r) /\ UNCHANGED <<userVars, serverVars, changes, connections, skipped>>
      /\ unlisted' = unlisted \cup (m.caps \ caps)
      /\ saslDone' = (saslDone \/ (Sasl \in m.caps /\ ~MaybeSupports(Client)))
  BY DEF HandleAck
<1>7. Append(a.out, Line("AUTHENTICATE")) = <<Line("AUTHENTICATE")>>
  <2> DEFINE line == Line("AUTHENTICATE")
  <2> HIDE DEF a, line
  <2>1. Append(<<>>, line) = <<line>>
    OBVIOUS
  <2> QED BY <1>5, <2>1 DEF line
<1>8. Sent(a, SendNextCap(a))
  BY <1>5, SendNextCapIs
<1>9. \/ Sent(a, r) /\ Sasl \notin m.caps
      \/ Sent(a, r) /\ Sasl \in m.caps /\ ~MaybeSupports(Client)
      \/ Sasl \in m.caps \cap capsEnabled /\ r = a
      \/ Sasl \in m.caps \ capsEnabled /\ r = [a EXCEPT !.out = <<Line("AUTHENTICATE")>>]
  <2>1. CASE Sasl \notin m.caps
    <3>1. r = SendNextCap(a)
      BY <2>1 DEF AfterAck
    <3> HIDE DEF r, a, m
    <3> QED BY <1>8, <2>1, <3>1
  <2>2. CASE Sasl \in m.caps \cap capsEnabled
    <3>1. r = a
      BY <2>2, ClientIs DEF AfterAck
    <3> QED BY <2>2, <3>1
  <2>3. CASE Sasl \in m.caps \ capsEnabled /\ MaybeSupports(Client)
    <3>1. r = [a EXCEPT !.out = Append(a.out, Line("AUTHENTICATE"))]
      BY <2>3, ClientIs DEF AfterAck
    <3> HIDE DEF r, a, m
    <3> QED BY <1>7, <2>3, <3>1
  <2>4. CASE Sasl \in m.caps \ capsEnabled /\ ~MaybeSupports(Client)
    <3>1. r = SendNextCap(a)
      BY <2>4, ClientIs DEF AfterAck
    <3> HIDE DEF r, a, m
    <3> QED BY <1>8, <2>4, <3>1
  <2> QED BY <2>1, <2>2, <2>3, <2>4
<1>10. <<Line("AUTHENTICATE")>> \in Seq(Said)
  BY DEF Line, Message, Said, Requests
<1> HIDE DEF m, a, r
<1>11. r \in Clients
  BY <1>5, <1>9, <1>10 DEF Sent, Clients
<1>12. Takes(r)
  BY <1>1, <1>6, <1>11 DEF Takes, Becomes
<1>13. saslDone \in BOOLEAN
  BY DEF Typed, TypeOK
<1>14. saslDone' \in BOOLEAN /\ (saslDone => saslDone')
  BY <1>6, <1>13
<1>15. Sent(a, r) /\ (Sasl \notin m.caps \/ (Sasl \in m.caps /\ ~MaybeSupports(Client)))
         => saslDone' = (saslDone \/ Sasl \in m.caps)
  BY <1>6, <1>13
<1> QED BY <1>1, <1>6, <1>9, <1>12, <1>14, <1>15 DEF m, a

\* What SendNextCap() starts from after a denial.
Denied(b) ==
    LET names == Head(toClient).caps
    IN  /\ b \in Clients /\ b.caps = caps \ names /\ b.on = capsEnabled \ (names \cap caps)
        /\ b.bundled = bundled /\ b.ended = ended /\ b.out = <<>>
        /\ IF Cardinality(names) > 1 THEN b.individual = individual \o lastBundle /\ b.last = <<>>
                                     ELSE b.individual = individual /\ b.last = lastBundle

LEMMA RemoveCapsIs ==
    ASSUME Typed, NEW names, names \subseteq Caps
    PROVE  LET b == RemoveCaps(Client, names)
           IN  /\ b \in Clients /\ b.caps = caps \ names /\ b.on = capsEnabled \ (names \cap caps)
               /\ b.individual = individual /\ b.bundled = bundled /\ b.last = lastBundle
               /\ b.ended = ended /\ b.out = <<>>
<1>1. RemoveCaps(Client, names)
        = [Client EXCEPT !.caps = caps \ names, !.on = capsEnabled \ (names \cap caps)]
  BY ClientIs DEF RemoveCaps
<1> QED BY <1>1, ClientIs DEF Clients

\* What of a denied bundle is not asked for again.
Skipped(m) == IF Cardinality(m.caps) > 1 THEN m.caps \ ToSet(lastBundle) ELSE {}

\* ... for NAK.
LEMMA NakHandled ==
    ASSUME Typed, HandleNak
    PROVE  LET m == Head(toClient)
           IN  \E r, b : /\ Takes(r) /\ m.cmd = "NAK" /\ Denied(b) /\ Sent(b, r)
                         /\ saslDone' = (saslDone \/ Sasl \in m.caps)
                         /\ skipped' = skipped \cup Skipped(m) /\ unlisted' = unlisted
<1> DEFINE m == Head(toClient)
           a == RemoveCaps(Client, m.caps)
           b == IF Cardinality(m.caps) > 1 THEN RetryCapsIndividually(a) ELSE a
           r == AfterNak(a, m.caps)
<1>1. toClient # <<>> /\ m.cmd = "NAK" /\ toClient' = Tail(toClient)
  BY DEF HandleNak, Receive
<1>2. m \in Replies
  BY <1>1, LineIs
<1>3. m.caps \subseteq Caps
  <2> HIDE DEF m
  <2> QED BY <1>2 DEF Replies
<1>4. /\ a \in Clients /\ a.caps = caps \ m.caps /\ a.on = capsEnabled \ (m.caps \cap caps)
      /\ a.individual = individual /\ a.bundled = bundled /\ a.last = lastBundle
      /\ a.ended = ended /\ a.out = <<>>
  <2> HIDE DEF m
  <2> QED BY <1>3, RemoveCapsIs
<1>5. individual \o lastBundle \in Seq(Caps) /\ <<>> \in Records
  BY ConcatProperties, CapsAssumption DEF Typed, TypeOK, Records
<1>6. Denied(b)
  <2>1. RetryCapsIndividually(a) = [a EXCEPT !.individual = individual \o lastBundle, !.last = <<>>]
    <3> HIDE DEF a, m
    <3> QED BY <1>4 DEF RetryCapsIndividually
  <2>2. b = IF Cardinality(m.caps) > 1
            THEN [a EXCEPT !.individual = individual \o lastBundle, !.last = <<>>] ELSE a
    BY <2>1
  <2> HIDE DEF a, b
  <2> QED BY <1>4, <1>5, <2>2 DEF Denied, Clients
<1>7. Sent(b, r)
  <2>1. r = SendNextCap(b)
    BY DEF AfterNak
  <2> HIDE DEF b, r
  <2> QED BY <1>6, <2>1, SendNextCapIs DEF Denied
<1>8. Becomes(r) /\ UNCHANGED <<userVars, serverVars, changes, connections>>
      /\ saslDone' = (saslDone \/ Sasl \in m.caps)
      /\ skipped' = skipped \cup Skipped(m) /\ unlisted' = unlisted
  BY DEF HandleNak, Skipped
<1> HIDE DEF m, a, b, r
<1>9. Takes(r)
  BY <1>1, <1>7, <1>8 DEF Takes, Becomes, Sent
<1> QED BY <1>1, <1>6, <1>7, <1>8, <1>9 DEF m

\* ... and for DEL.
LEMMA DelHandled ==
    ASSUME Typed, HandleDel
    PROVE  LET m == Head(toClient)
           IN  \E r : /\ Takes(r) /\ m.cmd = "DEL"
                      /\ r.caps = caps \ m.caps /\ r.on = capsEnabled \ (m.caps \cap caps)
                      /\ r.individual = individual /\ r.bundled = bundled /\ r.last = lastBundle
                      /\ r.ended = ended /\ r.out = <<>>
                      /\ UNCHANGED <<saslDone, deniedVars>>
<1> DEFINE m == Head(toClient)
           r == RemoveCaps(Client, m.caps)
<1>1. toClient # <<>> /\ m.cmd = "DEL" /\ toClient' = Tail(toClient)
  BY DEF HandleDel, Receive
<1>2. m.caps \subseteq Caps
  <2>1. m \in Replies
    BY <1>1, LineIs
  <2> HIDE DEF m
  <2> QED BY <2>1 DEF Replies
<1>3. /\ r \in Clients /\ r.caps = caps \ m.caps /\ r.on = capsEnabled \ (m.caps \cap caps)
      /\ r.individual = individual /\ r.bundled = bundled /\ r.last = lastBundle
      /\ r.ended = ended /\ r.out = <<>>
  <2> HIDE DEF m
  <2> QED BY <1>2, RemoveCapsIs
<1>4. Becomes(r) /\ UNCHANGED <<userVars, serverVars, changes, connections, saslDone, deniedVars>>
  BY DEF HandleDel
<1> HIDE DEF m, r
<1>5. Takes(r)
  BY <1>1, <1>3, <1>4 DEF Takes, Becomes
<1> QED BY <1>1, <1>3, <1>4, <1>5 DEF m

\* The lines of an authentication, and the welcome.
LEMMA OthersHandled ==
    ASSUME Typed, HandleAuthenticate \/ HandleSaslReply \/ HandleWelcome
    PROVE  LET m == Head(toClient)
           IN  \E r : /\ Takes(r) /\ UNCHANGED deniedVars /\ saslDone' \in BOOLEAN
                      /\ r.caps = caps /\ r.on = capsEnabled
                      /\ \/ /\ m.cmd = "AUTHENTICATE" /\ r = [Client EXCEPT !.out = <<Line("CREDENTIALS")>>]
                            /\ saslDone' = saslDone
                         \/ m.cmd = "SASLREPLY" /\ Sent(Client, r) /\ saslDone'
                         \/ m.cmd = "WELCOME" /\ r = Client /\ saslDone' = saslDone
<1> DEFINE m == Head(toClient)
<1>1. toClient # <<>> /\ toClient' = Tail(toClient)
  BY DEF HandleAuthenticate, HandleSaslReply, HandleWelcome, Receive
<1>2. UNCHANGED <<userVars, serverVars, changes, connections, deniedVars>>
  BY DEF HandleAuthenticate, HandleSaslReply, HandleWelcome
<1>3. saslDone \in BOOLEAN
  BY DEF Typed, TypeOK
<1>4. CASE HandleAuthenticate
  <2> DEFINE r == [Client EXCEPT !.out = <<Line("CREDENTIALS")>>]
  <2>1. m.cmd = "AUTHENTICATE" /\ Becomes(r) /\ saslDone' = saslDone
    BY <1>4 DEF HandleAuthenticate, Receive
  <2>2. <<Line("CREDENTIALS")>> \in Seq(Said)
    BY DEF Line, Message, Said, Requests
  <2>3. r \in Clients /\ r.caps = caps /\ r.on = capsEnabled
    BY <2>2, ClientIs DEF Clients
  <2>4. Takes(r)
    <3> HIDE DEF r
    <3> QED BY <1>1, <1>2, <2>1, <2>3 DEF Takes, Becomes
  <2> QED BY <1>2, <1>3, <2>1, <2>3, <2>4
<1>5. CASE HandleSaslReply
  <2> DEFINE r == SendNextCap(Client)
  <2>1. m.cmd = "SASLREPLY" /\ Becomes(r) /\ saslDone' = TRUE
    BY <1>5 DEF HandleSaslReply, Receive
  <2>2. Sent(Client, r)
    BY ClientIs, SendNextCapIs
  <2>3. r.caps = caps /\ r.on = capsEnabled /\ r \in Clients
    BY <2>2, ClientIs DEF Sent
  <2>4. Takes(r)
    <3> HIDE DEF r
    <3> QED BY <1>1, <1>2, <2>1, <2>3 DEF Takes, Becomes
  <2> HIDE DEF r, m
  <2> QED BY <1>2, <1>3, <2>1, <2>2, <2>3, <2>4 DEF m
<1>6. CASE HandleWelcome
  <2> DEFINE r == Client
  <2>1. m.cmd = "WELCOME" /\ saslDone' = saslDone /\ UNCHANGED <<clientVars, toServer>>
    BY <1>6 DEF HandleWelcome, Receive
  <2>2. toServer \o <<>> = toServer
    BY DEF Typed
  <2>3. Takes(r) /\ r.caps = caps /\ r.on = capsEnabled
    BY <1>1, <1>2, <2>1, <2>2, ClientIs DEF Takes, clientVars, Client
  <2> QED BY <1>2, <1>3, <2>1, <2>3
<1> QED BY <1>4, <1>5, <1>6

----------------------------------------------------------------------------
(* Types.                                                                   *)

\* Every handler takes one line, and none takes back the end of the negotiation.
LEMMA HandlersTake ==
    ASSUME Typed, Handle
    PROVE  \E r : /\ Takes(r) /\ (ended => r.ended)
                  /\ saslDone' \in BOOLEAN /\ skipped' \subseteq Caps /\ unlisted' \subseteq Caps
<1>1. saslDone \in BOOLEAN /\ skipped \subseteq Caps /\ unlisted \subseteq Caps /\ ended \in BOOLEAN
  BY DEF Typed, TypeOK
<1>2. CASE HandleList
  <2>1. PICK r : /\ Takes(r) /\ UNCHANGED <<saslDone, deniedVars>>
                 /\ LET a == AddCaps(Client, Head(toClient).caps)
                    IN  IF Head(toClient).more THEN r = a ELSE Sent(a, r)
    BY <1>2, ListHandled
  <2>2. Head(toClient) \in Replies
    BY <2>1, LineIs DEF Takes
  <2>3. Head(toClient).caps \subseteq Caps
    BY <2>2 DEF Replies
  <2>4. AddCaps(Client, Head(toClient).caps).ended = ended
    BY <2>3, ClientIs, AddCapsIs
  <2> QED BY <1>1, <2>1, <2>4 DEF Sent, Requested, Ended, deniedVars
<1>3. CASE HandleAck
  <2> DEFINE a == AcknowledgeCaps(Client, Head(toClient).caps)
  <2>1. a.ended = ended
    BY ClientIs DEF AcknowledgeCaps, Clients
  <2>2. [a EXCEPT !.out = <<Line("AUTHENTICATE")>>].ended = ended
    BY ClientIs DEF AcknowledgeCaps, Clients
  <2>3. PICK r : /\ Takes(r) /\ saslDone' \in BOOLEAN
                 /\ skipped' = skipped /\ unlisted' = unlisted \cup (Head(toClient).caps \ caps)
                 /\ Sent(a, r) \/ r = a \/ r = [a EXCEPT !.out = <<Line("AUTHENTICATE")>>]
    BY <1>3, AckHandled
  <2>4. Head(toClient) \in Replies
    BY <2>3, LineIs DEF Takes
  <2>5. Head(toClient).caps \subseteq Caps
    BY <2>4 DEF Replies
  <2> HIDE DEF a
  <2> QED BY <1>1, <2>1, <2>2, <2>3, <2>5 DEF Sent, Requested, Ended
<1>4. CASE HandleNak
  <2>1. PICK r, b : /\ Takes(r) /\ Denied(b) /\ Sent(b, r)
                    /\ saslDone' = (saslDone \/ Sasl \in Head(toClient).caps)
                    /\ skipped' = skipped \cup Skipped(Head(toClient)) /\ unlisted' = unlisted
    BY <1>4, NakHandled
  <2>2. Head(toClient) \in Replies
    BY <2>1, LineIs DEF Takes
  <2>3. Head(toClient).caps \subseteq Caps
    BY <2>2 DEF Replies
  <2> QED BY <1>1, <2>1, <2>3 DEF Denied, Sent, Requested, Ended, Skipped
<1>5. CASE HandleDel
  BY <1>1, <1>5, DelHandled DEF deniedVars
<1>6. CASE HandleAuthenticate \/ HandleSaslReply \/ HandleWelcome
  <2>1. PICK r : /\ Takes(r) /\ UNCHANGED deniedVars /\ saslDone' \in BOOLEAN
                 /\ \/ r = [Client EXCEPT !.out = <<Line("CREDENTIALS")>>]
                    \/ Sent(Client, r)
                    \/ r = Client
    BY <1>6, OthersHandled
  <2>2. [Client EXCEPT !.out = <<Line("CREDENTIALS")>>].ended = ended
    BY ClientIs DEF Clients
  <2> QED BY <1>1, <2>1, <2>2, ClientIs DEF Sent, Requested, Ended, deniedVars
<1> QED BY <1>2, <1>3, <1>4, <1>5, <1>6 DEF Handle

\* A capability stays queued or is asked for.
Goes(c, r) ==
    \/ c \in ToSet(r.individual) \cup ToSet(r.bundled)
    \/ \E i \in DOMAIN r.out : r.out[i].cmd = "REQ" /\ c \in r.out[i].caps

LEMMA SentGoes ==
    ASSUME NEW d \in Clients, NEW r, Sent(d, r), NEW c \in ToSet(d.individual) \cup ToSet(d.bundled)
    PROVE  Goes(c, r)
<1>1. InProgress(d)
  BY DEF InProgress, ToSet
<1>2. PICK m \in Said : Requested(d, r, m)
  BY <1>1 DEF Sent, Ended
<1>3. Append(d.out, m)[Len(d.out) + 1] = m /\ Len(d.out) + 1 \in DOMAIN Append(d.out, m)
  <2>1. d.out \in Seq(Said)
    BY DEF Clients
  <2> QED BY <2>1, AppendProperties
<1> QED BY <1>2, <1>3 DEF Requested, Goes

\* No handler loses what is queued; of a denied bundle it puts by what is not
\* queued once more.
LEMMA HandlersKeep ==
    ASSUME Typed, Handle
    PROVE  \E r : /\ Takes(r) /\ skipped \subseteq skipped'
                  /\ \A c \in ToSet(individual) \cup ToSet(bundled) : Goes(c, r)
                  /\ Head(toClient).cmd = "NAK" /\ Cardinality(Head(toClient).caps) > 1 =>
                        \A c \in Head(toClient).caps : c \in skipped' \/ Goes(c, r)
<1> DEFINE m == Head(toClient)
           Queued == ToSet(individual) \cup ToSet(bundled)
<1>1. ASSUME NEW d \in Clients, NEW r, Sent(d, r) \/ r = d,
             Queued \subseteq ToSet(d.individual) \cup ToSet(d.bundled)
      PROVE  \A c \in Queued : Goes(c, r)
  <2> HIDE DEF Queued
  <2> SUFFICES ASSUME NEW c \in Queued PROVE Goes(c, r)
    OBVIOUS
  <2>1. c \in ToSet(d.individual) \cup ToSet(d.bundled)
    BY <1>1
  <2> QED BY <1>1, <2>1, SentGoes DEF Goes
<1>2. CASE HandleList
  <2> DEFINE a == AddCaps(Client, m.caps)
  <2>1. PICK r : /\ Takes(r) /\ m.cmd \in {"LS", "NEW"} /\ UNCHANGED <<saslDone, deniedVars>>
                 /\ IF m.more THEN r = a ELSE Sent(a, r)
    BY <1>2, ListHandled
  <2>2. m \in Replies
    BY <2>1, LineIs DEF Takes
  <2>3. m.caps \subseteq Caps
    <3> HIDE DEF m
    <3> QED BY <2>2 DEF Replies
  <2>4. a \in Clients /\ Queued \subseteq ToSet(a.individual) \cup ToSet(a.bundled)
    <3> HIDE DEF m
    <3> QED BY <2>3, ClientIs, AddCapsIs
  <2> HIDE DEF a, Queued
  <2>5. \A c \in Queued : Goes(c, r)
    BY <1>1, <2>1, <2>4
  <2> QED BY <2>1, <2>5 DEF deniedVars, Queued
<1>3. CASE HandleAck
  <2> DEFINE a == AcknowledgeCaps(Client, m.caps)
             s == [a EXCEPT !.out = <<Line("AUTHENTICATE")>>]
  <2>1. PICK r : /\ Takes(r) /\ m.cmd = "ACK" /\ skipped' = skipped
                 /\ Sent(a, r) \/ r = a \/ r = s
    BY <1>3, AckHandled
  <2>2. m \in Replies
    BY <2>1, LineIs DEF Takes
  <2>3. m.caps \subseteq Caps
    <3> HIDE DEF m
    <3> QED BY <2>2 DEF Replies
  <2>4. a \in Clients /\ a.individual = individual /\ a.bundled = bundled
    <3>1. a = [Client EXCEPT !.on = capsEnabled \cup m.caps]
      BY ClientIs DEF AcknowledgeCaps
    <3> HIDE DEF a, m
    <3> QED BY <2>3, <3>1, ClientIs DEF Clients
  <2>5. s.individual = individual /\ s.bundled = bundled
    <3> HIDE DEF a
    <3> QED BY <2>4 DEF Clients
  <2>6. Queued \subseteq ToSet(a.individual) \cup ToSet(a.bundled)
    <3> HIDE DEF a
    <3> QED BY <2>4
  <2> HIDE DEF a, s
  <2>7. CASE Sent(a, r) \/ r = a
    <3> HIDE DEF Queued
    <3>1. \A c \in Queued : Goes(c, r)
      BY <1>1, <2>4, <2>6, <2>7
    <3> QED BY <2>1, <3>1 DEF Queued
  <2>8. CASE r = s
    BY <2>1, <2>5, <2>8 DEF Goes
  <2> QED BY <2>1, <2>7, <2>8
<1>4. CASE HandleNak
  <2>1. PICK r, b : /\ Takes(r) /\ m.cmd = "NAK" /\ Denied(b) /\ Sent(b, r)
                    /\ skipped' = skipped \cup Skipped(m)
    BY <1>4, NakHandled
  <2>2. b \in Clients /\ b.bundled = bundled
    BY <2>1 DEF Denied
  <2>3. individual \in Seq(Caps) /\ lastBundle \in Seq(Caps)
    BY DEF Typed, TypeOK
  <2>4. /\ ToSet(individual) \subseteq ToSet(b.individual)
        /\ Cardinality(m.caps) > 1 => ToSet(lastBundle) \subseteq ToSet(b.individual)
    <3>1. ToSet(individual \o lastBundle) = ToSet(individual) \cup ToSet(lastBundle)
      BY <2>3, ConcatElements
    <3>2. IF Cardinality(m.caps) > 1 THEN b.individual = individual \o lastBundle
                                     ELSE b.individual = individual
      BY <2>1 DEF Denied
    <3> HIDE DEF m
    <3> QED BY <3>1, <3>2
  <2>5. Queued \subseteq ToSet(b.individual) \cup ToSet(b.bundled)
    BY <2>2, <2>4
  <2>6. \A c \in Queued : Goes(c, r)
    <3> HIDE DEF Queued
    <3> QED BY <1>1, <2>1, <2>2, <2>5
  <2>7. ASSUME Cardinality(m.caps) > 1, NEW c \in m.caps, c \notin skipped' PROVE Goes(c, r)
    <3>1. c \in ToSet(lastBundle)
      BY <2>1, <2>7 DEF Skipped
    <3>2. c \in ToSet(b.individual)
      BY <2>4, <2>7, <3>1
    <3> QED BY <2>1, <2>2, <3>2, SentGoes
  <2> QED BY <2>1, <2>6, <2>7
<1>5. CASE HandleDel
  BY <1>5, DelHandled DEF deniedVars, Goes
<1>6. CASE HandleAuthenticate \/ HandleSaslReply \/ HandleWelcome
  <2> DEFINE s == [Client EXCEPT !.out = <<Line("CREDENTIALS")>>]
  <2>1. PICK r : /\ Takes(r) /\ UNCHANGED deniedVars
                 /\ m.cmd \in {"AUTHENTICATE", "SASLREPLY", "WELCOME"}
                 /\ Sent(Client, r) \/ r = s \/ r = Client
    BY <1>6, OthersHandled
  <2>2. s.individual = individual /\ s.bundled = bundled
    BY ClientIs DEF Clients
  <2>3. Client \in Clients /\ Queued \subseteq ToSet(Client.individual) \cup ToSet(Client.bundled)
    BY ClientIs
  <2> HIDE DEF s
  <2>4. CASE Sent(Client, r) \/ r = Client
    <3> HIDE DEF Queued
    <3>1. \A c \in Queued : Goes(c, r)
      BY <1>1, <2>3, <2>4
    <3> QED BY <2>1, <3>1 DEF Queued, deniedVars
  <2>5. CASE r = s
    BY <2>1, <2>2, <2>5 DEF Goes, deniedVars
  <2> QED BY <2>1, <2>4, <2>5
<1> QED BY <1>2, <1>3, <1>4, <1>5, <1>6 DEF Handle

\* What the server sends back.
Replied(cmd, replies) ==
    /\ toServer # <<>> /\ Head(toServer).cmd = cmd /\ toServer' = Tail(toServer)
    /\ replies \in Seq(Replies) /\ toClient' = toClient \o replies
    /\ UNCHANGED <<userVars, clientVars, changes, connections, saslDone, deniedVars>>

LEMMA RepliesAre ==
    /\ \A cmd \in {"AUTHENTICATE", "SASLREPLY", "WELCOME"} : <<Line(cmd)>> \in Seq(Replies)
    /\ \A cmd \in {"LS", "NEW", "ACK", "NAK", "DEL"}, names \in SUBSET Caps, more \in BOOLEAN :
          Message(cmd, names, more) \in Replies
BY DEF Line, Message, Replies

\* A step of the server answers one line of the core.
LEMMA ServeIs ==
    ASSUME Typed, Serve
    PROVE  /\ \E cmd, replies :
                 /\ Replied(cmd, replies)
                 /\ IF cmd = "LS" THEN serverPhase' # "waiting"
                                  ELSE serverPhase' \in {serverPhase, "welcomed"}
           /\ ServerLists => Head(toServer).cmd = "LS"
           /\ offered' \subseteq Caps /\ refused' \subseteq offered' /\ enabled' \subseteq Caps
           /\ ServerLists \/ (enabled' \subseteq offered' /\ enabled' \cap refused' = {})
           /\ serverPhase' \in Phases /\ authenticating' \in BOOLEAN
<1> DEFINE Speaks == \E cmd, replies :
                        /\ Replied(cmd, replies)
                        /\ IF cmd = "LS" THEN serverPhase' # "waiting"
                                         ELSE serverPhase' \in {serverPhase, "welcomed"}
<1> HIDE DEF Speaks
<1>A. ServerLists => Head(toServer).cmd = "LS"
  BY DEF ServerLists, ServerReceives
<1> SUFFICES /\ offered' \subseteq Caps /\ refused' \subseteq offered' /\ enabled' \subseteq Caps
             /\ ServerLists \/ (enabled' \subseteq offered' /\ enabled' \cap refused' = {})
             /\ serverPhase' \in Phases /\ authenticating' \in BOOLEAN
             /\ Speaks
  BY <1>A DEF Speaks
<1>0. /\ offered \subseteq Caps /\ refused \subseteq offered /\ enabled \subseteq offered
      /\ enabled \cap refused = {} /\ serverPhase \in Phases /\ authenticating \in BOOLEAN
      /\ <<>> \in Seq(Replies)
  BY DEF Typed, TypeOK
<1>1. CASE ServerLists
  <2>1. PICK offer \in SUBSET Caps, first \in SUBSET Caps :
           /\ first \subseteq offer
           /\ ServerReceives("LS", IF first = offer
                                   THEN <<Message("LS", offer, FALSE)>>
                                   ELSE <<Message("LS", first, TRUE),
                                          Message("LS", offer \ first, FALSE)>>)
           /\ offered' = offer /\ refused' \in SUBSET offer
    BY <1>1 DEF ServerLists
  <2>2. /\ Message("LS", offer, FALSE) \in Replies /\ Message("LS", first, TRUE) \in Replies
        /\ Message("LS", offer \ first, FALSE) \in Replies
    BY RepliesAre
  <2>3. serverPhase' = "listed" /\ UNCHANGED <<enabled, authenticating>>
    BY <1>1 DEF ServerLists
  <2> DEFINE all == Message("LS", offer, FALSE)
             one == Message("LS", first, TRUE)
             two == Message("LS", offer \ first, FALSE)
  <2>4. (IF first = offer THEN <<all>> ELSE <<one, two>>) \in Seq(Replies)
    <3> HIDE DEF all, one, two
    <3>1. all \in Replies /\ one \in Replies /\ two \in Replies
      BY <2>2 DEF all, one, two
    <3> QED BY <3>1
  <2>5. \E replies : Replied("LS", replies)
    BY <2>1, <2>4 DEF ServerReceives, Replied
  <2>6. Speaks
    BY <2>3, <2>5 DEF Speaks
  <2> QED BY <1>0, <1>1, <2>1, <2>3, <2>6 DEF Phases
<1>2. CASE ServerIgnoresCap
  <2>1. Replied("LS", <<Line("WELCOME")>>)
    BY <1>2, RepliesAre DEF ServerIgnoresCap, ServerReceives, Replied
  <2>2. Speaks
    BY <1>2, <2>1 DEF Speaks, ServerIgnoresCap
  <2> QED BY <1>0, <1>2, <2>2 DEF ServerIgnoresCap, Phases
<1>3. CASE ServerAnswersRequest
  <2> DEFINE names == Head(toServer).caps
             granted == names \subseteq offered \ refused
             replies == <<Message(IF granted THEN "ACK" ELSE "NAK", names, FALSE)>>
  <2>1. /\ toServer # <<>> /\ ServerReceives("REQ", replies)
        /\ enabled' = IF granted THEN enabled \cup names ELSE enabled
        /\ UNCHANGED <<offered, refused, serverPhase, authenticating>>
    BY <1>3 DEF ServerAnswersRequest
  <2>2. names \in SUBSET Caps
    <3>1. Head(toServer) \in Requests
      BY <2>1, HeadTailProperties DEF Typed
    <3> QED BY <3>1 DEF Requests
  <2>3. Message(IF granted THEN "ACK" ELSE "NAK", names, FALSE) \in Replies
    <3> HIDE DEF names
    <3> QED BY <2>2, RepliesAre
  <2>4. replies \in Seq(Replies)
    <3> DEFINE reply == Message(IF granted THEN "ACK" ELSE "NAK", names, FALSE)
    <3> HIDE DEF reply
    <3>1. reply \in Replies
      BY <2>3 DEF reply
    <3>2. <<reply>> \in Seq(Replies)
      BY <3>1
    <3> QED BY <3>2 DEF reply
  <2>5. Replied("REQ", replies)
    <3> HIDE DEF replies
    <3> QED BY <2>1, <2>4 DEF ServerReceives, Replied
  <2>6. Speaks
    <3> HIDE DEF replies
    <3> QED BY <2>1, <2>5 DEF Speaks
  <2> HIDE DEF names, replies
  <2> QED BY <1>0, <2>1, <2>2, <2>6
<1>4. CASE ServerAuthenticates
  <2>1. UNCHANGED <<offered, refused, enabled, serverPhase>> /\ authenticating' \in BOOLEAN
    BY <1>0, <1>4 DEF ServerAuthenticates
  <2>2. \E cmd, replies : Replied(cmd, replies) /\ cmd # "LS"
    BY <1>0, <1>4, RepliesAre DEF ServerAuthenticates, ServerReceives, Replied
  <2>3. Speaks
    BY <2>1, <2>2 DEF Speaks
  <2> QED BY <1>0, <2>1, <2>3
<1>5. CASE ServerWelcomes
  <2> DEFINE replies == (IF authenticating THEN <<Line("SASLREPLY")>> ELSE <<>>)
                        \o (IF serverPhase = "listed" THEN <<Line("WELCOME")>> ELSE <<>>)
  <2>1. ServerReceives("END", replies)
    BY <1>5 DEF ServerWelcomes
  <2>2. replies \in Seq(Replies)
    <3>1. /\ (IF authenticating THEN <<Line("SASLREPLY")>> ELSE <<>>) \in Seq(Replies)
          /\ (IF serverPhase = "listed" THEN <<Line("WELCOME")>> ELSE <<>>) \in Seq(Replies)
      BY <1>0, RepliesAre
    <3> QED BY <3>1, ConcatProperties
  <2>3. Replied("END", replies)
    <3> HIDE DEF replies
    <3> QED BY <2>1, <2>2 DEF ServerReceives, Replied
  <2>4. Speaks
    <3> HIDE DEF replies
    <3> QED BY <1>5, <2>3 DEF ServerWelcomes, Speaks
  <2> HIDE DEF replies
  <2> QED BY <1>0, <1>5, <2>4 DEF ServerWelcomes, Phases
<1> QED BY <1>1, <1>2, <1>3, <1>4, <1>5 DEF Serve

\* Before its list the server has nothing, and it lists once.
Fresh ==
    /\ serverPhase = "waiting" =>
          /\ toClient = <<>> /\ \A i \in DOMAIN toServer : toServer[i].cmd = "LS"
          /\ Len(toServer) <= 1
          /\ caps = {} /\ capsEnabled = {} /\ individual = <<>> /\ bundled = <<>>
          /\ offered = {} /\ ~ended /\ changes = 0
    /\ serverPhase # "waiting" => \A i \in DOMAIN toServer : toServer[i].cmd # "LS"

LEMMA StartIs == Init => Typed /\ Fresh
<1> SUFFICES ASSUME Init PROVE Typed /\ Fresh
  OBVIOUS
<1>1. TypeOK
  <2>1. /\ <<>> \in Seq(Caps) /\ Len(<<>>) = 0 /\ MaxBundle > 0
        /\ 0 \in 0 .. MaxChanges /\ 0 \in 0 .. MaxConnections
    BY CapsAssumption
  <2> QED BY <2>1 DEF Init, TypeOK, Phases
<1> QED BY <1>1 DEF Init, Typed, Fresh

LEMMA ConnectIs == ASSUME Typed, ConnectToIrc PROVE Typed' /\ Fresh'
<1>1. TypeOK'
  <2>1. <<>> \in Seq(Caps) /\ 0 \in 0 .. MaxChanges /\ connections + 1 \in 0 .. MaxConnections
    BY CapsAssumption DEF Typed, TypeOK, ConnectToIrc
  <2> QED BY <2>1 DEF Typed, TypeOK, ConnectToIrc, userVars, Phases
<1>2. Line("LS") \in Requests
  BY DEF Line, Message, Requests
<1>3. <<Line("LS")>> \in Seq(Requests) /\ Len(<<Line("LS")>>) = 1
      /\ \A i \in DOMAIN <<Line("LS")>> : <<Line("LS")>>[i].cmd = "LS"
  <2> DEFINE line == Line("LS")
  <2>1. line \in Requests /\ line.cmd = "LS"
    BY <1>2 DEF Line, Message
  <2> HIDE DEF line
  <2>2. <<line>> \in Seq(Requests) /\ Len(<<line>>) = 1
        /\ \A i \in DOMAIN <<line>> : <<line>>[i].cmd = "LS"
    BY <2>1
  <2> QED BY <2>2 DEF line
<1> QED BY <1>1, <1>3 DEF ConnectToIrc, Typed, Fresh

LEMMA HandleKeepsTypes == ASSUME Typed, Fresh, Handle PROVE Typed' /\ Fresh'
<1>1. PICK r : /\ Takes(r) /\ (ended => r.ended)
               /\ saslDone' \in BOOLEAN /\ skipped' \subseteq Caps /\ unlisted' \subseteq Caps
  BY HandlersTake
<1>2. Tail(toClient) \in Seq(Replies)
  BY <1>1, LineIs DEF Takes
<1>3. r.out \in Seq(Said) /\ toServer \in Seq(Requests)
  BY <1>1 DEF Takes, Clients, Typed
<1>4. toServer' \in Seq(Requests)
  <2>1. r.out \in Seq(Requests)
    BY <1>3 DEF Said
  <2> QED BY <1>1, <1>3, <2>1, ConcatProperties DEF Takes
<1>5. serverPhase # "waiting" /\ serverPhase' = serverPhase
  BY <1>1 DEF Takes, Fresh, serverVars
<1>6. \A i \in DOMAIN toServer' : toServer'[i].cmd # "LS"
  <2>1. /\ \A i \in 1 .. Len(toServer) : toServer[i].cmd # "LS"
        /\ \A i \in 1 .. Len(r.out) : r.out[i].cmd # "LS"
    BY <1>3, <1>5, ElementOfSeq DEF Fresh, Said
  <2>2. toServer' = toServer \o r.out
    BY <1>1 DEF Takes
  <2>3. /\ DOMAIN (toServer \o r.out) = 1 .. Len(toServer) + Len(r.out)
        /\ Len(toServer) \in Nat /\ Len(r.out) \in Nat
        /\ \A i \in 1 .. Len(toServer) + Len(r.out) :
              (toServer \o r.out)[i] = IF i <= Len(toServer) THEN toServer[i] ELSE r.out[i - Len(toServer)]
    BY <1>3, ConcatProperties
  <2> QED BY <2>1, <2>2, <2>3
<1>7. TypeOK'
  <2>1. r.last \in Seq(Caps) /\ Len(r.last) < MaxBundle
    BY <1>1 DEF Takes, Clients, Records
  <2> QED BY <1>1, <2>1 DEF Takes, Clients, Typed, TypeOK, userVars, serverVars
<1>8. UNCHANGED <<enabled, refused>> /\ toClient' = Tail(toClient)
  BY <1>1 DEF Takes, serverVars
<1> QED BY <1>2, <1>4, <1>5, <1>6, <1>7, <1>8 DEF Typed, Fresh

LEMMA ServeKeepsTypes == ASSUME Typed, Fresh, Serve PROVE Typed' /\ Fresh'
<1>1. PICK cmd, replies : /\ Replied(cmd, replies)
                          /\ IF cmd = "LS" THEN serverPhase' # "waiting"
                                           ELSE serverPhase' \in {serverPhase, "welcomed"}
  BY ServeIs
<1>2. /\ offered' \subseteq Caps /\ refused' \subseteq offered' /\ enabled' \subseteq Caps
      /\ ServerLists => Head(toServer).cmd = "LS"
      /\ ServerLists \/ (enabled' \subseteq offered' /\ enabled' \cap refused' = {})
      /\ serverPhase' \in Phases /\ authenticating' \in BOOLEAN
  BY ServeIs
<1>3. /\ toServer # <<>> /\ Head(toServer).cmd = cmd /\ toServer' = Tail(toServer)
      /\ Len(toServer) \in Nat \ {0} /\ Head(toServer) = toServer[1] /\ DOMAIN toServer = 1 .. Len(toServer)
      /\ Tail(toServer) \in Seq(Requests) /\ Len(Tail(toServer)) = Len(toServer) - 1
      /\ DOMAIN Tail(toServer) = 1 .. Len(toServer) - 1
      /\ \A i \in 1 .. Len(toServer) - 1 : Tail(toServer)[i] = toServer[i + 1]
  BY <1>1, HeadTailProperties, EmptySeq DEF Replied, Typed
<1>4. cmd = "LS" <=> serverPhase = "waiting"
  BY <1>3 DEF Fresh
<1>5. serverPhase' # "waiting" /\ \A i \in DOMAIN toServer' : toServer'[i].cmd # "LS"
  BY <1>1, <1>3, <1>4 DEF Fresh
<1>6. toClient' \in Seq(Replies)
  <2>1. replies \in Seq(Replies) /\ toClient' = toClient \o replies
    BY <1>1 DEF Replied
  <2> QED BY <2>1, ConcatProperties DEF Typed
<1>7. enabled' \subseteq offered' /\ enabled' \cap refused' = {}
  <2>1. SUFFICES ASSUME ServerLists PROVE enabled' = {}
    BY <1>2
  <2>2. serverPhase = "waiting" /\ enabled' = enabled
    BY <1>2, <1>3, <1>4, <2>1 DEF ServerLists
  <2> QED BY <2>2 DEF Fresh, Typed, TypeOK
<1>8. UNCHANGED <<userVars, clientVars, changes, connections, saslDone, deniedVars>>
  BY <1>1 DEF Replied
<1>9. TypeOK'
  BY <1>2, <1>7, <1>8 DEF Typed, TypeOK, userVars, clientVars, deniedVars
<1> QED BY <1>3, <1>5, <1>6, <1>7, <1>9 DEF Typed, Fresh

\* What a change announces, and the line for it.
Announced(names, m) ==
    /\ m \in Replies /\ m.caps = names /\ toClient' = Append(toClient, m)
    /\ serverPhase = "welcomed" \/ (serverPhase = "listed" /\ EarlyChanges)
    /\ changes' = changes + 1
    /\ \/ /\ m.cmd = "NEW" /\ names \cap offered = {} /\ offered' = offered \cup names
          /\ refused' \in {refused, refused \cup names} /\ enabled' = enabled
       \/ /\ m.cmd = "DEL" /\ names \subseteq offered /\ offered' = offered \ names
          /\ refused' = refused \ names /\ enabled' = enabled \ names
    /\ UNCHANGED <<userVars, clientVars, toServer, serverPhase, authenticating,
                   connections, saslDone, deniedVars>>

LEMMA ChangeIs ==
    ASSUME Typed, NEW names \in SUBSET Caps, ServerChanges(names)
    PROVE  changes < MaxChanges /\ \E m : Announced(names, m)
<1>1. /\ Message("NEW", names, FALSE) \in Replies /\ Message("DEL", names, FALSE) \in Replies
      /\ Message("NEW", names, FALSE).cmd = "NEW" /\ Message("NEW", names, FALSE).caps = names
      /\ Message("DEL", names, FALSE).cmd = "DEL" /\ Message("DEL", names, FALSE).caps = names
  BY DEF Message, Replies
<1> QED BY <1>1 DEF ServerChanges, Announced

LEMMA ChangeKeepsTypes ==
    ASSUME Typed, Fresh, NEW names \in SUBSET Caps, ServerChanges(names)
    PROVE  Typed' /\ Fresh'
<1>1. changes < MaxChanges
  BY ChangeIs
<1>2. PICK m : Announced(names, m)
  BY ChangeIs
<1>3. toClient' \in Seq(Replies)
  BY <1>2, AppendProperties DEF Announced, Typed
<1>4. TypeOK'
  BY <1>1, <1>2, CapsAssumption DEF Announced, Typed, TypeOK, userVars, clientVars, deniedVars
<1>5. enabled' \cap refused' = {}
  BY <1>2 DEF Announced, Typed, TypeOK
<1>6. Fresh'
  BY <1>2 DEF Announced, Fresh
<1> QED BY <1>2, <1>3, <1>4, <1>5, <1>6 DEF Typed, Announced

\* Every step keeps the types.
LEMMA TypesStep == ASSUME Typed, Fresh, [Next]_vars PROVE Typed' /\ Fresh'
<1>1. CASE UNCHANGED vars
  BY <1>1 DEF vars, userVars, clientVars, serverVars, deniedVars, Typed, TypeOK, Fresh
<1> QED BY <1>1, ConnectIs, HandleKeepsTypes, ServeKeepsTypes, ChangeKeepsTypes DEF Next

\* The variables of the negotiation, on either side, and the lines under way keep
\* their types through every list, request, answer, change and new connection.
THEOREM TypeCorrectness == Spec => []TypeOK
<1>1. Spec => [](Typed /\ Fresh)
  BY StartIs, TypesStep, PTL DEF Spec
<1>2. Typed /\ Fresh => TypeOK
  BY DEF Typed
<1> QED BY <1>1, <1>2, PTL

----------------------------------------------------------------------------
(* What the core will take for enabled when it has handled the lines that   *)
(* are under way to it.                                                     *)

Bundle(m) == m.cmd = "NAK" /\ Cardinality(m.caps) > 1

\* What a line makes of what the core knows.
Heard(v, m) ==
    CASE m.cmd \in {"LS", "NEW"} ->
            [known |-> v.known \cup m.caps, on |-> v.on, unlisted |-> v.unlisted]
      [] m.cmd = "ACK" ->
            [known |-> v.known, on |-> v.on \cup m.caps,
             unlisted |-> v.unlisted \cup (m.caps \ v.known)]
      [] m.cmd \in {"NAK", "DEL"} ->
            [known |-> v.known \ m.caps, on |-> v.on \ (m.caps \cap v.known),
             unlisted |-> v.unlisted]
      [] OTHER -> v
Here == [known |-> caps, on |-> capsEnabled, unlisted |-> unlisted]

\* What is on but not known was not known when it was granted: removeCap() of such
\* a capability does nothing.
Sensible(v) == v.on \ v.known \subseteq v.unlisted

\* v is what the lines lead to, and it was sensible all the way.
Seen(start, v, lines) ==
    \E t : /\ t[0] = start /\ t[Len(lines)] = v
           /\ \A i \in 1 .. Len(lines) : t[i] = Heard(t[i - 1], lines[i])
           /\ \A i \in 0 .. Len(lines) : Sensible(t[i])

\* A capability will be asked for, or a denied bundle that had it will be heard of,
\* or it has been put by.
ToCome(c) ==
    \/ c \in skipped \cup ToSet(individual) \cup ToSet(bundled)
    \/ \E i \in DOMAIN toServer : toServer[i].cmd = "REQ" /\ c \in toServer[i].caps
    \/ \E i \in DOMAIN toClient : Bundle(toClient[i]) /\ c \in toClient[i].caps

\* ... and then it is what the server has turned on.
Agrees(v) ==
    /\ v.on \ v.unlisted \subseteq enabled
    /\ \A c \in enabled \ v.on : ToCome(c)
Views == \E v : Seen(Here, v, toClient) /\ Agrees(v)

\* A line is put at the end of those under way, or taken from their front.
LEMMA ViewGrows ==
    ASSUME NEW lines \in Seq(Replies), NEW m \in Replies, NEW start, NEW v,
           Seen(start, v, lines), Sensible(Heard(v, m))
    PROVE  Seen(start, Heard(v, m), Append(lines, m))
<1> DEFINE n == Len(lines)
<1>1. /\ n \in Nat /\ Len(Append(lines, m)) = n + 1
      /\ \A i \in 1 .. n : Append(lines, m)[i] = lines[i]
      /\ Append(lines, m)[n + 1] = m
  BY AppendProperties
<1>2. PICK t : /\ t[0] = start /\ t[n] = v
               /\ \A i \in 1 .. n : t[i] = Heard(t[i - 1], lines[i])
               /\ \A i \in 0 .. n : Sensible(t[i])
  BY DEF Seen
<1> DEFINE u == [i \in 0 .. n + 1 |-> IF i = n + 1 THEN Heard(v, m) ELSE t[i]]
<1> HIDE DEF n
<1>3. u[n + 1] = Heard(v, m) /\ \A i \in 0 .. n : u[i] = t[i]
  BY <1>1
<1>4. u[0] = start /\ u[n] = v
  BY <1>1, <1>2, <1>3
<1> HIDE DEF u
<1>5. \A i \in 1 .. n + 1 : u[i] = Heard(u[i - 1], Append(lines, m)[i])
  <2> SUFFICES ASSUME NEW i \in 1 .. n + 1 PROVE u[i] = Heard(u[i - 1], Append(lines, m)[i])
    OBVIOUS
  <2>1. CASE i = n + 1
    <3>1. i - 1 = n
      BY <1>1, <2>1
    <3> QED BY <1>1, <1>3, <1>4, <2>1, <3>1
  <2>2. CASE i \in 1 .. n
    <3>1. i - 1 \in 0 .. n /\ i \in 0 .. n
      BY <1>1, <2>2
    <3> QED BY <1>1, <1>2, <1>3, <2>2, <3>1
  <2> QED BY <1>1, <2>1, <2>2
<1>6. \A i \in 0 .. n + 1 : Sensible(u[i])
  <2>1. \A i \in 0 .. n + 1 : i = n + 1 \/ i \in 0 .. n
    BY <1>1
  <2> QED BY <1>2, <1>3, <2>1
<1> QED BY <1>1, <1>3, <1>4, <1>5, <1>6 DEF Seen

LEMMA ViewShrinks ==
    ASSUME NEW lines \in Seq(Replies), lines # <<>>, NEW start, NEW v, Seen(start, v, lines)
    PROVE  Seen(Heard(start, Head(lines)), v, Tail(lines))
<1> DEFINE n == Len(lines)
<1>1. /\ n \in Nat \ {0} /\ Head(lines) = lines[1] /\ Len(Tail(lines)) = n - 1
      /\ \A i \in 1 .. n - 1 : Tail(lines)[i] = lines[i + 1]
  BY HeadTailProperties, EmptySeq
<1>2. PICK t : /\ t[0] = start /\ t[n] = v
               /\ \A i \in 1 .. n : t[i] = Heard(t[i - 1], lines[i])
               /\ \A i \in 0 .. n : Sensible(t[i])
  BY DEF Seen
<1> DEFINE u == [i \in 0 .. n - 1 |-> t[i + 1]]
<1> HIDE DEF n
<1>3. \A i \in 0 .. n - 1 : u[i] = t[i + 1]
  OBVIOUS
<1>4. u[n - 1] = v
  BY <1>1, <1>2, <1>3
<1>5. u[0] = Heard(start, Head(lines))
  <2>1. u[0] = t[1] /\ t[1] = Heard(t[0], lines[1])
    <3>1. 0 \in 0 .. n - 1 /\ 1 \in 1 .. n /\ 0 + 1 = 1 /\ 1 - 1 = 0
      BY <1>1
    <3> HIDE DEF u
    <3>2. u[0] = t[0 + 1]
      BY <1>3, <3>1
    <3>3. t[1] = Heard(t[1 - 1], lines[1])
      BY <1>2, <3>1
    <3> QED BY <3>1, <3>2, <3>3
  <2> QED BY <1>1, <1>2, <2>1
<1> HIDE DEF u
<1>6. \A i \in 1 .. n - 1 : u[i] = Heard(u[i - 1], Tail(lines)[i])
  <2> SUFFICES ASSUME NEW i \in 1 .. n - 1 PROVE u[i] = Heard(u[i - 1], Tail(lines)[i])
    OBVIOUS
  <2>1. i \in 0 .. n - 1 /\ i - 1 \in 0 .. n - 1 /\ (i - 1) + 1 = i /\ i + 1 \in 1 .. n /\ (i + 1) - 1 = i
    BY <1>1
  <2>2. u[i] = t[i + 1] /\ u[i - 1] = t[i] /\ Tail(lines)[i] = lines[i + 1]
    BY <1>1, <1>3, <2>1
  <2>3. t[i + 1] = Heard(t[(i + 1) - 1], lines[i + 1])
    BY <1>2, <2>1
  <2> QED BY <2>1, <2>2, <2>3
<1>7. \A i \in 0 .. n - 1 : Sensible(u[i])
  <2>1. \A i \in 0 .. n - 1 : i + 1 \in 0 .. n
    BY <1>1
  <2> QED BY <1>2, <1>3, <2>1
<1> QED BY <1>1, <1>4, <1>5, <1>6, <1>7 DEF Seen

\* What the core knows after a line is what the line makes of it.
LEMMA HandleHears ==
    ASSUME Typed, Handle
    PROVE  /\ toClient # <<>> /\ toClient' = Tail(toClient) /\ UNCHANGED serverVars
           /\ Here' = Heard(Here, Head(toClient))
<1> DEFINE m == Head(toClient)
<1>1. toClient # <<>> => m.caps \subseteq Caps
  <2>1. toClient # <<>> => m \in Replies
    BY LineIs
  <2> HIDE DEF m
  <2> QED BY <2>1 DEF Replies
<1>2. CASE HandleList
  <2>1. PICK r : /\ Takes(r) /\ m.cmd \in {"LS", "NEW"} /\ UNCHANGED <<saslDone, deniedVars>>
                 /\ IF m.more THEN r = AddCaps(Client, m.caps) ELSE Sent(AddCaps(Client, m.caps), r)
    BY <1>2, ListHandled
  <2>2. AddCaps(Client, m.caps).caps = caps \cup m.caps /\ AddCaps(Client, m.caps).on = capsEnabled
    <3> HIDE DEF m
    <3> QED BY <1>1, <2>1, ClientIs, AddCapsIs DEF Takes
  <2>3. r.caps = caps \cup m.caps /\ r.on = capsEnabled
    BY <2>1, <2>2 DEF Sent
  <2> HIDE DEF m
  <2> QED BY <2>1, <2>3 DEF Takes, Here, Heard, deniedVars, m
<1>3. CASE HandleAck
  <2> DEFINE a == AcknowledgeCaps(Client, m.caps)
  <2>1. a.caps = caps /\ a.on = capsEnabled \cup m.caps
    BY ClientIs DEF AcknowledgeCaps, Clients
  <2>2. LET s == [a EXCEPT !.out = <<Line("AUTHENTICATE")>>]
        IN  s.caps = caps /\ s.on = capsEnabled \cup m.caps
    BY <2>1, ClientIs DEF AcknowledgeCaps, Clients
  <2>3. PICK r : /\ Takes(r) /\ m.cmd = "ACK" /\ unlisted' = unlisted \cup (m.caps \ caps)
                 /\ Sent(a, r) \/ r = a \/ r = [a EXCEPT !.out = <<Line("AUTHENTICATE")>>]
    BY <1>3, AckHandled
  <2>4. r.caps = caps /\ r.on = capsEnabled \cup m.caps
    <3> HIDE DEF a, m
    <3> QED BY <2>1, <2>2, <2>3 DEF Sent
  <2> HIDE DEF m, a
  <2> QED BY <2>3, <2>4 DEF Takes, Here, Heard, deniedVars, m
<1>4. CASE HandleNak
  <2>1. PICK r, b : /\ Takes(r) /\ m.cmd = "NAK" /\ Denied(b) /\ Sent(b, r)
                    /\ unlisted' = unlisted
    BY <1>4, NakHandled
  <2>2. r.caps = caps \ m.caps /\ r.on = capsEnabled \ (m.caps \cap caps)
    BY <2>1 DEF Denied, Sent
  <2> HIDE DEF m
  <2> QED BY <2>1, <2>2 DEF Takes, Here, Heard, deniedVars, m
<1>5. CASE HandleDel
  <2>1. PICK r : /\ Takes(r) /\ m.cmd = "DEL"
                 /\ r.caps = caps \ m.caps /\ r.on = capsEnabled \ (m.caps \cap caps)
                 /\ UNCHANGED <<saslDone, deniedVars>>
    BY <1>5, DelHandled
  <2> HIDE DEF m
  <2> QED BY <2>1 DEF Takes, Here, Heard, deniedVars, m
<1>6. CASE HandleAuthenticate \/ HandleSaslReply \/ HandleWelcome
  <2>1. PICK r : /\ Takes(r) /\ UNCHANGED deniedVars
                 /\ r.caps = caps /\ r.on = capsEnabled
                 /\ m.cmd \in {"AUTHENTICATE", "SASLREPLY", "WELCOME"}
    BY <1>6, OthersHandled
  <2> HIDE DEF m
  <2> QED BY <2>1 DEF Takes, Here, Heard, deniedVars, m
<1> QED BY <1>2, <1>3, <1>4, <1>5, <1>6 DEF Handle

LEMMA CapsAreFinite == IsFiniteSet(Caps)
<1> DEFINE n == Len(KnownCaps)
<1>1. n \in Nat /\ DOMAIN KnownCaps = 1 .. n /\ KnownCaps = [i \in 1 .. n |-> KnownCaps[i]]
  BY CapsAssumption
<1>2. KnownCaps \in Surjection(1 .. n, Caps)
  BY <1>1 DEF Surjection, Caps
<1> QED BY <1>1, <1>2, FS_Interval, FS_Surjection

\* A request for one capability or none is denied only if that is refused.
LEMMA SmallDenial ==
    ASSUME NEW names \in SUBSET Caps, ~(Cardinality(names) > 1), ~(names \subseteq offered \ refused)
    PROVE  names \cap (offered \ refused) = {}
<1>1. IsFiniteSet(names) /\ Cardinality(names) \in Nat
  BY CapsAreFinite, FS_Subset, FS_CardinalityType
<1>2. names # {}
  OBVIOUS
<1>3. Cardinality(names) = 1
  BY <1>1, <1>2, FS_EmptySet
<1>4. \E c : names = {c}
  BY <1>1, <1>3, FS_Singleton
<1> QED BY <1>4

\* No line makes a sensible view another.
LEMMA HeardIsSensible ==
    ASSUME NEW v, NEW m, Sensible(v)
    PROVE  Sensible(Heard(v, m))
<1> DEFINE w == Heard(v, m)
<1>1. CASE m.cmd \in {"LS", "NEW"}
  <2>1. w.known = v.known \cup m.caps /\ w.on = v.on /\ w.unlisted = v.unlisted
    BY <1>1 DEF Heard
  <2> HIDE DEF w
  <2> QED BY <2>1 DEF Sensible, w
<1>2. CASE m.cmd = "ACK"
  <2>1. w.known = v.known /\ w.on = v.on \cup m.caps /\ w.unlisted = v.unlisted \cup (m.caps \ v.known)
    BY <1>2 DEF Heard
  <2> HIDE DEF w
  <2> QED BY <2>1 DEF Sensible, w
<1>3. CASE m.cmd \in {"NAK", "DEL"}
  <2>1. w.known = v.known \ m.caps /\ w.on = v.on \ (m.caps \cap v.known) /\ w.unlisted = v.unlisted
    BY <1>3 DEF Heard
  <2> HIDE DEF w
  <2> QED BY <2>1 DEF Sensible, w
<1>4. CASE m.cmd \notin {"LS", "NEW", "ACK", "NAK", "DEL"}
  BY <1>4 DEF Heard
<1> QED BY <1>1, <1>2, <1>3, <1>4

\* One more line is sent to the core.
LEMMA ViewsWithLine ==
    ASSUME Typed, NEW v, NEW m \in Replies, Seen(Here, v, toClient), Here' = Here,
           toClient' = Append(toClient, m), Agrees(Heard(v, m))'
    PROVE  Views'
<1>1. Seen(Here, Heard(v, m), Append(toClient, m))
  <2>1. Sensible(v)
    BY DEF Seen, Typed
  <2> QED BY <2>1, HeardIsSensible, ViewGrows DEF Typed
<1>2. Seen(Here', Heard(v, m), toClient')
  BY <1>1
<1> QED BY <1>2 DEF Views, Seen

\* A line that says nothing of capabilities.
LEMMA OtherLines ==
    ASSUME NEW v, NEW cmd \in {"AUTHENTICATE", "SASLREPLY", "WELCOME"}
    PROVE  Line(cmd) \in Replies /\ Heard(v, Line(cmd)) = v
BY DEF Line, Message, Replies, Heard

\* The end of a view was sensible.
LEMMA SeenIsSensible ==
    ASSUME NEW start, NEW v, NEW lines \in Seq(Replies), Seen(start, v, lines)
    PROVE  Sensible(v)
BY DEF Seen

LEMMA LinesAppended ==
    ASSUME NEW S, NEW s \in Seq(S), NEW x \in S, NEW y \in S
    PROVE  /\ s \o <<x>> = Append(s, x) /\ Append(s, x) \in Seq(S)
           /\ s \o <<x, y>> = Append(Append(s, x), y)
OBVIOUS

\* Lines are taken from the front and put at the end; the others stay.
LEMMA OthersStay ==
    ASSUME NEW S, NEW s \in Seq(S), s # <<>>
    PROVE  \A i \in DOMAIN s : s[i] = Head(s) \/ \E j \in DOMAIN Tail(s) : Tail(s)[j] = s[i]
<1> SUFFICES ASSUME NEW i \in DOMAIN s, s[i] # Head(s)
             PROVE  \E j \in DOMAIN Tail(s) : Tail(s)[j] = s[i]
  OBVIOUS
<1>1. /\ Len(s) \in Nat \ {0} /\ DOMAIN s = 1 .. Len(s) /\ DOMAIN Tail(s) = 1 .. Len(s) - 1
      /\ Head(s) = s[1] /\ \A j \in 1 .. Len(s) - 1 : Tail(s)[j] = s[j + 1]
  BY HeadTailProperties, EmptySeq
<1>2. i # 1
  BY <1>1
<1>3. i - 1 \in 1 .. Len(s) - 1 /\ (i - 1) + 1 = i
  BY <1>1, <1>2
<1> QED BY <1>1, <1>3

LEMMA BothStay ==
    ASSUME NEW S, NEW s \in Seq(S), NEW t \in Seq(S)
    PROVE  /\ \A i \in DOMAIN s : \E j \in DOMAIN (s \o t) : (s \o t)[j] = s[i]
           /\ \A i \in DOMAIN t : \E j \in DOMAIN (s \o t) : (s \o t)[j] = t[i]
<1> DEFINE u == s \o t
<1>1. /\ Len(s) \in Nat /\ Len(t) \in Nat /\ DOMAIN s = 1 .. Len(s) /\ DOMAIN t = 1 .. Len(t)
      /\ DOMAIN u = 1 .. Len(s) + Len(t)
      /\ \A j \in 1 .. Len(s) + Len(t) : u[j] = IF j <= Len(s) THEN s[j] ELSE t[j - Len(s)]
  BY ConcatProperties
<1> HIDE DEF u
<1>2. \A i \in DOMAIN s : i \in DOMAIN u /\ u[i] = s[i]
  BY <1>1
<1>3. \A i \in DOMAIN t : Len(s) + i \in DOMAIN u /\ u[Len(s) + i] = t[i]
  BY <1>1
<1> QED BY <1>2, <1>3 DEF u

\* What is to come stays so when the core handles a line,
LEMMA HandleKeepsToCome ==
    ASSUME Typed, Handle, NEW c, ToCome(c)
    PROVE  ToCome(c)'
<1>1. PICK r : /\ Takes(r) /\ skipped \subseteq skipped'
               /\ \A x \in ToSet(individual) \cup ToSet(bundled) : Goes(x, r)
               /\ Head(toClient).cmd = "NAK" /\ Cardinality(Head(toClient).caps) > 1 =>
                     \A x \in Head(toClient).caps : x \in skipped' \/ Goes(x, r)
  BY HandlersKeep
<1>2. /\ toServer \in Seq(Requests) /\ r.out \in Seq(Requests) /\ toServer' = toServer \o r.out
      /\ toClient \in Seq(Replies) /\ toClient # <<>> /\ toClient' = Tail(toClient)
      /\ individual' = r.individual /\ bundled' = r.bundled
  BY <1>1 DEF Takes, Clients, Said, Typed
<1>3. /\ \A i \in DOMAIN toServer : \E j \in DOMAIN toServer' : toServer'[j] = toServer[i]
      /\ \A i \in DOMAIN r.out : \E j \in DOMAIN toServer' : toServer'[j] = r.out[i]
  <2> DEFINE out == r.out
             u == toServer \o out
  <2>1. toServer \in Seq(Requests) /\ out \in Seq(Requests) /\ toServer' = u
    BY <1>2
  <2> HIDE DEF out
  <2>2. /\ \A i \in DOMAIN toServer : \E j \in DOMAIN u : u[j] = toServer[i]
        /\ \A i \in DOMAIN out : \E j \in DOMAIN u : u[j] = out[i]
    BY <2>1, BothStay
  <2> HIDE DEF u
  <2> QED BY <2>1, <2>2 DEF out
<1>4. \A i \in DOMAIN toClient :
         toClient[i] = Head(toClient) \/ \E j \in DOMAIN toClient' : toClient'[j] = toClient[i]
  BY <1>2, OthersStay
<1>5. Goes(c, r) => ToCome(c)'
  <2>1. c \in ToSet(r.individual) \cup ToSet(r.bundled) => ToCome(c)'
    BY <1>2 DEF ToCome
  <2>2. ASSUME NEW i \in DOMAIN r.out, r.out[i].cmd = "REQ" /\ c \in r.out[i].caps
        PROVE  ToCome(c)'
    <3>1. \E j \in DOMAIN toServer' : toServer'[j] = r.out[i]
      BY <1>3
    <3> QED BY <2>2, <3>1 DEF ToCome
  <2> QED BY <2>1, <2>2 DEF Goes
<1>6. CASE c \in skipped \cup ToSet(individual) \cup ToSet(bundled)
  BY <1>1, <1>5, <1>6 DEF ToCome
<1>7. CASE \E i \in DOMAIN toServer : toServer[i].cmd = "REQ" /\ c \in toServer[i].caps
  BY <1>3, <1>7 DEF ToCome
<1>8. CASE \E i \in DOMAIN toClient : Bundle(toClient[i]) /\ c \in toClient[i].caps
  <2>1. PICK i \in DOMAIN toClient : Bundle(toClient[i]) /\ c \in toClient[i].caps
    BY <1>8
  <2>2. CASE toClient[i] = Head(toClient)
    <3>1. c \in skipped' \/ Goes(c, r)
      BY <1>1, <2>1, <2>2 DEF Bundle
    <3> QED BY <1>5, <3>1 DEF ToCome
  <2>3. CASE \E j \in DOMAIN toClient' : toClient'[j] = toClient[i]
    BY <2>1, <2>3 DEF ToCome, Bundle
  <2> QED BY <1>4, <2>2, <2>3
<1> QED BY <1>6, <1>7, <1>8 DEF ToCome

\* ... and when the server sends one, unless it is what the server answers.
LEMMA ServerKeepsToCome ==
    ASSUME Typed, UNCHANGED <<clientVars, deniedVars>>, NEW c, ToCome(c),
           \A i \in DOMAIN toClient : \E j \in DOMAIN toClient' : toClient'[j] = toClient[i],
           \/ toServer' = toServer
           \/ /\ toServer # <<>> /\ toServer' = Tail(toServer)
              /\ ~(Head(toServer).cmd = "REQ" /\ c \in Head(toServer).caps)
    PROVE  ToCome(c)'
<1>1. skipped' = skipped /\ individual' = individual /\ bundled' = bundled
  BY DEF clientVars, deniedVars
<1>2. CASE \E i \in DOMAIN toServer : toServer[i].cmd = "REQ" /\ c \in toServer[i].caps
  <2>1. PICK i \in DOMAIN toServer : toServer[i].cmd = "REQ" /\ c \in toServer[i].caps
    BY <1>2
  <2>2. toServer \in Seq(Requests)
    BY DEF Typed
  <2>3. \E j \in DOMAIN toServer' : toServer'[j] = toServer[i]
    <3>1. CASE toServer' = toServer
      BY <3>1
    <3>2. CASE /\ toServer # <<>> /\ toServer' = Tail(toServer)
               /\ ~(Head(toServer).cmd = "REQ" /\ c \in Head(toServer).caps)
      <4>1. toServer[i] # Head(toServer)
        BY <2>1, <3>2
      <4>2. \E j \in DOMAIN Tail(toServer) : Tail(toServer)[j] = toServer[i]
        BY <2>2, <3>2, <4>1, OthersStay
      <4> QED BY <3>2, <4>2
    <3> QED BY <3>1, <3>2
  <2> QED BY <2>1, <2>3 DEF ToCome
<1>3. CASE \E i \in DOMAIN toClient : Bundle(toClient[i]) /\ c \in toClient[i].caps
  BY <1>3 DEF ToCome, Bundle
<1> QED BY <1>1, <1>2, <1>3 DEF ToCome

\* The list comes once, to a core that waits for it, in one line or in two.
LEMMA ListIs ==
    ASSUME Typed, Fresh, ServerLists
    PROVE  \E offer \in SUBSET Caps, one, two \in Replies :
              /\ serverPhase = "waiting" /\ serverPhase' = "listed"
              /\ Len(toServer) = 1 /\ toServer' = <<>>
              /\ one.cmd = "LS" /\ two.cmd = "LS" /\ two.more = FALSE
              /\ \/ one.more = FALSE /\ one.caps = offer /\ toClient' = <<one>>
                 \/ /\ one.more = TRUE /\ one.caps \cap two.caps = {} /\ one.caps \cup two.caps = offer
                    /\ toClient' = <<one, two>>
              /\ offered' = offer /\ refused' \subseteq offer /\ enabled = {} /\ enabled' = {}
              /\ UNCHANGED <<userVars, clientVars, authenticating, changes, connections, saslDone, deniedVars>>
<1>1. PICK offer \in SUBSET Caps, first \in SUBSET Caps :
         /\ first \subseteq offer
         /\ ServerReceives("LS", IF first = offer
                                 THEN <<Message("LS", offer, FALSE)>>
                                 ELSE <<Message("LS", first, TRUE),
                                        Message("LS", offer \ first, FALSE)>>)
         /\ offered' = offer /\ refused' \in SUBSET offer
  BY DEF ServerLists
<1>2. /\ toServer # <<>> /\ Head(toServer).cmd = "LS" /\ toServer' = Tail(toServer)
      /\ UNCHANGED <<userVars, clientVars, changes, connections, saslDone, deniedVars>>
  BY <1>1 DEF ServerReceives
<1>3. serverPhase' = "listed" /\ UNCHANGED <<enabled, authenticating>>
  BY DEF ServerLists
<1>4. /\ Len(toServer) \in Nat \ {0} /\ Head(toServer) = toServer[1] /\ DOMAIN toServer = 1 .. Len(toServer)
      /\ Tail(toServer) \in Seq(Requests) /\ Len(Tail(toServer)) = Len(toServer) - 1
  BY <1>2, HeadTailProperties, EmptySeq DEF Typed
<1>5. serverPhase = "waiting"
  BY <1>2, <1>4 DEF Fresh
<1>6. enabled = {} /\ toClient = <<>> /\ Len(toServer) = 1
  BY <1>4, <1>5 DEF Fresh, Typed, TypeOK
<1>7. toServer' = <<>>
  BY <1>2, <1>4, <1>6, EmptySeq
<1> DEFINE all == Message("LS", offer, FALSE)
           one == Message("LS", first, TRUE)
           two == Message("LS", offer \ first, FALSE)
<1>8. /\ all \in Replies /\ all.cmd = "LS" /\ all.caps = offer /\ all.more = FALSE
      /\ one \in Replies /\ one.cmd = "LS" /\ one.caps = first /\ one.more = TRUE
      /\ two \in Replies /\ two.cmd = "LS" /\ two.caps = offer \ first /\ two.more = FALSE
  BY DEF Message, Replies
<1>9. toClient' = <<>> \o (IF first = offer THEN <<all>> ELSE <<one, two>>)
  BY <1>1, <1>6 DEF ServerReceives
<1> HIDE DEF all, one, two
<1>10. CASE first = offer
  <2>1. toClient' = <<>> \o <<all>>
    BY <1>9, <1>10
  <2>2. <<all>> \in Seq(Replies)
    BY <1>8
  <2>3. toClient' = <<all>>
    BY <2>1, <2>2, ConcatEmptySeq
  <2> QED BY <1>1, <1>2, <1>3, <1>5, <1>6, <1>7, <1>8, <2>3
<1>11. CASE first # offer
  <2>1. toClient' = <<>> \o <<one, two>>
    BY <1>9, <1>11
  <2>2. <<one, two>> \in Seq(Replies)
    BY <1>8
  <2>3. toClient' = <<one, two>>
    BY <2>1, <2>2, ConcatEmptySeq
  <2>4. one.caps \cap two.caps = {} /\ one.caps \cup two.caps = offer
    BY <1>1, <1>8
  <2> QED BY <1>1, <1>2, <1>3, <1>5, <1>6, <1>7, <1>8, <2>3, <2>4
<1> QED BY <1>10, <1>11

\* A request is granted or denied as a whole.
LEMMA AnswerIs ==
    ASSUME Typed, ServerAnswersRequest
    PROVE  \E m \in Replies :
              /\ toServer # <<>> /\ Head(toServer).cmd = "REQ" /\ toServer' = Tail(toServer)
              /\ m.caps = Head(toServer).caps /\ toClient' = Append(toClient, m)
              /\ \/ m.cmd = "ACK" /\ m.caps \subseteq offered \ refused /\ enabled' = enabled \cup m.caps
                 \/ m.cmd = "NAK" /\ ~(m.caps \subseteq offered \ refused) /\ enabled' = enabled
              /\ UNCHANGED <<userVars, clientVars, offered, refused, serverPhase, authenticating,
                             changes, connections, saslDone, deniedVars>>
<1> DEFINE names == Head(toServer).caps
           granted == names \subseteq offered \ refused
           m == Message(IF granted THEN "ACK" ELSE "NAK", names, FALSE)
<1>1. /\ toServer # <<>> /\ ServerReceives("REQ", <<m>>)
      /\ enabled' = IF granted THEN enabled \cup names ELSE enabled
      /\ UNCHANGED <<offered, refused, serverPhase, authenticating>>
  BY DEF ServerAnswersRequest
<1>2. names \in SUBSET Caps
  <2>1. Head(toServer) \in Requests
    BY <1>1, HeadTailProperties DEF Typed
  <2> QED BY <2>1 DEF Requests
<1>3. m \in Replies /\ m.cmd = (IF granted THEN "ACK" ELSE "NAK") /\ m.caps = names
  <2> HIDE DEF names, granted
  <2> QED BY <1>2 DEF Message, Replies
<1> HIDE DEF m
<1>4. /\ Head(toServer).cmd = "REQ" /\ toServer' = Tail(toServer) /\ toClient' = toClient \o <<m>>
      /\ UNCHANGED <<userVars, clientVars, changes, connections, saslDone, deniedVars>>
  BY <1>1 DEF ServerReceives
<1>5. toClient' = Append(toClient, m)
  BY <1>3, <1>4, LinesAppended DEF Typed
<1> QED BY <1>1, <1>3, <1>4, <1>5

\* The list, and the answer to a request, keep the agreement.
LEMMA ListKeepsViews ==
    ASSUME Typed, Fresh, Views, ServerLists
    PROVE  Views'
<1>1. PICK offer \in SUBSET Caps, one, two \in Replies :
         /\ serverPhase = "waiting"
         /\ one.cmd = "LS" /\ two.cmd = "LS"
         /\ \/ one.caps = offer /\ toClient' = <<one>>
            \/ one.caps \cup two.caps = offer /\ toClient' = <<one, two>>
         /\ offered' = offer /\ refused' \subseteq offer /\ enabled' = {}
         /\ UNCHANGED <<clientVars, deniedVars>>
  BY ListIs
<1>2. PICK d : d = unlisted
  OBVIOUS
<1> DEFINE After(names) == [known |-> names, on |-> {}, unlisted |-> d]
           h == After({})
<1>3. Here = h /\ Here' = h
  BY <1>1, <1>2 DEF Fresh, Here, clientVars, deniedVars
<1>4. Seen(h, h, <<>>)
  <2> DEFINE t == [i \in {0} |-> h]
  <2>1. t[0] = h /\ Sensible(h)
    BY DEF Sensible
  <2> HIDE DEF t, h
  <2>2. Len(<<>>) = 0 /\ 1 .. 0 = {} /\ 0 .. 0 = {0}
    OBVIOUS
  <2> QED BY <2>1, <2>2 DEF Seen
<1>5. /\ \A names : Sensible(After(names))
      /\ Heard(h, one) = After(one.caps)
      /\ Heard(After(one.caps), two) = After(one.caps \cup two.caps)
  BY <1>1 DEF Sensible, Heard
<1>6. Agrees(After(offer))'
  BY <1>1 DEF Agrees
<1> HIDE DEF h, After
<1>7. Append(<<>>, one) \in Seq(Replies) /\ <<>> \in Seq(Replies)
      /\ <<one>> = Append(<<>>, one) /\ <<one, two>> = Append(Append(<<>>, one), two)
  BY <1>1
<1>8. Seen(h, After(one.caps), <<one>>)
  BY <1>4, <1>5, <1>7, ViewGrows
<1>9. Seen(h, After(one.caps \cup two.caps), <<one, two>>)
  BY <1>5, <1>7, <1>8, ViewGrows
<1>10. Seen(h, After(offer), toClient')
  BY <1>1, <1>8, <1>9
<1> QED BY <1>3, <1>6, <1>10 DEF Views, Seen

LEMMA AnswerKeepsViews ==
    ASSUME Typed, Views, ServerAnswersRequest
    PROVE  Views'
<1>1. PICK m \in Replies :
         /\ toServer # <<>> /\ toServer' = Tail(toServer) /\ m.caps = Head(toServer).caps
         /\ toClient' = Append(toClient, m)
         /\ \/ m.cmd = "ACK" /\ m.caps \subseteq offered \ refused /\ enabled' = enabled \cup m.caps
            \/ m.cmd = "NAK" /\ ~(m.caps \subseteq offered \ refused) /\ enabled' = enabled
         /\ UNCHANGED <<clientVars, offered, refused, deniedVars>>
  BY AnswerIs
<1>2. m.caps \in SUBSET Caps
  BY DEF Replies
<1>3. Here' = Here
  BY <1>1 DEF clientVars, deniedVars, Here
<1>4. PICK v : Seen(Here, v, toClient) /\ Agrees(v)
  BY DEF Views
<1>5. Sensible(v)
  BY <1>4, SeenIsSensible DEF Typed
<1>6. Len(toClient) + 1 \in DOMAIN toClient' /\ toClient'[Len(toClient) + 1] = m
      /\ \A i \in DOMAIN toClient : i \in DOMAIN toClient' /\ toClient'[i] = toClient[i]
  BY <1>1, AppendProperties DEF Typed
<1>7. \A c : ToCome(c) /\ c \notin m.caps => ToCome(c)'
  BY <1>1, <1>6, ServerKeepsToCome
<1> SUFFICES Agrees(Heard(v, m))'
  BY <1>1, <1>3, <1>4, ViewsWithLine
<1>8. CASE m.cmd = "ACK"
  <2>1. Heard(v, m) = [known |-> v.known, on |-> v.on \cup m.caps,
                       unlisted |-> v.unlisted \cup (m.caps \ v.known)]
    BY <1>8 DEF Heard
  <2> QED BY <1>1, <1>4, <1>7, <1>8, <2>1 DEF Agrees
<1>9. CASE m.cmd = "NAK"
  <2>1. Heard(v, m) = [known |-> v.known \ m.caps, on |-> v.on \ (m.caps \cap v.known),
                       unlisted |-> v.unlisted]
    BY <1>9 DEF Heard
  <2>2. ASSUME NEW c \in enabled, c \notin v.on \/ c \in m.caps PROVE ToCome(c)'
    <3>1. CASE c \notin m.caps
      BY <1>4, <1>7, <2>2, <3>1 DEF Agrees
    <3>2. CASE c \in m.caps /\ Cardinality(m.caps) > 1
      BY <1>6, <1>9, <3>2 DEF ToCome, Bundle
    <3>3. CASE c \in m.caps /\ ~(Cardinality(m.caps) > 1)
      <4>1. m.caps \cap (offered \ refused) = {}
        BY <1>1, <1>2, <1>9, <3>3, SmallDenial
      <4> QED BY <3>3, <4>1 DEF Typed, TypeOK
    <3> QED BY <3>1, <3>2, <3>3
  <2>3. (v.on \ (m.caps \cap v.known)) \ v.unlisted \subseteq enabled'
    BY <1>1, <1>4, <1>9 DEF Agrees
  <2>4. \A c \in enabled' \ (v.on \ (m.caps \cap v.known)) : ToCome(c)'
    BY <1>1, <1>9, <2>2
  <2> QED BY <2>1, <2>3, <2>4 DEF Agrees
<1> QED BY <1>1, <1>8, <1>9

\* A server that knows nothing of capabilities welcomes at once.
LEMMA IgnoreIs ==
    ASSUME Typed, ServerIgnoresCap
    PROVE  /\ toServer # <<>> /\ Head(toServer).cmd = "LS" /\ toServer' = Tail(toServer)
           /\ toClient' = Append(toClient, Line("WELCOME")) /\ serverPhase' = "capless"
           /\ UNCHANGED <<userVars, clientVars, offered, refused, enabled, authenticating,
                          changes, connections, saslDone, deniedVars>>
<1>1. Line("WELCOME") \in Replies
  BY OtherLines
<1>2. toClient \o <<Line("WELCOME")>> = Append(toClient, Line("WELCOME"))
  BY <1>1, LinesAppended DEF Typed
<1> QED BY <1>2 DEF ServerIgnoresCap, ServerReceives

LEMMA AuthenticateIs ==
    ASSUME Typed, ServerAuthenticates
    PROVE  /\ toServer # <<>> /\ toServer' = Tail(toServer)
           /\ \/ /\ Head(toServer).cmd = "AUTHENTICATE" /\ authenticating'
                 /\ toClient' = Append(toClient, Line("AUTHENTICATE"))
              \/ /\ Head(toServer).cmd = "AUTHENTICATE" /\ authenticating' = authenticating
                 /\ toClient' = Append(toClient, Line("SASLREPLY"))
              \/ /\ Head(toServer).cmd = "CREDENTIALS" /\ authenticating
                 /\ toClient' = Append(toClient, Line("SASLREPLY"))
              \/ Head(toServer).cmd = "CREDENTIALS" /\ ~authenticating /\ toClient' = toClient
           /\ UNCHANGED <<userVars, clientVars, offered, refused, enabled, serverPhase,
                          changes, connections, saslDone, deniedVars>>
<1>1. Line("AUTHENTICATE") \in Replies /\ Line("SASLREPLY") \in Replies
  BY OtherLines
<1>2. /\ toClient \o <<Line("AUTHENTICATE")>> = Append(toClient, Line("AUTHENTICATE"))
      /\ toClient \o <<Line("SASLREPLY")>> = Append(toClient, Line("SASLREPLY"))
      /\ toClient \o <<>> = toClient
  BY <1>1, LinesAppended, ConcatEmptySeq DEF Typed
<1> QED BY <1>2 DEF ServerAuthenticates, ServerReceives

LEMMA WelcomesIs ==
    ASSUME Typed, ServerWelcomes
    PROVE  /\ toServer # <<>> /\ Head(toServer).cmd = "END" /\ toServer' = Tail(toServer)
           /\ \E x, y \in {Line("SASLREPLY"), Line("WELCOME")} :
                 toClient' \in {toClient, Append(toClient, x), Append(Append(toClient, x), y)}
           /\ serverPhase' = "welcomed"
           /\ UNCHANGED <<userVars, clientVars, offered, refused, enabled,
                          changes, connections, saslDone, deniedVars>>
<1> DEFINE x == Line("SASLREPLY")
           y == Line("WELCOME")
<1>1. x \in Replies /\ y \in Replies
  BY OtherLines
<1>2. /\ toServer # <<>> /\ Head(toServer).cmd = "END" /\ toServer' = Tail(toServer)
      /\ toClient' = toClient \o ((IF authenticating THEN <<x>> ELSE <<>>)
                                   \o (IF serverPhase = "listed" THEN <<y>> ELSE <<>>))
      /\ serverPhase' = "welcomed"
      /\ UNCHANGED <<userVars, clientVars, offered, refused, enabled,
                     changes, connections, saslDone, deniedVars>>
  BY DEF ServerWelcomes, ServerReceives
<1> HIDE DEF x, y
<1>3. /\ toClient \o (<<x>> \o <<y>>) = Append(Append(toClient, x), y)
      /\ toClient \o (<<x>> \o <<>>) = Append(toClient, x)
      /\ toClient \o (<<>> \o <<y>>) = Append(toClient, y)
      /\ toClient \o (<<>> \o <<>>) = toClient
  <2>1. <<x>> \in Seq(Replies) /\ <<y>> \in Seq(Replies) /\ toClient \in Seq(Replies)
    BY <1>1 DEF Typed
  <2>2. toClient \o (<<x>> \o <<y>>) = (toClient \o <<x>>) \o <<y>>
    BY <2>1, ConcatAssociative
  <2>3. <<x>> \o <<>> = <<x>> /\ <<>> \o <<y>> = <<y>> /\ <<>> \o <<>> = <<>>
    BY <2>1, ConcatEmptySeq, EmptySeq
  <2>4. toClient \o <<x>> = Append(toClient, x) /\ toClient \o <<y>> = Append(toClient, y)
        /\ Append(toClient, x) \in Seq(Replies)
    BY <1>1, <2>1, LinesAppended
  <2>5. Append(toClient, x) \o <<y>> = Append(Append(toClient, x), y)
    BY <1>1, <2>4, LinesAppended
  <2> QED BY <2>1, <2>2, <2>3, <2>4, <2>5, ConcatEmptySeq
<1>4. toClient' \in {toClient, Append(toClient, x), Append(toClient, y), Append(Append(toClient, x), y)}
  BY <1>2, <1>3
<1>5. \E a, b \in {x, y} : toClient' \in {toClient, Append(toClient, a), Append(Append(toClient, a), b)}
  BY <1>4
<1> QED BY <1>2, <1>5 DEF x, y

\* Lines that say nothing of capabilities change no view.
LEMMA OthersKeepViews ==
    ASSUME Typed, Views, UNCHANGED <<clientVars, enabled, deniedVars>>,
           toServer # <<>>, Head(toServer).cmd # "REQ", toServer' = Tail(toServer),
           NEW x \in {Line("AUTHENTICATE"), Line("SASLREPLY"), Line("WELCOME")},
           NEW y \in {Line("AUTHENTICATE"), Line("SASLREPLY"), Line("WELCOME")},
           toClient' \in {toClient, Append(toClient, x), Append(Append(toClient, x), y)}
    PROVE  Views'
<1>1. PICK v : Seen(Here, v, toClient) /\ Agrees(v)
  BY DEF Views
<1>2. toClient \in Seq(Replies) /\ Sensible(v)
  BY <1>1, SeenIsSensible DEF Typed
<1>3. x \in Replies /\ y \in Replies /\ Heard(v, x) = v /\ Heard(v, y) = v
  BY OtherLines
<1>4. Append(toClient, x) \in Seq(Replies) /\ Seen(Here, v, Append(toClient, x))
  BY <1>1, <1>2, <1>3, ViewGrows, AppendProperties
<1>5. Seen(Here, v, Append(Append(toClient, x), y))
  BY <1>2, <1>3, <1>4, ViewGrows
<1>6. Here' = Here
  BY DEF Here, clientVars, deniedVars
<1>7. Seen(Here', v, toClient')
  BY <1>1, <1>4, <1>5, <1>6
<1>8. \A i \in DOMAIN toClient : i \in DOMAIN toClient' /\ toClient'[i] = toClient[i]
  <2> DEFINE one == Append(toClient, x)
             two == Append(one, y)
  <2>1. /\ Len(one) = Len(toClient) + 1 /\ DOMAIN one = 1 .. Len(one) /\ DOMAIN toClient = 1 .. Len(toClient)
        /\ Len(toClient) \in Nat /\ \A i \in 1 .. Len(toClient) : one[i] = toClient[i]
    BY <1>2, <1>3, AppendProperties
  <2>2. one \in Seq(Replies)
    BY <1>4
  <2> HIDE DEF one
  <2>3. /\ DOMAIN two = 1 .. Len(one) + 1 /\ \A i \in 1 .. Len(one) : two[i] = one[i]
    BY <1>3, <2>2, AppendProperties
  <2>4. toClient' \in {toClient, one, two}
    BY DEF one
  <2> HIDE DEF two
  <2> QED BY <2>1, <2>3, <2>4
<1>9. \A c : ToCome(c) => ToCome(c)'
  BY <1>8, ServerKeepsToCome
<1>10. Agrees(v)'
  BY <1>1, <1>9 DEF Agrees
<1> QED BY <1>7, <1>10 DEF Views, Seen

\* So do a change the server announces, a new connection and every handler.
LEMMA ChangeKeepsViews ==
    ASSUME Typed, Views, NEW names \in SUBSET Caps, ServerChanges(names)
    PROVE  Views'
<1>1. PICK m : Announced(names, m)
  BY ChangeIs
<1>2. Here' = Here /\ m \in Replies /\ m.caps = names
  BY <1>1 DEF Announced, clientVars, deniedVars, Here
<1>3. PICK v : Seen(Here, v, toClient) /\ Agrees(v)
  BY DEF Views
<1>4. Sensible(v)
  BY <1>3, SeenIsSensible DEF Typed
<1>5. \A i \in DOMAIN toClient : i \in DOMAIN toClient' /\ toClient'[i] = toClient[i]
  BY <1>1, AppendProperties DEF Announced, Typed
<1>6. \A c : ToCome(c) => ToCome(c)'
  BY <1>1, <1>5, ServerKeepsToCome DEF Announced
<1> SUFFICES Agrees(Heard(v, m))'
  BY <1>1, <1>2, <1>3, ViewsWithLine DEF Announced
<1>7. CASE /\ m.cmd = "NEW" /\ names \cap offered = {} /\ offered' = offered \cup names
           /\ refused' \in {refused, refused \cup names} /\ enabled' = enabled
  <2>1. Heard(v, m) = [known |-> v.known \cup names, on |-> v.on, unlisted |-> v.unlisted]
    BY <1>2, <1>7 DEF Heard
  <2> QED BY <1>3, <1>6, <1>7, <2>1 DEF Agrees
<1>8. CASE /\ m.cmd = "DEL" /\ offered' = offered \ names
           /\ refused' = refused \ names /\ enabled' = enabled \ names
  <2>1. Heard(v, m) = [known |-> v.known \ names, on |-> v.on \ (names \cap v.known),
                       unlisted |-> v.unlisted]
    BY <1>2, <1>8 DEF Heard
  <2> QED BY <1>3, <1>4, <1>6, <1>8, <2>1 DEF Sensible, Agrees
<1> QED BY <1>1, <1>7, <1>8 DEF Announced

LEMMA ConnectHasViews == ASSUME ConnectToIrc PROVE Views'
<1> DEFINE h == [known |-> {}, on |-> {}, unlisted |-> {}]
           t == [i \in {0} |-> h]
<1>1. Here' = h /\ toClient' = <<>> /\ enabled' = {} /\ offered' = {}
  BY DEF ConnectToIrc, Here
<1>2. t[0] = h /\ Sensible(h) /\ h.on = {}
  BY DEF Sensible
<1> HIDE DEF t
<1>3. Agrees(h)'
  BY <1>1 DEF Agrees
<1> HIDE DEF h
<1>4. Len(<<>>) = 0 /\ 1 .. 0 = {} /\ 0 .. 0 = {0}
  OBVIOUS
<1>5. Seen(h, h, <<>>)
  BY <1>2, <1>4 DEF Seen
<1> QED BY <1>1, <1>3, <1>5 DEF Views, Seen, h

LEMMA HandleKeepsViews == ASSUME Typed, Views, Handle PROVE Views'
<1>1. /\ toClient # <<>> /\ toClient' = Tail(toClient) /\ UNCHANGED serverVars
      /\ Here' = Heard(Here, Head(toClient))
  BY HandleHears
<1>2. PICK v : Seen(Here, v, toClient) /\ Agrees(v)
  BY DEF Views
<1>3. Seen(Heard(Here, Head(toClient)), v, Tail(toClient))
  BY <1>1, <1>2, ViewShrinks DEF Typed
<1>4. Seen(Here', v, toClient')
  BY <1>1, <1>3
<1>5. Agrees(v)'
  BY <1>1, <1>2, HandleKeepsToCome DEF Agrees, serverVars
<1> QED BY <1>4, <1>5 DEF Views, Seen

LEMMA StartHasViews == Init => Views
<1> SUFFICES ASSUME Init PROVE Views
  OBVIOUS
<1> DEFINE h == [known |-> {}, on |-> {}, unlisted |-> {}]
           t == [i \in {0} |-> h]
<1>1. Here = h /\ toClient = <<>> /\ enabled = {} /\ offered = {}
  BY DEF Init, Here
<1>2. t[0] = h /\ Sensible(h) /\ h.on = {}
  BY DEF Sensible
<1> HIDE DEF t
<1>3. Agrees(h)
  BY <1>1 DEF Agrees
<1> HIDE DEF h
<1>4. Len(<<>>) = 0 /\ 1 .. 0 = {} /\ 0 .. 0 = {0}
  OBVIOUS
<1>5. Seen(h, h, <<>>)
  BY <1>2, <1>4 DEF Seen
<1> QED BY <1>1, <1>3, <1>5 DEF Views

\* Every step keeps the agreement.
LEMMA ViewsStep == ASSUME Typed, Fresh, Views, [Next]_vars PROVE Views'
<1>1. CASE UNCHANGED vars
  BY <1>1 DEF vars, userVars, clientVars, serverVars, deniedVars, Views, Seen, Agrees, ToCome, Here
<1>2. CASE Serve
  <2>1. CASE ServerIgnoresCap
    BY <2>1, IgnoreIs, OthersKeepViews
  <2>2. CASE ServerAuthenticates
    BY <2>2, AuthenticateIs, OthersKeepViews
  <2>3. CASE ServerWelcomes
    BY <2>3, WelcomesIs, OthersKeepViews
  <2> QED BY <1>2, <2>1, <2>2, <2>3, ListKeepsViews, AnswerKeepsViews DEF Serve
<1> QED BY <1>1, <1>2, ConnectHasViews, HandleKeepsViews, ChangeKeepsViews DEF Next

----------------------------------------------------------------------------
(* The negotiation until the server announces its first change.             *)

Names(lines) == UNION {lines[i].caps : i \in DOMAIN lines}
QueuesEmpty == individual = <<>> /\ bundled = <<>>

\* The list is under way, in one line or in two.
ListComes ==
    /\ toServer = <<>>
    /\ \E one, two \in Replies :
          /\ one.cmd = "LS" /\ two.cmd = "LS" /\ two.more = FALSE
          /\ \/ one.more = FALSE /\ toClient = <<one>>
             \/ one.more = TRUE /\ toClient = <<one, two>> /\ one.caps \cap two.caps = {}

\* One request, one step of the authentication or one answer is.
OneLine ==
    \/ /\ toClient = <<>>
       /\ \E m \in Requests : /\ toServer = <<m>>
                              /\ m.cmd = "REQ" \/ m \in {Line("AUTHENTICATE"), Line("CREDENTIALS")}
    \/ /\ toServer = <<>>
       /\ \E m \in Replies : /\ toClient = <<m>>
                             /\ m.cmd \in {"ACK", "NAK"} \/ m \in {Line("AUTHENTICATE"), Line("SASLREPLY")}

Talk ==
    \/ serverPhase = "waiting"
    \/ /\ serverPhase = "capless" /\ ~ended /\ QueuesEmpty
       /\ toServer = <<>> /\ \A i \in DOMAIN toClient : toClient[i] = Line("WELCOME")
    \/ serverPhase = "listed" /\ ~ended /\ (ListComes \/ OneLine)
    \/ /\ serverPhase = "listed" /\ ended /\ QueuesEmpty
       /\ toServer = <<Line("END")>> /\ toClient = <<>>
    \/ /\ serverPhase = "welcomed" /\ ended /\ QueuesEmpty
       /\ toServer = <<>> /\ \A i \in DOMAIN toClient : toClient[i] \in {Line("SASLREPLY"), Line("WELCOME")}

\* SASL is never asked for together with others, and only once.
NoSaslBundled == Sasl \notin ToSet(bundled) /\ Sasl \notin ToSet(lastBundle)
SaslOnce ==
    /\ Once(individual)
    /\ Sasl \in ToSet(individual) => Sasl \notin capsEnabled
    /\ Sasl \in Names(toServer) \cup Names(toClient) =>
          Sasl \notin capsEnabled /\ Sasl \notin ToSet(individual)

\* A SASL exchange that is wanted and possible is over or still to come.
SaslAhead ==
    /\ ~ended
    /\ \/ Sasl \in ToSet(individual)
       \/ Sasl \in Names(toServer) \cup Names(toClient)
       \/ \E i \in DOMAIN toServer : toServer[i].cmd \in {"AUTHENTICATE", "CREDENTIALS"}
       \/ \E i \in DOMAIN toClient : toClient[i].cmd \in {"AUTHENTICATE", "SASLREPLY"}
SaslComes ==
    /\ serverPhase = "listed" /\ useSasl /\ Sasl \in offered => saslDone \/ SaslAhead
    /\ ~ended => /\ \A i \in DOMAIN toServer : toServer[i].cmd = "CREDENTIALS" => authenticating
                 /\ \A i \in DOMAIN toClient : toClient[i].cmd = "AUTHENTICATE" => authenticating

\* The list has what was not listed yet, and what is denied by itself is refused.
AnswersFit ==
    \A i \in DOMAIN toClient :
        /\ toClient[i].cmd = "LS" => toClient[i].caps \cap caps = {}
        /\ toClient[i].cmd = "NAK" /\ ~Bundle(toClient[i]) => toClient[i].caps \cap (offered \ refused) = {}

\* What the core wants and would get is on, queued, asked for or granted, or in the
\* list or a denied bundle under way, unless it was put by when a bundle was denied.
WantedAsked ==
    \A c \in (offered \ refused) \cap Wanted :
        \/ c \in skipped \cup capsEnabled \cup ToSet(individual) \cup ToSet(bundled) \cup Names(toServer)
        \/ \E i \in DOMAIN toClient :
              c \in toClient[i].caps /\ (toClient[i].cmd \in {"LS", "ACK"} \/ Bundle(toClient[i]))

Course == Talk /\ SaslOnce /\ SaslComes /\ AnswersFit /\ WantedAsked
Initially == changes = 0 => Course

\* No line, one line, two lines.
LEMMA FewLines ==
    /\ Names(<<>>) = {} /\ ToSet(<<>>) = {} /\ DOMAIN <<>> = {}
    /\ \A m : Names(<<m>>) = m.caps /\ DOMAIN <<m>> = {1} /\ <<m>>[1] = m
              /\ Head(<<m>>) = m /\ Tail(<<m>>) = <<>> /\ Len(<<m>>) = 1 /\ <<m>> # <<>>
    /\ \A m, n : Names(<<m, n>>) = m.caps \cup n.caps /\ DOMAIN <<m, n>> = {1, 2}
                 /\ <<m, n>>[1] = m /\ <<m, n>>[2] = n
                 /\ Head(<<m, n>>) = m /\ Tail(<<m, n>>) = <<n>> /\ Len(<<m, n>>) = 2
<1>1. /\ Names(<<>>) = {} /\ ToSet(<<>>) = {} /\ DOMAIN <<>> = {}
  BY DEF Names, ToSet
<1>2. ASSUME NEW m
      PROVE  /\ DOMAIN <<m>> = {1} /\ <<m>>[1] = m
             /\ Head(<<m>>) = m /\ Tail(<<m>>) = <<>> /\ Len(<<m>>) = 1 /\ <<m>> # <<>>
  OBVIOUS
<1>3. ASSUME NEW m, NEW n
      PROVE  /\ DOMAIN <<m, n>> = {1, 2} /\ <<m, n>>[1] = m /\ <<m, n>>[2] = n
             /\ Head(<<m, n>>) = m /\ Tail(<<m, n>>) = <<n>> /\ Len(<<m, n>>) = 2
  OBVIOUS
<1>4. ASSUME NEW m PROVE Names(<<m>>) = m.caps
  <2> DEFINE s == <<m>>
  <2>1. DOMAIN s = {1} /\ s[1] = m
    OBVIOUS
  <2> HIDE DEF s
  <2>2. Names(s) = m.caps
    BY <2>1 DEF Names
  <2> QED BY <2>2 DEF s
<1>5. ASSUME NEW m, NEW n PROVE Names(<<m, n>>) = m.caps \cup n.caps
  <2> DEFINE s == <<m, n>>
  <2>1. DOMAIN s = {1, 2} /\ s[1] = m /\ s[2] = n
    OBVIOUS
  <2> HIDE DEF s
  <2>2. Names(s) = m.caps \cup n.caps
    BY <2>1 DEF Names
  <2> QED BY <2>2 DEF s
<1> QED BY <1>1, <1>2, <1>3, <1>4, <1>5

LEMMA FirstLines ==
    ASSUME NEW x, NEW y
    PROVE  Append(<<>>, x) = <<x>> /\ Append(Append(<<>>, x), y) = <<x, y>>
<1>1. Append(<<>>, x) = <<x>>
  OBVIOUS
<1>2. x \in {x, y} /\ y \in {x, y}
  OBVIOUS
<1>3. <<x, y>> = Append(<<x>>, y)
  BY <1>2
<1> QED BY <1>1, <1>3

LEMMA LinesSay ==
    \A cmd : Line(cmd).cmd = cmd /\ Line(cmd).caps = {} /\ Line(cmd).more = FALSE
BY DEF Line, Message

\* What the core does next when it has handled the only line under way: it asks for
\* more, or ends the negotiation.
Follows(c) ==
    /\ toClient' = <<>> /\ caps' = c.caps /\ capsEnabled' = c.on
    /\ \/ /\ ~ended'
          /\ \E m \in Requests :
                /\ toServer' = <<m>> /\ m.cmd = "REQ"
                /\ ToSet(c.individual) \cup ToSet(c.bundled)
                      = m.caps \cup ToSet(individual') \cup ToSet(bundled')
                /\ ToSet(individual') \subseteq ToSet(c.individual)
                /\ ToSet(bundled') \subseteq ToSet(c.bundled)
                /\ Once(c.individual) => Once(individual')
                /\ Once(c.individual) /\ Sasl \notin ToSet(c.bundled) /\ Sasl \in m.caps =>
                      Sasl \in ToSet(c.individual) /\ Sasl \notin ToSet(individual')
       \/ /\ ended' /\ toServer' = <<Line("END")>> /\ individual' = <<>> /\ bundled' = <<>>
          /\ c.individual = <<>> /\ c.bundled = <<>>

\* What is sent when nothing else is under way follows,
LEMMA SentFollows ==
    ASSUME NEW c, NEW r, Takes(r), Sent(c, r), c.out = <<>>, c.ended = FALSE,
           toServer = <<>>, toClient' = <<>>
    PROVE  Follows(c)
<1>1. toServer' = r.out /\ caps' = c.caps /\ capsEnabled' = c.on
  <2>1. r.out \in Seq(Said)
    BY DEF Takes, Clients
  <2> QED BY <2>1, ConcatEmptySeq DEF Takes, Sent
<1>2. ASSUME NEW m \in Said, Requested(c, r, m) PROVE Follows(c)
  <2>1. toServer' = <<m>>
    <3>1. Append(<<>>, m) = <<m>>
      OBVIOUS
    <3> QED BY <1>1, <1>2, <3>1 DEF Requested
  <2>2. m \in Requests
    BY DEF Said
  <2> QED BY <1>1, <1>2, <2>1, <2>2 DEF Follows, Requested, Takes
<1>3. ASSUME Ended(c, r) PROVE Follows(c)
  <2> DEFINE x == Line("END")
  <2>1. r.out = Append(<<>>, x)
    BY <1>3 DEF Ended
  <2> HIDE DEF x
  <2>2. Append(<<>>, x) = <<x>>
    OBVIOUS
  <2>3. toServer' = <<Line("END")>>
    BY <1>1, <2>1, <2>2 DEF x
  <2> QED BY <1>1, <1>3, <2>3 DEF Follows, Ended, InProgress, Takes
<1> QED BY <1>2, <1>3 DEF Sent

\* ... and keeps to the course, if what it starts from does.
LEMMA FollowsKeepsCourse ==
    ASSUME NEW c, Follows(c), serverPhase' = "listed",
           Once(c.individual), Sasl \notin ToSet(c.bundled),
           Sasl \in ToSet(c.individual) => Sasl \notin c.on,
           useSasl' /\ Sasl \in offered' => saslDone' \/ Sasl \in ToSet(c.individual),
           \A x \in (offered' \ refused') \cap Wanted' :
              x \in skipped' \cup c.on \cup ToSet(c.individual) \cup ToSet(c.bundled)
    PROVE  Course'
<1>1. Names(<<>>) = {} /\ ToSet(<<>>) = {} /\ DOMAIN <<>> = {}
  BY FewLines
<1>2. CASE ~ended'
  <2>1. PICK m \in Requests :
                /\ toServer' = <<m>> /\ m.cmd = "REQ"
                /\ ToSet(c.individual) \cup ToSet(c.bundled)
                      = m.caps \cup ToSet(individual') \cup ToSet(bundled')
                /\ ToSet(individual') \subseteq ToSet(c.individual)
                /\ ToSet(bundled') \subseteq ToSet(c.bundled)
                /\ Once(individual')
                /\ Sasl \in m.caps => Sasl \in ToSet(c.individual) /\ Sasl \notin ToSet(individual')
    BY <1>2 DEF Follows
  <2>2. Names(toServer') = m.caps /\ DOMAIN toServer' = {1} /\ toServer'[1] = m
    BY <2>1, FewLines
  <2>3. toClient' = <<>> /\ caps' = c.caps /\ capsEnabled' = c.on
    BY DEF Follows
  <2>4. Names(toClient') = {} /\ DOMAIN toClient' = {}
    BY <1>1, <2>3
  <2>5. Talk'
    BY <1>2, <2>1, <2>3 DEF Talk, OneLine
  <2>6. SaslOnce'
    BY <2>1, <2>2, <2>3, <2>4 DEF SaslOnce
  <2>7. SaslComes'
    BY <1>2, <2>1, <2>2, <2>4 DEF SaslComes, SaslAhead
  <2>8. WantedAsked'
    BY <2>1, <2>2, <2>3 DEF WantedAsked
  <2>9. AnswersFit'
    BY <2>4 DEF AnswersFit
  <2> QED BY <2>5, <2>6, <2>7, <2>8, <2>9 DEF Course
<1>3. CASE ended'
  <2>1. /\ toServer' = <<Line("END")>> /\ individual' = <<>> /\ bundled' = <<>>
        /\ c.individual = <<>> /\ c.bundled = <<>>
        /\ toClient' = <<>> /\ caps' = c.caps /\ capsEnabled' = c.on
    BY <1>3 DEF Follows
  <2>2. Names(toServer') = {}
    BY <2>1, FewLines, LinesSay
  <2>3. Names(toClient') = {} /\ DOMAIN toClient' = {}
    BY <1>1, <2>1
  <2>4. Talk'
    BY <1>3, <2>1 DEF Talk, QueuesEmpty
  <2>5. SaslOnce'
    BY <1>1, <2>1, <2>2, <2>3 DEF SaslOnce
  <2>6. SaslComes'
    BY <1>1, <1>3, <2>1 DEF SaslComes
  <2>7. WantedAsked'
    BY <1>1, <2>1 DEF WantedAsked
  <2>8. AnswersFit'
    BY <2>3 DEF AnswersFit
  <2> QED BY <2>4, <2>5, <2>6, <2>7, <2>8 DEF Course
<1> QED BY <1>2, <1>3

----------------------------------------------------------------------------
(* The handlers, before the first change.                                   *)

\* In the middle of the negotiation only one line, or the list, is under way to the
\* core; else the core has nothing queued.
LEMMA LineUnderWay ==
    ASSUME Typed, Fresh, Course, toClient # <<>>
    PROVE  /\ toServer = <<>>
           /\ \/ /\ serverPhase = "listed" /\ ended = FALSE
                 /\ \/ \E m \in Replies :
                          /\ toClient = <<m>>
                          /\ \/ m.cmd = "LS" /\ m.more = FALSE
                             \/ m.cmd \in {"ACK", "NAK"}
                             \/ m \in {Line("AUTHENTICATE"), Line("SASLREPLY")}
                    \/ \E one, two \in Replies :
                          /\ toClient = <<one, two>>
                          /\ one.cmd = "LS" /\ two.cmd = "LS" /\ one.more = TRUE /\ two.more = FALSE
                          /\ one.caps \cap two.caps = {}
              \/ /\ serverPhase \in {"capless", "welcomed"} /\ QueuesEmpty
                 /\ ended <=> serverPhase = "welcomed"
                 /\ \A i \in DOMAIN toClient : toClient[i] \in {Line("SASLREPLY"), Line("WELCOME")}
BY FewLines DEF Course, Talk, ListComes, OneLine, Fresh, Typed, TypeOK

\* A line of the list: SASL was not listed before, and is queued now.
LEMMA ListKeepsCourse ==
    ASSUME Typed, Fresh, NoSaslBundled, Course, HandleList
    PROVE  Course'
<1> DEFINE h == Head(toClient)
           a == AddCaps(Client, h.caps)
<1>1. PICK r : /\ Takes(r) /\ h.cmd \in {"LS", "NEW"}
               /\ IF h.more THEN r = a ELSE Sent(a, r)
               /\ UNCHANGED <<saslDone, deniedVars>>
  BY ListHandled
<1>2. toClient # <<>> /\ toClient' = Tail(toClient) /\ h \in Replies /\ h = toClient[1]
      /\ DOMAIN toClient = 1 .. Len(toClient) /\ Len(toClient) \in Nat \ {0}
  BY <1>1, LineIs DEF Takes, Typed
<1>3. h.caps \subseteq Caps
  BY <1>2 DEF Replies
<1>4. LET new == (h.caps \ caps) \cap Wanted
      IN  /\ a \in Clients
          /\ a.caps = caps \cup h.caps /\ a.on = capsEnabled /\ a.ended = ended /\ a.out = <<>>
          /\ ToSet(a.individual) = ToSet(individual) \cup (new \cap {Sasl})
          /\ ToSet(a.bundled) = ToSet(bundled) \cup (new \ {Sasl})
          /\ Once(individual) => Once(a.individual)
  <2> HIDE DEF h
  <2> QED BY <1>3, ClientIs, AddCapsIs
<1>5. /\ userVars' = userVars /\ serverVars' = serverVars
  BY <1>1 DEF Takes
<1>6. /\ toServer = <<>> /\ serverPhase = "listed" /\ ended = FALSE
      /\ \/ toClient = <<h>> /\ h.cmd = "LS" /\ h.more = FALSE
         \/ \E two \in Replies :
               /\ toClient = <<h, two>> /\ h.cmd = "LS" /\ h.more = TRUE
               /\ two.cmd = "LS" /\ two.more = FALSE /\ h.caps \cap two.caps = {}
  <2>1. \A i \in DOMAIN toClient : toClient[i] \notin {Line("SASLREPLY"), Line("WELCOME")} \/ i # 1
    BY <1>1, <1>2, LinesSay
  <2>2. \A m : toClient = <<m>> => h = m
    BY FewLines
  <2>3. \A m, n : toClient = <<m, n>> => h = m
    BY FewLines
  <2> HIDE DEF h, a
  <2>4. 1 \in DOMAIN toClient
    BY <1>2
  <2>5. h \notin {Line("AUTHENTICATE"), Line("SASLREPLY")} /\ h.cmd \notin {"ACK", "NAK"}
    BY <1>1, LinesSay
  <2> QED BY <1>2, <2>1, <2>2, <2>3, <2>4, <2>5, LineUnderWay
<1> HIDE DEF h, a
<1>7. Names(toServer) = {} /\ DOMAIN toServer = {}
  BY <1>6, FewLines
<1>8. /\ Sasl \in h.caps => Sasl \notin capsEnabled /\ Sasl \notin ToSet(individual) /\ Sasl \notin caps
      /\ h.caps \cap caps = {}
  <2>1. h.caps \subseteq Names(toClient) /\ h = toClient[1] /\ 1 \in DOMAIN toClient
    BY <1>2 DEF Names
  <2> QED BY <1>6, <2>1 DEF Course, SaslOnce, AnswersFit
<1>9. CASE toClient = <<h>> /\ h.more = FALSE
  <2>1. Names(toClient) = h.caps /\ DOMAIN toClient = {1} /\ toClient[1] = h /\ toClient' = <<>>
    BY <1>2, <1>9, FewLines
  <2>2. Sent(a, r)
    BY <1>1, <1>9
  <2>3. Follows(a)
    BY <1>1, <1>4, <1>6, <2>1, <2>2, SentFollows
  <2>4. Once(a.individual) /\ Sasl \notin ToSet(a.bundled)
    BY <1>4 DEF Course, SaslOnce, NoSaslBundled
  <2>5. Sasl \in ToSet(a.individual) => Sasl \notin a.on
    BY <1>4, <1>8 DEF Course, SaslOnce
  <2>6. useSasl /\ Sasl \in offered => saslDone \/ Sasl \in ToSet(a.individual)
    <3>1. SUFFICES ASSUME useSasl, Sasl \in offered, ~saslDone PROVE Sasl \in ToSet(a.individual)
      OBVIOUS
    <3>2. Sasl \in ToSet(individual) \/ Sasl \in h.caps
      BY <1>6, <1>7, <2>1, <3>1 DEF Course, SaslComes, SaslAhead
    <3>3. Sasl \in Wanted
      BY <3>1, CapsAssumption DEF Wanted
    <3> QED BY <1>4, <1>8, <3>2, <3>3
  <2>7. \A x \in (offered \ refused) \cap Wanted :
           x \in skipped \cup a.on \cup ToSet(a.individual) \cup ToSet(a.bundled)
    <3>1. SUFFICES ASSUME NEW x \in (offered \ refused) \cap Wanted
                   PROVE  x \in skipped \cup a.on \cup ToSet(a.individual) \cup ToSet(a.bundled)
      OBVIOUS
    <3>2. CASE x \notin h.caps
      <4>1. x \in skipped \cup capsEnabled \cup ToSet(individual) \cup ToSet(bundled)
        BY <1>7, <2>1, <3>1, <3>2 DEF Course, WantedAsked
      <4> QED BY <1>4, <4>1
    <3>3. CASE x \in h.caps
      BY <1>4, <1>8, <3>1, <3>3
    <3> QED BY <3>2, <3>3
  <2>8. /\ useSasl' = useSasl /\ offered' = offered /\ refused' = refused /\ serverPhase' = "listed"
        /\ saslDone' = saslDone /\ skipped' = skipped /\ Wanted' = Wanted
    BY <1>1, <1>5, <1>6 DEF userVars, serverVars, deniedVars, Wanted
  <2> QED BY <2>3, <2>4, <2>5, <2>6, <2>7, <2>8, FollowsKeepsCourse
<1>10. ASSUME NEW two \in Replies, toClient = <<h, two>>, h.cmd = "LS", h.more = TRUE,
              two.cmd = "LS", two.more = FALSE, h.caps \cap two.caps = {}
       PROVE  Course'
  <2>1. /\ Names(toClient) = h.caps \cup two.caps /\ toClient' = <<two>>
        /\ DOMAIN toClient = {1, 2} /\ toClient[1] = h /\ toClient[2] = two
        /\ Names(toClient') = two.caps /\ DOMAIN toClient' = {1} /\ toClient'[1] = two
    BY <1>2, <1>10, FewLines
  <2>2. r = a
    BY <1>1, <1>10
  <2>3. /\ toServer' = <<>> /\ caps' = a.caps /\ capsEnabled' = a.on /\ ended' = FALSE
        /\ individual' = a.individual /\ bundled' = a.bundled
    <3>1. <<>> \o <<>> = <<>>
      OBVIOUS
    <3> QED BY <1>1, <1>4, <1>6, <2>2, <3>1 DEF Takes
  <2>4. Names(toServer') = {} /\ DOMAIN toServer' = {}
    BY <2>3, FewLines
  <2>5. /\ Sasl \in two.caps => Sasl \notin capsEnabled /\ Sasl \notin ToSet(individual) /\ Sasl \notin caps
        /\ two.caps \cap caps = {}
    BY <1>10, <2>1 DEF Course, SaslOnce, AnswersFit
  <2>6. Talk'
    BY <1>5, <1>6, <1>10, <2>1, <2>3 DEF Talk, ListComes, serverVars
  <2>7. SaslOnce'
    <3>1. Once(individual') /\ (Sasl \in ToSet(individual') => Sasl \notin capsEnabled')
      BY <1>4, <1>8, <2>3 DEF Course, SaslOnce
    <3>2. Sasl \in two.caps => Sasl \notin capsEnabled' /\ Sasl \notin ToSet(individual') /\ Sasl \notin caps'
      BY <1>4, <1>10, <2>3, <2>5
    <3> QED BY <2>1, <2>4, <3>1, <3>2 DEF SaslOnce
  <2>8. SaslComes'
    <3>1. ASSUME useSasl, Sasl \in offered, ~saslDone PROVE Sasl \in ToSet(individual') \cup two.caps
      <4>1. Sasl \in ToSet(individual) \/ Sasl \in h.caps \cup two.caps
        BY <1>6, <1>7, <1>10, <2>1, <3>1 DEF Course, SaslComes, SaslAhead
      <4>2. Sasl \in Wanted
        BY <3>1, CapsAssumption DEF Wanted
      <4> QED BY <1>4, <1>8, <2>3, <4>1, <4>2
    <3> QED BY <1>1, <1>5, <1>10, <2>1, <2>3, <2>4, <3>1 DEF SaslComes, SaslAhead, userVars, serverVars
  <2>9. WantedAsked'
    <3>1. ASSUME NEW x \in (offered \ refused) \cap Wanted, x \notin two.caps
          PROVE  x \in skipped \cup a.on \cup ToSet(a.individual) \cup ToSet(a.bundled)
      <4>1. CASE x \notin h.caps
        <5>1. x \in skipped \cup capsEnabled \cup ToSet(individual) \cup ToSet(bundled)
          BY <1>7, <2>1, <3>1, <4>1 DEF Course, WantedAsked
        <5> QED BY <1>4, <5>1
      <4>2. CASE x \in h.caps
        BY <1>4, <1>8, <3>1, <4>2
      <4> QED BY <4>1, <4>2
    <3>2. Wanted' = Wanted /\ offered' = offered /\ refused' = refused /\ skipped' = skipped
      BY <1>1, <1>5 DEF Wanted, userVars, serverVars, deniedVars
    <3> QED BY <1>10, <2>1, <2>3, <3>1, <3>2 DEF WantedAsked
  <2>10. AnswersFit'
    <3>1. two.caps \cap caps' = {} /\ two.cmd # "NAK"
      BY <1>4, <1>10, <2>3, <2>5
    <3> QED BY <2>1, <3>1 DEF AnswersFit
  <2> QED BY <2>6, <2>7, <2>8, <2>9, <2>10 DEF Course
<1> QED BY <1>6, <1>9, <1>10

\* An answer is the only line under way.
LEMMA OnlyLine ==
    ASSUME Typed, Fresh, Course, toClient # <<>>,
           Head(toClient).cmd \notin {"LS", "NEW", "WELCOME"},
           serverPhase = "listed" \/ Head(toClient).cmd # "SASLREPLY"
    PROVE  LET h == Head(toClient)
           IN  /\ serverPhase = "listed" /\ ended = FALSE
               /\ toServer = <<>> /\ Names(toServer) = {} /\ DOMAIN toServer = {}
               /\ toClient = <<h>> /\ Names(toClient) = h.caps /\ DOMAIN toClient = {1} /\ toClient[1] = h
               /\ Tail(toClient) = <<>>
               /\ h \in Replies /\ h.caps \subseteq Caps
               /\ h.cmd \in {"ACK", "NAK"} \/ h \in {Line("AUTHENTICATE"), Line("SASLREPLY")}
<1> DEFINE h == Head(toClient)
<1>1. h \in Replies /\ h = toClient[1] /\ 1 \in DOMAIN toClient
  BY LineIs DEF Typed
<1>2. h.caps \subseteq Caps
  BY <1>1 DEF Replies
<1>3. \A m : toClient = <<m>> => h = m
  BY FewLines
<1>4. \A m, n : toClient = <<m, n>> => h = m
  BY FewLines
<1> HIDE DEF h
<1>5. h.cmd \notin {"LS", "NEW", "WELCOME"} /\ (serverPhase = "listed" \/ h.cmd # "SASLREPLY")
  BY DEF h
<1>6. /\ toServer = <<>> /\ serverPhase = "listed" /\ ended = FALSE /\ toClient = <<h>>
      /\ h.cmd \in {"ACK", "NAK"} \/ h \in {Line("AUTHENTICATE"), Line("SASLREPLY")}
  <2>1. ~(/\ serverPhase \in {"capless", "welcomed"}
          /\ \A i \in DOMAIN toClient : toClient[i] \in {Line("SASLREPLY"), Line("WELCOME")})
    BY <1>1, <1>5, LinesSay
  <2> QED BY <1>3, <1>4, <1>5, <2>1, LineUnderWay
<1>7. /\ Names(toServer) = {} /\ DOMAIN toServer = {}
      /\ Names(toClient) = h.caps /\ DOMAIN toClient = {1} /\ toClient[1] = h /\ Tail(toClient) = <<>>
  BY <1>6, FewLines
<1> QED BY <1>1, <1>2, <1>6, <1>7 DEF h

\* What is granted is on; SASL is then configured.
LEMMA AckKeepsCourse ==
    ASSUME Typed, Fresh, NoSaslBundled, Course, HandleAck
    PROVE  Course'
<1> DEFINE h == Head(toClient)
           a == AcknowledgeCaps(Client, h.caps)
           s == [a EXCEPT !.out = <<Line("AUTHENTICATE")>>]
<1>1. PICK r : /\ Takes(r) /\ h.cmd = "ACK" /\ skipped' = skipped
               /\ saslDone' \in BOOLEAN /\ (saslDone => saslDone')
               /\ \/ Sent(a, r) /\ saslDone' = (saslDone \/ Sasl \in h.caps)
                  \/ Sasl \in h.caps \cap capsEnabled /\ r = a
                  \/ Sasl \in h.caps \ capsEnabled /\ r = s
  BY AckHandled
<1>2. toClient # <<>> /\ toClient' = Tail(toClient) /\ userVars' = userVars /\ serverVars' = serverVars
  BY <1>1 DEF Takes
<1>3. /\ serverPhase = "listed" /\ ended = FALSE
      /\ toServer = <<>> /\ Names(toServer) = {} /\ DOMAIN toServer = {}
      /\ Names(toClient) = h.caps /\ DOMAIN toClient = {1} /\ toClient[1] = h /\ toClient' = <<>>
      /\ h.caps \subseteq Caps
  BY <1>1, <1>2, OnlyLine
<1>4. /\ a \in Clients /\ a.caps = caps /\ a.on = capsEnabled \cup h.caps
      /\ a.individual = individual /\ a.bundled = bundled /\ a.ended = FALSE /\ a.out = <<>>
  <2>1. a = [Client EXCEPT !.on = capsEnabled \cup h.caps]
    BY ClientIs DEF AcknowledgeCaps
  <2> HIDE DEF h, a
  <2> QED BY <1>3, <2>1, ClientIs DEF Clients
<1>5. /\ s.caps = caps /\ s.on = capsEnabled \cup h.caps
      /\ s.individual = individual /\ s.bundled = bundled /\ s.ended = FALSE
      /\ s.out = <<Line("AUTHENTICATE")>>
  <2> HIDE DEF h, a
  <2> QED BY <1>4 DEF Clients
<1> HIDE DEF h, a, s
<1>6. /\ Once(individual) /\ Sasl \notin ToSet(bundled)
      /\ Sasl \in ToSet(individual) => Sasl \notin capsEnabled \cup h.caps
      /\ Sasl \in h.caps => Sasl \notin capsEnabled
  BY <1>3 DEF Course, SaslOnce, NoSaslBundled
<1>7. useSasl /\ Sasl \in offered => saslDone \/ Sasl \in ToSet(individual) \/ Sasl \in h.caps
  BY <1>1, <1>3 DEF Course, SaslComes, SaslAhead
<1>8. \A x \in (offered \ refused) \cap Wanted :
         x \in skipped \cup capsEnabled \cup h.caps \cup ToSet(individual) \cup ToSet(bundled)
  BY <1>3 DEF Course, WantedAsked
<1>9. /\ useSasl' = useSasl /\ offered' = offered /\ refused' = refused /\ serverPhase' = "listed"
      /\ skipped' = skipped /\ Wanted' = Wanted
  BY <1>1, <1>2, <1>3 DEF userVars, serverVars, Wanted
<1>10. CASE Sent(a, r) /\ saslDone' = (saslDone \/ Sasl \in h.caps)
  <2>1. Follows(a)
    BY <1>1, <1>3, <1>4, <1>10, SentFollows
  <2> QED BY <1>4, <1>6, <1>7, <1>8, <1>9, <1>10, <2>1, FollowsKeepsCourse
<1>11. CASE r = s
  <2> DEFINE x == Line("AUTHENTICATE")
  <2>1. x.cmd = "AUTHENTICATE" /\ x.caps = {} /\ x \in Requests
    BY LinesSay DEF Line, Message, Requests
  <2>2. toServer' = <<>> \o <<x>> /\ <<x>> \in Seq(Requests)
    <3>1. toServer' = <<>> \o s.out
      BY <1>1, <1>3, <1>11 DEF Takes
    <3> HIDE DEF x
    <3>2. s.out = <<x>>
      BY <1>5 DEF x
    <3> QED BY <2>1, <3>1, <3>2
  <2> HIDE DEF x
  <2>3. toServer' = <<x>>
    BY <2>2, ConcatEmptySeq
  <2>4. Names(toServer') = {} /\ DOMAIN toServer' = {1} /\ toServer'[1] = x
    BY <2>1, <2>3, FewLines
  <2>5. Names(toClient') = {} /\ DOMAIN toClient' = {}
    BY <1>3, FewLines
  <2>6. /\ caps' = caps /\ capsEnabled' = capsEnabled \cup h.caps /\ individual' = individual
        /\ bundled' = bundled /\ ended' = FALSE
    BY <1>1, <1>5, <1>11 DEF Takes
  <2>7. Talk'
    BY <1>3, <1>9, <2>1, <2>3, <2>6 DEF Talk, OneLine, x
  <2>8. SaslOnce'
    BY <1>6, <2>4, <2>5, <2>6 DEF SaslOnce
  <2>9. SaslComes'
    BY <2>1, <2>4, <2>5, <2>6 DEF SaslComes, SaslAhead
  <2>10. WantedAsked'
    BY <1>8, <1>9, <2>6 DEF WantedAsked
  <2>11. AnswersFit'
    BY <2>5 DEF AnswersFit
  <2> QED BY <2>7, <2>8, <2>9, <2>10, <2>11 DEF Course
<1> QED BY <1>1, <1>6, <1>10, <1>11

\* What was in a denied bundle is asked for again, or put by.
LEMMA NakKeepsCourse ==
    ASSUME Typed, Fresh, NoSaslBundled, Course, HandleNak
    PROVE  Course'
<1> DEFINE h == Head(toClient)
<1>1. PICK r, b : /\ Takes(r) /\ h.cmd = "NAK" /\ Denied(b) /\ Sent(b, r)
                  /\ saslDone' = (saslDone \/ Sasl \in h.caps)
                  /\ skipped' = skipped \cup Skipped(h)
  BY NakHandled
<1>2. toClient # <<>> /\ toClient' = Tail(toClient) /\ userVars' = userVars /\ serverVars' = serverVars
  BY <1>1 DEF Takes
<1>3. /\ serverPhase = "listed" /\ ended = FALSE
      /\ toServer = <<>> /\ Names(toServer) = {} /\ DOMAIN toServer = {}
      /\ Names(toClient) = h.caps /\ DOMAIN toClient = {1} /\ toClient[1] = h /\ toClient' = <<>>
      /\ h.caps \subseteq Caps
  BY <1>1, <1>2, OnlyLine
<1>4. /\ b \in Clients /\ b.caps = caps \ h.caps /\ b.on = capsEnabled \ (h.caps \cap caps)
      /\ b.bundled = bundled /\ b.ended = FALSE /\ b.out = <<>>
      /\ b.individual \in {individual, individual \o lastBundle}
      /\ Cardinality(h.caps) > 1 => b.individual = individual \o lastBundle
  BY <1>1, <1>3 DEF Denied
<1> HIDE DEF h
<1>5. /\ individual \in Seq(Caps) /\ lastBundle \in Seq(Caps)
      /\ ToSet(individual \o lastBundle) = ToSet(individual) \cup ToSet(lastBundle)
  BY ConcatElements DEF Typed, TypeOK
<1>6. Once(individual) => Once(individual \o lastBundle)
  <2> DEFINE s == individual \o lastBundle
             n == Len(individual)
  <2>1. /\ n \in Nat /\ Len(lastBundle) \in Nat /\ DOMAIN s = 1 .. n + Len(lastBundle)
        /\ DOMAIN individual = 1 .. n /\ DOMAIN lastBundle = 1 .. Len(lastBundle)
        /\ \A k \in 1 .. n + Len(lastBundle) : s[k] = IF k <= n THEN individual[k] ELSE lastBundle[k - n]
    BY <1>5, ConcatProperties
  <2> HIDE DEF s, n
  <2>2. \A k \in DOMAIN s : s[k] = Sasl => k \in DOMAIN individual /\ s[k] = individual[k]
    <3> SUFFICES ASSUME NEW k \in DOMAIN s, s[k] = Sasl PROVE k <= n
      BY <2>1
    <3>1. CASE k > n
      <4>1. k - n \in DOMAIN lastBundle /\ lastBundle[k - n] = Sasl
        BY <2>1, <3>1
      <4> QED BY <4>1 DEF NoSaslBundled, ToSet
    <3> QED BY <2>1, <3>1
  <2> QED BY <2>2 DEF Once, s
<1>7. /\ Once(b.individual) /\ Sasl \notin ToSet(b.bundled)
      /\ Sasl \in ToSet(b.individual) <=> Sasl \in ToSet(individual)
      /\ ToSet(individual) \subseteq ToSet(b.individual)
  BY <1>4, <1>5, <1>6 DEF Course, SaslOnce, NoSaslBundled
<1>8. Sasl \in ToSet(b.individual) => Sasl \notin b.on
  BY <1>4, <1>7 DEF Course, SaslOnce
<1>9. useSasl /\ Sasl \in offered => saslDone' \/ Sasl \in ToSet(b.individual)
  BY <1>1, <1>3, <1>7 DEF Course, SaslComes, SaslAhead
<1>10. \A x \in (offered \ refused) \cap Wanted :
          x \in skipped' \cup b.on \cup ToSet(b.individual) \cup ToSet(b.bundled)
  <2> SUFFICES ASSUME NEW x \in (offered \ refused) \cap Wanted
               PROVE  x \in skipped' \cup b.on \cup ToSet(b.individual) \cup ToSet(b.bundled)
    OBVIOUS
  <2>1. CASE x \in h.caps
    <3>1. Cardinality(h.caps) > 1
      BY <1>1, <1>3, <2>1 DEF Course, AnswersFit, Bundle
    <3>2. x \in ToSet(lastBundle) \/ x \in skipped'
      BY <1>1, <2>1, <3>1 DEF Skipped
    <3> QED BY <1>4, <1>5, <3>1, <3>2
  <2>2. CASE x \notin h.caps
    <3>1. x \in skipped \cup capsEnabled \cup ToSet(individual) \cup ToSet(bundled)
      BY <1>3, <2>2 DEF Course, WantedAsked
    <3> QED BY <1>1, <1>4, <1>7, <2>2, <3>1
  <2> QED BY <2>1, <2>2
<1>11. /\ useSasl' = useSasl /\ offered' = offered /\ refused' = refused /\ serverPhase' = "listed"
       /\ Wanted' = Wanted
  BY <1>2, <1>3 DEF userVars, serverVars, Wanted
<1>12. Follows(b)
  BY <1>1, <1>3, <1>4, SentFollows
<1> QED BY <1>7, <1>8, <1>9, <1>10, <1>11, <1>12, FollowsKeepsCourse

LEMMA AuthenticateKeepsCourse ==
    ASSUME Typed, Fresh, Course, HandleAuthenticate
    PROVE  Course'
<1> DEFINE h == Head(toClient)
           x == Line("CREDENTIALS")
<1>0. h.cmd = "AUTHENTICATE"
  BY DEF HandleAuthenticate, Receive
<1>1. PICK r : Takes(r) /\ UNCHANGED deniedVars /\ r = [Client EXCEPT !.out = <<x>>] /\ saslDone' = saslDone
  BY <1>0, OthersHandled
<1>2. toClient # <<>> /\ toClient' = Tail(toClient) /\ userVars' = userVars /\ serverVars' = serverVars
  BY <1>1 DEF Takes
<1>3. /\ serverPhase = "listed" /\ ended = FALSE
      /\ toServer = <<>> /\ Names(toServer) = {} /\ DOMAIN toServer = {}
      /\ Names(toClient) = h.caps /\ DOMAIN toClient = {1} /\ toClient[1] = h /\ toClient' = <<>>
      /\ h \in {Line("AUTHENTICATE"), Line("SASLREPLY")}
  BY <1>0, <1>2, OnlyLine
<1>4. h.caps = {}
  BY <1>3, LinesSay
<1> HIDE DEF h
<1>5. x.cmd = "CREDENTIALS" /\ x.caps = {} /\ x \in Requests
  BY LinesSay DEF Line, Message, Requests
<1>6. /\ caps' = caps /\ capsEnabled' = capsEnabled /\ individual' = individual
      /\ bundled' = bundled /\ ended' = FALSE /\ toServer' = <<>> \o r.out /\ r.out = <<x>>
  <2> HIDE DEF x
  <2> QED BY <1>1, <1>3, ClientIs DEF Takes, Clients
<1> HIDE DEF x
<1>7. toServer' = <<x>>
  <2>1. <<x>> \in Seq(Requests)
    BY <1>5
  <2> QED BY <1>6, <2>1, ConcatEmptySeq
<1>8. Names(toServer') = {} /\ DOMAIN toServer' = {1} /\ toServer'[1] = x
  BY <1>5, <1>7, FewLines
<1>9. Names(toClient') = {} /\ DOMAIN toClient' = {}
  BY <1>3, FewLines
<1>10. serverPhase' = "listed"
  BY <1>2, <1>3 DEF serverVars
<1>11. Talk'
  BY <1>3, <1>5, <1>6, <1>7, <1>10 DEF Talk, OneLine, x
<1>12. SaslOnce'
  BY <1>6, <1>8, <1>9 DEF Course, SaslOnce
<1>13. SaslComes'
  <2>1. authenticating' = authenticating /\ authenticating
    BY <1>0, <1>2, <1>3 DEF Course, SaslComes, serverVars
  <2> QED BY <1>5, <1>6, <1>8, <1>9, <2>1 DEF SaslComes, SaslAhead
<1>14. WantedAsked'
  <2>1. Wanted' = Wanted /\ offered' = offered /\ refused' = refused /\ skipped' = skipped
    BY <1>1, <1>2 DEF Wanted, userVars, serverVars, deniedVars
  <2> QED BY <1>3, <1>4, <1>6, <2>1 DEF Course, WantedAsked
<1>15. AnswersFit'
  BY <1>9 DEF AnswersFit
<1> QED BY <1>11, <1>12, <1>13, <1>14, <1>15 DEF Course

LEMMA SaslReplyKeepsCourse ==
    ASSUME Typed, Fresh, NoSaslBundled, Course, HandleSaslReply, serverPhase = "listed"
    PROVE  Course'
<1> DEFINE h == Head(toClient)
<1>0. h.cmd = "SASLREPLY"
  BY DEF HandleSaslReply, Receive
<1>1. PICK r : Takes(r) /\ UNCHANGED deniedVars /\ Sent(Client, r) /\ saslDone'
  BY <1>0, OthersHandled
<1>2. toClient # <<>> /\ toClient' = Tail(toClient) /\ userVars' = userVars /\ serverVars' = serverVars
  BY <1>1 DEF Takes
<1>3. /\ ended = FALSE
      /\ toServer = <<>> /\ Names(toServer) = {} /\ DOMAIN toServer = {}
      /\ DOMAIN toClient = {1} /\ toClient[1] = h /\ toClient' = <<>>
  BY <1>0, <1>2, OnlyLine
<1>4. Follows(Client)
  BY <1>1, <1>3, ClientIs, SentFollows
<1>5. /\ Once(individual) /\ Sasl \notin ToSet(bundled)
      /\ Sasl \in ToSet(individual) => Sasl \notin capsEnabled
  BY DEF Course, SaslOnce, NoSaslBundled
<1> HIDE DEF h
<1>6. \A x \in (offered \ refused) \cap Wanted :
         x \in skipped \cup capsEnabled \cup ToSet(individual) \cup ToSet(bundled)
  BY <1>0, <1>3 DEF Course, WantedAsked, Bundle
<1>7. /\ useSasl' = useSasl /\ offered' = offered /\ refused' = refused /\ serverPhase' = "listed"
      /\ skipped' = skipped /\ Wanted' = Wanted
  BY <1>1, <1>2 DEF userVars, serverVars, deniedVars, Wanted
<1> QED BY <1>1, <1>4, <1>5, <1>6, <1>7, ClientIs, FollowsKeepsCourse

\* After the end of the negotiation, and with a server that knows none, the core
\* has nothing to say.
LEMMA LateLinesKeepCourse ==
    ASSUME Typed, Fresh, Course, Handle, serverPhase # "listed"
    PROVE  Course'
<1> DEFINE h == Head(toClient)
<1>0. toClient # <<>>
  BY DEF Handle, HandleList, HandleAck, HandleNak, HandleDel, HandleAuthenticate, HandleSaslReply,
         HandleWelcome, Receive
<1>1. h = toClient[1] /\ DOMAIN toClient = 1 .. Len(toClient) /\ Len(toClient) \in Nat \ {0}
      /\ DOMAIN Tail(toClient) = 1 .. Len(toClient) - 1
      /\ \A i \in 1 .. Len(toClient) - 1 : Tail(toClient)[i] = toClient[i + 1]
  BY <1>0, LineIs DEF Typed
<1>2. /\ serverPhase \in {"capless", "welcomed"} /\ QueuesEmpty /\ toServer = <<>>
      /\ ended <=> serverPhase = "welcomed"
      /\ \A i \in DOMAIN toClient :
            toClient[i] = Line("WELCOME") \/ (ended /\ toClient[i] = Line("SASLREPLY"))
  BY <1>0 DEF Course, Talk, Fresh
<1>3. h.cmd = "WELCOME" \/ (ended /\ h.cmd = "SASLREPLY")
  BY <1>1, <1>2, LinesSay
<1>4. HandleWelcome \/ (ended /\ HandleSaslReply)
  BY <1>3 DEF Handle, HandleList, HandleAck, HandleNak, HandleDel, HandleAuthenticate,
         HandleSaslReply, HandleWelcome, Receive
<1>5. PICK r : /\ Takes(r) /\ UNCHANGED deniedVars /\ saslDone' \in BOOLEAN
               /\ r.caps = caps /\ r.on = capsEnabled
               /\ r.out = <<>> /\ r.individual = individual /\ r.bundled = bundled /\ r.ended = ended
  <2>1. PICK r : /\ Takes(r) /\ UNCHANGED deniedVars /\ saslDone' \in BOOLEAN
                 /\ r.caps = caps /\ r.on = capsEnabled
                 /\ (ended /\ Sent(Client, r)) \/ r = Client
    BY <1>3, <1>4, OthersHandled
  <2>2. ASSUME ended, Sent(Client, r)
        PROVE  r.out = <<>> /\ r.individual = individual /\ r.bundled = bundled /\ r.ended = ended
    <3>1. ~InProgress(Client)
      BY <1>2, ClientIs DEF InProgress, QueuesEmpty
    <3> QED BY <1>2, <2>2, <3>1, ClientIs DEF Sent, Requested, Ended, QueuesEmpty, Typed, TypeOK
  <2> QED BY <2>1, <2>2, ClientIs
<1> HIDE DEF h
<1>6. /\ toClient' = Tail(toClient) /\ userVars' = userVars /\ serverVars' = serverVars
      /\ caps' = caps /\ capsEnabled' = capsEnabled /\ individual' = individual /\ bundled' = bundled
      /\ ended' = ended /\ toServer' = <<>>
  <2>1. <<>> \o <<>> = <<>>
    OBVIOUS
  <2> QED BY <1>2, <1>5, <2>1 DEF Takes
<1>7. \A i \in DOMAIN toClient' : \E j \in DOMAIN toClient : toClient'[i] = toClient[j]
  <2>1. \A i \in 1 .. Len(toClient) - 1 : i + 1 \in DOMAIN toClient
    BY <1>1
  <2> QED BY <1>1, <1>6, <2>1
<1>8. \A i \in DOMAIN toClient' :
         toClient'[i] = Line("WELCOME") \/ (ended /\ toClient'[i] = Line("SASLREPLY"))
  BY <1>2, <1>7
<1>9. Names(toServer') = {} /\ DOMAIN toServer' = {}
  BY <1>6, FewLines
<1>10. /\ Names(toClient') = {}
       /\ \A i \in DOMAIN toClient' : toClient'[i].cmd \in {"WELCOME", "SASLREPLY"}
  <2>1. \A i \in DOMAIN toClient' : toClient'[i].caps = {} /\ toClient'[i].cmd \in {"WELCOME", "SASLREPLY"}
    BY <1>8, LinesSay
  <2> QED BY <2>1 DEF Names
<1>11. Talk'
  BY <1>2, <1>6, <1>8 DEF Talk, QueuesEmpty, serverVars
<1>12. SaslOnce'
  BY <1>6, <1>9, <1>10 DEF Course, SaslOnce
<1>13. SaslComes'
  BY <1>2, <1>6, <1>9, <1>10 DEF SaslComes, serverVars
<1>14. WantedAsked'
  <2>1. Wanted' = Wanted /\ offered' = offered /\ refused' = refused /\ skipped' = skipped
    BY <1>5, <1>6 DEF Wanted, userVars, serverVars, deniedVars
  <2>2. Names(toServer) = {}
    BY <1>2, FewLines
  <2>3. \A i \in DOMAIN toClient : toClient[i].caps = {}
    BY <1>2, LinesSay
  <2> QED BY <1>6, <2>1, <2>2, <2>3 DEF Course, WantedAsked
<1>15. AnswersFit'
  BY <1>10 DEF AnswersFit
<1> QED BY <1>11, <1>12, <1>13, <1>14, <1>15 DEF Course

\* Every handler keeps to the course.
LEMMA HandleKeepsCourse ==
    ASSUME Typed, Fresh, NoSaslBundled, Course, Handle
    PROVE  Course'
<1>1. CASE serverPhase # "listed"
  BY <1>1, LateLinesKeepCourse
<1>2. CASE serverPhase = "listed"
  <2>1. ~HandleDel /\ ~HandleWelcome
    <3>1. \A i \in DOMAIN toClient : toClient[i].cmd \notin {"DEL", "WELCOME"}
      BY <1>2, FewLines, LinesSay DEF Course, Talk, ListComes, OneLine
    <3>2. toClient # <<>> => Head(toClient) = toClient[1] /\ 1 \in DOMAIN toClient
      BY LineIs DEF Typed
    <3> QED BY <3>1, <3>2 DEF HandleDel, HandleWelcome, Receive
  <2> QED BY <1>2, <2>1, ListKeepsCourse, AckKeepsCourse, NakKeepsCourse, AuthenticateKeepsCourse,
             SaslReplyKeepsCourse DEF Handle
<1> QED BY <1>1, <1>2

----------------------------------------------------------------------------
(* The server's steps, before its first change.                             *)

LEMMA ServerListsCourse ==
    ASSUME Typed, Fresh, ServerLists
    PROVE  Course'
<1>1. PICK offer \in SUBSET Caps, one, two \in Replies :
              /\ serverPhase = "waiting" /\ serverPhase' = "listed" /\ toServer' = <<>>
              /\ one.cmd = "LS" /\ two.cmd = "LS" /\ two.more = FALSE
              /\ \/ one.more = FALSE /\ one.caps = offer /\ toClient' = <<one>>
                 \/ /\ one.more = TRUE /\ one.caps \cap two.caps = {} /\ one.caps \cup two.caps = offer
                    /\ toClient' = <<one, two>>
              /\ offered' = offer
              /\ UNCHANGED <<userVars, clientVars>>
  BY ListIs
<1>2. /\ caps' = {} /\ capsEnabled' = {} /\ individual' = <<>> /\ bundled' = <<>> /\ ended' = FALSE
  BY <1>1 DEF Fresh, clientVars, Typed, TypeOK
<1>3. ToSet(<<>>) = {} /\ DOMAIN <<>> = {} /\ Names(<<>>) = {}
  BY FewLines
<1>4. /\ Names(toClient') = offer
      /\ DOMAIN toClient' \in {{1}, {1, 2}}
      /\ \A i \in DOMAIN toClient' : toClient'[i].cmd = "LS"
  <2>1. CASE toClient' = <<one>> /\ one.caps = offer
    BY <1>1, <2>1, FewLines
  <2>2. CASE toClient' = <<one, two>> /\ one.caps \cup two.caps = offer
    <3>1. Names(toClient') = offer /\ DOMAIN toClient' = {1, 2}
      BY <2>2, FewLines
    <3>2. toClient'[1] = one /\ toClient'[2] = two
      BY <2>2
    <3> QED BY <1>1, <3>1, <3>2
  <2> QED BY <1>1, <2>1, <2>2
<1>5. Talk'
  BY <1>1, <1>2 DEF Talk, ListComes
<1>6. SaslOnce'
  BY <1>1, <1>2, <1>3, <1>4 DEF SaslOnce, Once
<1>7. SaslComes'
  BY <1>1, <1>2, <1>3, <1>4 DEF SaslComes, SaslAhead
<1>8. WantedAsked'
  BY <1>1, <1>4 DEF WantedAsked, Names
<1>9. AnswersFit'
  BY <1>2, <1>4 DEF AnswersFit
<1> QED BY <1>5, <1>6, <1>7, <1>8, <1>9 DEF Course

LEMMA ServerIgnoresCourse ==
    ASSUME Typed, Fresh, ServerIgnoresCap
    PROVE  Course'
<1> DEFINE x == Line("WELCOME")
<1>1. /\ toServer # <<>> /\ Head(toServer).cmd = "LS" /\ toServer' = Tail(toServer)
      /\ toClient' = Append(toClient, x) /\ serverPhase' = "capless" /\ UNCHANGED <<clientVars, offered>>
  BY IgnoreIs
<1>2. /\ Len(toServer) \in Nat \ {0} /\ Head(toServer) = toServer[1] /\ DOMAIN toServer = 1 .. Len(toServer)
      /\ Tail(toServer) \in Seq(Requests) /\ Len(Tail(toServer)) = Len(toServer) - 1
  BY <1>1, HeadTailProperties, EmptySeq DEF Typed
<1>3. serverPhase = "waiting"
  BY <1>1, <1>2 DEF Fresh
<1>4. /\ caps' = {} /\ capsEnabled' = {} /\ individual' = <<>> /\ bundled' = <<>> /\ ended' = FALSE
      /\ toClient = <<>> /\ Len(toServer) = 1 /\ offered' = {}
  BY <1>1, <1>2, <1>3 DEF Fresh, clientVars, Typed, TypeOK
<1>5. toServer' = <<>>
  BY <1>1, <1>2, <1>4, EmptySeq
<1>6. x.cmd = "WELCOME" /\ x.caps = {}
  BY LinesSay
<1> HIDE DEF x
<1>7. toClient' = <<x>>
  <2>1. Append(<<>>, x) = <<x>>
    OBVIOUS
  <2> QED BY <1>1, <1>4, <2>1
<1>8. /\ Names(toClient') = {} /\ DOMAIN toClient' = {1} /\ toClient'[1] = x
      /\ Names(toServer') = {} /\ DOMAIN toServer' = {} /\ ToSet(<<>>) = {} /\ DOMAIN <<>> = {}
  BY <1>5, <1>6, <1>7, FewLines
<1>9. Talk'
  BY <1>1, <1>4, <1>5, <1>8 DEF Talk, QueuesEmpty, x
<1>10. SaslOnce'
  BY <1>4, <1>6, <1>8 DEF SaslOnce, Once
<1>11. SaslComes'
  BY <1>1, <1>6, <1>8 DEF SaslComes
<1>12. WantedAsked'
  BY <1>4 DEF WantedAsked
<1>13. AnswersFit'
  BY <1>6, <1>8 DEF AnswersFit
<1> QED BY <1>9, <1>10, <1>11, <1>12, <1>13 DEF Course

\* What the server takes while it has nothing under way to the core.
LEMMA RequestUnderWay ==
    ASSUME Typed, Fresh, Course, toServer # <<>>, Head(toServer).cmd # "LS"
    PROVE  LET h == Head(toServer)
           IN  /\ serverPhase = "listed" /\ toServer = <<h>> /\ h \in Requests
               /\ Names(toServer) = h.caps /\ DOMAIN toServer = {1} /\ toServer[1] = h /\ Tail(toServer) = <<>>
               /\ toClient = <<>> /\ Names(toClient) = {} /\ DOMAIN toClient = {}
               /\ \/ ended = FALSE /\ h.cmd = "REQ"
                  \/ ended = FALSE /\ h \in {Line("AUTHENTICATE"), Line("CREDENTIALS")}
                  \/ ended /\ h = Line("END") /\ QueuesEmpty
<1> DEFINE h == Head(toServer)
<1>1. h \in Requests /\ h = toServer[1] /\ 1 \in DOMAIN toServer
  BY HeadTailProperties, EmptySeq DEF Typed
<1>2. \A m : toServer = <<m>> => h = m
  BY FewLines
<1> HIDE DEF h
<1>3. h.cmd # "LS"
  BY DEF h
<1>4. serverPhase # "waiting"
  BY <1>1, <1>3 DEF Fresh
<1>5. ended \in BOOLEAN
  BY DEF Typed, TypeOK
<1>6. /\ serverPhase = "listed" /\ toServer = <<h>> /\ toClient = <<>>
      /\ \/ ended = FALSE /\ h.cmd = "REQ"
         \/ ended = FALSE /\ h \in {Line("AUTHENTICATE"), Line("CREDENTIALS")}
         \/ ended /\ h = Line("END") /\ QueuesEmpty
  BY <1>2, <1>4, <1>5 DEF Course, Talk, ListComes, OneLine
<1>7. /\ Names(toServer) = h.caps /\ DOMAIN toServer = {1} /\ toServer[1] = h /\ Tail(toServer) = <<>>
      /\ Names(toClient) = {} /\ DOMAIN toClient = {}
  BY <1>6, FewLines
<1> QED BY <1>1, <1>6, <1>7 DEF h

LEMMA ServerAnswersCourse ==
    ASSUME Typed, Fresh, Course, ServerAnswersRequest
    PROVE  Course'
<1> DEFINE h == Head(toServer)
<1>1. PICK m \in Replies :
              /\ toServer # <<>> /\ h.cmd = "REQ" /\ toServer' = Tail(toServer)
              /\ m.caps = h.caps /\ toClient' = Append(toClient, m)
              /\ \/ m.cmd = "ACK" /\ m.caps \subseteq offered \ refused
                 \/ m.cmd = "NAK" /\ ~(m.caps \subseteq offered \ refused)
              /\ UNCHANGED <<userVars, clientVars, offered, refused, serverPhase, authenticating,
                             saslDone, deniedVars>>
  BY AnswerIs
<1>2. /\ serverPhase = "listed" /\ Names(toServer) = m.caps /\ toServer' = <<>>
      /\ DOMAIN toServer = {1} /\ toServer[1] = h
      /\ toClient = <<>> /\ Names(toClient) = {} /\ DOMAIN toClient = {} /\ ended = FALSE
  BY <1>1, RequestUnderWay, LinesSay
<1>3. m.caps \in SUBSET Caps
  BY DEF Replies
<1>0. h.cmd = "REQ"
  BY <1>1
<1> HIDE DEF h
<1>4. toClient' = <<m>>
  <2>1. Append(<<>>, m) = <<m>>
    OBVIOUS
  <2> QED BY <1>1, <1>2, <2>1
<1>5. /\ Names(toClient') = m.caps /\ DOMAIN toClient' = {1} /\ toClient'[1] = m
      /\ Names(toServer') = {} /\ DOMAIN toServer' = {}
  BY <1>2, <1>4, FewLines
<1>6. /\ useSasl' = useSasl /\ caps' = caps /\ capsEnabled' = capsEnabled /\ individual' = individual
      /\ bundled' = bundled /\ ended' = ended /\ Wanted' = Wanted /\ offered' = offered /\ refused' = refused
      /\ serverPhase' = serverPhase /\ saslDone' = saslDone /\ skipped' = skipped
  BY <1>1 DEF userVars, clientVars, deniedVars, Wanted
<1>7. Talk'
  BY <1>1, <1>2, <1>4, <1>6 DEF Talk, OneLine
<1>8. SaslOnce'
  BY <1>1, <1>2, <1>5, <1>6 DEF Course, SaslOnce
<1>9. SaslComes'
  BY <1>0, <1>1, <1>2, <1>5, <1>6 DEF Course, SaslComes, SaslAhead
<1>10. WantedAsked'
  <2> SUFFICES ASSUME NEW c \in (offered \ refused) \cap Wanted,
                      c \notin skipped \cup capsEnabled \cup ToSet(individual) \cup ToSet(bundled)
               PROVE  c \in m.caps /\ (m.cmd = "ACK" \/ Bundle(m))
    BY <1>5, <1>6 DEF WantedAsked
  <2>1. c \in m.caps
    BY <1>2 DEF Course, WantedAsked
  <2>2. ASSUME m.cmd = "NAK", ~(Cardinality(m.caps) > 1) PROVE FALSE
    BY <1>1, <1>3, <2>1, <2>2, SmallDenial
  <2> QED BY <1>1, <2>1, <2>2 DEF Bundle
<1>11. AnswersFit'
  <2>1. ASSUME m.cmd = "NAK", ~Bundle(m) PROVE m.caps \cap (offered \ refused) = {}
    BY <1>1, <1>3, <2>1, SmallDenial DEF Bundle
  <2> QED BY <1>1, <1>5, <1>6, <2>1 DEF AnswersFit, Bundle
<1> QED BY <1>7, <1>8, <1>9, <1>10, <1>11 DEF Course

LEMMA ServerAuthenticatesCourse ==
    ASSUME Typed, Fresh, Course, ServerAuthenticates
    PROVE  Course'
<1> DEFINE h == Head(toServer)
<1>1. /\ toServer # <<>> /\ toServer' = Tail(toServer)
      /\ UNCHANGED <<userVars, clientVars, offered, refused, serverPhase, saslDone, deniedVars>>
  BY AuthenticateIs
<1>2. h.cmd \in {"AUTHENTICATE", "CREDENTIALS"}
  BY AuthenticateIs
<1>3. /\ serverPhase = "listed" /\ Names(toServer) = h.caps /\ toServer' = <<>>
      /\ DOMAIN toServer = {1} /\ toServer[1] = h
      /\ toClient = <<>> /\ Names(toClient) = {} /\ DOMAIN toClient = {} /\ ended = FALSE
      /\ h \in {Line("AUTHENTICATE"), Line("CREDENTIALS")}
  BY <1>1, <1>2, RequestUnderWay, LinesSay
<1>4. h.caps = {} /\ (h.cmd = "CREDENTIALS" => authenticating)
  <2>1. h.caps = {}
    BY <1>3, LinesSay
  <2> HIDE DEF h
  <2> QED BY <1>3, <2>1 DEF Course, SaslComes
<1>5. PICK m \in {Line("AUTHENTICATE"), Line("SASLREPLY")} :
         toClient' = Append(toClient, m) /\ (m.cmd = "AUTHENTICATE" => authenticating')
  <2>1. Line("SASLREPLY").cmd = "SASLREPLY"
    BY LinesSay
  <2> QED BY <1>4, <2>1, AuthenticateIs
<1>6. m.caps = {} /\ m.cmd \in {"AUTHENTICATE", "SASLREPLY"} /\ m \in Replies
  BY LinesSay, OtherLines
<1> HIDE DEF h
<1>7. toClient' = <<m>>
  <2>1. Append(<<>>, m) = <<m>>
    OBVIOUS
  <2> QED BY <1>3, <1>5, <2>1
<1>8. /\ Names(toClient') = {} /\ DOMAIN toClient' = {1} /\ toClient'[1] = m
      /\ Names(toServer') = {} /\ DOMAIN toServer' = {}
  BY <1>3, <1>6, <1>7, FewLines
<1>9. /\ useSasl' = useSasl /\ caps' = caps /\ capsEnabled' = capsEnabled /\ individual' = individual
      /\ bundled' = bundled /\ ended' = ended /\ Wanted' = Wanted /\ offered' = offered /\ refused' = refused
      /\ serverPhase' = serverPhase /\ saslDone' = saslDone /\ skipped' = skipped
  BY <1>1 DEF userVars, clientVars, deniedVars, Wanted
<1>10. Talk'
  BY <1>3, <1>6, <1>7, <1>9 DEF Talk, OneLine
<1>11. SaslOnce'
  BY <1>6, <1>8, <1>9 DEF Course, SaslOnce
<1>12. SaslComes'
  BY <1>3, <1>5, <1>6, <1>8, <1>9 DEF SaslComes, SaslAhead
<1>13. WantedAsked'
  BY <1>3, <1>4, <1>9 DEF Course, WantedAsked
<1>14. AnswersFit'
  BY <1>6, <1>8 DEF AnswersFit
<1> QED BY <1>10, <1>11, <1>12, <1>13, <1>14 DEF Course

LEMMA ServerWelcomesCourse ==
    ASSUME Typed, Fresh, Course, ServerWelcomes
    PROVE  Course'
<1> DEFINE h == Head(toServer)
<1>1. /\ toServer # <<>> /\ h.cmd = "END" /\ toServer' = Tail(toServer)
      /\ serverPhase' = "welcomed"
      /\ UNCHANGED <<userVars, clientVars, offered, refused, deniedVars>>
  BY WelcomesIs
<1>2. PICK x, y \in {Line("SASLREPLY"), Line("WELCOME")} :
         toClient' \in {toClient, Append(toClient, x), Append(Append(toClient, x), y)}
  BY WelcomesIs
<1>3. /\ Names(toServer) = {} /\ toServer' = <<>> /\ toClient = <<>> /\ DOMAIN toClient = {}
      /\ ended /\ QueuesEmpty
  BY <1>1, RequestUnderWay, LinesSay
<1> HIDE DEF h
<1>4. toClient' \in {<<>>, <<x>>, <<x, y>>}
  <2> QED BY <1>2, <1>3, FirstLines
<1>5. \A i \in DOMAIN toClient' : toClient'[i] \in {Line("SASLREPLY"), Line("WELCOME")}
  BY <1>4, FewLines
<1>6. x.caps = {} /\ y.caps = {}
  BY LinesSay
<1>7. Names(toClient') = {} /\ Names(toServer') = {} /\ DOMAIN toServer' = {}
  BY <1>3, <1>4, <1>6, FewLines
<1>8. \A i \in DOMAIN toClient' : toClient'[i].cmd \in {"SASLREPLY", "WELCOME"}
  BY <1>5, LinesSay
<1>9. /\ useSasl' = useSasl /\ caps' = caps /\ capsEnabled' = capsEnabled /\ individual' = individual
      /\ bundled' = bundled /\ ended' = ended /\ Wanted' = Wanted /\ offered' = offered /\ refused' = refused
      /\ skipped' = skipped
  BY <1>1 DEF userVars, clientVars, deniedVars, Wanted
<1>10. Talk'
  BY <1>1, <1>3, <1>5, <1>9 DEF Talk, QueuesEmpty
<1>11. SaslOnce'
  BY <1>7, <1>8, <1>9 DEF Course, SaslOnce
<1>12. SaslComes'
  BY <1>1, <1>3, <1>9 DEF SaslComes
<1>13. WantedAsked'
  BY <1>3, <1>9 DEF Course, WantedAsked
<1>14. AnswersFit'
  BY <1>8 DEF AnswersFit
<1> QED BY <1>10, <1>11, <1>12, <1>13, <1>14 DEF Course

\* Every step of the server does.
LEMMA ServeKeepsCourse ==
    ASSUME Typed, Fresh, Course, Serve
    PROVE  Course'
BY ServerListsCourse, ServerIgnoresCourse, ServerAnswersCourse, ServerAuthenticatesCourse,
   ServerWelcomesCourse DEF Serve

LEMMA ConnectStartsCourse ==
    ASSUME ConnectToIrc
    PROVE  Course'
<1> DEFINE x == Line("LS")
<1>1. /\ serverPhase' = "waiting" /\ toServer' = <<x>> /\ toClient' = <<>> /\ individual' = <<>>
      /\ capsEnabled' = {} /\ offered' = {}
  BY DEF ConnectToIrc
<1>2. x.cmd = "LS" /\ x.caps = {}
  BY LinesSay
<1> HIDE DEF x
<1>3. /\ Names(toServer') = {} /\ DOMAIN toServer' = {1} /\ toServer'[1] = x
      /\ Names(toClient') = {} /\ DOMAIN toClient' = {} /\ ToSet(<<>>) = {} /\ DOMAIN <<>> = {}
  BY <1>1, <1>2, FewLines
<1> QED BY <1>1, <1>2, <1>3 DEF Course, Talk, SaslOnce, SaslComes, AnswersFit, WantedAsked, Once

LEMMA StartsCourse == Init => Course
<1> SUFFICES ASSUME Init PROVE Course
  OBVIOUS
<1>1. /\ serverPhase = "waiting" /\ toServer = <<>> /\ toClient = <<>> /\ individual = <<>>
      /\ capsEnabled = {} /\ offered = {}
  BY DEF Init
<1>2. Names(<<>>) = {} /\ ToSet(<<>>) = {} /\ DOMAIN <<>> = {}
  BY FewLines
<1> QED BY <1>1, <1>2 DEF Course, Talk, SaslOnce, SaslComes, AnswersFit, WantedAsked, Once

\* Every step but a change of the server's keeps to the course.
LEMMA InitiallyStep ==
    ASSUME Typed, Fresh, NoSaslBundled, Initially, [Next]_vars
    PROVE  Initially'
<1>1. CASE UNCHANGED vars
  BY <1>1 DEF vars, userVars, clientVars, serverVars, Initially, Course, Talk, QueuesEmpty, ListComes,
              OneLine, SaslOnce, SaslComes, SaslAhead, AnswersFit, WantedAsked, Wanted, deniedVars
<1>2. CASE ConnectToIrc
  BY <1>2, ConnectStartsCourse DEF Initially
<1>3. CASE Handle
  <2>1. changes' = changes
    BY <1>3 DEF Handle, HandleList, HandleAck, HandleNak, HandleDel, HandleAuthenticate,
                HandleSaslReply, HandleWelcome
  <2> QED BY <1>3, <2>1, HandleKeepsCourse DEF Initially
<1>4. CASE Serve
  <2>1. changes' = changes
    BY <1>4, ServeIs DEF Replied
  <2> QED BY <1>4, <2>1, ServeKeepsCourse DEF Initially
<1>5. ASSUME NEW names \in SUBSET Caps, ServerChanges(names) PROVE Initially'
  <2>1. changes' = changes + 1 /\ changes \in Nat
    BY <1>5, ChangeIs DEF Announced, Typed, TypeOK
  <2> QED BY <2>1 DEF Initially
<1> QED BY <1>1, <1>2, <1>3, <1>4, <1>5 DEF Next

\* A request leaves no SASL among what may be asked for once more.
LEMMA SentWithoutSasl ==
    ASSUME NEW c, NEW r, Takes(r), Sent(c, r), Sasl \notin ToSet(c.bundled), Sasl \notin ToSet(c.last)
    PROVE  NoSaslBundled'
<1>1. ToSet(<<>>) = {}
  BY FewLines
<1> QED BY <1>1 DEF Takes, Sent, Requested, Ended, NoSaslBundled

LEMMA NoSaslBundledStep ==
    ASSUME Typed, NoSaslBundled, [Next]_vars
    PROVE  NoSaslBundled'
<1>0. ToSet(<<>>) = {}
  BY FewLines
<1>1. CASE HandleList
  <2> DEFINE h == Head(toClient)
             a == AddCaps(Client, h.caps)
  <2>1. PICK r : Takes(r) /\ IF h.more THEN r = a ELSE Sent(a, r)
    BY <1>1, ListHandled
  <2>2. h \in Replies
    BY <2>1, LineIs DEF Takes
  <2> HIDE DEF h
  <2>3. h.caps \subseteq Caps
    BY <2>2 DEF Replies
  <2>4. Sasl \notin ToSet(a.bundled) /\ a.last = lastBundle
    BY <2>3, ClientIs, AddCapsIs DEF NoSaslBundled
  <2> HIDE DEF a
  <2> QED BY <2>1, <2>4, SentWithoutSasl DEF Takes, NoSaslBundled
<1>2. CASE HandleAck
  <2> DEFINE h == Head(toClient)
             a == AcknowledgeCaps(Client, h.caps)
             s == [a EXCEPT !.out = <<Line("AUTHENTICATE")>>]
  <2>1. PICK r : Takes(r) /\ (Sent(a, r) \/ r = a \/ r = s)
    BY <1>2, AckHandled
  <2>2. a.bundled = bundled /\ a.last = lastBundle /\ s.bundled = bundled /\ s.last = lastBundle
    BY ClientIs DEF AcknowledgeCaps, Clients
  <2> HIDE DEF a, s
  <2> QED BY <2>1, <2>2, SentWithoutSasl DEF Takes, NoSaslBundled
<1>3. CASE HandleNak
  <2>1. PICK r, b : Takes(r) /\ Denied(b) /\ Sent(b, r)
    BY <1>3, NakHandled
  <2>2. Sasl \notin ToSet(b.bundled) /\ Sasl \notin ToSet(b.last)
    BY <1>0, <2>1 DEF Denied, NoSaslBundled
  <2> QED BY <2>1, <2>2, SentWithoutSasl
<1>4. CASE HandleDel
  <2>1. PICK r : Takes(r) /\ r.bundled = bundled /\ r.last = lastBundle
    BY <1>4, DelHandled
  <2> QED BY <2>1 DEF Takes, NoSaslBundled
<1>5. CASE HandleAuthenticate \/ HandleSaslReply \/ HandleWelcome
  <2> DEFINE s == [Client EXCEPT !.out = <<Line("CREDENTIALS")>>]
  <2>1. PICK r : Takes(r) /\ (r = s \/ Sent(Client, r) \/ r = Client)
    BY <1>5, OthersHandled
  <2>2. s.bundled = bundled /\ s.last = lastBundle
    BY ClientIs DEF Clients
  <2> HIDE DEF s
  <2> QED BY <2>1, <2>2, ClientIs, SentWithoutSasl DEF Takes, NoSaslBundled
<1>6. CASE UNCHANGED clientVars
  BY <1>6 DEF clientVars, NoSaslBundled
<1>7. CASE ConnectToIrc
  BY <1>0, <1>7 DEF ConnectToIrc, NoSaslBundled
<1>8. Serve => UNCHANGED clientVars
  BY ServeIs DEF Replied
<1>9. \A names \in SUBSET Caps : ServerChanges(names) => UNCHANGED clientVars
  BY ChangeIs DEF Announced
<1>10. UNCHANGED vars => UNCHANGED clientVars
  BY DEF vars
<1> QED BY <1>1, <1>2, <1>3, <1>4, <1>5, <1>6, <1>7, <1>8, <1>9, <1>10 DEF Next, Handle

\* Without early changes the first of them comes after the end.
Late == changes > 0 => serverPhase = "welcomed" /\ ended

LEMMA LateStep ==
    ASSUME ~EarlyChanges, Typed, Fresh, Initially, Late, [Next]_vars
    PROVE  Late'
<1>1. CASE UNCHANGED vars
  BY <1>1 DEF vars, clientVars, serverVars, Late
<1>2. CASE ConnectToIrc
  BY <1>2 DEF ConnectToIrc, Late
<1>3. CASE Handle
  <2>1. PICK r : Takes(r) /\ (ended => r.ended)
    BY <1>3, HandlersTake
  <2> QED BY <2>1 DEF Takes, serverVars, Late
<1>4. CASE Serve
  <2>1. PICK cmd, replies : /\ Replied(cmd, replies)
                            /\ IF cmd = "LS" THEN serverPhase' # "waiting"
                                             ELSE serverPhase' \in {serverPhase, "welcomed"}
    BY <1>4, ServeIs
  <2>2. 1 \in DOMAIN toServer /\ toServer[1].cmd = cmd
    BY <2>1, HeadTailProperties, EmptySeq DEF Replied, Typed
  <2>3. serverPhase # "waiting" => cmd # "LS"
    BY <2>2 DEF Fresh
  <2> QED BY <2>1, <2>3 DEF Replied, clientVars, Late
<1>5. ASSUME NEW names \in SUBSET Caps, ServerChanges(names) PROVE Late'
  <2>1. serverPhase = "welcomed" /\ serverPhase' = serverPhase /\ ended' = ended
    BY <1>5, ChangeIs DEF Announced, clientVars
  <2>2. changes \in Nat
    BY DEF Typed, TypeOK
  <2>3. ended
    BY <2>1, <2>2 DEF Late, Initially, Course, Talk
  <2> QED BY <2>1, <2>3 DEF Late
<1> QED BY <1>1, <1>2, <1>3, <1>4, <1>5 DEF Next

----------------------------------------------------------------------------
(* The theorems.                                                            *)

Inv == Typed /\ Fresh /\ NoSaslBundled /\ Views /\ Initially

\* The inductive invariant.
LEMMA Invariance == Spec => []Inv
<1>1. Init => Inv
  <2>1. Init => NoSaslBundled
    BY FewLines DEF Init, NoSaslBundled
  <2> QED BY <2>1, StartIs, StartHasViews, StartsCourse DEF Inv, Initially
<1>2. Inv /\ [Next]_vars => Inv'
  BY TypesStep, NoSaslBundledStep, ViewsStep, InitiallyStep DEF Inv
<1> QED BY <1>1, <1>2, PTL DEF Spec

\* When no line is under way and nothing is queued, the core's record of what is
\* enabled is what the server has turned on, and after the negotiation all that is
\* wanted and would be granted is on: for any capabilities, bundles, denials and
\* changes, early ones too, and any number of connections.  What was in a denied
\* bundle is no exception but for what retryCapsIndividually() does not ask for again,
\* and the core may only miss the end of what it was granted after a denial had taken
\* it off the list.
THEOREM EnabledIsAgreed == Spec => []EnabledAgree
<1>1. Inv => EnabledAgree
  <2> SUFFICES ASSUME Inv, Settled PROVE EnabledAgree
    BY DEF EnabledAgree
  <2>1. PICK v : Seen(Here, v, toClient) /\ Agrees(v)
    BY DEF Inv, Views
  <2>2. toServer = <<>> /\ toClient = <<>> /\ individual = <<>> /\ bundled = <<>>
    BY DEF Settled, Quiet
  <2>3. v = Here
    <3>1. Len(toClient) = 0
      BY <2>2
    <3> QED BY <2>1, <3>1 DEF Seen
  <2>4. Names(<<>>) = {} /\ ToSet(<<>>) = {} /\ DOMAIN <<>> = {}
    BY FewLines
  <2>5. capsEnabled \ unlisted \subseteq enabled
    BY <2>1, <2>3 DEF Agrees, Here
  <2>6. enabled \ skipped \subseteq capsEnabled
    <3> SUFFICES ASSUME NEW c \in enabled, c \notin capsEnabled PROVE c \in skipped
      OBVIOUS
    <3>1. ToCome(c)
      BY <2>1, <2>3 DEF Agrees, Here
    <3> QED BY <2>2, <2>4, <3>1 DEF ToCome
  <2>7. ASSUME serverPhase = "welcomed", ended, changes = 0
        PROVE  Grantable \ skipped \subseteq capsEnabled
    <3>1. Course
      BY <2>7 DEF Inv, Initially
    <3>2. (offered \ refused) \cap Wanted \subseteq skipped \cup capsEnabled
      BY <2>2, <2>4, <3>1 DEF Course, WantedAsked
    <3>3. offered \subseteq Caps
      BY DEF Inv, Typed, TypeOK
    <3> QED BY <3>2, <3>3 DEF Wanted, Grantable
  <2> QED BY <2>5, <2>6, <2>7 DEF EnabledAgree
<1> QED BY <1>1, Invariance, PTL

LEMMA LateInvariance == ASSUME ~EarlyChanges PROVE Spec => [](Inv /\ Late)
<1>1. Init => Late
  BY DEF Init, Late
<1>2. Inv /\ Late /\ [Next]_vars => Late'
  BY LateStep DEF Inv
<1> QED BY <1>1, <1>2, Invariance, PTL DEF Spec

\* Of the lines of one kind there is at most one if there is at most one line.
LEMMA AmongFew ==
    /\ \A cmds : Cardinality(Among(<<>>, cmds)) = 0
    /\ \A m, cmds : Cardinality(Among(<<m>>, cmds)) \in {0, 1}
    /\ \A lines, cmds : (\A i \in DOMAIN lines : lines[i].cmd \notin cmds) => Cardinality(Among(lines, cmds)) = 0
<1>1. ASSUME NEW lines, NEW cmds, \A i \in DOMAIN lines : lines[i].cmd \notin cmds
      PROVE  Cardinality(Among(lines, cmds)) = 0
  <2>1. Among(lines, cmds) = {}
    BY <1>1 DEF Among
  <2> QED BY <2>1, FS_EmptySet
<1>2. ASSUME NEW m, NEW cmds PROVE Cardinality(Among(<<m>>, cmds)) \in {0, 1}
  <2>1. DOMAIN <<m>> = {1}
    BY FewLines
  <2>2. Among(<<m>>, cmds) = {} \/ Among(<<m>>, cmds) = {1}
    BY <2>1 DEF Among
  <2> QED BY <2>2, FS_EmptySet, FS_Singleton
<1>3. DOMAIN <<>> = {}
  OBVIOUS
<1> QED BY <1>1, <1>2, <1>3

\* Until the server has been told of the end of the negotiation, the core waits for
\* one answer at a time, if the server announces no change before its welcome.
THEOREM OneAnswer == ASSUME ~EarlyChanges PROVE Spec => []OneAnswerAtATime
<1> DEFINE asked == {"REQ", "AUTHENTICATE", "CREDENTIALS"}
           answers == {"ACK", "NAK", "AUTHENTICATE", "SASLREPLY"}
<1>1. Inv /\ Late => OneAnswerAtATime
  <2> SUFFICES ASSUME Inv, Late, ~ended
               PROVE  Cardinality(Among(toServer, asked)) + Cardinality(Among(toClient, answers)) <= 1
    BY DEF OneAnswerAtATime
  <2>1. Course
    BY DEF Inv, Initially, Late, Typed, TypeOK
  <2>2. CASE serverPhase = "waiting"
    <3>1. toClient = <<>> /\ \A i \in DOMAIN toServer : toServer[i].cmd \notin asked
      BY <2>2 DEF Inv, Fresh
    <3> QED BY <3>1, AmongFew
  <2>3. CASE toServer = <<>> /\ \A i \in DOMAIN toClient : toClient[i] = Line("WELCOME")
    <3>1. \A i \in DOMAIN toClient : toClient[i].cmd \notin answers
      BY <2>3, LinesSay
    <3> QED BY <2>3, <3>1, AmongFew
  <2>4. CASE ListComes
    <3>1. toServer = <<>> /\ \A i \in DOMAIN toClient : toClient[i].cmd \notin answers
      BY <2>4, FewLines DEF ListComes
    <3> QED BY <3>1, AmongFew
  <2>5. CASE OneLine
    <3>1. \/ toClient = <<>> /\ \E m : toServer = <<m>>
          \/ toServer = <<>> /\ \E m : toClient = <<m>>
      BY <2>5 DEF OneLine
    <3>2. CASE toClient = <<>> /\ \E m : toServer = <<m>>
      <4>1. Cardinality(Among(toServer, asked)) \in {0, 1} /\ Cardinality(Among(toClient, answers)) = 0
        BY <3>2, AmongFew
      <4> QED BY <4>1
    <3>3. CASE toServer = <<>> /\ \E m : toClient = <<m>>
      <4>1. Cardinality(Among(toServer, asked)) = 0 /\ Cardinality(Among(toClient, answers)) \in {0, 1}
        BY <3>3, AmongFew
      <4> QED BY <4>1
    <3> QED BY <3>1, <3>2, <3>3
  <2> QED BY <2>1, <2>2, <2>3, <2>4, <2>5 DEF Course, Talk
<1> QED BY <1>1, LateInvariance, PTL

\* CAP END, which completes the registration, is not sent before the SASL exchange of
\* a network that is to authenticate with SASL has come to an end, if the server
\* announces no change before its welcome.
THEOREM SaslFirst == ASSUME ~EarlyChanges PROVE Spec => []SaslBeforeEnd
<1>1. Inv /\ Late => SaslBeforeEnd
  <2> SUFFICES ASSUME Inv, Late, ended, useSasl, Sasl \in offered, serverPhase = "listed"
               PROVE  saslDone
    BY DEF SaslBeforeEnd
  <2>1. Course
    BY DEF Inv, Initially, Late, Typed, TypeOK
  <2> QED BY <2>1 DEF Course, SaslComes, SaslAhead
<1> QED BY <1>1, LateInvariance, PTL
=============================================================================
