---------------------------- MODULE IrcStateProofs ----------------------------
(***************************************************************************)
(* For any nicks, channels and bounds: users and channels agree on who is    *)
(* where, and no empty channel is left over, whatever events and timers do   *)
(* in whatever order; the state keeps its type; a netsplit holds nothing     *)
(* back without a timer; and what the core shows, with what a netsplit by    *)
(* the book holds back, is what the server knows.                            *)
(*                                                                         *)
(* The first two are about the objects only.  One lemma for each operator of *)
(* IrcObjects says that it keeps them in order (Good); the step of an action *)
(* is then the chain of the operators its handler calls.                     *)
(*                                                                         *)
(* The last is proved by nick: the lemmas named ...View say what an operator *)
(* of the objects or of the netsplit does to who is on a channel (In) and    *)
(* has a mode there (Has), and those named ...Book that a step of the server *)
(* and the handler of the core that hears of it keep the books right (Book). *)
(***************************************************************************)
EXTENDS IrcState, FiniteSetTheorems, WellFoundedInduction, SequenceTheorems, TLAPS

Alive(s) == \A c \in s.chans : s.members[c] # {}

\* Users are filed under their nicks.
Filed(s) == \A n \in Nicks : Known(s, n) => s.nick[s.users[n]] = n

Good(s) == s \in Objects /\ Symmetric(s) /\ Alive(s) /\ Filed(s)

\* There is a free number for each nick.
Roomy(s) == \A n \in Nicks : Unborn(s, n) # {}

LEMMA IdsAreIds ==
    ASSUME NEW n \in Nicks, NEW k \in 1 .. MaxBorn
    PROVE  <<n, k>> \in Ids /\ <<n, k>>[1] = n
BY DEF Ids

\* No object of a network at first.
LEMMA NoObjectsGood ==
    ASSUME NEW n \in Nicks
    PROVE  Good(NoObjects(n)) /\ Roomy(NoObjects(n))
<1>1. Good(NoObjects(n))
    BY DEF NoObjects, Good, Objects, Symmetric, Alive, Filed, Known
<1>2. ASSUME NEW m \in Nicks PROVE 1 \in Unborn(NoObjects(n), m)
    BY ObjectsAssumption, IdsAreIds DEF NoObjects, Unborn, Ids
<1> QED BY <1>1, <1>2 DEF Roomy

\* newIrcUser() gives a user to each of the nicks, and changes no membership.
LEMMA WithUsersGood ==
    ASSUME NEW s, Good(s), Roomy(s), NEW ns
    PROVE  LET t == WithUsers(s, ns)
           IN  /\ Good(t)
               /\ t.chans = s.chans
               /\ \A n \in Nicks : n \in ns \/ Known(s, n) => t.users[n] \in Ids
<1> DEFINE new == {n \in ns : ~Known(s, n)}
           born == [n \in new |-> <<n, CHOOSE k \in Unborn(s, n) : TRUE>>]
           users == [n \in Nicks |-> IF n \in new THEN born[n] ELSE s.users[n]]
           nick == [i \in Ids |-> IF i[1] \in new /\ born[i[1]] = i THEN i[1] ELSE s.nick[i]]
           t == WithUsers(s, ns)
<1>1. t = [s EXCEPT !.users = users, !.nick = nick]
    BY DEF WithUsers
<1>2. ASSUME NEW n \in Nicks, n \in new PROVE born[n] \in Ids
    <2>1. (CHOOSE k \in Unborn(s, n) : TRUE) \in 1 .. MaxBorn
        BY DEF Roomy, Unborn
    <2>2. born[n] = <<n, CHOOSE k \in Unborn(s, n) : TRUE>>
        BY <1>2
    <2>3. ASSUME NEW k \in 1 .. MaxBorn PROVE <<n, k>> \in Ids
        BY IdsAreIds
    <2> HIDE DEF born
    <2> QED BY <2>1, <2>2, <2>3
<1>3. users \in [Nicks -> Ids \union {NoUser}]
    BY <1>2 DEF Good, Objects
<1>4. nick \in [Ids -> Nicks \union {NoNick}]
    <2>1. \A i \in Ids : i[1] \in Nicks
        BY DEF Ids
    <2> QED BY <2>1 DEF Good, Objects
<1>5. /\ t \in Objects
      /\ t.users = users /\ t.chans = s.chans /\ t.channels = s.channels
      /\ t.members = s.members /\ t.ops = s.ops
      /\ t.nick = nick
    <2> HIDE DEF users, nick
    <2> QED BY <1>1, <1>3, <1>4 DEF Good, Objects
<1>6. Symmetric(t) /\ Alive(t)
    BY <1>5 DEF Good, Symmetric, Alive
<1>8. Filed(t)
    <2> SUFFICES ASSUME NEW n \in Nicks, users[n] # NoUser PROVE nick[users[n]] = n
        BY <1>5 DEF Filed, Known
    <2>1. CASE n \in new
        <3>1. users[n] = born[n] /\ born[n] \in Ids /\ born[n][1] = n
            BY <2>1, <1>2
        <3> QED BY <2>1, <3>1
    <2>2. CASE n \notin new
        <3> DEFINE i == s.users[n]
        <3>1. users[n] = i /\ i \in Ids /\ s.nick[i] = n
            BY <2>2, <1>5 DEF Good, Objects, Filed, Known
        <3>2. ~(i[1] \in new /\ born[i[1]] = i)
            <4> SUFFICES ASSUME i[1] \in new, born[i[1]] = i PROVE FALSE
                OBVIOUS
            <4>1. i[1] \in Nicks
                BY <3>1 DEF Ids
            <4>2. i \in {<<i[1], k>> : k \in Unborn(s, i[1])}
                <5>1. (CHOOSE k \in Unborn(s, i[1]) : TRUE) \in Unborn(s, i[1])
                    BY <4>1 DEF Roomy
                <5>2. i = <<i[1], CHOOSE k \in Unborn(s, i[1]) : TRUE>>
                    OBVIOUS
                <5> HIDE DEF i, born, new
                <5> QED BY <5>1, <5>2
            <4>3. s.nick[i] = NoNick
                BY <4>2 DEF Unborn
            <4> QED BY <4>3, <3>1, ObjectsAssumption
        <3> HIDE DEF users, i
        <3> QED BY <3>1, <3>2
    <2> QED BY <2>1, <2>2
<1>7. \A n \in Nicks : n \in ns \/ Known(s, n) => t.users[n] \in Ids
    <2> TAKE n \in Nicks
    <2>1. CASE n \in new
        BY <2>1, <1>2, <1>5
    <2>2. CASE n \notin new
        BY <2>2, <1>3, <1>5 DEF Known, Good, Objects
    <2> QED BY <2>1, <2>2
<1> QED BY <1>5, <1>6, <1>7, <1>8 DEF Good

\* Sweeping and forgetting change no membership, and make room.
LEMMA ForgetGood ==
    ASSUME NEW s, Good(s), NEW is
    PROVE  Good(Forget(s, is)) /\ Forget(s, is).nick = s.nick
BY ObjectsAssumption DEF Good, Objects, Symmetric, Alive, Filed, Known, Forget

LEMMA SweptGood ==
    ASSUME NEW s, Good(s)
    PROVE  Good(Swept(s)) /\ (Roomy(s) => Roomy(Swept(s)))
<1>1. Good(Swept(s))
    BY DEF Good, Objects, Symmetric, Alive, Filed, Known, Swept
<1>2. ASSUME NEW n \in Nicks PROVE Unborn(s, n) \subseteq Unborn(Swept(s), n)
    BY IdsAreIds DEF Good, Objects, Swept, Unborn
<1> QED BY <1>1, <1>2 DEF Roomy

\* joinIrcUsers(), in channels that are there.
LEMMA JoinGood ==
    ASSUME NEW s, s \in Objects, Symmetric(s), Filed(s),
           NEW joined, NEW opped,
           \A c \in Channels : joined[c] \subseteq Ids,
           \A c \in Channels : joined[c] # {} => c \in s.chans,
           \A c \in s.chans : s.members[c] \union joined[c] # {}
    PROVE  Good(JoinIrcUsers(s, joined, opped))
<1> DEFINE t == JoinIrcUsers(s, joined, opped)
           members == [c \in Channels |-> s.members[c] \union joined[c]]
           channels == [i \in Ids |-> s.channels[i] \union {c \in Channels : i \in joined[c]}]
           ops == [c \in Channels |-> s.ops[c] \union (opped[c] \intersect joined[c])]
<1>1. t = [s EXCEPT !.members = members, !.channels = channels, !.ops = ops]
    BY DEF JoinIrcUsers
<1>2. /\ members \in [Channels -> SUBSET Ids]
      /\ channels \in [Ids -> SUBSET Channels]
      /\ ops \in [Channels -> SUBSET Ids]
    BY DEF Objects
<1>3. /\ t \in Objects
      /\ t.members = members /\ t.channels = channels /\ t.ops = ops /\ t.chans = s.chans
    <2> HIDE DEF members, channels, ops
    <2> QED BY <1>1, <1>2 DEF Objects
<1>4. ASSUME NEW i \in Ids, NEW c \in Channels
      PROVE  c \in t.channels[i] <=> i \in t.members[c]
    BY <1>3 DEF Symmetric
<1>5. \A c \in Channels : t.ops[c] \subseteq t.members[c]
    BY <1>3 DEF Symmetric
<1>6. \A c \in Channels \ t.chans : t.members[c] = {}
    BY <1>3 DEF Symmetric
<1>7. Alive(t)
    <2> SUFFICES ASSUME NEW c \in s.chans PROVE members[c] # {}
        BY <1>3 DEF Alive
    <2> QED BY DEF Objects
<1>8. Filed(t)
    BY DEF JoinIrcUsers, Filed, Known
<1> QED BY <1>3, <1>4, <1>5, <1>6, <1>7, <1>8 DEF Good, Symmetric

LEMMA JoinChannelGood ==
    ASSUME NEW s, Good(s), NEW i \in Ids, NEW c \in Channels
    PROVE  Good(JoinChannel(s, i, c))
<1> DEFINE u == [s EXCEPT !.chans = @ \union {c}]
<1>1. /\ u \in Objects /\ Symmetric(u) /\ Filed(u)
      /\ u.members = s.members /\ u.chans = s.chans \union {c}
    BY DEF Good, Objects, Symmetric, Filed, Known
<1>2. /\ \A d \in Channels : Only(c, {i})[d] \subseteq Ids
      /\ \A d \in Channels : Only(c, {i})[d] # {} => d \in u.chans
      /\ \A d \in u.chans : u.members[d] \union Only(c, {i})[d] # {}
    BY <1>1 DEF Only, Good, Alive, Objects
<1>3. Good(JoinIrcUsers(u, Only(c, {i}), Only(c, {})))
    <2> HIDE DEF u
    <2> QED BY <1>1, <1>2, JoinGood
<1> QED BY <1>3 DEF JoinChannel

\* part(), and the end of a channel that comes with it.
LEMMA LeaveGood ==
    ASSUME NEW s, Good(s), NEW is, is \subseteq Ids, NEW cs, cs \subseteq Channels
    PROVE  Good(Leave(s, is, cs)) /\ Leave(s, is, cs).nick = s.nick
<1> DEFINE dead == {c \in cs : \E i \in is : /\ i \in s.members[c]
                                             /\ \/ IsMe(s, i)
                                                \/ s.members[c] \subseteq is}
           left == [i \in Ids |->
                      IF i \in is THEN s.channels[i] \ cs
                      ELSE s.channels[i] \ {c \in dead : i \in s.members[c]}]
           stay == [c \in Channels |->
                      IF c \in dead THEN {}
                      ELSE IF c \in cs THEN s.members[c] \ is ELSE s.members[c]]
           ops == [c \in Channels |-> s.ops[c] \intersect stay[c]]
           lost == {i \in Ids \ is : /\ s.channels[i] # left[i]
                                     /\ left[i] = {}
                                     /\ ~IsMe(s, i)}
           t == [s EXCEPT !.chans = @ \ dead, !.channels = left, !.members = stay, !.ops = ops]
<1>1. Leave(s, is, cs) = Forget(t, lost)
    BY DEF Leave
<1>2. /\ left \in [Ids -> SUBSET Channels]
      /\ stay \in [Channels -> SUBSET Ids]
      /\ ops \in [Channels -> SUBSET Ids]
    BY DEF Good, Objects
<1>3. /\ t \in Objects /\ t.nick = s.nick
      /\ t.chans = s.chans \ dead /\ t.channels = left /\ t.members = stay /\ t.ops = ops
    <2> HIDE DEF dead, left, stay, ops
    <2> QED BY <1>2 DEF Good, Objects
<1>4. ASSUME NEW i \in Ids, NEW c \in Channels
      PROVE  c \in left[i] <=> i \in stay[c]
    <2>1. c \in s.channels[i] <=> i \in s.members[c]
        BY DEF Good, Symmetric
    <2>2. dead \subseteq cs
        OBVIOUS
    <2> HIDE DEF dead
    <2> QED BY <2>1, <2>2
<1>5. \A c \in Channels : ops[c] \subseteq stay[c]
    OBVIOUS
<1>6. \A c \in Channels \ (s.chans \ dead) : stay[c] = {}
    BY DEF Good, Symmetric
<1>7. \A c \in s.chans \ dead : stay[c] # {}
    <2> SUFFICES ASSUME NEW c \in s.chans, c \notin dead PROVE stay[c] # {}
        OBVIOUS
    <2>1. c \in Channels /\ s.members[c] # {}
        BY DEF Good, Objects, Alive
    <2>2. CASE c \in cs
        <3>1. PICK i \in s.members[c] : i \notin is
            BY <2>1, <2>2
        <3> QED BY <3>1, <2>1, <2>2
    <2> QED BY <2>1, <2>2
<1>8. Symmetric(t) /\ Alive(t)
    <2> HIDE DEF t, dead, left, stay, ops
    <2> QED BY <1>3, <1>4, <1>5, <1>6, <1>7 DEF Symmetric, Alive
<1>9. Good(t)
    <2>1. Filed(t)
        BY DEF Good, Filed, Known
    <2> QED BY <1>3, <1>8, <2>1 DEF Good
<1> QED
    <2> HIDE DEF t, lost
    <2> QED BY <1>1, <1>3, <1>9, ForgetGood

LEMMA QuitGood ==
    ASSUME NEW s, Good(s), NEW is, is \subseteq Ids
    PROVE  Good(Quit(s, is)) /\ Quit(s, is).nick = s.nick
BY LeaveGood, ForgetGood DEF Quit

LEMMA PartChannelGood ==
    ASSUME NEW s, Good(s), NEW i \in Ids, NEW c \in Channels
    PROVE  Good(PartChannel(s, i, c))
<1>1. {i} \subseteq Ids /\ {c} \subseteq Channels
    OBVIOUS
<1>2. Good(Leave(s, {i}, {c}))
    BY <1>1, LeaveGood
<1>3. Good(Forget(Leave(s, {i}, {c}), {i}))
    BY <1>2, ForgetGood
<1> QED BY <1>2, <1>3 DEF PartChannel

LEMMA SetNickGood ==
    ASSUME NEW s, Good(s), NEW i \in Ids, NEW m \in Nicks, s.users[m] = i, NEW n \in Nicks
    PROVE  Good(SetNick(s, i, n))
<1>1. s.nick[i] = m
    BY ObjectsAssumption DEF Good, Filed, Known
<1>2. CASE m = n
    BY <1>1, <1>2 DEF SetNick
<1>3. CASE m # n
    <2> DEFINE users == [s.users EXCEPT ![m] = NoUser, ![n] = i]
               nick == [s.nick EXCEPT ![i] = n]
               t == SetNick(s, i, n)
    <2>1. /\ t.users = users /\ t.nick = nick /\ t.chans = s.chans /\ t.channels = s.channels
          /\ t.members = s.members /\ t.ops = s.ops
          /\ t \in Objects
        BY <1>1, <1>3 DEF SetNick, Good, Objects
    <2>2. Filed(t)
        <3> SUFFICES ASSUME NEW k \in Nicks, users[k] # NoUser PROVE nick[users[k]] = k
            BY <2>1 DEF Filed, Known
        <3>1. CASE k = n
            BY <3>1 DEF Good, Objects
        <3>2. CASE k # n
            <4>1. k # m /\ users[k] = s.users[k]
                BY <3>2 DEF Good, Objects
            <4>2. s.nick[s.users[k]] = k
                BY <4>1 DEF Good, Filed, Known
            <4> QED BY <1>1, <4>1, <4>2 DEF Good, Objects
        <3> QED BY <3>1, <3>2
    <2>3. Good(t)
        <3> HIDE DEF t, users, nick
        <3> QED BY <2>1, <2>2 DEF Good, Symmetric, Alive
    <2> QED BY <2>3
<1> QED BY <1>2, <1>3

LEMMA ModeGood ==
    ASSUME NEW s, Good(s), NEW i \in Ids, NEW c \in Channels
    PROVE  Good(AddUserMode(s, i, c)) /\ Good(RemoveUserMode(s, i, c))
<1>1. ASSUME NEW S, S \subseteq s.members[c]
      PROVE  Good([s EXCEPT !.ops[c] = S])
    <2> DEFINE t == [s EXCEPT !.ops[c] = S]
    <2>1. /\ t \in Objects /\ t.ops = [s.ops EXCEPT ![c] = S]
          /\ t.chans = s.chans /\ t.channels = s.channels /\ t.members = s.members
        BY <1>1 DEF Good, Objects
    <2>2. \A d \in Channels : t.ops[d] \subseteq s.members[d]
        BY <1>1, <2>1 DEF Good, Objects, Symmetric
    <2>3. t.nick = s.nick /\ t.users = s.users
        OBVIOUS
    <2>4. Good(t)
        <3> HIDE DEF t
        <3> QED BY <2>1, <2>2, <2>3 DEF Good, Symmetric, Alive, Filed, Known
    <2> QED BY <2>4
<1>2. s.ops[c] \subseteq s.members[c]
    BY DEF Good, Symmetric
<1>3. i \in s.members[c] => Good([s EXCEPT !.ops[c] = s.ops[c] \union {i}])
    BY <1>1, <1>2
<1>4. Good([s EXCEPT !.ops[c] = s.ops[c] \ {i}])
    BY <1>1, <1>2
<1> QED BY <1>3, <1>4 DEF AddUserMode, RemoveUserMode

----------------------------------------------------------------------------
(* The bookkeeping of a Netsplit: the state of IrcState keeps its type, and  *)
(* nothing is ever held back without a timer that brings it forward.         *)

LEMMA LeastNatural ==
    ASSUME NEW T, T \subseteq Nat, T # {}
    PROVE  \E m \in T : \A k \in T : m <= k
<1>1. PICK m \in T : \A k \in T : <<k, m>> \notin OpToRel(<, Nat)
    BY NatLessThanWellFounded, WFMin
<1>2. \A k \in T : ~(k < m)
    BY <1>1 DEF OpToRel
<1> QED BY <1>2

\* An entry taken out of a list leaves the others.
LEMMA RemoveAtShrinks ==
    ASSUME NEW S, NEW q \in Seq(S), NEW k \in 1 .. Len(q)
    PROVE  RemoveAt(q, k) \in Seq(S) /\ ToSet(RemoveAt(q, k)) \subseteq ToSet(q)
<1> DEFINE R == ToSet(q)
           head == SubSeq(q, 1, k - 1)
           tail == SubSeq(q, k + 1, Len(q))
<1>1. head \in Seq(R) /\ tail \in Seq(R)
    <2>1. \A i \in 1 .. Len(q) : q[i] \in R
        BY DEF ToSet
    <2> HIDE DEF R
    <2> QED BY <2>1, SubSeqProperties
<1>2. RemoveAt(q, k) \in Seq(R)
    BY <1>1, ConcatProperties DEF RemoveAt
<1>3. R \subseteq S
    BY ElementOfSeq DEF ToSet
<1> HIDE DEF R
<1>4. RemoveAt(q, k) \in Seq(S)
    BY <1>2, <1>3, SeqMonotonic
<1>5. ToSet(RemoveAt(q, k)) \subseteq R
    BY <1>2, ElementOfSeq DEF ToSet
<1> QED BY <1>4, <1>5 DEF R

Timed(sp) ==
    /\ (\E c \in Channels : Unsent(sp, c) # {}) => sp.quitTimer
    /\ sp.joins # NoLists => sp.joinTimer

Sound(sp) == sp \in Splits /\ Timed(sp)

LEMMA NoSplitSound == Sound(NoSplit)
BY StateAssumption DEF Sound, Splits, Timed, NoSplit, NoLists, Unsent, ToSet

LEMMA UserQuitSound ==
    ASSUME NEW sp, Sound(sp), NEW m \in Masks, NEW cs, sp.quitCounter < MaxQuits
    PROVE  Sound(UserQuit(sp, m, cs))
<1> DEFINE t == UserQuit(sp, m, cs)
           quits == [c \in Channels |-> IF c \in cs THEN Append(sp.quits[c], m)
                                        ELSE sp.quits[c]]
<1>1. quits \in [Channels -> Seq(Masks)]
    BY DEF Sound, Splits
<1>2. sp.quitCounter + 1 \in 0 .. MaxQuits
    BY StateAssumption DEF Sound, Splits
<1>3. t = [sp EXCEPT !.live = TRUE, !.quits = quits,
                     !.quitCounter = sp.quitCounter + 1, !.quitTimer = TRUE]
    BY DEF UserQuit
<1>4. t \in Splits /\ t.quitTimer /\ t.joins = sp.joins /\ t.joinTimer = sp.joinTimer
    <2> HIDE DEF quits, t
    <2> QED BY <1>1, <1>2, <1>3 DEF Sound, Splits
<1>5. sp.joins # NoLists => sp.joinTimer
    BY DEF Sound, Timed
<1>9. Sound(t)
    <2> HIDE DEF t
    <2> QED BY <1>4, <1>5 DEF Sound, Timed
<1> QED BY <1>9

LEMMA UserJoinedSound ==
    ASSUME NEW sp, Sound(sp), NEW n \in Nicks, NEW c \in Channels, TakesJoin(sp, n, c)
    PROVE  Sound(UserJoined(sp, n, c))
<1> DEFINE q == sp.quits[c]
           first == CHOOSE k \in DOMAIN sp.quits[c] :
                      /\ sp.quits[c][k].nick = n
                      /\ \A j \in 1 .. k - 1 : sp.quits[c][j].nick # n
           entry == [nick |-> n, host |-> q[first].host, mode |-> FALSE]
           quits == [sp.quits EXCEPT ![c] = RemoveAt(q, first)]
           joins == [sp.joins EXCEPT ![c] = Append(@, entry)]
           t == UserJoined(sp, n, c)
<1>1. q \in Seq(Masks) /\ \E k \in DOMAIN q : q[k].nick = n
    BY DEF Sound, Splits, TakesJoin, Quitters, ToSet
<1>2. first \in 1 .. Len(q)
    <2> DEFINE T == {k \in 1 .. Len(q) : q[k].nick = n}
    <2>1. T \subseteq Nat /\ T # {}
        BY <1>1
    <2>2. PICK m \in T : \A k \in T : m <= k
        BY <2>1, LeastNatural
    <2>3. m \in DOMAIN q /\ q[m].nick = n /\ \A j \in 1 .. m - 1 : q[j].nick # n
        BY <2>2, <1>1
    <2>4. first \in DOMAIN q
        BY <2>3
    <2> QED BY <2>4, <1>1
<1>3. RemoveAt(q, first) \in Seq(Masks) /\ ToSet(RemoveAt(q, first)) \subseteq ToSet(q)
    <2> HIDE DEF first, q
    <2> QED BY <1>1, <1>2, RemoveAtShrinks
<1>4. joins \in [Channels -> Seq(Entries)]
    <2>1. q[first] \in Masks
        <3> HIDE DEF first, q
        <3> QED BY <1>1, <1>2
    <2>2. entry \in Entries
        <3> HIDE DEF first, q
        <3> QED BY <2>1 DEF Entries, Masks
    <2> HIDE DEF entry
    <2> QED BY <2>2 DEF Sound, Splits
<1>5. quits \in [Channels -> Seq(Masks)] /\ \A d \in Channels : ToSet(quits[d]) \subseteq ToSet(sp.quits[d])
    <2> HIDE DEF first
    <2> QED BY <1>3 DEF Sound, Splits
<1>6. t = [sp EXCEPT !.quits = quits, !.joins = joins,
                     !.joinCounter = sp.joinCounter + 1, !.joinTimer = TRUE]
    BY DEF UserJoined
<1>7. /\ t \in Splits
      /\ t.quits = quits /\ t.sent = sp.sent /\ t.quitTimer = sp.quitTimer /\ t.joinTimer
    <2>1. sp.joinCounter + 1 \in Nat /\ sp \in Splits
        BY DEF Sound, Splits
    <2>2. quits \in [Channels -> Seq(Masks)]
        BY <1>5
    <2> HIDE DEF quits, joins, t
    <2> QED BY <1>4, <1>6, <2>1, <2>2 DEF Splits
<1>8. \A d \in Channels : Unsent(t, d) \subseteq Unsent(sp, d)
    <2> HIDE DEF quits, t
    <2> QED BY <1>5, <1>7 DEF Unsent
<1>9. Sound(t)
    <2> HIDE DEF t
    <2> QED BY <1>7, <1>8 DEF Sound, Timed
<1> QED BY <1>9

LEMMA AddModeSound ==
    ASSUME NEW sp, Sound(sp), NEW m, NEW c \in Channels, AlreadyJoined(sp, m, c)
    PROVE  Sound(AddMode(sp, m, c))
<1> DEFINE q == sp.joins[c]
           first == CHOOSE k \in DOMAIN sp.joins[c] :
                      /\ MaskOf(sp.joins[c][k]) = m
                      /\ \A j \in 1 .. k - 1 : MaskOf(sp.joins[c][j]) # m
           entries == [q EXCEPT ![first].mode = TRUE]
           t == AddMode(sp, m, c)
<1>1. q \in Seq(Entries) /\ DOMAIN q # {}
    BY DEF Sound, Splits, AlreadyJoined
<1>2. entries \in Seq(Entries)
    <2>1. q \in [1 .. Len(q) -> Entries] /\ Len(q) \in Nat
        BY <1>1
    <2>2. entries \in [1 .. Len(q) -> Entries]
        <3> HIDE DEF first, q
        <3> QED BY <2>1 DEF Entries
    <2> HIDE DEF entries
    <2> QED BY <2>1, <2>2
<1>3. /\ t \in Splits
      /\ t.quits = sp.quits /\ t.sent = sp.sent /\ t.quitTimer = sp.quitTimer
      /\ t.joinTimer = sp.joinTimer
    <2>1. t = [sp EXCEPT !.joins = [sp.joins EXCEPT ![c] = entries]]
        BY DEF AddMode, Sound, Splits
    <2> HIDE DEF entries, t
    <2> QED BY <1>2, <2>1 DEF Sound, Splits
<1>4. sp.joins # NoLists
    BY <1>1 DEF NoLists
<1>9. Sound(t)
    <2> HIDE DEF t
    <2> QED BY <1>3, <1>4 DEF Sound, Timed, Unsent
<1> QED BY <1>9

LEMMA QuitsToldSound ==
    ASSUME NEW sp, Sound(sp)
    PROVE  Sound(QuitsTold(sp))
<1> DEFINE sent == [c \in Channels |-> sp.sent[c] \union ToSet(sp.quits[c])]
           t == QuitsTold(sp)
<1>1. sent \in [Channels -> SUBSET Masks]
    BY ElementOfSeq DEF ToSet, Sound, Splits
<1>2. t = [sp EXCEPT !.sent = sent, !.sentQuit = TRUE, !.quitTimer = FALSE]
    BY DEF QuitsTold
<1>3. /\ t \in Splits
      /\ t.quits = sp.quits /\ t.sent = sent /\ t.joins = sp.joins /\ t.joinTimer = sp.joinTimer
    <2> HIDE DEF sent, t
    <2> QED BY <1>1, <1>2 DEF Sound, Splits
<1>4. \A c \in Channels : Unsent(t, c) = {}
    <2> HIDE DEF t
    <2> QED BY <1>3 DEF Unsent
<1>9. Sound(t)
    <2> HIDE DEF t
    <2> QED BY <1>3, <1>4 DEF Sound, Timed
<1> QED BY <1>9

LEMMA JoinsToldSound ==
    ASSUME NEW sp, Sound(sp)
    PROVE  Sound([sp EXCEPT !.joins = NoLists])
<1>1. NoLists \in [Channels -> Seq(Entries)]
    BY DEF NoLists
<1> QED BY <1>1 DEF Sound, Timed, Splits, Unsent

----------------------------------------------------------------------------
(* What a step does to the Netsplit.                                        *)

NInv ==
    /\ Sound(split) /\ oddities \in 0 .. MaxOdd
    /\ op \in [Channels -> SUBSET Nicks] /\ host \in [Nicks -> Hosts]

LEMMA MaskIsMask ==
    ASSUME NInv, NEW n \in Nicks
    PROVE  Mask(n) \in Masks
BY DEF NInv, Mask, Masks

\* A step that leaves the split alone, or asks a sound one of it.
LEMMA OddBounded ==
    ASSUME oddities \in 0 .. MaxOdd, NEW what, Odd(what)
    PROVE  oddities' \in 0 .. MaxOdd
BY StateAssumption DEF Odd

LEMMA JoinSplit ==
    ASSUME NInv, NEW n \in Nicks, NEW c \in Channels, Join(n, c)
    PROVE  NInv'
<1>1. Sound(split')
    <2>1. split' = split \/ (TakesJoin(split, n, c) /\ split' = UserJoined(split, n, c))
        BY DEF Join, HandleJoin
    <2> QED BY <2>1, UserJoinedSound DEF NInv
<1>2. oddities' \in 0 .. MaxOdd
    BY OddBounded DEF Join, NInv
<1>3. host' \in [Nicks -> Hosts]
    BY DEF Join, Comes, NInv
<1>4. op' = op
    BY DEF Join
<1> QED BY <1>1, <1>2, <1>3, <1>4 DEF NInv

LEMMA ModeSplit ==
    ASSUME NInv, NEW n \in Nicks, NEW c \in Channels, GiveMode(n, c) \/ TakeMode(n, c)
    PROVE  NInv'
<1>1. Sound(split')
    <2>1. \/ split' = split
          \/ AlreadyJoined(split, Mask(n), c) /\ split' = AddMode(split, Mask(n), c)
        BY DEF GiveMode, TakeMode
    <2> QED BY <2>1, AddModeSound DEF NInv
<1>2. oddities' \in 0 .. MaxOdd
    BY OddBounded DEF GiveMode, TakeMode, NInv
<1>3. op' \in [Channels -> SUBSET Nicks] /\ host' = host
    BY DEF GiveMode, TakeMode, NInv
<1> QED BY <1>1, <1>2, <1>3 DEF NInv

\* The events a split does not hear of.
LEMMA DeafStep ==
    ASSUME NInv, NEW by, NEW n, NEW new, NEW c,
           \/ Part(n, c) \/ Names \/ Kick(by, n, c) \/ QuitAlone(n) \/ Speak(n)
           \/ (n \in Nicks /\ new \in Nicks /\ Nick(n, new))
    PROVE  NInv'
<1>1. split' = split
    BY DEF Part, Names, Kick, QuitAlone, Speak, Nick
<1>2. oddities' \in 0 .. MaxOdd
    BY OddBounded DEF Part, Names, Kick, QuitAlone, Speak, Nick, NInv
<1>3. op' \in [Channels -> SUBSET Nicks]
    <2>1. CASE Part(n, c) \/ Kick(by, n, c)
        BY <2>1 DEF Part, Kick, NInv, GoneFrom
    <2>2. CASE Names \/ Speak(n)
        BY <2>2 DEF Names, Speak, NInv, serverVars
    <2>3. CASE QuitAlone(n)
        BY <2>3 DEF QuitAlone, NInv, GoneFromAll
    <2>4. CASE (n \in Nicks /\ new \in Nicks /\ Nick(n, new))
        <3> DEFINE renamed(S) == IF n \in S THEN (S \ {n}) \union {new} ELSE S
        <3>1. op' = [d \in Channels |-> renamed(op[d])]
            BY <2>4 DEF Nick
        <3>2. \A d \in Channels : renamed(op[d]) \subseteq Nicks
            BY <2>4 DEF NInv
        <3> HIDE DEF renamed
        <3> QED BY <3>1, <3>2
    <2> QED BY <2>1, <2>2, <2>3, <2>4
<1>4. host' \in [Nicks -> Hosts]
    BY DEF Part, Names, Kick, QuitAlone, Speak, Nick, NInv, serverVars
<1> QED BY <1>1, <1>2, <1>3, <1>4 DEF NInv

LEMMA QuitSplit ==
    ASSUME NInv, NEW n \in Nicks, QuitInSplit(n) \/ Reconnect(n)
    PROVE  NInv'
<1>1. Sound(split')
    <2>1. split' = NoSplit \/ (/\ split.quitCounter < MaxQuits
                               /\ \E cs : split' = UserQuit(split, Mask(n), cs))
        BY DEF QuitInSplit, Reconnect
    <2> QED BY <2>1, UserQuitSound, NoSplitSound, MaskIsMask DEF NInv
<1>2. oddities' \in 0 .. MaxOdd
    BY OddBounded, StateAssumption DEF QuitInSplit, Reconnect, NInv
<1>3. op' \in [Channels -> SUBSET Nicks] /\ host' = host
    BY DEF QuitInSplit, Reconnect, NInv, GoneFromAll
<1> QED BY <1>1, <1>2, <1>3 DEF NInv

LEMMA TimerSplit ==
    ASSUME NInv, QuitTimeout \/ JoinTimeout \/ Discard
    PROVE  NInv'
<1> DEFINE sp == IF split.sentQuit THEN split ELSE QuitsTold(split)
<1>1. Sound(sp)
    BY QuitsToldSound DEF NInv
<1>2. split' \in {QuitsTold(split), [sp EXCEPT !.joins = NoLists], NoSplit}
    BY DEF QuitTimeout, JoinTimeout, Discard
<1>3. Sound(split')
    <2> HIDE DEF sp
    <2> QED BY <1>1, <1>2, QuitsToldSound, JoinsToldSound, NoSplitSound DEF NInv
<1>4. oddities' \in 0 .. MaxOdd
    BY OddBounded DEF QuitTimeout, JoinTimeout, Discard, NInv
<1>5. op' = op /\ host' = host
    BY DEF QuitTimeout, JoinTimeout, Discard, serverVars
<1> QED BY <1>3, <1>4, <1>5 DEF NInv

LEMMA NextSound ==
    ASSUME NInv, [Next]_vars
    PROVE  NInv'
<1>1. ASSUME NEW n \in Nicks, NEW c \in Channels,
             Join(n, c) \/ Part(n, c) \/ GiveMode(n, c) \/ TakeMode(n, c)
      PROVE  NInv'
    BY <1>1, JoinSplit, ModeSplit, DeafStep
<1>2. ASSUME Names PROVE NInv'
    BY <1>2, DeafStep
<1>3. ASSUME NEW by \in Nicks, NEW n \in Nicks, NEW c \in Channels, Kick(by, n, c)
      PROVE  NInv'
    BY <1>3, DeafStep
<1>4. ASSUME NEW n \in Nicks,
             QuitAlone(n) \/ QuitInSplit(n) \/ Speak(n) \/ Reconnect(n)
      PROVE  NInv'
    BY <1>4, QuitSplit, DeafStep
<1>5. ASSUME NEW n \in Nicks, NEW new \in Nicks, Nick(n, new)
      PROVE  NInv'
    BY <1>5, DeafStep
<1>6. ASSUME QuitTimeout \/ JoinTimeout \/ Discard PROVE NInv'
    BY <1>6, TimerSplit
<1>7. CASE UNCHANGED vars
    BY <1>7 DEF vars, serverVars, NInv
<1> QED BY <1>1, <1>2, <1>3, <1>4, <1>5, <1>6, <1>7 DEF Next

LEMMA InitSound == Init => NInv
BY NoSplitSound, StateAssumption DEF Init, NInv

\* The bookkeeping of a Netsplit stays sound through every event and every timer.
THEOREM NetsplitIsSound == Spec => []NInv
<1>1. Init => NInv
    BY InitSound
<1>2. NInv /\ [Next]_vars => NInv'
    BY NextSound
<1> QED BY <1>1, <1>2, PTL DEF Spec

\* As long as quits or joins are held back, the timer that tells them runs.
THEOREM NothingHeldBackUntimed == Spec => []HeldBackIsTimed
<1>1. NInv => HeldBackIsTimed
    BY DEF NInv, Sound, Timed, HeldBackIsTimed
<1> QED BY <1>1, NetsplitIsSound, PTL

----------------------------------------------------------------------------
(* The handlers of the Netsplit's signals.                                  *)

LEMMA NetsplitQuitGood ==
    ASSUME NEW s, Good(s), NEW sp
    PROVE  Good(HandleNetsplitQuit(s, sp)) /\ HandleNetsplitQuit(s, sp).nick = s.nick
<1> DEFINE told(n) == \E c \in Channels : n \in Unsent(sp, c)
           is == {s.users[n] : n \in {m \in Nicks : told(m) /\ Known(s, m)}}
<1>1. is \subseteq Ids
    BY DEF Good, Objects, Known
<1>2. HandleNetsplitQuit(s, sp) = Quit(s, is)
    BY DEF HandleNetsplitQuit
<1> HIDE DEF is
<1> QED BY <1>1, <1>2, QuitGood

LEMMA BulkJoinGood ==
    ASSUME NEW s, Good(s), NEW sp, sp \in Splits
    PROVE  Good(BulkJoin(s, sp))
<1> DEFINE known(c) == {k \in DOMAIN sp.joins[c] : Known(s, sp.joins[c][k].nick)}
           place(c, k) == Cardinality({h \in known(c) : h <= k})
           modes(c) == ModesLeft(s, sp.joins[c])
           taken(c) == c \in s.chans /\ Cardinality(known(c)) = Len(modes(c))
           users(c, places) ==
               IF taken(c) THEN {s.users[sp.joins[c][k].nick] : k \in places} ELSE {}
           joined == [c \in Channels |-> users(c, known(c))]
           opped == [c \in Channels |-> users(c, {k \in known(c) : modes(c)[place(c, k)]})]
<1>1. BulkJoin(s, sp) = JoinIrcUsers(s, joined, opped)
    BY DEF BulkJoin
<1>2. ASSUME NEW c \in Channels
      PROVE  joined[c] \subseteq Ids /\ (joined[c] # {} => c \in s.chans)
    <2>1. sp.joins[c] \in Seq(Entries)
        BY DEF Splits
    <2>2. ASSUME NEW k \in known(c) PROVE s.users[sp.joins[c][k].nick] \in Ids
        <3>1. sp.joins[c][k] \in Entries
            BY <2>1
        <3>2. sp.joins[c][k].nick \in Nicks
            BY <3>1 DEF Entries
        <3> QED BY <3>2 DEF Good, Objects, Known
    <2>3. joined[c] = IF taken(c) THEN {s.users[sp.joins[c][k].nick] : k \in known(c)} ELSE {}
        OBVIOUS
    <2> HIDE DEF joined, known, modes
    <2> QED BY <2>2, <2>3
<1>3. \A c \in s.chans : s.members[c] \union joined[c] # {}
    BY DEF Good, Alive
<1> HIDE DEF joined, opped
<1> QED BY <1>1, <1>2, <1>3, JoinGood DEF Good

----------------------------------------------------------------------------
(* The steps.                                                               *)

Shape == me \in Nicks /\ names \in Channels \union {NoChannel}
         /\ on \in [Channels -> SUBSET Nicks]
IInv == Good(net) /\ Shape

LEMMA InitGood == Init => IInv
<1> SUFFICES ASSUME Init PROVE IInv
    OBVIOUS
<1>1. Good(WithUsers(NoObjects(me), {me}))
    BY NoObjectsGood, WithUsersGood DEF Init
<1> QED BY <1>1 DEF Init, IInv, Shape

\* The user an event is about.
LEMMA OneUser ==
    ASSUME NEW s, Good(s), Roomy(s), NEW n \in Nicks
    PROVE  /\ Good(WithUsers(s, {n}))
           /\ WithUsers(s, {n}).users[n] \in Ids
BY WithUsersGood

LEMMA RoomIsRoomy == Room => Roomy(net)
BY DEF Room, Roomy

LEMMA EventShape ==
    ASSUME Shape, [Next]_vars
    PROVE  Shape'
<1>1. ASSUME NEW n \in Nicks, NEW c \in Channels,
             Join(n, c) \/ Part(n, c) \/ GiveMode(n, c) \/ TakeMode(n, c)
      PROVE  Shape'
    BY <1>1 DEF Shape, Join, Part, GiveMode, TakeMode, GoneFrom
<1>2. CASE Names
    BY <1>2 DEF Shape, Names
<1>3. ASSUME NEW by \in Nicks, NEW n \in Nicks, NEW c \in Channels, Kick(by, n, c)
      PROVE  Shape'
    BY <1>3 DEF Shape, Kick, GoneFrom
<1>4. ASSUME NEW n \in Nicks,
             QuitAlone(n) \/ QuitInSplit(n) \/ Speak(n) \/ Reconnect(n)
      PROVE  Shape'
    BY <1>4 DEF Shape, QuitAlone, QuitInSplit, Speak, Reconnect, GoneFromAll, serverVars
<1>5. ASSUME NEW n \in Nicks, NEW new \in Nicks, Nick(n, new)
      PROVE  Shape'
    BY <1>5 DEF Shape, Nick
<1>6. CASE QuitTimeout \/ JoinTimeout \/ Discard
    BY <1>6 DEF Shape, QuitTimeout, JoinTimeout, Discard, serverVars
<1>7. CASE UNCHANGED vars
    BY <1>7 DEF Shape, vars, serverVars
<1> QED BY <1>1, <1>2, <1>3, <1>4, <1>5, <1>6, <1>7 DEF Next

LEMMA JoinStep ==
    ASSUME IInv, NEW n \in Nicks, NEW c \in Channels, Join(n, c)
    PROVE  Good(net')
<1> DEFINE s == WithUsers(net, {n})
<1>1. Good(s) /\ s.users[n] \in Ids
    BY OneUser, RoomIsRoomy DEF Join, Event, IInv
<1>2. Good(JoinChannel(s, s.users[n], c))
    <2> HIDE DEF s
    <2> QED BY <1>1, JoinChannelGood
<1>3. Good(Swept(JoinChannel(s, s.users[n], c)))
    BY <1>2, SweptGood
<1>4. net' = s \/ net' = Swept(JoinChannel(s, s.users[n], c)) \/ net' = net
    BY DEF Join, HandleJoin
<1> HIDE DEF s
<1> QED BY <1>1, <1>3, <1>4 DEF IInv

LEMMA NamesStep ==
    ASSUME IInv, Names
    PROVE  Good(net')
<1> DEFINE s == WithUsers(net, on[names])
           joined == Only(names, {s.users[n] : n \in on[names]})
           opped == Only(names, {s.users[n] : n \in op[names]})
<1>1. CASE names \notin net.chans
    BY <1>1 DEF Names, IInv
<1>2. CASE names \in net.chans
    <2>1. names \in Channels /\ on[names] \subseteq Nicks
        BY DEF Names, IInv, Shape
    <2>2. /\ Good(s) /\ s.chans = net.chans
          /\ \A n \in on[names] : s.users[n] \in Ids
        BY <2>1, WithUsersGood, RoomIsRoomy DEF Names, IInv
    <2>3. net' = JoinIrcUsers(s, joined, opped)
        BY <1>2 DEF Names
    <2>4. \A c \in Channels : joined[c] \subseteq Ids /\ (joined[c] # {} => c \in s.chans)
        <3> HIDE DEF s
        <3> QED BY <1>2, <2>2 DEF Only
    <2>5. \A c \in s.chans : s.members[c] \union joined[c] # {}
        BY <2>2 DEF Good, Alive
    <2> HIDE DEF s, joined, opped
    <2> QED BY <2>2, <2>3, <2>4, <2>5, JoinGood DEF Good
<1> QED BY <1>1, <1>2

LEMMA PartStep ==
    ASSUME IInv, NEW n \in Nicks, NEW c \in Channels, Part(n, c)
    PROVE  Good(net')
<1> DEFINE s == WithUsers(net, {n})
<1>1. Good(s) /\ s.users[n] \in Ids
    BY OneUser, RoomIsRoomy DEF Part, Event, IInv
<1>2. Good(PartChannel(s, s.users[n], c))
    <2> HIDE DEF s
    <2> QED BY <1>1, PartChannelGood
<1>3. net' = net \/ net' = Swept(s) \/ net' = Swept(PartChannel(s, s.users[n], c))
    BY DEF Part
<1> HIDE DEF s
<1> QED BY <1>1, <1>2, <1>3, SweptGood DEF IInv

LEMMA KickStep ==
    ASSUME IInv, NEW by \in Nicks, NEW n \in Nicks, NEW c \in Channels, Kick(by, n, c)
    PROVE  Good(net')
<1> DEFINE s == WithUsers(net, {by})
<1>1. Good(s)
    BY OneUser, RoomIsRoomy DEF Kick, Event, IInv
<1>2. CASE Known(s, n) /\ c \in s.chans
    <2>1. s.users[n] \in Ids
        BY <1>1, <1>2 DEF Known, Good, Objects
    <2>2. Good(PartChannel(s, s.users[n], c))
        <3> HIDE DEF s
        <3> QED BY <1>1, <2>1, PartChannelGood
    <2>3. net' = Swept(PartChannel(s, s.users[n], c))
        BY <1>2 DEF Kick
    <2> QED BY <2>2, <2>3, SweptGood
<1>3. CASE ~(Known(s, n) /\ c \in s.chans)
    <2>1. net' = Swept(s)
        BY <1>3 DEF Kick
    <2> QED BY <1>1, <2>1, SweptGood
<1> QED BY <1>2, <1>3

LEMMA QuitStep ==
    ASSUME IInv, NEW n \in Nicks, QuitAlone(n) \/ QuitInSplit(n) \/ Speak(n)
    PROVE  Good(net')
<1> DEFINE s == WithUsers(net, {n})
<1>1. Good(s) /\ s.users[n] \in Ids
    BY OneUser, RoomIsRoomy DEF QuitAlone, QuitInSplit, Speak, Event, IInv
<1>2. Good(Quit(s, {s.users[n]}))
    <2> HIDE DEF s
    <2> QED BY <1>1, QuitGood
<1>3. net' = net \/ net' = s \/ net' = Swept(Quit(s, {s.users[n]}))
    BY DEF QuitAlone, QuitInSplit, Speak
<1> HIDE DEF s
<1> QED BY <1>1, <1>2, <1>3, SweptGood DEF IInv

LEMMA NickStep ==
    ASSUME IInv, NEW n \in Nicks, NEW new \in Nicks, Nick(n, new)
    PROVE  Good(net')
<1> DEFINE s == WithUsers(net, {n})
<1>1. Good(s) /\ s.users[n] \in Ids
    BY OneUser, RoomIsRoomy DEF Nick, Event, IInv
<1>2. Good(SetNick(s, s.users[n], new))
    <2> HIDE DEF s
    <2> QED BY <1>1, SetNickGood
<1>3. net' = net \/ net' = Swept(SetNick(s, s.users[n], new))
    BY DEF Nick
<1> HIDE DEF s
<1> QED BY <1>2, <1>3, SweptGood DEF IInv

LEMMA ReconnectStep ==
    ASSUME NEW n \in Nicks, Reconnect(n)
    PROVE  Good(net')
BY NoObjectsGood, OneUser DEF Reconnect

LEMMA ModeStep ==
    ASSUME IInv, NEW n \in Nicks, NEW c \in Channels, GiveMode(n, c) \/ TakeMode(n, c)
    PROVE  Good(net')
<1>1. CASE net' = net
    BY <1>1 DEF IInv
<1>2. CASE net' # net
    <2>1. /\ Known(net, n)
          /\ \/ net' = AddUserMode(net, net.users[n], c)
             \/ net' = RemoveUserMode(net, net.users[n], c)
        BY <1>2 DEF GiveMode, TakeMode
    <2>2. net.users[n] \in Ids
        BY <2>1 DEF Known, IInv, Good, Objects
    <2> QED BY <2>1, <2>2, ModeGood DEF IInv
<1> QED BY <1>1, <1>2

LEMMA TimerStep ==
    ASSUME IInv, NInv, QuitTimeout \/ JoinTimeout \/ Discard
    PROVE  Good(net')
<1>1. CASE QuitTimeout
    BY <1>1, NetsplitQuitGood, SweptGood DEF QuitTimeout, IInv
<1>2. CASE JoinTimeout
    <2> DEFINE sp == IF split.sentQuit THEN split ELSE QuitsTold(split)
               s == IF split.sentQuit THEN net ELSE Swept(HandleNetsplitQuit(net, split))
               t == WithUsers(s, UNION {Pending(sp, c) : c \in s.chans})
    <2>1. Good(s) /\ Roomy(s)
        <3>1. Good(net) /\ Roomy(net)
            BY <1>2, RoomIsRoomy DEF JoinTimeout, IInv
        <3>2. /\ Good(HandleNetsplitQuit(net, split))
              /\ HandleNetsplitQuit(net, split).nick = net.nick
            BY <3>1, NetsplitQuitGood
        <3>3. Roomy(HandleNetsplitQuit(net, split))
            BY <3>1, <3>2 DEF Roomy, Unborn
        <3> QED BY <3>1, <3>2, <3>3, SweptGood
    <2>2. Good(t)
        <3> HIDE DEF s, sp
        <3> QED BY <2>1, WithUsersGood
    <2>3. Good(BulkJoin(s, sp)) /\ Good(BulkJoin(t, sp))
        <3>1. sp \in Splits
            BY QuitsToldSound DEF NInv, Sound
        <3> HIDE DEF s, sp, t
        <3> QED BY <2>1, <2>2, <3>1, BulkJoinGood
    <2>4. net' = Swept(BulkJoin(s, sp)) \/ net' = Swept(BulkJoin(t, sp))
        BY <1>2 DEF JoinTimeout, HandleNetsplitJoin, HandleEarlyNetsplitJoin
    <2> HIDE DEF s, sp, t
    <2> QED BY <2>3, <2>4, SweptGood
<1>3. CASE Discard
    BY <1>3 DEF Discard, IInv
<1> QED BY <1>1, <1>2, <1>3

LEMMA NextGood ==
    ASSUME IInv, NInv, [Next]_vars
    PROVE  IInv'
<1>1. ASSUME NEW n \in Nicks, NEW c \in Channels,
             Join(n, c) \/ Part(n, c) \/ GiveMode(n, c) \/ TakeMode(n, c)
      PROVE  Good(net')
    BY <1>1, JoinStep, PartStep, ModeStep
<1>2. ASSUME Names PROVE Good(net')
    BY <1>2, NamesStep
<1>3. ASSUME NEW by \in Nicks, NEW n \in Nicks, NEW c \in Channels, Kick(by, n, c)
      PROVE  Good(net')
    BY <1>3, KickStep
<1>4. ASSUME NEW n \in Nicks,
             QuitAlone(n) \/ QuitInSplit(n) \/ Speak(n) \/ Reconnect(n)
      PROVE  Good(net')
    BY <1>4, QuitStep, ReconnectStep
<1>5. ASSUME NEW n \in Nicks, NEW new \in Nicks, Nick(n, new)
      PROVE  Good(net')
    BY <1>5, NickStep
<1>6. ASSUME QuitTimeout \/ JoinTimeout \/ Discard PROVE Good(net')
    BY <1>6, TimerStep
<1>7. ASSUME UNCHANGED vars PROVE Good(net')
    BY <1>7 DEF vars, IInv
<1>8. Good(net')
    BY <1>1, <1>2, <1>3, <1>4, <1>5, <1>6, <1>7 DEF Next
<1>9. Shape'
    BY EventShape DEF IInv
<1> QED BY <1>8, <1>9 DEF IInv, Good, Objects, Symmetric, Alive, Filed, Known

\* The objects stay in order through every event and every timer.
THEOREM Invariance == Spec => []IInv
<1>1. Init => IInv
    BY InitGood
<1>2. IInv /\ NInv /\ [Next]_vars => IInv'
    BY NextGood
<1> QED BY <1>1, <1>2, NetsplitIsSound, PTL DEF Spec

\* Users and channels agree on who is where: the property the run checks.
THEOREM MembershipIsSymmetric == Spec => []MembershipSymmetric
<1>1. IInv => MembershipSymmetric
    BY DEF IInv, Good, MembershipSymmetric
<1> QED BY <1>1, Invariance, PTL

\* A channel that has lost its last member, or the core's user, is gone.
THEOREM ChannelsStayAlive == Spec => []ChannelsAlive
<1>1. IInv => ChannelsAlive
    BY DEF IInv, Good, Alive, ChannelsAlive
<1> QED BY <1>1, Invariance, PTL

\* The state of IrcState is of the right shape.
THEOREM TypeCorrect == Spec => []TypeOK
<1>1. IInv /\ NInv => TypeOK
    BY DEF IInv, Good, Shape, NInv, Sound, TypeOK
<1> QED BY <1>1, Invariance, NetsplitIsSound, PTL

----------------------------------------------------------------------------
(* What the operators do to the books, by nick.                             *)

\* n is on c in the core's books, and has a mode there.
In(s, n, c) == Known(s, n) /\ s.users[n] \in s.members[c]
Has(s, n, c) == Known(s, n) /\ s.users[n] \in s.ops[c]

\* Whoever is on a channel is filed.
Listed(s) == \A i \in Ids : s.channels[i] # {} => s.nick[i] \in Nicks /\ s.users[s.nick[i]] = i

\* Two networks of which the books say the same.
Alike(s, t) ==
    /\ t.chans = s.chans
    /\ t.myNick = s.myNick
    /\ \A n \in Nicks, c \in Channels : (In(t, n, c) <=> In(s, n, c)) /\ (Has(t, n, c) <=> Has(s, n, c))

Booked(s) == Good(s) /\ Listed(s)

\* A known nick is that of the user filed under it.
LEMMA FiledAreThemselves ==
    ASSUME NEW s, Good(s), NEW n \in Nicks, Known(s, n)
    PROVE  /\ s.users[n] \in Ids
           /\ s.nick[s.users[n]] = n
           /\ \A m \in Nicks : s.users[m] = s.users[n] => m = n
BY DEF Good, Objects, Filed, Known

\* A member of a channel is filed under its nick.
LEMMA MembersAreFiled ==
    ASSUME NEW s, Booked(s), NEW c \in Channels, NEW i \in s.members[c]
    PROVE  /\ i \in Ids /\ s.nick[i] \in Nicks /\ s.users[s.nick[i]] = i
           /\ Known(s, s.nick[i]) /\ In(s, s.nick[i], c)
<1>1. i \in Ids /\ s.channels[i] # {}
    BY DEF Booked, Good, Objects, Symmetric
<1> QED BY <1>1, ObjectsAssumption DEF Booked, Listed, Known, In

\* Members are told by their nicks.
LEMMA MembersByNick ==
    ASSUME NEW s, Booked(s), NEW c \in Channels
    PROVE  /\ \A n \in Nicks : n \in MemberNicks(s, c) <=> In(s, n, c)
           /\ \A n \in Nicks : n \in OpNicks(s, c) <=> Has(s, n, c)
           /\ \A i, j \in s.members[c] : s.nick[i] = s.nick[j] => i = j
           /\ MemberNicks(s, c) \subseteq Nicks /\ OpNicks(s, c) \subseteq Nicks
<1>1. s.ops[c] \subseteq s.members[c]
    BY DEF Booked, Good, Symmetric
<1>2. \A i \in s.members[c] : s.nick[i] \in Nicks /\ s.users[s.nick[i]] = i /\ Known(s, s.nick[i])
    BY MembersAreFiled
<1>3. \A n \in Nicks : Known(s, n) => s.nick[s.users[n]] = n
    BY DEF Booked, Good, Filed
<1>4. ASSUME NEW n \in Nicks PROVE n \in MemberNicks(s, c) <=> In(s, n, c)
    BY <1>2, <1>3 DEF MemberNicks, In
<1>5. ASSUME NEW n \in Nicks PROVE n \in OpNicks(s, c) <=> Has(s, n, c)
    BY <1>1, <1>2, <1>3 DEF OpNicks, Has
<1>6. \A i, j \in s.members[c] : s.nick[i] = s.nick[j] => i = j
    BY <1>2
<1>7. MemberNicks(s, c) \subseteq Nicks /\ OpNicks(s, c) \subseteq Nicks
    BY <1>1, <1>2 DEF MemberNicks, OpNicks
<1> QED BY <1>4, <1>5, <1>6, <1>7

\* New users are on no channel.
LEMMA WithUsersView ==
    ASSUME NEW s, Booked(s), Roomy(s), NEW ns
    PROVE  LET t == WithUsers(s, ns)
           IN  /\ Booked(t) /\ Alike(s, t)
               /\ \A n \in Nicks : Known(t, n) <=> Known(s, n) \/ n \in ns
               /\ \A n \in Nicks : Known(s, n) => t.users[n] = s.users[n]
<1> DEFINE new == {n \in ns : ~Known(s, n)}
           born == [n \in new |-> <<n, CHOOSE k \in Unborn(s, n) : TRUE>>]
           users == [n \in Nicks |-> IF n \in new THEN born[n] ELSE s.users[n]]
           nick == [i \in Ids |-> IF i[1] \in new /\ born[i[1]] = i THEN i[1] ELSE s.nick[i]]
           t == WithUsers(s, ns)
<1>1. t = [s EXCEPT !.users = users, !.nick = nick]
    BY DEF WithUsers
<1>2. /\ t.users = users /\ t.nick = nick /\ t.chans = s.chans /\ t.channels = s.channels
      /\ t.members = s.members /\ t.ops = s.ops /\ t.myNick = s.myNick
    <2> HIDE DEF users, nick, t
    <2> QED BY <1>1 DEF Booked, Good, Objects
<1>3. Good(t)
    <2> HIDE DEF t
    <2> QED BY WithUsersGood DEF t, Booked
<1>4. ASSUME NEW n \in Nicks, n \in new
      PROVE  born[n] \in Ids /\ s.nick[born[n]] = NoNick /\ s.channels[born[n]] = {}
    <2> DEFINE k == CHOOSE k \in Unborn(s, n) : TRUE
    <2>1. k \in Unborn(s, n)
        BY DEF Booked, Roomy
    <2>2. k \in 1 .. MaxBorn /\ s.nick[<<n, k>>] = NoNick
        BY <2>1 DEF Unborn
    <2>3. born[n] = <<n, k>>
        BY <1>4
    <2> HIDE DEF k, born
    <2>4. born[n] \in Ids /\ s.nick[born[n]] = NoNick
        BY <2>2, <2>3, IdsAreIds
    <2> QED BY <2>4, ObjectsAssumption DEF Booked, Listed
<1> HIDE DEF born
<1>5. ASSUME NEW n \in Nicks, n \notin new PROVE t.users[n] = s.users[n]
    BY <1>2, <1>5
<1>6. ASSUME NEW n \in Nicks, n \in new PROVE t.users[n] = born[n] /\ Known(t, n) /\ ~Known(s, n)
    BY <1>2, <1>4, <1>6, ObjectsAssumption DEF Known
<1>7. \A n \in Nicks : Known(t, n) <=> Known(s, n) \/ n \in ns
    BY <1>5, <1>6 DEF Known
<1>8. \A n \in Nicks : Known(s, n) => t.users[n] = s.users[n]
    BY <1>5
<1>9. ASSUME NEW n \in Nicks, NEW c \in Channels
      PROVE  (In(t, n, c) <=> In(s, n, c)) /\ (Has(t, n, c) <=> Has(s, n, c))
    <2>1. CASE n \in new
        <3>1. born[n] \notin s.members[c] /\ born[n] \notin s.ops[c]
            BY <1>4, <2>1 DEF Booked, Good, Objects, Symmetric
        <3> HIDE DEF t
        <3> QED BY <3>1, <1>2, <1>6, <2>1 DEF In, Has
    <2>2. CASE n \notin new
        <3> HIDE DEF t
        <3> QED BY <2>2, <1>2, <1>5 DEF In, Has, Known
    <2> QED BY <2>1, <2>2
<1>10. Listed(t)
    <2> SUFFICES ASSUME NEW i \in Ids, s.channels[i] # {}
                 PROVE  nick[i] \in Nicks /\ t.users[nick[i]] = i
        BY <1>2 DEF Listed
    <2>1. s.nick[i] \in Nicks /\ s.users[s.nick[i]] = i
        BY DEF Booked, Listed
    <2>2. i[1] \in Nicks
        BY DEF Ids
    <2>3. nick[i] = s.nick[i]
        BY <1>4, <2>2
    <2>4. Known(s, s.nick[i])
        BY <2>1, ObjectsAssumption DEF Known
    <2> HIDE DEF nick, t
    <2> QED BY <2>1, <2>3, <2>4, <1>8
<1> HIDE DEF t
<1>11. Booked(t) /\ Alike(s, t)
    BY <1>2, <1>3, <1>9, <1>10 DEF Alike, Booked
<1> QED BY <1>7, <1>8, <1>11 DEF t

\* Nobody misses an object that is swept.
LEMMA SweptView ==
    ASSUME NEW s, Booked(s)
    PROVE  /\ Booked(Swept(s)) /\ Alike(s, Swept(s))
           /\ \A n \in Nicks : Known(Swept(s), n) <=> Known(s, n)
<1> DEFINE t == Swept(s)
<1>1. Good(t)
    BY SweptGood DEF Booked
<1>2. /\ t.users = s.users /\ t.chans = s.chans /\ t.channels = s.channels
      /\ t.members = s.members /\ t.ops = s.ops /\ t.myNick = s.myNick
    BY DEF Swept, Booked, Good, Objects
<1>3. \A i \in Ids : s.channels[i] # {} => t.nick[i] = s.nick[i]
    BY DEF Swept, Booked, Good, Objects
<1> HIDE DEF t
<1>4. Listed(t)
    BY <1>2, <1>3 DEF Booked, Listed
<1>5. Alike(s, t)
    BY <1>2 DEF Alike, In, Has, Known
<1>6. \A n \in Nicks : Known(t, n) <=> Known(s, n)
    BY <1>2 DEF Known
<1> QED BY <1>1, <1>4, <1>5, <1>6 DEF t, Booked

\* Who joins is on the channel afterwards, and has the mode it came with.
LEMMA JoinView ==
    ASSUME NEW s, s \in Objects, Symmetric(s), Filed(s), Listed(s),
           NEW joined, NEW opped,
           NEW J \in [Channels -> SUBSET Nicks], NEW P,
           \A c \in Channels : joined[c] = {s.users[n] : n \in J[c]},
           \A c \in Channels : P[c] \subseteq J[c],
           \A c \in Channels : opped[c] = {s.users[n] : n \in P[c]},
           \A c \in Channels : \A n \in J[c] : Known(s, n),
           NEW t, t = JoinIrcUsers(s, joined, opped)
    PROVE  /\ t.chans = s.chans /\ t.myNick = s.myNick
           /\ \A n \in Nicks : Known(t, n) <=> Known(s, n)
           /\ \A n \in Nicks, c \in Channels : In(t, n, c) <=> In(s, n, c) \/ n \in J[c]
           /\ \A n \in Nicks, c \in Channels : Has(t, n, c) <=> Has(s, n, c) \/ n \in P[c]
           /\ Listed(t)
<1>1. /\ t.chans = s.chans /\ t.myNick = s.myNick /\ t.users = s.users /\ t.nick = s.nick
      /\ \A c \in Channels : /\ t.members[c] = s.members[c] \union joined[c]
                             /\ t.ops[c] = s.ops[c] \union (opped[c] \intersect joined[c])
      /\ \A i \in Ids : t.channels[i] = s.channels[i] \union {c \in Channels : i \in joined[c]}
    BY DEF JoinIrcUsers, Objects
<1>2. \A n \in Nicks : Known(t, n) <=> Known(s, n)
    BY <1>1 DEF Known
<1>3. \A n, m \in Nicks : Known(s, n) /\ s.users[n] = s.users[m] => n = m
    BY DEF Filed, Known
<1>4. ASSUME NEW n \in Nicks, NEW c \in Channels
      PROVE  /\ In(t, n, c) <=> In(s, n, c) \/ n \in J[c]
             /\ Has(t, n, c) <=> Has(s, n, c) \/ n \in P[c]
    <2>1. J[c] \subseteq Nicks /\ P[c] \subseteq J[c]
        OBVIOUS
    <2>2. ~Known(s, n) => n \notin J[c]
        OBVIOUS
    <2>3. Known(s, n) => (s.users[n] \in joined[c] <=> n \in J[c])
        BY <1>3, <2>1
    <2>4. Known(s, n) => (s.users[n] \in opped[c] <=> n \in P[c])
        BY <1>3, <2>1
    <2> QED BY <1>1, <1>2, <2>1, <2>2, <2>3, <2>4 DEF In, Has
<1>5. Listed(t)
    <2> SUFFICES ASSUME NEW i \in Ids, t.channels[i] # {}
                 PROVE  s.nick[i] \in Nicks /\ s.users[s.nick[i]] = i
        BY <1>1 DEF Listed
    <2>1. CASE s.channels[i] # {}
        BY <2>1 DEF Listed
    <2>2. CASE s.channels[i] = {}
        <3>1. PICK c \in Channels : i \in joined[c]
            BY <2>2, <1>1
        <3>2. PICK n \in J[c] : i = s.users[n]
            BY <3>1
        <3> QED BY <3>2 DEF Filed
    <2> QED BY <2>1, <2>2
<1> QED BY <1>1, <1>2, <1>4, <1>5

\* One user joins, without a mode; the channel is created if need be.
LEMMA JoinChannelView ==
    ASSUME NEW s, Booked(s), NEW n \in Nicks, Known(s, n), NEW c \in Channels
    PROVE  LET t == JoinChannel(s, s.users[n], c)
           IN  /\ Booked(t)
               /\ t.chans = s.chans \union {c} /\ t.myNick = s.myNick
               /\ \A m \in Nicks : Known(t, m) <=> Known(s, m)
               /\ \A m \in Nicks, d \in Channels :
                     /\ In(t, m, d) <=> In(s, m, d) \/ (m = n /\ d = c)
                     /\ Has(t, m, d) <=> Has(s, m, d)
<1> DEFINE u == [s EXCEPT !.chans = @ \union {c}]
           i == s.users[n]
           J == [d \in Channels |-> IF d = c THEN {n} ELSE {}]
           P == [d \in Channels |-> {}]
           t == JoinIrcUsers(u, Only(c, {i}), Only(c, {}))
<1>1. /\ u \in Objects /\ Symmetric(u) /\ Filed(u) /\ Listed(u)
      /\ u.members = s.members /\ u.chans = s.chans \union {c} /\ u.users = s.users
      /\ u.ops = s.ops /\ u.myNick = s.myNick
    BY DEF Booked, Good, Objects, Symmetric, Filed, Known, Listed
<1>2. i \in Ids
    BY FiledAreThemselves DEF Booked
<1>3. Good(JoinChannel(s, i, c)) /\ JoinChannel(s, i, c) = t
    BY <1>2, JoinChannelGood DEF Booked, JoinChannel
<1>4. /\ J \in [Channels -> SUBSET Nicks]
      /\ \A d \in Channels : Only(c, {i})[d] = {u.users[m] : m \in J[d]}
      /\ \A d \in Channels : P[d] \subseteq J[d]
      /\ \A d \in Channels : Only(c, {})[d] = {u.users[m] : m \in P[d]}
      /\ \A d \in Channels : \A m \in J[d] : Known(u, m)
    <2> HIDE DEF u
    <2> QED BY <1>1 DEF Only, Known
<1>5. /\ t.chans = u.chans /\ t.myNick = u.myNick
      /\ \A m \in Nicks : Known(t, m) <=> Known(u, m)
      /\ \A m \in Nicks, d \in Channels : In(t, m, d) <=> In(u, m, d) \/ m \in J[d]
      /\ \A m \in Nicks, d \in Channels : Has(t, m, d) <=> Has(u, m, d) \/ m \in P[d]
      /\ Listed(t)
    <2> DEFINE joined == Only(c, {i})
               opped == Only(c, {})
    <2>1. t = JoinIrcUsers(u, joined, opped)
        OBVIOUS
    <2>2. /\ \A d \in Channels : joined[d] = {u.users[m] : m \in J[d]}
          /\ \A d \in Channels : opped[d] = {u.users[m] : m \in P[d]}
        BY <1>4
    <2> HIDE DEF u, J, P, i, t, joined, opped
    <2> QED BY <1>1, <1>4, <2>1, <2>2, JoinView
<1>6. \A m \in Nicks, d \in Channels : m \in J[d] <=> m = n /\ d = c
    OBVIOUS
<1>7. \A m \in Nicks, d \in Channels : (In(u, m, d) <=> In(s, m, d)) /\ (Has(u, m, d) <=> Has(s, m, d))
    <2> HIDE DEF u
    <2> QED BY <1>1 DEF In, Has, Known
<1>8. \A m \in Nicks : Known(u, m) <=> Known(s, m)
    <2> HIDE DEF u
    <2> QED BY <1>1 DEF Known
<1>9. \A m \in Nicks, d \in Channels : m \notin P[d]
    OBVIOUS
<1> HIDE DEF u, J, P, i, t
<1>10. Booked(t)
    BY <1>3, <1>5 DEF Booked
<1> QED BY <1>1, <1>3, <1>5, <1>6, <1>7, <1>8, <1>9, <1>10 DEF i

\* The core's user is in the books, and on every channel they have.
Present(s) ==
    /\ Known(s, s.myNick)
    /\ \A c \in s.chans : In(s, s.myNick, c)

\* Forgetting users touches nothing but who is filed.
LEMMA ForgetFields ==
    ASSUME NEW s \in Objects, NEW is
    PROVE  /\ Forget(s, is).nick = s.nick /\ Forget(s, is).chans = s.chans
           /\ Forget(s, is).myNick = s.myNick /\ Forget(s, is).members = s.members
           /\ Forget(s, is).ops = s.ops /\ Forget(s, is).channels = s.channels
           /\ \A n \in Nicks :
                 Forget(s, is).users[n] = IF s.users[n] \in is THEN NoUser ELSE s.users[n]
           /\ is = {} => Forget(s, is).users = s.users
BY DEF Forget, Objects

\* t is s after the users is have left the channels cs.
Departed(s, t, is, cs) ==
    /\ t.users = s.users /\ t.nick = s.nick /\ t.chans = s.chans /\ t.myNick = s.myNick
    /\ \A c \in Channels :
          /\ t.members[c] = IF c \in cs THEN s.members[c] \ is ELSE s.members[c]
          /\ t.ops[c] = IF c \in cs THEN s.ops[c] \ is ELSE s.ops[c]
    /\ \A i \in Ids : t.channels[i] = IF i \in is THEN s.channels[i] \ cs ELSE s.channels[i]
    /\ Good(t)

\* As long as others leave, no channel is taken apart.
LEMMA OthersLeave ==
    ASSUME NEW s, Booked(s), Present(s), NEW is, is \subseteq Ids, NEW cs, cs \subseteq Channels,
           \A i \in is : ~IsMe(s, i),
           NEW t, t = Leave(s, is, cs)
    PROVE  Departed(s, t, is, cs)
<1> DEFINE dead == {c \in cs : \E i \in is : /\ i \in s.members[c]
                                             /\ \/ IsMe(s, i)
                                                \/ s.members[c] \subseteq is}
           left == [i \in Ids |->
                      IF i \in is THEN s.channels[i] \ cs
                      ELSE s.channels[i] \ {c \in dead : i \in s.members[c]}]
           stay == [c \in Channels |->
                      IF c \in dead THEN {}
                      ELSE IF c \in cs THEN s.members[c] \ is ELSE s.members[c]]
           ops == [c \in Channels |-> s.ops[c] \intersect stay[c]]
           lost == {i \in Ids \ is : /\ s.channels[i] # left[i]
                                     /\ left[i] = {}
                                     /\ ~IsMe(s, i)}
           u == [s EXCEPT !.chans = @ \ dead, !.channels = left, !.members = stay, !.ops = ops]
<1>1. t = Forget(u, lost)
    BY DEF Leave
<1>2. dead = {}
    <2> SUFFICES ASSUME NEW c \in cs, NEW i \in is, i \in s.members[c],
                        s.members[c] \subseteq is
                 PROVE  FALSE
        OBVIOUS
    <2>1. c \in s.chans
        BY DEF Booked, Good, Symmetric
    <2>2. s.users[s.myNick] \in s.members[c]
        BY <2>1 DEF Present, In
    <2>3. IsMe(s, s.users[s.myNick])
        BY FiledAreThemselves DEF Present, Booked, IsMe, Good, Objects
    <2> QED BY <2>2, <2>3
<1>3. /\ \A c \in Channels : stay[c] = IF c \in cs THEN s.members[c] \ is ELSE s.members[c]
      /\ \A i \in Ids : left[i] = IF i \in is THEN s.channels[i] \ cs ELSE s.channels[i]
    <2> HIDE DEF dead
    <2> QED BY <1>2
<1>4. \A c \in Channels : ops[c] = IF c \in cs THEN s.ops[c] \ is ELSE s.ops[c]
    <2>1. \A c \in Channels : s.ops[c] \subseteq s.members[c]
        BY DEF Booked, Good, Symmetric
    <2> HIDE DEF stay
    <2> QED BY <1>3, <2>1
<1>5. lost = {}
    <2> HIDE DEF left
    <2> QED BY <1>3
<1>6. /\ u.users = s.users /\ u.nick = s.nick /\ u.chans = s.chans /\ u.myNick = s.myNick
      /\ u.members = stay /\ u.ops = ops /\ u.channels = left
    <2> HIDE DEF dead, left, stay, ops
    <2> QED BY <1>2 DEF Booked, Good, Objects
<1>7. t.users = u.users /\ t.nick = u.nick /\ t.chans = u.chans /\ t.myNick = u.myNick
      /\ t.members = u.members /\ t.ops = u.ops /\ t.channels = u.channels
    <2>1. /\ left \in [Ids -> SUBSET Channels] /\ stay \in [Channels -> SUBSET Ids]
          /\ ops \in [Channels -> SUBSET Ids]
        BY DEF Booked, Good, Objects
    <2>2. u \in Objects
        <3> HIDE DEF dead, left, stay, ops
        <3> QED BY <2>1 DEF Booked, Good, Objects
    <2> HIDE DEF u, lost
    <2> QED BY <1>1, <1>5, <1>6, <2>2, ForgetFields
<1>8. Good(t)
    BY LeaveGood DEF Booked
<1> HIDE DEF dead, left, stay, ops, lost, u
<1> QED BY <1>3, <1>4, <1>6, <1>7, <1>8 DEF Departed

\* Users who are not the core's quit.
LEMMA QuitView ==
    ASSUME NEW s, Booked(s), Present(s), NEW Q, Q \subseteq Nicks,
           \A n \in Q : Known(s, n), s.myNick \notin Q,
           NEW t, t = Quit(s, {s.users[n] : n \in Q})
    PROVE  /\ Booked(t) /\ t.chans = s.chans /\ t.myNick = s.myNick
           /\ \A n \in Nicks : Known(t, n) <=> Known(s, n) /\ n \notin Q
           /\ \A n \in Nicks, c \in Channels :
                 /\ In(t, n, c) <=> In(s, n, c) /\ n \notin Q
                 /\ Has(t, n, c) <=> Has(s, n, c) /\ n \notin Q
<1> DEFINE gone == {s.users[n] : n \in Q}
           u == Leave(s, gone, Channels)
<1>1. /\ \A n \in Nicks : Known(s, n) => s.users[n] \in Ids /\ s.nick[s.users[n]] = n
      /\ \A m, n \in Nicks : Known(s, n) /\ s.users[m] = s.users[n] => m = n
    BY FiledAreThemselves DEF Booked
<1>2. gone \subseteq Ids /\ \A i \in gone : ~IsMe(s, i)
    BY <1>1 DEF IsMe
<1>3. \A n \in Nicks : Known(s, n) => (s.users[n] \in gone <=> n \in Q)
    BY <1>1
<1> HIDE DEF gone
<1>4. /\ u.users = s.users /\ u.nick = s.nick /\ u.chans = s.chans /\ u.myNick = s.myNick
      /\ \A c \in Channels : u.members[c] = s.members[c] \ gone /\ u.ops[c] = s.ops[c] \ gone
      /\ \A i \in Ids : u.channels[i] = IF i \in gone THEN {} ELSE s.channels[i]
      /\ Good(u)
    <2>1. Departed(s, u, gone, Channels)
        BY <1>2, OthersLeave
    <2>2. \A i \in Ids : s.channels[i] \subseteq Channels
        BY DEF Booked, Good, Objects
    <2> HIDE DEF u
    <2> QED BY <2>1, <2>2 DEF Departed
<1>5. t = Forget(u, gone)
    BY DEF Quit, gone
<1>6. /\ t.nick = u.nick /\ t.chans = u.chans /\ t.myNick = u.myNick
      /\ t.members = u.members /\ t.ops = u.ops /\ t.channels = u.channels
      /\ \A n \in Nicks : t.users[n] = IF u.users[n] \in gone THEN NoUser ELSE u.users[n]
    <2> HIDE DEF u
    <2>1. u \in Objects
        BY <1>4 DEF Good
    <2> DEFINE v == Forget(u, gone)
    <2>2. /\ v.nick = u.nick /\ v.chans = u.chans /\ v.myNick = u.myNick
          /\ v.members = u.members /\ v.ops = u.ops /\ v.channels = u.channels
        BY <2>1, ForgetFields
    <2>3. \A n \in Nicks : v.users[n] = IF u.users[n] \in gone THEN NoUser ELSE u.users[n]
        BY <2>1, ForgetFields
    <2>4. v = t
        BY <1>5
    <2> HIDE DEF v
    <2> QED BY <2>2, <2>3, <2>4
<1>7. Good(t)
    <2> HIDE DEF u
    <2> QED BY <1>4, <1>5, ForgetGood
<1> HIDE DEF u
<1>8. NoUser \notin gone
    BY <1>2, ObjectsAssumption
<1>9. \A n \in Nicks : Known(t, n) <=> Known(s, n) /\ n \notin Q
    BY <1>3, <1>4, <1>6, <1>8 DEF Known
<1>10. ASSUME NEW n \in Nicks, NEW c \in Channels
       PROVE  /\ In(t, n, c) <=> In(s, n, c) /\ n \notin Q
              /\ Has(t, n, c) <=> Has(s, n, c) /\ n \notin Q
    <2>1. Known(s, n) /\ n \notin Q => t.users[n] = s.users[n] /\ s.users[n] \notin gone
        BY <1>3, <1>4, <1>6
    <2> QED BY <1>4, <1>6, <1>9, <2>1 DEF In, Has
<1>11. Listed(t)
    <2> SUFFICES ASSUME NEW i \in Ids, t.channels[i] # {}
                 PROVE  s.nick[i] \in Nicks /\ t.users[s.nick[i]] = i
        BY <1>4, <1>6 DEF Listed
    <2>1. i \notin gone /\ s.channels[i] # {}
        BY <1>4, <1>6
    <2>2. s.nick[i] \in Nicks /\ s.users[s.nick[i]] = i
        BY <2>1 DEF Booked, Listed
    <2> QED BY <2>1, <2>2, <1>4, <1>6
<1> QED BY <1>4, <1>6, <1>7, <1>9, <1>10, <1>11 DEF Booked

\* Another user parts a channel.
LEMMA PartView ==
    ASSUME NEW s, Booked(s), Present(s), NEW n \in Nicks, Known(s, n), n # s.myNick,
           NEW c \in Channels,
           NEW t, t = PartChannel(s, s.users[n], c)
    PROVE  /\ Booked(t) /\ t.chans = s.chans /\ t.myNick = s.myNick
           /\ \A m \in Nicks : m # n => (Known(t, m) <=> Known(s, m))
           /\ \A m \in Nicks, d \in Channels :
                 /\ In(t, m, d) <=> In(s, m, d) /\ ~(m = n /\ d = c)
                 /\ Has(t, m, d) <=> Has(s, m, d) /\ ~(m = n /\ d = c)
<1> DEFINE i == s.users[n]
           u == Leave(s, {i}, {c})
<1>1. /\ i \in Ids /\ s.nick[i] = n
      /\ \A m \in Nicks : s.users[m] = i => m = n
    BY FiledAreThemselves DEF Booked
<1>2. Good(t)
    BY <1>1, PartChannelGood DEF Booked
<1>3. CASE c \notin s.channels[i]
    <2>1. t = s
        BY <1>3 DEF PartChannel
    <2>2. i \notin s.members[c] /\ i \notin s.ops[c]
        BY <1>1, <1>3 DEF Booked, Good, Symmetric
    <2>3. ~In(s, n, c) /\ ~Has(s, n, c)
        BY <2>2 DEF In, Has
    <2> QED BY <2>1, <2>3
<1>4. CASE c \in s.channels[i]
    <2>1. /\ u.users = s.users /\ u.nick = s.nick /\ u.chans = s.chans /\ u.myNick = s.myNick
          /\ \A d \in Channels :
                 /\ u.members[d] = IF d \in {c} THEN s.members[d] \ {i} ELSE s.members[d]
                 /\ u.ops[d] = IF d \in {c} THEN s.ops[d] \ {i} ELSE s.ops[d]
          /\ \A j \in Ids : u.channels[j] = IF j \in {i} THEN s.channels[j] \ {c}
                                            ELSE s.channels[j]
          /\ Good(u)
        <3>1. Departed(s, u, {i}, {c})
            <4>1. {i} \subseteq Ids /\ {c} \subseteq Channels /\ \A j \in {i} : ~IsMe(s, j)
                BY <1>1 DEF IsMe
            <4> QED BY <4>1, OthersLeave
        <3> QED BY <3>1 DEF Departed
    <2> HIDE DEF u, i
    <2>2. u \in Objects
        BY <2>1 DEF Good
    <2>3. t = u \/ (u.channels[i] = {} /\ t = Forget(u, {i}))
        BY <1>4 DEF PartChannel, u, i
    <2>4. /\ t.nick = u.nick /\ t.chans = u.chans /\ t.myNick = u.myNick
          /\ t.members = u.members /\ t.ops = u.ops /\ t.channels = u.channels
          /\ \A m \in Nicks : \/ t.users[m] = u.users[m]
                              \/ u.users[m] = i /\ u.channels[i] = {}
        <3>1. CASE t = u
            BY <3>1
        <3>2. CASE u.channels[i] = {} /\ t = Forget(u, {i})
            BY <3>2, <2>2, ForgetFields
        <3> QED BY <2>3, <3>1, <3>2
    <2>5. \A m \in Nicks : m # n => t.users[m] = s.users[m]
        BY <1>1, <2>1, <2>4
    <2>6. \A m \in Nicks : m # n => (Known(t, m) <=> Known(s, m))
        BY <2>5 DEF Known
    <2>7. ASSUME NEW m \in Nicks, NEW d \in Channels
          PROVE  /\ In(t, m, d) <=> In(s, m, d) /\ ~(m = n /\ d = c)
                 /\ Has(t, m, d) <=> Has(s, m, d) /\ ~(m = n /\ d = c)
        <3>1. CASE m # n
            <4>1. s.users[m] # i
                BY <1>1, <3>1
            <4>2. t.members[d] \in {s.members[d], s.members[d] \ {i}}
                  /\ t.ops[d] \in {s.ops[d], s.ops[d] \ {i}}
                BY <2>1, <2>4
            <4> QED BY <3>1, <4>1, <4>2, <2>5, <2>6 DEF In, Has
        <3>2. CASE m = n /\ t.users[n] = s.users[n]
            <4>1. Known(t, n)
                BY <3>2 DEF Known
            <4>2. s.users[n] = i
                BY DEF i
            <4>3. /\ t.members[d] = IF d = c THEN s.members[d] \ {i} ELSE s.members[d]
                  /\ t.ops[d] = IF d = c THEN s.ops[d] \ {i} ELSE s.ops[d]
                BY <2>1, <2>4
            <4> QED BY <3>2, <4>1, <4>2, <4>3 DEF In, Has
        <3>3. CASE m = n /\ t.users[n] # s.users[n]
            <4>1. u.channels[i] = {}
                BY <3>3, <2>1, <2>4
            <4>2. t.members[d] = u.members[d] /\ t.ops[d] = u.ops[d]
                BY <2>4
            <4>3. \A j \in Ids : j \in u.members[d] <=> d \in u.channels[j]
                BY <2>1 DEF Good, Symmetric
            <4>4. u.ops[d] \subseteq u.members[d]
                BY <2>1 DEF Good, Symmetric
            <4>5. i \notin u.members[d] /\ i \notin u.ops[d]
                BY <1>1, <4>1, <4>3, <4>4
            <4>6. (i \in s.members[d] \/ i \in s.ops[d]) => d = c
                BY <4>5, <2>1
            <4>7. s.users[n] = i
                BY DEF i
            <4>8. ~Known(t, n)
                <5>1. t # u
                    BY <3>3, <2>1
                <5>2. t = Forget(u, {i})
                    BY <5>1, <2>3
                <5>3. t.users[n] = NoUser
                    BY <5>2, <2>1, <2>2, <4>7, ForgetFields
                <5> QED BY <5>3 DEF Known
            <4> QED BY <3>3, <4>6, <4>7, <4>8 DEF In, Has
        <3> QED BY <3>1, <3>2, <3>3
    <2>8. Listed(t)
        <3> SUFFICES ASSUME NEW j \in Ids, u.channels[j] # {}
                     PROVE  s.nick[j] \in Nicks /\ t.users[s.nick[j]] = j
            BY <2>1, <2>4 DEF Listed
        <3>1. s.channels[j] # {}
            BY <2>1
        <3>2. s.nick[j] \in Nicks /\ s.users[s.nick[j]] = j
            BY <3>1 DEF Booked, Listed
        <3> QED BY <3>2, <2>1, <2>4
    <2> QED BY <1>2, <2>1, <2>4, <2>6, <2>7, <2>8 DEF Booked
<1> QED BY <1>2, <1>3, <1>4

\* The core's user parts a channel: it is gone.
LEMMA PartMeView ==
    ASSUME NEW s, Booked(s), Present(s), NEW n \in Nicks, n = s.myNick, NEW c \in s.chans,
           NEW t, t = PartChannel(s, s.users[n], c)
    PROVE  /\ Booked(t) /\ t.chans = s.chans \ {c} /\ t.myNick = s.myNick
           /\ Known(t, n)
           /\ \A m \in Nicks, d \in Channels :
                 /\ In(t, m, d) <=> In(s, m, d) /\ d # c
                 /\ Has(t, m, d) <=> Has(s, m, d) /\ d # c
<1> DEFINE i == s.users[n]
           dead == {d \in {c} : \E j \in {i} : /\ j \in s.members[d]
                                               /\ \/ IsMe(s, j)
                                                  \/ s.members[d] \subseteq {i}}
           left == [j \in Ids |->
                      IF j \in {i} THEN s.channels[j] \ {c}
                      ELSE s.channels[j] \ {d \in dead : j \in s.members[d]}]
           stay == [d \in Channels |->
                      IF d \in dead THEN {}
                      ELSE IF d \in {c} THEN s.members[d] \ {i} ELSE s.members[d]]
           ops == [d \in Channels |-> s.ops[d] \intersect stay[d]]
           lost == {j \in Ids \ {i} : /\ s.channels[j] # left[j]
                                      /\ left[j] = {}
                                      /\ ~IsMe(s, j)}
           u == [s EXCEPT !.chans = @ \ dead, !.channels = left, !.members = stay, !.ops = ops]
<1>1. /\ i \in Ids /\ s.nick[i] = n /\ Known(s, n)
      /\ i \in s.members[c] /\ c \in Channels /\ IsMe(s, i)
    BY FiledAreThemselves DEF Booked, Present, In, IsMe, Good, Objects
<1>2. Leave(s, {i}, {c}) = Forget(u, lost)
    BY DEF Leave
<1>3. dead = {c}
    BY <1>1
<1>4. /\ \A d \in Channels : stay[d] = IF d = c THEN {} ELSE s.members[d]
      /\ \A j \in Ids : left[j] = s.channels[j] \ {c}
    <2>1. \A j \in Ids : c \in s.channels[j] <=> j \in s.members[c]
        BY <1>1 DEF Booked, Good, Symmetric
    <2> HIDE DEF dead, i
    <2> QED BY <1>3, <2>1
<1>5. \A d \in Channels : ops[d] = IF d = c THEN {} ELSE s.ops[d]
    <2>1. \A d \in Channels : s.ops[d] \subseteq s.members[d]
        BY DEF Booked, Good, Symmetric
    <2> HIDE DEF stay
    <2> QED BY <1>4, <2>1
<1>6. /\ left \in [Ids -> SUBSET Channels] /\ stay \in [Channels -> SUBSET Ids]
      /\ ops \in [Channels -> SUBSET Ids]
    BY DEF Booked, Good, Objects
<1>7. /\ u.users = s.users /\ u.nick = s.nick /\ u.chans = s.chans \ {c} /\ u.myNick = s.myNick
      /\ u.members = stay /\ u.ops = ops /\ u.channels = left
      /\ u \in Objects
    <2> HIDE DEF dead, left, stay, ops
    <2> QED BY <1>3, <1>6 DEF Booked, Good, Objects
<1>8. \A j \in lost : j # i /\ left[j] = {}
    OBVIOUS
<1> HIDE DEF left, stay, ops, lost, u
<1>9. t = Forget(u, lost)
    <2>1. c \in s.channels[i]
        BY <1>1 DEF Booked, Good, Symmetric
    <2>2. IsMe(Forget(u, lost), i)
        BY <1>1, <1>7, ForgetFields DEF IsMe
    <2> HIDE DEF i
    <2> QED BY <1>2, <2>1, <2>2 DEF PartChannel, i
<1>10. /\ t.nick = s.nick /\ t.chans = s.chans \ {c} /\ t.myNick = s.myNick
       /\ t.members = stay /\ t.ops = ops /\ t.channels = left
       /\ \A m \in Nicks : t.users[m] = IF s.users[m] \in lost THEN NoUser ELSE s.users[m]
    BY <1>7, <1>9, ForgetFields
<1>11. Good(t)
    BY <1>1, PartChannelGood DEF Booked
<1>12. Known(t, n)
    BY <1>1, <1>8, <1>10 DEF Known
<1>13. ASSUME NEW m \in Nicks, NEW d \in Channels
       PROVE  /\ In(t, m, d) <=> In(s, m, d) /\ d # c
              /\ Has(t, m, d) <=> Has(s, m, d) /\ d # c
    <2>1. CASE s.users[m] \in lost
        <3>1. ~Known(t, m)
            BY <1>10, <2>1 DEF Known
        <3>2. s.users[m] \in Ids
            BY <2>1 DEF lost
        <3>3. d \in s.channels[s.users[m]] => d = c
            BY <1>4, <1>8, <2>1, <3>2
        <3>4. (s.users[m] \in s.members[d] \/ s.users[m] \in s.ops[d]) => d = c
            BY <3>2, <3>3 DEF Booked, Good, Symmetric
        <3> QED BY <3>1, <3>4 DEF In, Has
    <2>2. CASE s.users[m] \notin lost
        BY <2>2, <1>4, <1>5, <1>10 DEF In, Has, Known
    <2> QED BY <2>1, <2>2
<1>14. Listed(t)
    <2> SUFFICES ASSUME NEW j \in Ids, left[j] # {}
                 PROVE  s.nick[j] \in Nicks /\ t.users[s.nick[j]] = j
        BY <1>10 DEF Listed
    <2>1. s.channels[j] # {}
        BY <1>4
    <2>2. s.nick[j] \in Nicks /\ s.users[s.nick[j]] = j
        BY <2>1 DEF Booked, Listed
    <2>3. j \notin lost
        BY <1>8
    <2> QED BY <2>2, <2>3, <1>10
<1> QED BY <1>10, <1>11, <1>12, <1>13, <1>14 DEF Booked

\* A user takes a nick nobody has on any channel.
LEMMA NickView ==
    ASSUME NEW s, Booked(s), NEW n \in Nicks, Known(s, n), NEW new \in Nicks, new # n,
           new # s.myNick, \A c \in Channels : ~In(s, new, c),
           NEW t, t = SetNick(s, s.users[n], new)
    PROVE  /\ Booked(t) /\ t.chans = s.chans
           /\ t.myNick = IF n = s.myNick THEN new ELSE s.myNick
           /\ \A m \in Nicks : Known(t, m) <=> m = new \/ (m # n /\ Known(s, m))
           /\ \A m \in Nicks, c \in Channels :
                 /\ In(t, m, c) <=> (m = new /\ In(s, n, c)) \/ (m \notin {n, new} /\ In(s, m, c))
                 /\ Has(t, m, c) <=> (m = new /\ Has(s, n, c)) \/ (m \notin {n, new} /\ Has(s, m, c))
<1> DEFINE i == s.users[n]
<1>1. i \in Ids /\ s.nick[i] = n /\ \A m \in Nicks : s.users[m] = i => m = n
    BY FiledAreThemselves DEF Booked
<1>2. /\ t.chans = s.chans /\ t.channels = s.channels /\ t.members = s.members /\ t.ops = s.ops
      /\ t.myNick = IF n = s.myNick THEN new ELSE s.myNick
      /\ \A m \in Nicks : t.users[m] = IF m = new THEN i ELSE IF m = n THEN NoUser ELSE s.users[m]
      /\ \A j \in Ids : t.nick[j] = IF j = i THEN new ELSE s.nick[j]
    <2> HIDE DEF i
    <2>1. t = [s EXCEPT !.nick[i] = new,
                        !.users = [@ EXCEPT ![n] = NoUser, ![new] = i],
                        !.myNick = IF @ = n THEN new ELSE @]
        BY <1>1 DEF SetNick, i
    <2> QED BY <1>1, <2>1 DEF Booked, Good, Objects
<1>3. Good(t)
    <2>1. s.users[n] = i
        OBVIOUS
    <2> HIDE DEF i
    <2> QED BY <1>1, <2>1, SetNickGood DEF Booked
<1>4. i # NoUser
    BY DEF Known
<1>5. s.users[n] = i
    OBVIOUS
<1> HIDE DEF i
<1>6. \A m \in Nicks : Known(t, m) <=> m = new \/ (m # n /\ Known(s, m))
    BY <1>2, <1>4 DEF Known
<1>7. ASSUME NEW m \in Nicks, NEW c \in Channels
      PROVE  /\ In(t, m, c) <=> (m = new /\ In(s, n, c)) \/ (m \notin {n, new} /\ In(s, m, c))
             /\ Has(t, m, c) <=> (m = new /\ Has(s, n, c)) \/ (m \notin {n, new} /\ Has(s, m, c))
    BY <1>2, <1>5, <1>6 DEF In, Has
<1>8. Listed(t)
    <2> SUFFICES ASSUME NEW j \in Ids, s.channels[j] # {}
                 PROVE  t.nick[j] \in Nicks /\ t.users[t.nick[j]] = j
        BY <1>2 DEF Listed
    <2>1. CASE j = i
        BY <2>1, <1>2
    <2>2. CASE j # i
        <3>1. s.nick[j] \in Nicks /\ s.users[s.nick[j]] = j
            BY DEF Booked, Listed
        <3>2. PICK c \in Channels : j \in s.members[c]
            BY DEF Booked, Good, Objects, Symmetric
        <3>3. In(s, s.nick[j], c)
            BY <3>2, MembersAreFiled
        <3>4. s.nick[j] # new
            BY <3>1, <3>3
        <3>5. s.nick[j] # n
            BY <3>1, <1>5, <2>2
        <3> QED BY <2>2, <3>1, <3>4, <3>5, <1>2
    <2> QED BY <2>1, <2>2
<1> QED BY <1>2, <1>3, <1>6, <1>7, <1>8 DEF Booked

\* A mode is given to, or taken from, one user on one channel.
LEMMA ModeView ==
    ASSUME NEW s, Booked(s), NEW n \in Nicks, Known(s, n), NEW c \in Channels
    PROVE  /\ In(s, n, c) =>
                 LET t == AddUserMode(s, s.users[n], c)
                 IN  /\ Booked(t) /\ t.chans = s.chans /\ t.myNick = s.myNick
                     /\ \A m \in Nicks : Known(t, m) <=> Known(s, m)
                     /\ \A m \in Nicks, d \in Channels :
                           /\ In(t, m, d) <=> In(s, m, d)
                           /\ Has(t, m, d) <=> Has(s, m, d) \/ (m = n /\ d = c)
           /\ LET t == RemoveUserMode(s, s.users[n], c)
              IN  /\ Booked(t) /\ t.chans = s.chans /\ t.myNick = s.myNick
                  /\ \A m \in Nicks : Known(t, m) <=> Known(s, m)
                  /\ \A m \in Nicks, d \in Channels :
                        /\ In(t, m, d) <=> In(s, m, d)
                        /\ Has(t, m, d) <=> Has(s, m, d) /\ ~(m = n /\ d = c)
<1> DEFINE i == s.users[n]
<1>1. i \in Ids /\ \A m \in Nicks : s.users[m] = i <=> m = n
    BY FiledAreThemselves DEF Booked
<1>2. Good(AddUserMode(s, i, c)) /\ Good(RemoveUserMode(s, i, c))
    <2> HIDE DEF i
    <2> QED BY <1>1, ModeGood DEF Booked
<1>3. ASSUME NEW S, NEW t, t = [s EXCEPT !.ops[c] = S]
      PROVE  /\ t.chans = s.chans /\ t.myNick = s.myNick /\ t.users = s.users /\ t.nick = s.nick
             /\ t.members = s.members /\ t.channels = s.channels
             /\ \A d \in Channels : t.ops[d] = IF d = c THEN S ELSE s.ops[d]
    BY <1>3 DEF Booked, Good, Objects
<1>4. ASSUME In(s, n, c)
      PROVE  LET t == AddUserMode(s, i, c)
             IN  /\ Booked(t) /\ t.chans = s.chans /\ t.myNick = s.myNick
                 /\ \A m \in Nicks : Known(t, m) <=> Known(s, m)
                 /\ \A m \in Nicks, d \in Channels :
                       /\ In(t, m, d) <=> In(s, m, d)
                       /\ Has(t, m, d) <=> Has(s, m, d) \/ (m = n /\ d = c)
    <2> DEFINE t == AddUserMode(s, i, c)
    <2>1. t = [s EXCEPT !.ops[c] = s.ops[c] \union {i}]
        BY <1>4 DEF AddUserMode, In
    <2> HIDE DEF t, i
    <2>2. /\ t.chans = s.chans /\ t.myNick = s.myNick /\ t.users = s.users /\ t.nick = s.nick
          /\ t.members = s.members /\ t.channels = s.channels
          /\ \A d \in Channels : t.ops[d] = IF d = c THEN s.ops[c] \union {i} ELSE s.ops[d]
        BY <1>3, <2>1
    <2>3. \A m \in Nicks : Known(t, m) <=> Known(s, m)
        BY <2>2 DEF Known
    <2>4. \A m \in Nicks, d \in Channels :
             /\ In(t, m, d) <=> In(s, m, d)
             /\ Has(t, m, d) <=> Has(s, m, d) \/ (m = n /\ d = c)
        BY <1>1, <2>2, <2>3 DEF In, Has
    <2>5. Booked(t)
        BY <1>2, <2>2 DEF Booked, Listed, t
    <2> QED BY <2>2, <2>3, <2>4, <2>5 DEF t
<1>5. LET t == RemoveUserMode(s, i, c)
      IN  /\ Booked(t) /\ t.chans = s.chans /\ t.myNick = s.myNick
          /\ \A m \in Nicks : Known(t, m) <=> Known(s, m)
          /\ \A m \in Nicks, d \in Channels :
                /\ In(t, m, d) <=> In(s, m, d)
                /\ Has(t, m, d) <=> Has(s, m, d) /\ ~(m = n /\ d = c)
    <2> DEFINE t == RemoveUserMode(s, i, c)
    <2>1. t = [s EXCEPT !.ops[c] = s.ops[c] \ {i}]
        BY DEF RemoveUserMode
    <2> HIDE DEF t, i
    <2>2. /\ t.chans = s.chans /\ t.myNick = s.myNick /\ t.users = s.users /\ t.nick = s.nick
          /\ t.members = s.members /\ t.channels = s.channels
          /\ \A d \in Channels : t.ops[d] = IF d = c THEN s.ops[c] \ {i} ELSE s.ops[d]
        BY <1>3, <2>1
    <2>3. \A m \in Nicks : Known(t, m) <=> Known(s, m)
        BY <2>2 DEF Known
    <2>4. \A m \in Nicks, d \in Channels :
             /\ In(t, m, d) <=> In(s, m, d)
             /\ Has(t, m, d) <=> Has(s, m, d) /\ ~(m = n /\ d = c)
        BY <1>1, <2>2, <2>3 DEF In, Has
    <2>5. Booked(t)
        BY <1>2, <2>2 DEF Booked, Listed, t
    <2> QED BY <2>2, <2>3, <2>4, <2>5 DEF t
<1> QED BY <1>4, <1>5

\* Those who come back with a mode.
Moded(sp, c) == {j.nick : j \in {e \in ToSet(sp.joins[c]) : e.mode}}

\* No mode is dropped of users who are all known.
LEMMA ModesLeftWhole ==
    ASSUME NEW s, NEW joins \in Seq(Entries), \A k \in DOMAIN joins : Known(s, joins[k].nick)
    PROVE  ModesLeft(s, joins) = [h \in DOMAIN joins |-> joins[h].mode]
<1> DEFINE modes == [h \in DOMAIN joins |-> joins[h].mode]
           place(m) == CHOOSE k \in DOMAIN joins :
                          /\ MaskOf(joins[k]) = m
                          /\ \A j \in 1 .. k - 1 : MaskOf(joins[j]) # m
           kept(k, ms) == Known(s, joins[k].nick) \/ place(MaskOf(joins[k])) > Len(ms)
           step(f, k) == IF k = 0 THEN modes
                         ELSE IF kept(k, f[k - 1]) THEN f[k - 1]
                         ELSE RemoveAt(f[k - 1], place(MaskOf(joins[k])))
           L == Len(joins)
           left == CHOOSE f : f = [k \in 0 .. L |-> step(f, k)]
           whole == [k \in 0 .. L |-> modes]
<1>1. L \in Nat /\ \A k \in 1 .. L : Known(s, joins[k].nick)
    OBVIOUS
<1>2. ASSUME NEW k \in 1 .. L, NEW f PROVE step(f, k) = f[k - 1]
    BY <1>1
<1>3. \A f : step(f, 0) = modes
    OBVIOUS
<1>4. whole = [k \in 0 .. L |-> step(whole, k)]
    <2>1. ASSUME NEW k \in 0 .. L PROVE step(whole, k) = modes
        <3>1. CASE k = 0
            BY <3>1, <1>3
        <3>2. CASE k # 0
            <4>1. k \in 1 .. L /\ k - 1 \in 0 .. L
                BY <3>2, <1>1
            <4>2. whole[k - 1] = modes
                BY <4>1
            <4> HIDE DEF step, whole
            <4> QED BY <1>2, <4>1, <4>2
        <3> QED BY <3>1, <3>2
    <2> HIDE DEF step, modes
    <2> QED BY <2>1
<1>5. left = [k \in 0 .. L |-> step(left, k)]
    <2> HIDE DEF step, whole
    <2> QED BY <1>4
<1>6. \A k \in 0 .. L : left[k] = modes
    <2> SUFFICES ASSUME NEW k \in 0 .. L, left[k] # modes PROVE FALSE
        OBVIOUS
    <2> DEFINE T == {h \in 0 .. L : left[h] # modes}
    <2>1. T \subseteq Nat /\ T # {}
        <3> HIDE DEF left, modes, L
        <3> QED BY <1>1
    <2>2. PICK h \in T : \A g \in T : h <= g
        BY <2>1, LeastNatural
    <2>3. left[h] = step(left, h)
        <3> HIDE DEF left, step
        <3> QED BY <1>5
    <2>4. CASE h = 0
        <3> HIDE DEF left, step
        <3> QED BY <2>3, <2>4, <1>3
    <2>5. CASE h # 0
        <3>1. h \in 1 .. L /\ h - 1 \in 0 .. L /\ h - 1 \notin T
            <4> HIDE DEF left, modes, L
            <4> QED BY <2>2, <2>5, <1>1
        <3>2. left[h - 1] = modes
            BY <3>1
        <3> HIDE DEF left, step
        <3> QED BY <2>3, <3>1, <3>2, <1>2
    <2> QED BY <2>4, <2>5
<1>7. ModesLeft(s, joins) = left[L]
    BY DEF ModesLeft
<1> HIDE DEF left, step, L
<1> QED BY <1>1, <1>6, <1>7

\* The held back joins of users who are all known come as they were held back.
LEMMA BulkJoinView ==
    ASSUME NEW s, Booked(s), NEW sp, sp \in Splits,
           \A c \in Channels : \A n \in Pending(sp, c) : Known(s, n) /\ c \in s.chans,
           NEW t, t = BulkJoin(s, sp)
    PROVE  /\ Booked(t) /\ t.chans = s.chans /\ t.myNick = s.myNick
           /\ \A n \in Nicks : Known(t, n) <=> Known(s, n)
           /\ \A n \in Nicks, c \in Channels :
                 /\ In(t, n, c) <=> In(s, n, c) \/ n \in Pending(sp, c)
                 /\ Has(t, n, c) <=> Has(s, n, c) \/ n \in Moded(sp, c)
<1> DEFINE known(c) == {k \in DOMAIN sp.joins[c] : Known(s, sp.joins[c][k].nick)}
           place(c, k) == Cardinality({h \in known(c) : h <= k})
           modes(c) == ModesLeft(s, sp.joins[c])
           taken(c) == c \in s.chans /\ Cardinality(known(c)) = Len(modes(c))
           users(c, places) ==
               IF taken(c) THEN {s.users[sp.joins[c][k].nick] : k \in places} ELSE {}
           opped(c) == {k \in known(c) : modes(c)[place(c, k)]}
           jn == [c \in Channels |-> users(c, known(c))]
           pn == [c \in Channels |-> users(c, opped(c))]
           J == [c \in Channels |-> Pending(sp, c)]
           P == [c \in Channels |-> Moded(sp, c)]
<1>1. t = JoinIrcUsers(s, jn, pn)
    BY DEF BulkJoin
<1>2. Good(t)
    BY BulkJoinGood DEF Booked
<1>3. ASSUME NEW c \in Channels
      PROVE  /\ P[c] \subseteq J[c] /\ J[c] \subseteq Nicks
             /\ jn[c] = {s.users[n] : n \in J[c]}
             /\ pn[c] = {s.users[n] : n \in P[c]}
    <2> DEFINE q == sp.joins[c]
               L == Len(q)
    <2>1. q \in Seq(Entries) /\ L \in Nat /\ DOMAIN q = 1 .. L
        BY DEF Splits
    <2>2. \A k \in 1 .. L : q[k] \in Entries
        BY <2>1
    <2>3. \A k \in 1 .. L : q[k].nick \in Nicks /\ q[k].mode \in BOOLEAN
        BY <2>2 DEF Entries
    <2>4. Pending(sp, c) = {q[k].nick : k \in 1 .. L}
        BY <2>1 DEF Pending
    <2>5. Moded(sp, c) = {q[k].nick : k \in {h \in 1 .. L : q[h].mode}}
        BY <2>1 DEF Moded, ToSet
    <2>6. known(c) = 1 .. L
        BY <2>1, <2>4
    <2>7. ASSUME NEW k \in 1 .. L PROVE place(c, k) = k
        <3>1. {h \in 1 .. L : h <= k} = 1 .. k
            BY <2>1
        <3>2. Cardinality(1 .. k) = k
            BY FS_Interval
        <3> HIDE DEF known, q
        <3> QED BY <2>6, <3>1, <3>2
    <2>8. modes(c) = [k \in 1 .. L |-> q[k].mode]
        BY <2>1, <2>6, ModesLeftWhole
    <2>9. Len(modes(c)) = L /\ Cardinality(known(c)) = L
        <3>1. [k \in 1 .. L |-> q[k].mode] \in Seq(BOOLEAN) /\ Len([k \in 1 .. L |-> q[k].mode]) = L
            <4> HIDE DEF q, L
            <4> QED BY <2>1, <2>3
        <3>2. Cardinality(1 .. L) = L
            BY <2>1, FS_Interval
        <3> HIDE DEF modes, known, q
        <3> QED BY <2>6, <2>8, <3>1, <3>2
    <2>10. opped(c) = {k \in 1 .. L : q[k].mode}
        <3> HIDE DEF modes, known, place, q, L
        <3> QED BY <2>6, <2>7, <2>8
    <2>11. taken(c) \/ (L = 0 /\ c \notin s.chans)
        <3>1. L # 0 => c \in s.chans
            <4>1. L # 0 => 1 \in 1 .. L
                BY <2>1
            <4> QED BY <4>1, <2>4
        <3> HIDE DEF modes, known, q, L
        <3> QED BY <2>9, <3>1
    <2>12. J[c] = Pending(sp, c) /\ P[c] = Moded(sp, c)
        OBVIOUS
    <2>13. /\ jn[c] = IF taken(c) THEN {s.users[q[k].nick] : k \in known(c)} ELSE {}
           /\ pn[c] = IF taken(c) THEN {s.users[q[k].nick] : k \in opped(c)} ELSE {}
        OBVIOUS
    <2> HIDE DEF jn, pn, J, P, taken, known, opped, modes, q, L
    <2>14. L = 0 => 1 .. L = {}
        OBVIOUS
    <2>15. P[c] \subseteq J[c] /\ J[c] \subseteq Nicks
        BY <2>3, <2>4, <2>5, <2>12
    <2>16. jn[c] = {s.users[n] : n \in J[c]}
        BY <2>4, <2>6, <2>11, <2>12, <2>13, <2>14
    <2>17. pn[c] = {s.users[n] : n \in P[c]}
        BY <2>5, <2>10, <2>11, <2>12, <2>13, <2>14
    <2> QED BY <2>15, <2>16, <2>17
<1>4. J \in [Channels -> SUBSET Nicks] /\ \A c \in Channels : \A n \in J[c] : Known(s, n)
    BY <1>3
<1>5. \A c \in Channels : J[c] = Pending(sp, c) /\ P[c] = Moded(sp, c)
    OBVIOUS
<1>6. s \in Objects /\ Symmetric(s) /\ Filed(s) /\ Listed(s)
    BY DEF Booked, Good
<1> HIDE DEF jn, pn, J, P
<1>7. /\ t.chans = s.chans /\ t.myNick = s.myNick
      /\ \A n \in Nicks : Known(t, n) <=> Known(s, n)
      /\ \A n \in Nicks, c \in Channels : In(t, n, c) <=> In(s, n, c) \/ n \in J[c]
      /\ \A n \in Nicks, c \in Channels : Has(t, n, c) <=> Has(s, n, c) \/ n \in P[c]
      /\ Listed(t)
    BY <1>1, <1>3, <1>4, <1>6, JoinView
<1> QED BY <1>2, <1>5, <1>7 DEF Booked

\* The quits not told yet are told.
LEMMA NetsplitQuitView ==
    ASSUME NEW s, Booked(s), Present(s), NEW sp,
           \A c \in Channels : s.myNick \notin Unsent(sp, c),
           NEW t, t = HandleNetsplitQuit(s, sp)
    PROVE  /\ Booked(t) /\ t.chans = s.chans /\ t.myNick = s.myNick
           /\ \A n \in Nicks : Known(t, n) <=>
                 Known(s, n) /\ \A c \in Channels : n \notin Unsent(sp, c)
           /\ \A n \in Nicks, c \in Channels :
                 /\ In(t, n, c) <=> In(s, n, c) /\ \A d \in Channels : n \notin Unsent(sp, d)
                 /\ Has(t, n, c) <=> Has(s, n, c) /\ \A d \in Channels : n \notin Unsent(sp, d)
<1> DEFINE told(n) == \E c \in Channels : n \in Unsent(sp, c)
           Q == {m \in Nicks : told(m) /\ Known(s, m)}
<1>1. t = Quit(s, {s.users[n] : n \in Q})
    BY DEF HandleNetsplitQuit
<1>2. Q \subseteq Nicks /\ (\A n \in Q : Known(s, n)) /\ s.myNick \notin Q
    OBVIOUS
<1>3. \A n \in Nicks : n \in Q <=> Known(s, n) /\ \E c \in Channels : n \in Unsent(sp, c)
    OBVIOUS
<1> HIDE DEF Q
<1>4. /\ Booked(t) /\ t.chans = s.chans /\ t.myNick = s.myNick
      /\ \A n \in Nicks : Known(t, n) <=> Known(s, n) /\ n \notin Q
      /\ \A n \in Nicks, c \in Channels :
            /\ In(t, n, c) <=> In(s, n, c) /\ n \notin Q
            /\ Has(t, n, c) <=> Has(s, n, c) /\ n \notin Q
    BY <1>1, <1>2, QuitView
<1>5. \A n \in Nicks, c \in Channels : (In(s, n, c) => Known(s, n)) /\ (Has(s, n, c) => Known(s, n))
    BY DEF In, Has
<1> QED BY <1>3, <1>4, <1>5

\* An entry taken out of a list is the only one that goes.
LEMMA RemoveAtKeeps ==
    ASSUME NEW S, NEW q \in Seq(S), NEW k \in 1 .. Len(q), NEW m \in ToSet(q), m # q[k]
    PROVE  m \in ToSet(RemoveAt(q, k))
<1> DEFINE head == SubSeq(q, 1, k - 1)
           tail == SubSeq(q, k + 1, Len(q))
           r == RemoveAt(q, k)
<1>1. PICK j \in 1 .. Len(q) : q[j] = m
    BY DEF ToSet
<1>2. /\ head \in Seq(S) /\ Len(head) = k - 1 /\ \A h \in 1 .. k - 1 : head[h] = q[h]
      /\ tail \in Seq(S) /\ Len(tail) = Len(q) - k
      /\ \A h \in 1 .. Len(q) - k : tail[h] = q[k + h]
    OBVIOUS
<1>3. r = head \o tail
    BY DEF RemoveAt
<1> HIDE DEF head, tail, r
<1>4. CASE j < k
    <2>1. j \in 1 .. Len(r) /\ r[j] = m /\ DOMAIN r = 1 .. Len(r)
        BY <1>1, <1>2, <1>3, <1>4
    <2> QED BY <2>1 DEF ToSet, r
<1>5. CASE j > k
    <2>1. j - k \in 1 .. Len(q) - k /\ k + (j - k) = j
        BY <1>5
    <2>2. tail[j - k] = m
        BY <1>1, <1>2, <2>1
    <2>3. DOMAIN r = 1 .. Len(head) + Len(tail)
        <3>1. r \in Seq(S) /\ Len(r) = Len(head) + Len(tail)
            BY <1>2, <1>3, ConcatProperties
        <3>2. DOMAIN r = 1 .. Len(r)
            BY <3>1
        <3> QED BY <3>1, <3>2
    <2>4. \A h \in 1 .. Len(tail) : r[Len(head) + h] = tail[h]
        BY <1>2, <1>3
    <2>5. /\ j - k \in 1 .. Len(tail)
          /\ Len(head) + (j - k) \in 1 .. Len(head) + Len(tail)
        BY <1>2, <2>1
    <2> QED BY <2>2, <2>3, <2>4, <2>5 DEF ToSet, r
<1> QED BY <1>1, <1>4, <1>5

\* Who is to quit has quit, and is known by nick.
LEMMA QuittersAreNicks ==
    ASSUME NEW sp \in Splits, NEW c \in Channels
    PROVE  /\ Quitters(sp, c) \subseteq Nicks /\ Unsent(sp, c) \subseteq Quitters(sp, c)
           /\ ToSet(sp.quits[c]) # {} => Quitters(sp, c) # {}
<1>1. sp.quits[c] \in Seq(Masks)
    BY DEF Splits
<1>2. ToSet(sp.quits[c]) \subseteq Masks
    BY <1>1, ElementOfSeq DEF ToSet
<1> QED BY <1>2 DEF Quitters, Unsent, Masks

\* A quit is noted on the channels it is seen on.
LEMMA UserQuitView ==
    ASSUME NEW sp \in Splits, NEW m \in Masks, NEW cs, NEW t, t = UserQuit(sp, m, cs)
    PROVE  /\ t.live /\ t.sent = sp.sent
           /\ \A c \in Channels :
                 /\ Pending(t, c) = Pending(sp, c) /\ Moded(t, c) = Moded(sp, c)
                 /\ Quitters(t, c) = IF c \in cs THEN Quitters(sp, c) \union {m.nick}
                                     ELSE Quitters(sp, c)
                 /\ Unsent(t, c) = IF c \in cs /\ m \notin sp.sent[c]
                                   THEN Unsent(sp, c) \union {m.nick}
                                   ELSE Unsent(sp, c)
<1>1. /\ t.live /\ t.sent = sp.sent /\ t.joins = sp.joins
      /\ \A c \in Channels : t.quits[c] = IF c \in cs THEN Append(sp.quits[c], m)
                                          ELSE sp.quits[c]
    BY DEF UserQuit, Splits
<1>2. ASSUME NEW q \in Seq(Masks) PROVE ToSet(Append(q, m)) = ToSet(q) \union {m}
    <2>1. DOMAIN Append(q, m) = 1 .. Len(q) + 1 /\ DOMAIN q = 1 .. Len(q) /\ Len(q) \in Nat
        OBVIOUS
    <2>2. \A k \in 1 .. Len(q) : Append(q, m)[k] = q[k]
        OBVIOUS
    <2>3. Append(q, m)[Len(q) + 1] = m
        OBVIOUS
    <2> DEFINE r == Append(q, m)
    <2> HIDE DEF r
    <2>4. DOMAIN r = 1 .. Len(q) + 1 /\ (\A k \in 1 .. Len(q) : r[k] = q[k]) /\ r[Len(q) + 1] = m
        BY <2>1, <2>2, <2>3 DEF r
    <2>5. ToSet(r) = ToSet(q) \union {m}
        BY <2>1, <2>4 DEF ToSet
    <2> QED BY <2>5 DEF r
<1>3. \A c \in Channels : sp.quits[c] \in Seq(Masks)
    BY DEF Splits
<1>4. \A c \in Channels : ToSet(t.quits[c]) = IF c \in cs THEN ToSet(sp.quits[c]) \union {m}
                                              ELSE ToSet(sp.quits[c])
    BY <1>1, <1>2, <1>3
<1>5. ASSUME NEW c \in Channels
      PROVE  /\ Quitters(t, c) = IF c \in cs THEN Quitters(sp, c) \union {m.nick}
                                 ELSE Quitters(sp, c)
             /\ Unsent(t, c) = IF c \in cs /\ m \notin sp.sent[c]
                               THEN Unsent(sp, c) \union {m.nick}
                               ELSE Unsent(sp, c)
    BY <1>1, <1>4 DEF Quitters, Unsent
<1> QED BY <1>1, <1>5 DEF Pending, Moded

\* What is somewhere in a list is somewhere first.
LEMMA FirstOf ==
    ASSUME NEW L \in Nat, NEW T, T \subseteq 1 .. L, T # {}
    PROVE  \E k \in T : \A j \in 1 .. k - 1 : j \notin T
<1>1. T \subseteq Nat
    OBVIOUS
<1>2. PICK m \in T : \A k \in T : m <= k
    BY <1>1, LeastNatural
<1> QED BY <1>2

\* A quit that is noted once turns into a join that is held back.
LEMMA UserJoinedView ==
    ASSUME NEW sp \in Splits, NEW n \in Nicks, NEW c \in Channels, TakesJoin(sp, n, c),
           NEW t, t = UserJoined(sp, n, c)
    PROVE  /\ t.live = sp.live /\ t.sent = sp.sent
           /\ \A d \in Channels :
                 /\ Pending(t, d) = IF d = c THEN Pending(sp, d) \union {n} ELSE Pending(sp, d)
                 /\ Moded(t, d) = Moded(sp, d)
                 /\ Quitters(t, d) \subseteq Quitters(sp, d)
                 /\ Unsent(t, d) \subseteq Unsent(sp, d)
                 /\ Unsent(sp, d) \subseteq Unsent(t, d) \union {n}
<1> DEFINE q == sp.quits[c]
           first == CHOOSE k \in DOMAIN sp.quits[c] :
                      /\ sp.quits[c][k].nick = n
                      /\ \A j \in 1 .. k - 1 : sp.quits[c][j].nick # n
           entry == [nick |-> n, host |-> q[first].host, mode |-> FALSE]
           p == sp.joins[c]
           r == Append(p, entry)
<1>1. q \in Seq(Masks) /\ DOMAIN q = 1 .. Len(q) /\ Len(q) \in Nat
    BY DEF Splits
<1>2. first \in 1 .. Len(q) /\ q[first].nick = n
    <2> DEFINE T == {k \in 1 .. Len(q) : q[k].nick = n}
    <2>1. T \subseteq 1 .. Len(q) /\ T # {}
        BY <1>1 DEF TakesJoin, Quitters, ToSet
    <2>2. \E k \in T : \A j \in 1 .. k - 1 : j \notin T
        <3> HIDE DEF T
        <3> QED BY <1>1, <2>1, FirstOf
    <2>3. \E k \in DOMAIN sp.quits[c] : /\ sp.quits[c][k].nick = n
                                        /\ \A j \in 1 .. k - 1 : sp.quits[c][j].nick # n
        BY <1>1, <2>2
    <2> QED BY <1>1, <2>3
<1>3. /\ ToSet(RemoveAt(q, first)) \subseteq ToSet(q)
      /\ \A m \in ToSet(q) : m.nick # n => m \in ToSet(RemoveAt(q, first))
    <2> HIDE DEF q, first
    <2> QED BY <1>1, <1>2, RemoveAtShrinks, RemoveAtKeeps
<1>4. /\ t.live = sp.live /\ t.sent = sp.sent
      /\ \A d \in Channels : /\ t.quits[d] = IF d = c THEN RemoveAt(q, first) ELSE sp.quits[d]
                             /\ t.joins[d] = IF d = c THEN r ELSE sp.joins[d]
    <2>1. t = [sp EXCEPT !.quits = [@ EXCEPT ![c] = RemoveAt(q, first)],
                         !.joins = [@ EXCEPT ![c] = r],
                         !.joinCounter = @ + 1, !.joinTimer = TRUE]
        BY DEF UserJoined
    <2> HIDE DEF first, q, r
    <2> QED BY <2>1 DEF Splits
<1>5. p \in Seq(Entries) /\ DOMAIN p = 1 .. Len(p) /\ Len(p) \in Nat
    BY DEF Splits
<1>6. /\ DOMAIN r = 1 .. Len(p) + 1 /\ \A k \in 1 .. Len(p) : r[k] = p[k]
      /\ r[Len(p) + 1] = entry
    <2> HIDE DEF p, entry
    <2> QED BY <1>5
<1>7. entry.nick = n /\ ~entry.mode
    OBVIOUS
<1>8. p = sp.joins[c]
    OBVIOUS
<1> HIDE DEF first, r, p, entry
<1>9. Pending(t, c) = Pending(sp, c) \union {n}
    <2>1. Pending(t, c) = {r[k].nick : k \in DOMAIN r}
        BY <1>4 DEF Pending
    <2>2. Pending(sp, c) = {p[k].nick : k \in DOMAIN p}
        BY <1>8 DEF Pending
    <2> QED BY <1>5, <1>6, <1>7, <2>1, <2>2
<1>10. Moded(t, c) = Moded(sp, c)
    <2>1. Moded(t, c) = {r[k].nick : k \in {h \in DOMAIN r : r[h].mode}}
        BY <1>4 DEF Moded, ToSet
    <2>2. Moded(sp, c) = {p[k].nick : k \in {h \in DOMAIN p : p[h].mode}}
        BY <1>8 DEF Moded, ToSet
    <2> QED BY <1>5, <1>6, <1>7, <2>1, <2>2
<1>11. \A d \in Channels : d # c => Pending(t, d) = Pending(sp, d) /\ Moded(t, d) = Moded(sp, d)
    BY <1>4 DEF Pending, Moded
<1>12. ASSUME NEW d \in Channels
       PROVE  /\ Quitters(t, d) \subseteq Quitters(sp, d)
              /\ Unsent(t, d) \subseteq Unsent(sp, d)
              /\ Unsent(sp, d) \subseteq Unsent(t, d) \union {n}
    <2>1. /\ ToSet(t.quits[d]) \subseteq ToSet(sp.quits[d])
          /\ \A m \in ToSet(sp.quits[d]) : m.nick # n => m \in ToSet(t.quits[d])
        BY <1>3, <1>4
    <2> QED BY <1>4, <2>1 DEF Quitters, Unsent
<1> QED BY <1>4, <1>9, <1>10, <1>11, <1>12

\* The mode of a user whose join is held back is noted.
LEMMA AddModeView ==
    ASSUME NEW sp \in Splits, NEW n \in Nicks, NEW m, m.nick = n, NEW c \in Channels,
           AlreadyJoined(sp, m, c), NEW t, t = AddMode(sp, m, c)
    PROVE  /\ t.live = sp.live /\ t.sent = sp.sent /\ t.quits = sp.quits
           /\ \A d \in Channels :
                 /\ Pending(t, d) = Pending(sp, d)
                 /\ Moded(t, d) = IF d = c THEN Moded(sp, d) \union {n} ELSE Moded(sp, d)
<1> DEFINE q == sp.joins[c]
           first == CHOOSE k \in DOMAIN sp.joins[c] :
                      /\ MaskOf(sp.joins[c][k]) = m
                      /\ \A j \in 1 .. k - 1 : MaskOf(sp.joins[c][j]) # m
           entries == [q EXCEPT ![first].mode = TRUE]
<1>1. q \in Seq(Entries) /\ DOMAIN q = 1 .. Len(q) /\ Len(q) \in Nat
    BY DEF Splits
<1>2. first \in 1 .. Len(q) /\ q[first].nick = n
    <2> DEFINE T == {k \in 1 .. Len(q) : MaskOf(q[k]) = m}
    <2>1. T \subseteq 1 .. Len(q) /\ T # {}
        BY <1>1 DEF AlreadyJoined
    <2>2. \E k \in T : \A j \in 1 .. k - 1 : j \notin T
        <3> HIDE DEF T
        <3> QED BY <1>1, <2>1, FirstOf
    <2>3. \E k \in DOMAIN sp.joins[c] : /\ MaskOf(sp.joins[c][k]) = m
                                        /\ \A j \in 1 .. k - 1 : MaskOf(sp.joins[c][j]) # m
        BY <1>1, <2>2
    <2>4. first \in DOMAIN q /\ MaskOf(q[first]) = m
        BY <2>3
    <2> HIDE DEF first, q
    <2> QED BY <1>1, <2>4 DEF MaskOf
<1>3. /\ DOMAIN entries = DOMAIN q
      /\ \A k \in DOMAIN q : /\ entries[k].nick = q[k].nick
                             /\ entries[k].mode = IF k = first THEN TRUE ELSE q[k].mode
    <2>1. \A k \in 1 .. Len(q) : q[k] \in [nick : Nicks, host : Hosts, mode : BOOLEAN]
        <3>1. \A k \in 1 .. Len(q) : q[k] \in Entries
            BY <1>1
        <3> QED BY <3>1 DEF Entries
    <2> HIDE DEF first, q
    <2> QED BY <1>1, <1>2, <2>1
<1>4. /\ t.live = sp.live /\ t.sent = sp.sent /\ t.quits = sp.quits
      /\ \A d \in Channels : t.joins[d] = IF d = c THEN entries ELSE sp.joins[d]
    <2>1. t = [sp EXCEPT !.joins = [sp.joins EXCEPT ![c] = entries]]
        BY DEF AddMode, Splits
    <2> HIDE DEF entries
    <2> QED BY <2>1 DEF Splits
<1>5. q = sp.joins[c]
    OBVIOUS
<1> HIDE DEF first, entries, q
<1>6. Pending(t, c) = Pending(sp, c)
    <2>1. Pending(t, c) = {entries[k].nick : k \in DOMAIN entries}
        BY <1>4 DEF Pending
    <2>2. Pending(sp, c) = {q[k].nick : k \in DOMAIN q}
        BY <1>5 DEF Pending
    <2> QED BY <1>3, <2>1, <2>2
<1>7. Moded(t, c) = Moded(sp, c) \union {n}
    <2>1. Moded(t, c) = {entries[k].nick : k \in {h \in DOMAIN entries : entries[h].mode}}
        BY <1>4 DEF Moded, ToSet
    <2>2. Moded(sp, c) = {q[k].nick : k \in {h \in DOMAIN q : q[h].mode}}
        BY <1>5 DEF Moded, ToSet
    <2>3. first \in DOMAIN q
        BY <1>1, <1>2
    <2>4. \A k \in DOMAIN q : entries[k].nick = q[k].nick
        BY <1>3
    <2>5. \A k \in DOMAIN q : k # first => entries[k].mode = q[k].mode
        BY <1>3
    <2>6. entries[first].mode /\ entries[first].nick = n
        BY <1>2, <1>3, <2>3
    <2> QED BY <1>3, <2>1, <2>2, <2>3, <2>4, <2>5, <2>6
<1>8. \A d \in Channels : d # c => Pending(t, d) = Pending(sp, d) /\ Moded(t, d) = Moded(sp, d)
    BY <1>4 DEF Pending, Moded
<1> QED BY <1>4, <1>6, <1>7, <1>8

\* What has been told is noted as told.
LEMMA QuitsToldView ==
    ASSUME NEW sp \in Splits, NEW t, t = QuitsTold(sp)
    PROVE  /\ t \in Splits /\ t.live = sp.live /\ t.quits = sp.quits /\ ~t.quitTimer
           /\ \A c \in Channels :
                 /\ Pending(t, c) = Pending(sp, c) /\ Moded(t, c) = Moded(sp, c)
                 /\ t.sent[c] = sp.sent[c] \union ToSet(sp.quits[c])
                 /\ Unsent(t, c) = {}
<1> DEFINE sent == [c \in Channels |-> sp.sent[c] \union ToSet(sp.quits[c])]
<1>1. sent \in [Channels -> SUBSET Masks]
    BY ElementOfSeq DEF ToSet, Splits
<1>2. t = [sp EXCEPT !.sent = sent, !.sentQuit = TRUE, !.quitTimer = FALSE]
    BY DEF QuitsTold
<1>3. /\ t \in Splits /\ t.live = sp.live /\ t.quits = sp.quits /\ ~t.quitTimer
      /\ t.sent = sent /\ t.joins = sp.joins
    <2> HIDE DEF sent
    <2> QED BY <1>1, <1>2 DEF Splits
<1>4. \A c \in Channels : t.sent[c] = sp.sent[c] \union ToSet(sp.quits[c])
    BY <1>3
<1> QED BY <1>3, <1>4 DEF Pending, Moded, Unsent

\* Empty lists hold nothing back.
LEMMA NothingPending ==
    ASSUME NEW sp, sp.joins = NoLists, NEW c \in Channels
    PROVE  Pending(sp, c) = {} /\ Moded(sp, c) = {}
<1>1. sp.joins[c] = <<>>
    BY DEF NoLists
<1> QED BY <1>1 DEF Pending, Moded, ToSet

\* No split holds nothing back.
LEMMA NoSplitView ==
    ASSUME NEW c \in Channels
    PROVE  /\ Pending(NoSplit, c) = {} /\ Moded(NoSplit, c) = {} /\ Unsent(NoSplit, c) = {}
           /\ Quitters(NoSplit, c) = {} /\ NoSplit.sent[c] = {}
<1>1. NoSplit.quits[c] = <<>> /\ NoSplit.joins = NoLists /\ NoSplit.sent[c] = {}
    BY DEF NoSplit, NoLists
<1> QED BY <1>1, NothingPending DEF Unsent, Quitters, ToSet
----------------------------------------------------------------------------
\* The core's user is in the books, which list the channels it is on.
Mine(s) ==
    /\ Listed(s)
    /\ s.myNick = me /\ Known(s, me)
    /\ s.chans = {c \in Channels : me \in on[c]}

\* What ViewMatches says of a channel, by nick.
Shown(s, sp) ==
    \A c \in s.chans \ {names}, n \in Nicks :
        /\ n \in on[c] <=> (In(s, n, c) /\ n \notin Unsent(sp, c)) \/ n \in Pending(sp, c)
        /\ n \in op[c] <=> (Has(s, n, c) /\ n \notin Unsent(sp, c)) \/ n \in Moded(sp, c)

\* A channel just joined has one member, until its NAMES reply comes.
Fresh(s) ==
    names # NoChannel =>
        /\ names \in s.chans
        /\ \A n \in Nicks : (In(s, n, names) <=> n = me) /\ ~Has(s, n, names)

\* A split is about others, on channels that are there; whose join is held back is known.
Held(s, sp) ==
    \A c \in Channels, n \in Nicks :
        /\ n \in Quitters(sp, c) \/ n \in Pending(sp, c) =>
              sp.live /\ c \in s.chans \ {names} /\ n # me
        /\ n \in Pending(sp, c) => Known(s, n)
        /\ sp.sent[c] # {} => sp.live

\* Who is to quit, quits wherever it is, and has not come back yet.
Whole(s, sp) ==
    \A n \in Nicks : (\E c \in Channels : n \in Unsent(sp, c)) =>
        \A c \in Channels : n \notin Pending(sp, c) /\ (In(s, n, c) => n \in Unsent(sp, c))

OpsAreOn == \A c \in Channels : op[c] \subseteq on[c]

BookAt(s, sp) == Mine(s) /\ Shown(s, sp) /\ Fresh(s) /\ Held(s, sp) /\ Whole(s, sp)
Book == BookAt(net, split)
VInv == OpsAreOn /\ (oddities = 0 => Book)

\* What an event finds when all went by the book so far.
Before == IInv /\ NInv /\ OpsAreOn /\ Book

\* An event that leaves the history without oddities was by the book.
LEMMA ByTheBook ==
    ASSUME IInv, NInv, VInv, NEW what, Odd(what), oddities' = 0
    PROVE  Before /\ (split.live => ~what)
<1>1. oddities = 0 /\ (split.live => ~what)
    BY DEF Odd, NInv
<1> QED BY <1>1 DEF VInv, Before

\* The parts of the books, by name.
LEMMA BookHolds ==
    ASSUME Before
    PROVE  /\ Mine(net) /\ Shown(net, split) /\ Fresh(net)
           /\ Held(net, split) /\ Whole(net, split)
BY DEF Before, Book, BookAt

\* The core's user is on every channel the core has.
LEMMA BookPresent ==
    ASSUME Before
    PROVE  Booked(net) /\ Present(net) /\ me \in Nicks
<1>1. Booked(net) /\ me \in Nicks
    BY DEF Before, IInv, Shape, Book, BookAt, Mine, Booked
<1>2. ASSUME NEW c \in net.chans PROVE In(net, me, c)
    <2>1. c \in Channels /\ me \in on[c]
        BY DEF Before, Book, BookAt, Mine
    <2>2. me \notin Pending(split, c)
        BY <1>1, <2>1 DEF Before, Book, BookAt, Held
    <2>3. CASE c = names
        BY <1>1, <2>1, <2>3, StateAssumption DEF Before, Book, BookAt, Fresh
    <2>4. CASE c # names
        BY <1>1, <2>1, <2>2, <2>4 DEF Before, Book, BookAt, Shown
    <2> QED BY <2>3, <2>4
<1> QED BY <1>1, <1>2 DEF Present, Before, Book, BookAt, Mine

\* Of whom a split says nothing, the books say what is.
LEMMA Plain ==
    ASSUME Before, NEW n \in Nicks, ~Involved(n)
    PROVE  /\ ~ToBeQuit(n)
           /\ \A c \in Channels :
                 /\ n \notin Pending(split, c) /\ n \notin Moded(split, c)
                 /\ n \notin Unsent(split, c) /\ n \notin Quitters(split, c)
           /\ \A c \in net.chans \ {names} :
                 (n \in on[c] <=> In(net, n, c)) /\ (n \in op[c] <=> Has(net, n, c))
<1>1. ASSUME NEW c \in Channels
      PROVE  /\ n \notin Pending(split, c) /\ n \notin Moded(split, c)
             /\ n \notin Unsent(split, c) /\ n \notin Quitters(split, c)
    <2>1. n \notin Pending(split, c) /\ n \notin Quitters(split, c)
        BY DEF Involved
    <2>2. Moded(split, c) \subseteq Pending(split, c)
        BY DEF Moded, Pending, ToSet
    <2> QED BY <2>1, <2>2, QuittersAreNicks DEF Before, NInv, Sound
<1>2. net.chans \subseteq Channels
    BY DEF Before, Book, BookAt, Mine
<1> QED BY <1>1, <1>2 DEF ToBeQuit, Before, Book, BookAt, Shown

\* No split, nobody it says anything of.
LEMMA Quiet ==
    ASSUME Before, NEW n \in Nicks, Involved(n)
    PROVE  split.live
BY DEF Before, Book, BookAt, Held, Involved

\* A message of a stranger.
LEMMA SpeakBook ==
    ASSUME Before, NEW n \in Nicks, Speak(n)
    PROVE  Book'
<1>1. Booked(net) /\ Roomy(net)
    BY BookPresent, RoomIsRoomy DEF Speak, Event
<1>2. /\ Booked(net') /\ Alike(net, net')
      /\ \A m \in Nicks : Known(net, m) => Known(net', m)
    BY <1>1, WithUsersView DEF Speak
<1>3. UNCHANGED <<serverVars, split>>
    BY DEF Speak
<1>4. me \in Nicks
    BY BookPresent
<1>5. Mine(net)'
    BY <1>2, <1>3, <1>4 DEF Before, Book, BookAt, Mine, Alike, Booked, serverVars
<1>6. Shown(net, split)'
    BY <1>2, <1>3 DEF Before, Book, BookAt, Shown, Mine, Alike, serverVars
<1>7. Fresh(net)'
    BY <1>2, <1>3 DEF Before, Book, BookAt, Fresh, Mine, Alike, serverVars
<1>8. Held(net, split)'
    BY <1>2, <1>3 DEF Before, Book, BookAt, Held, Alike, serverVars
<1>9. Whole(net, split)'
    BY <1>2, <1>3 DEF Before, Book, BookAt, Whole, ToBeQuit, Alike, serverVars
<1> QED BY <1>5, <1>6, <1>7, <1>8, <1>9 DEF Book, BookAt

\* Somebody has left a channel the core's user is on.
LEMMA PartedBook ==
    ASSUME Before, NEW n \in Nicks, ~Involved(n), NEW c \in net.chans,
           names = NoChannel, n = me => ~split.live,
           GoneFrom(n, c), UNCHANGED <<me, names, split>>,
           NEW s, Booked(s), Alike(net, s), Known(s, n),
           \A m \in Nicks : Known(net, m) => Known(s, m),
           net' = Swept(PartChannel(s, s.users[n], c))
    PROVE  Book'
<1> DEFINE t == PartChannel(s, s.users[n], c)
<1>1. me \in Nicks /\ c \in Channels /\ net.chans \subseteq Channels /\ s.myNick = me
    BY BookPresent DEF Before, Book, BookAt, Mine, Alike
<1>2. Present(s)
    BY <1>1, BookPresent DEF Present, Alike, Before, Book, BookAt, Mine
<1>3. /\ on' = [on EXCEPT ![c] = @ \ {n}] /\ op' = [op EXCEPT ![c] = @ \ {n}]
      /\ \A d \in Channels : /\ on'[d] = IF d = c THEN on[d] \ {n} ELSE on[d]
                             /\ op'[d] = IF d = c THEN op[d] \ {n} ELSE op[d]
    BY <1>1 DEF GoneFrom, Before, IInv, NInv, Shape
<1>4. CASE n # me
    <2>1. /\ Booked(t) /\ t.chans = s.chans /\ t.myNick = s.myNick
          /\ \A m \in Nicks : m # n => (Known(t, m) <=> Known(s, m))
          /\ \A m \in Nicks, d \in Channels :
                /\ In(t, m, d) <=> In(s, m, d) /\ ~(m = n /\ d = c)
                /\ Has(t, m, d) <=> Has(s, m, d) /\ ~(m = n /\ d = c)
        BY <1>1, <1>2, <1>4, PartView
    <2> HIDE DEF t
    <2>2. Booked(net') /\ Alike(t, net') /\ \A m \in Nicks : Known(net', m) <=> Known(t, m)
        BY <2>1, SweptView DEF t
    <2>3. /\ net'.chans = net.chans /\ net'.myNick = me
          /\ \A m \in Nicks : m # n /\ Known(net, m) => Known(net', m)
          /\ \A m \in Nicks, d \in Channels :
                /\ In(net', m, d) <=> In(net, m, d) /\ ~(m = n /\ d = c)
                /\ Has(net', m, d) <=> Has(net, m, d) /\ ~(m = n /\ d = c)
        BY <1>1, <2>1, <2>2 DEF Alike
    <2>4. Mine(net)'
        BY <1>1, <1>3, <1>4, <2>2, <2>3, BookHolds DEF Mine, Booked
    <2>5. Shown(net, split)'
        <3> SUFFICES ASSUME NEW d \in net.chans \ {names}, NEW m \in Nicks
                     PROVE  /\ m \in on'[d] <=> \/ In(net', m, d) /\ m \notin Unsent(split, d)
                                                \/ m \in Pending(split, d)
                            /\ m \in op'[d] <=> \/ Has(net', m, d) /\ m \notin Unsent(split, d)
                                                \/ m \in Moded(split, d)
            BY <2>3 DEF Shown
        <3>1. /\ m \in on[d] <=> \/ In(net, m, d) /\ m \notin Unsent(split, d)
                                 \/ m \in Pending(split, d)
              /\ m \in op[d] <=> \/ Has(net, m, d) /\ m \notin Unsent(split, d)
                                 \/ m \in Moded(split, d)
            BY BookHolds DEF Shown
        <3>2. n \notin Pending(split, d) /\ n \notin Moded(split, d)
            BY <1>1, Plain
        <3> QED BY <1>1, <1>3, <2>3, <3>1, <3>2
    <2>6. Fresh(net)'
        BY DEF Fresh
    <2>7. Held(net, split)'
        BY <2>3, Plain DEF Before, Book, BookAt, Held
    <2>8. Whole(net, split)'
        BY <2>3, Plain DEF Before, Book, BookAt, Whole, ToBeQuit
    <2> QED BY <2>4, <2>5, <2>6, <2>7, <2>8 DEF Book, BookAt
<1>5. CASE n = me
    <2>1. /\ Booked(t) /\ t.chans = s.chans \ {c} /\ t.myNick = s.myNick
          /\ Known(t, n)
          /\ \A m \in Nicks, d \in Channels :
                /\ In(t, m, d) <=> In(s, m, d) /\ d # c
                /\ Has(t, m, d) <=> Has(s, m, d) /\ d # c
        BY <1>1, <1>2, <1>5, PartMeView DEF Alike
    <2> HIDE DEF t
    <2>2. Booked(net') /\ Alike(t, net') /\ \A m \in Nicks : Known(net', m) <=> Known(t, m)
        BY <2>1, SweptView DEF t
    <2>3. /\ net'.chans = net.chans \ {c} /\ net'.myNick = me /\ Known(net', me)
          /\ \A m \in Nicks, d \in Channels :
                /\ In(net', m, d) <=> In(net, m, d) /\ d # c
                /\ Has(net', m, d) <=> Has(net, m, d) /\ d # c
        BY <1>1, <1>5, <2>1, <2>2 DEF Alike
    <2>4. Mine(net)'
        <3>1. net.chans = {d \in Channels : me \in on[d]} /\ me' = me
            BY BookHolds DEF Mine
        <3>2. \A d \in Channels : me \in on'[d] <=> me \in on[d] /\ d # c
            BY <1>1, <1>3, <1>5
        <3>3. net'.chans = {d \in Channels : me' \in on'[d]}
            BY <2>3, <3>1, <3>2
        <3> QED BY <2>2, <2>3, <3>1, <3>3 DEF Mine, Booked
    <2>5. Shown(net, split)'
        BY <1>1, <1>3, <2>3 DEF Before, Book, BookAt, Shown
    <2>6. Fresh(net)'
        BY DEF Fresh
    <2>7. Held(net, split)'
        BY <1>5 DEF Before, Book, BookAt, Held
    <2>8. Whole(net, split)'
        <3>1. \A d \in Channels, m \in Nicks : m \notin Unsent(split, d)
            BY <1>5, QuittersAreNicks DEF Before, Book, BookAt, Held, NInv, Sound
        <3> QED BY <3>1 DEF Whole, ToBeQuit
    <2> QED BY <2>4, <2>5, <2>6, <2>7, <2>8 DEF Book, BookAt
<1> QED BY <1>4, <1>5

\* PART.
LEMMA PartBook ==
    ASSUME Before, NEW n \in Nicks, NEW c \in Channels, Part(n, c),
           split.live => ~(n = me \/ Involved(n))
    PROVE  Book'
<1>1. ~Involved(n) /\ (n = me => ~split.live)
    BY Quiet
<1>2. /\ GoneFrom(n, c) /\ UNCHANGED <<me, names, split>> /\ names = NoChannel /\ Room /\ n \in on[c]
    BY DEF Part, Event
<1>3. CASE me \in on[c]
    <2> DEFINE s == WithUsers(net, {n})
    <2>1. c \in net.chans
        BY <1>3 DEF Before, Book, BookAt, Mine
    <2>2. /\ Booked(s) /\ Alike(net, s) /\ Known(s, n)
          /\ \A m \in Nicks : Known(net, m) => Known(s, m)
        BY <1>2, BookPresent, RoomIsRoomy, WithUsersView
    <2>3. net' = Swept(PartChannel(s, s.users[n], c))
        BY <1>3, <2>1, <2>2 DEF Part, Alike
    <2> HIDE DEF s
    <2> QED BY <1>1, <1>2, <2>1, <2>2, <2>3, PartedBook
<1>4. CASE me \notin on[c]
    <2>1. net' = net /\ n # me /\ c \notin net.chans
        BY <1>2, <1>4 DEF Part, Before, Book, BookAt, Mine
    <2>2. \A d \in Channels : d # c => on'[d] = on[d] /\ op'[d] = op[d]
        BY <1>2 DEF GoneFrom, Before, IInv, NInv, Shape
    <2>3. me \notin on'[c]
        BY <1>2, <1>4 DEF GoneFrom, Before, IInv, Shape
    <2>4. Mine(net)'
        BY <1>2, <1>4, <2>1, <2>2, <2>3 DEF Before, Book, BookAt, Mine
    <2>5. Shown(net, split)'
        BY <1>2, <2>1, <2>2 DEF Before, Book, BookAt, Shown, Mine
    <2>6. Fresh(net)' /\ Held(net, split)' /\ Whole(net, split)'
        BY <1>2, <2>1 DEF Before, Book, BookAt, Fresh, Held, Whole, ToBeQuit
    <2> QED BY <2>4, <2>5, <2>6 DEF Book, BookAt
<1> QED BY <1>3, <1>4

\* KICK.
LEMMA KickBook ==
    ASSUME Before, NEW by \in Nicks, NEW n \in Nicks, NEW c \in Channels, Kick(by, n, c),
           split.live => ~(n = me \/ Involved(n))
    PROVE  Book'
<1>1. ~Involved(n) /\ (n = me => ~split.live)
    BY Quiet
<1>2. /\ GoneFrom(n, c) /\ UNCHANGED <<me, names, split>> /\ names = NoChannel /\ Room
      /\ n \in on[c] /\ me \in on[c]
    BY DEF Kick, Event
<1> DEFINE s == WithUsers(net, {by})
<1>3. c \in net.chans /\ c # names
    BY <1>2, StateAssumption DEF Before, Book, BookAt, Mine
<1>4. /\ Booked(s) /\ Alike(net, s)
      /\ \A m \in Nicks : Known(net, m) => Known(s, m)
    BY <1>2, BookPresent, RoomIsRoomy, WithUsersView
<1>5. Known(s, n)
    <2>1. In(net, n, c)
        BY <1>1, <1>2, <1>3, Plain
    <2> HIDE DEF s
    <2> QED BY <1>4, <2>1 DEF In
<1>6. net' = Swept(PartChannel(s, s.users[n], c))
    BY <1>3, <1>4, <1>5 DEF Kick, Alike
<1> HIDE DEF s
<1> QED BY <1>1, <1>2, <1>3, <1>4, <1>5, <1>6, PartedBook

\* QUIT, of no split.
LEMMA QuitAloneBook ==
    ASSUME Before, NEW n \in Nicks, QuitAlone(n), split.live => ~Involved(n)
    PROVE  Book'
<1>1. ~Involved(n)
    BY Quiet
<1>2. /\ GoneFromAll(n) /\ UNCHANGED <<me, names, split>> /\ names = NoChannel /\ Room /\ n # me
    BY DEF QuitAlone, Event
<1>3. /\ me \in Nicks /\ net.chans \subseteq Channels
      /\ \A d \in Channels : on'[d] = on[d] \ {n} /\ op'[d] = op[d] \ {n}
    BY <1>2, BookPresent DEF GoneFromAll, Before, Book, BookAt, Mine
<1>4. CASE Sees(n)
    <2> DEFINE s == WithUsers(net, {n})
               t == Quit(s, {s.users[n]})
    <2>1. /\ Booked(s) /\ Alike(net, s) /\ Known(s, n)
          /\ \A m \in Nicks : Known(net, m) => Known(s, m)
        BY <1>2, BookPresent, RoomIsRoomy, WithUsersView
    <2>2. net' = Swept(t)
        BY <1>4 DEF QuitAlone
    <2>3. Present(s) /\ s.myNick = me
        <3> HIDE DEF s
        <3> QED BY <1>3, <2>1, BookPresent DEF Present, Alike, Before, Book, BookAt, Mine
    <2> DEFINE Q == {n}
    <2>4. t = Quit(s, {s.users[m] : m \in Q})
        OBVIOUS
    <2> HIDE DEF s, t
    <2>5. /\ Booked(t) /\ t.chans = s.chans /\ t.myNick = s.myNick
          /\ \A m \in Nicks : Known(t, m) <=> Known(s, m) /\ m \notin {n}
          /\ \A m \in Nicks, c \in Channels :
                /\ In(t, m, c) <=> In(s, m, c) /\ m \notin {n}
                /\ Has(t, m, c) <=> Has(s, m, c) /\ m \notin {n}
        <3>1. Q \subseteq Nicks /\ (\A m \in Q : Known(s, m)) /\ s.myNick \notin Q
            BY <1>2, <2>1, <2>3
        <3>2. /\ Booked(t) /\ t.chans = s.chans /\ t.myNick = s.myNick
              /\ \A m \in Nicks : Known(t, m) <=> Known(s, m) /\ m \notin Q
              /\ \A m \in Nicks, c \in Channels :
                    /\ In(t, m, c) <=> In(s, m, c) /\ m \notin Q
                    /\ Has(t, m, c) <=> Has(s, m, c) /\ m \notin Q
            <4> HIDE DEF Q
            <4> QED BY <2>1, <2>3, <2>4, <3>1, QuitView
        <3> QED BY <3>2
    <2>6. Booked(net') /\ Alike(t, net') /\ \A m \in Nicks : Known(net', m) <=> Known(t, m)
        BY <2>2, <2>5, SweptView
    <2>7. /\ net'.chans = net.chans /\ net'.myNick = me
          /\ \A m \in Nicks : m # n /\ Known(net, m) => Known(net', m)
          /\ \A m \in Nicks, d \in Channels :
                /\ In(net', m, d) <=> In(net, m, d) /\ m # n
                /\ Has(net', m, d) <=> Has(net, m, d) /\ m # n
        BY <2>1, <2>3, <2>5, <2>6 DEF Alike
    <2>8. Mine(net)'
        BY <1>2, <1>3, <2>6, <2>7 DEF Before, Book, BookAt, Mine, Booked
    <2>9. Shown(net, split)'
        BY <1>1, <1>2, <1>3, <2>7, Plain DEF Before, Book, BookAt, Shown
    <2>10. Fresh(net)'
        BY <1>2 DEF Fresh
    <2>11. Held(net, split)'
        BY <1>1, <1>2, <2>7, Plain DEF Before, Book, BookAt, Held
    <2>12. Whole(net, split)'
        BY <1>1, <1>2, <2>7, Plain DEF Before, Book, BookAt, Whole, ToBeQuit
    <2> QED BY <2>8, <2>9, <2>10, <2>11, <2>12 DEF Book, BookAt
<1>5. CASE ~Sees(n)
    <2>1. net' = net
        BY <1>5 DEF QuitAlone
    <2>2. \A d \in net.chans : n \notin on[d]
        BY <1>3, <1>5 DEF Sees, Before, Book, BookAt, Mine
    <2>3. \A d \in net.chans : on'[d] = on[d] /\ op'[d] = op[d]
        <3>1. \A d \in net.chans : n \notin op[d]
            BY <1>3, <2>2 DEF Before, OpsAreOn
        <3>2. \A d \in net.chans : on[d] \ {n} = on[d] /\ op[d] \ {n} = op[d]
            BY <2>2, <3>1
        <3> QED BY <1>3, <3>2
    <2>4. Mine(net)'
        BY <1>2, <1>3, <2>1, <2>3 DEF Before, Book, BookAt, Mine
    <2>5. Shown(net, split)'
        BY <1>2, <2>1, <2>3 DEF Before, Book, BookAt, Shown, Mine
    <2>6. Fresh(net)' /\ Held(net, split)' /\ Whole(net, split)'
        BY <1>2, <2>1 DEF Before, Book, BookAt, Fresh, Held, Whole, ToBeQuit
    <2> QED BY <2>4, <2>5, <2>6 DEF Book, BookAt
<1> QED BY <1>4, <1>5

\* JOIN, of others, of the core's user, and of who comes back from a split.
LEMMA JoinBook ==
    ASSUME Before, NEW n \in Nicks, NEW c \in Channels, Join(n, c), Good(net'),
           split.live => ~(ToBeQuit(n) \/ (n = me /\ TakesJoin(split, n, c)))
    PROVE  Book'
<1>1. /\ names = NoChannel /\ Room /\ n \notin on[c] /\ op' = op /\ me' = me
      /\ names' = (IF n = me THEN c ELSE names)
      /\ me \in Nicks /\ net.chans \subseteq Channels /\ NoChannel \notin Channels
      /\ \A d \in Channels : on'[d] = IF d = c THEN on[d] \union {n} ELSE on[d]
    BY BookPresent, BookHolds, StateAssumption DEF Join, Event, Before, IInv, Shape, Mine
<1>2. \A d \in Channels : n \notin Unsent(split, d)
    BY BookHolds, QuittersAreNicks DEF ToBeQuit, Held, Before, NInv, Sound
<1>3. CASE n # me /\ me \notin on[c]
    <2>1. net' = net /\ split' = split /\ c \notin net.chans /\ names' = names
        BY <1>1, <1>3, BookHolds DEF Join, Mine
    <2>2. Mine(net)'
        BY <1>1, <1>3, <2>1, BookHolds DEF Mine
    <2>3. Shown(net, split)'
        BY <1>1, <2>1, BookHolds DEF Shown
    <2>4. Fresh(net)' /\ Held(net, split)' /\ Whole(net, split)'
        BY <1>1, <2>1, BookHolds DEF Fresh, Held, Whole
    <2> QED BY <2>2, <2>3, <2>4 DEF Book, BookAt
<1> DEFINE s == WithUsers(net, {n})
<1>4. /\ Booked(s) /\ Alike(net, s) /\ Known(s, n)
      /\ \A m \in Nicks : Known(net, m) => Known(s, m)
    BY <1>1, BookPresent, RoomIsRoomy, WithUsersView
<1>5. CASE (n = me \/ me \in on[c]) /\ TakesJoin(split, n, c)
    <2>1. net' = s /\ split' = UserJoined(split, n, c)
        BY <1>5 DEF Join, HandleJoin
    <2>2. n # me /\ split.live /\ c \in net.chans /\ n \in Quitters(split, c)
        BY <1>5, BookHolds DEF TakesJoin, Held
    <2>3. /\ split'.live = split.live /\ split'.sent = split.sent
          /\ \A d \in Channels :
                /\ Pending(split', d) = IF d = c THEN Pending(split, d) \union {n}
                                        ELSE Pending(split, d)
                /\ Moded(split', d) = Moded(split, d)
                /\ Quitters(split', d) \subseteq Quitters(split, d)
                /\ Unsent(split', d) \subseteq Unsent(split, d)
                /\ Unsent(split, d) \subseteq Unsent(split', d) \union {n}
        BY <1>5, <2>1, UserJoinedView DEF Before, NInv, Sound
    <2>4. \A d \in Channels : Unsent(split', d) = Unsent(split, d)
        BY <1>2, <2>3
    <2>5. names' = names
        BY <1>1, <2>2
    <2>6. /\ net'.chans = net.chans /\ net'.myNick = net.myNick /\ Known(net', n) /\ Booked(net')
          /\ \A m \in Nicks : Known(net, m) => Known(net', m)
          /\ \A m \in Nicks, d \in Channels :
                (In(net', m, d) <=> In(net, m, d)) /\ (Has(net', m, d) <=> Has(net, m, d))
        BY <1>4, <2>1 DEF Alike
    <2>7. Mine(net)'
        BY <1>1, <2>2, <2>6, BookHolds DEF Mine, Booked
    <2>8. Shown(net, split)'
        <3> SUFFICES ASSUME NEW d \in net.chans \ {names}, NEW m \in Nicks
                     PROVE  /\ m \in on'[d] <=> \/ In(net', m, d) /\ m \notin Unsent(split', d)
                                                \/ m \in Pending(split', d)
                            /\ m \in op'[d] <=> \/ Has(net', m, d) /\ m \notin Unsent(split', d)
                                                \/ m \in Moded(split', d)
            BY <2>5, <2>6 DEF Shown
        <3>1. /\ m \in on[d] <=> \/ In(net, m, d) /\ m \notin Unsent(split, d)
                                 \/ m \in Pending(split, d)
              /\ m \in op[d] <=> \/ Has(net, m, d) /\ m \notin Unsent(split, d)
                                 \/ m \in Moded(split, d)
            BY BookHolds DEF Shown
        <3> QED BY <1>1, <2>3, <2>4, <2>6, <3>1
    <2>9. Fresh(net)'
        BY <1>1, <2>5 DEF Fresh
    <2>10. Held(net, split)'
        <3> SUFFICES ASSUME NEW d \in Channels, NEW m \in Nicks
                     PROVE  /\ m \in Quitters(split', d) \/ m \in Pending(split', d) =>
                                  split'.live /\ d \in net'.chans \ {names'} /\ m # me'
                            /\ m \in Pending(split', d) => Known(net', m)
                            /\ split'.sent[d] # {} => split'.live
            BY DEF Held
        <3>1. /\ m \in Quitters(split, d) \/ m \in Pending(split, d) =>
                    split.live /\ d \in net.chans \ {names} /\ m # me
              /\ m \in Pending(split, d) => Known(net, m)
              /\ split.sent[d] # {} => split.live
            BY BookHolds DEF Held
        <3>2. d = c => d \in net.chans \ {names}
            BY <1>1, <2>2
        <3> QED BY <1>1, <2>2, <2>3, <2>5, <2>6, <3>1, <3>2
    <2>11. Whole(net, split)'
        BY <1>2, <2>3, <2>4, <2>6, BookHolds DEF Whole
    <2> QED BY <2>7, <2>8, <2>9, <2>10, <2>11 DEF Book, BookAt
<1>6. CASE (n = me \/ me \in on[c]) /\ ~TakesJoin(split, n, c)
    <2> DEFINE t == JoinChannel(s, s.users[n], c)
    <2>1. net' = Swept(t) /\ split' = split
        BY <1>6 DEF Join, HandleJoin
    <2> HIDE DEF s
    <2>2. /\ Booked(t)
          /\ t.chans = s.chans \union {c} /\ t.myNick = s.myNick
          /\ \A m \in Nicks : Known(t, m) <=> Known(s, m)
          /\ \A m \in Nicks, d \in Channels :
                /\ In(t, m, d) <=> In(s, m, d) \/ (m = n /\ d = c)
                /\ Has(t, m, d) <=> Has(s, m, d)
        BY <1>4, JoinChannelView
    <2> HIDE DEF t
    <2>3. Booked(net') /\ Alike(t, net') /\ \A m \in Nicks : Known(net', m) <=> Known(t, m)
        BY <2>1, <2>2, SweptView
    <2>4. /\ net'.chans = net.chans \union {c} /\ net'.myNick = me
          /\ \A m \in Nicks : Known(net, m) => Known(net', m)
          /\ \A m \in Nicks, d \in Channels :
                /\ In(net', m, d) <=> In(net, m, d) \/ (m = n /\ d = c)
                /\ Has(net', m, d) <=> Has(net, m, d)
        BY <1>4, <2>2, <2>3, BookHolds DEF Alike, Mine
    <2>5. Whole(net, split)'
        BY <1>2, <2>1, <2>4, BookHolds DEF Whole
    <2>6. Mine(net)'
        <3>1. net'.chans = {d \in Channels : me' \in on'[d]}
            BY <1>1, <1>6, <2>4, BookHolds DEF Mine
        <3> QED BY <1>1, <2>3, <2>4, <3>1, BookHolds DEF Mine, Booked
    <2>7. CASE n = me
        <3>1. c \notin net.chans
            BY <1>1, <2>7, BookHolds DEF Mine
        <3>2. \A m \in Nicks : ~In(net, m, c) /\ ~Has(net, m, c)
            BY <3>1, BookPresent DEF Booked, Good, Symmetric, In, Has
        <3>3. Shown(net, split)'
            BY <1>1, <2>1, <2>4, <2>7, <3>1, BookHolds DEF Shown
        <3>4. Fresh(net)'
            BY <1>1, <2>4, <2>7, <3>2 DEF Fresh
        <3>5. Held(net, split)'
            BY <1>1, <2>1, <2>4, <2>7, <3>1, BookHolds DEF Held
        <3> QED BY <2>5, <2>6, <3>3, <3>4, <3>5 DEF Book, BookAt
    <2>8. CASE n # me
        <3>1. c \in net.chans
            BY <1>6, <2>8, BookHolds DEF Mine
        <3>2. names' = names /\ net'.chans = net.chans
            BY <1>1, <2>4, <2>8, <3>1
        <3>3. Shown(net, split)'
            <4> SUFFICES ASSUME NEW d \in net.chans \ {names}, NEW m \in Nicks
                         PROVE  /\ m \in on'[d] <=> \/ In(net', m, d) /\ m \notin Unsent(split, d)
                                                    \/ m \in Pending(split, d)
                                /\ m \in op'[d] <=> \/ Has(net', m, d) /\ m \notin Unsent(split, d)
                                                    \/ m \in Moded(split, d)
                BY <2>1, <3>2 DEF Shown
            <4>1. /\ m \in on[d] <=> \/ In(net, m, d) /\ m \notin Unsent(split, d)
                                     \/ m \in Pending(split, d)
                  /\ m \in op[d] <=> \/ Has(net, m, d) /\ m \notin Unsent(split, d)
                                     \/ m \in Moded(split, d)
                BY BookHolds DEF Shown
            <4> QED BY <1>1, <1>2, <2>4, <4>1
        <3>4. Fresh(net)'
            BY <1>1, <3>2 DEF Fresh
        <3>5. Held(net, split)'
            BY <1>1, <2>1, <2>4, <3>2, BookHolds DEF Held
        <3> QED BY <2>5, <2>6, <3>3, <3>4, <3>5 DEF Book, BookAt
    <2> QED BY <2>7, <2>8
<1> QED BY <1>3, <1>5, <1>6

\* The NAMES reply.
LEMMA NamesBook ==
    ASSUME Before, Names, Good(net'),
           split.live => ~\E n \in on[names] : ToBeQuit(n)
    PROVE  Book'
<1>1. /\ names \in Channels /\ names \in net.chans /\ Room /\ names' = NoChannel
      /\ UNCHANGED <<on, op, me, split>> /\ me \in Nicks /\ net.chans \subseteq Channels
      /\ on[names] \subseteq Nicks /\ op[names] \subseteq on[names] /\ me \in on[names]
      /\ NoChannel \notin Channels
      /\ \A n \in Nicks : (In(net, n, names) <=> n = me) /\ ~Has(net, n, names)
    BY BookPresent, BookHolds, StateAssumption
       DEF Names, Before, IInv, Shape, Mine, Fresh, OpsAreOn
<1> DEFINE s == WithUsers(net, on[names])
           joined == Only(names, {s.users[n] : n \in on[names]})
           opped == Only(names, {s.users[n] : n \in op[names]})
           J == [d \in Channels |-> IF d = names THEN on[names] ELSE {}]
           P == [d \in Channels |-> IF d = names THEN op[names] ELSE {}]
<1>2. /\ Booked(s) /\ Alike(net, s)
      /\ \A n \in Nicks : Known(s, n) <=> Known(net, n) \/ n \in on[names]
    BY <1>1, BookPresent, RoomIsRoomy, WithUsersView
<1>3. net' = JoinIrcUsers(s, joined, opped)
    BY <1>1 DEF Names
<1>4. /\ J \in [Channels -> SUBSET Nicks]
      /\ \A d \in Channels : joined[d] = {s.users[n] : n \in J[d]}
      /\ \A d \in Channels : P[d] \subseteq J[d]
      /\ \A d \in Channels : opped[d] = {s.users[n] : n \in P[d]}
      /\ \A d \in Channels : \A n \in J[d] : Known(s, n)
    <2> HIDE DEF s
    <2> QED BY <1>1, <1>2 DEF Only
<1>5. \A d \in Channels, n \in Nicks : (n \in J[d] <=> d = names /\ n \in on[d])
                                       /\ (n \in P[d] <=> d = names /\ n \in op[d])
    OBVIOUS
<1> HIDE DEF s, joined, opped, J, P
<1>6. /\ net'.chans = s.chans /\ net'.myNick = s.myNick
      /\ \A n \in Nicks : Known(net', n) <=> Known(s, n)
      /\ \A n \in Nicks, c \in Channels : In(net', n, c) <=> In(s, n, c) \/ n \in J[c]
      /\ \A n \in Nicks, c \in Channels : Has(net', n, c) <=> Has(s, n, c) \/ n \in P[c]
      /\ Listed(net')
    BY <1>2, <1>3, <1>4, JoinView DEF Booked, Good
<1>7. /\ net'.chans = net.chans /\ net'.myNick = me
      /\ \A n \in Nicks : Known(net, n) => Known(net', n)
      /\ \A n \in Nicks, c \in Channels :
            /\ In(net', n, c) <=> In(net, n, c) \/ (c = names /\ n \in on[c])
            /\ Has(net', n, c) <=> Has(net, n, c) \/ (c = names /\ n \in op[c])
    BY <1>2, <1>5, <1>6, BookHolds DEF Alike, Mine
<1>8. \A n \in Nicks : /\ n \notin Pending(split, names) /\ n \notin Quitters(split, names)
                       /\ n \notin Unsent(split, names) /\ n \notin Moded(split, names)
    <2>1. \A n \in Nicks : n \notin Pending(split, names) /\ n \notin Quitters(split, names)
        BY <1>1, BookHolds DEF Held
    <2>2. Moded(split, names) \subseteq Pending(split, names)
        BY DEF Moded, Pending, ToSet
    <2> QED BY <1>1, <2>1, <2>2, QuittersAreNicks DEF Before, NInv, Sound
<1>9. Mine(net)'
    BY <1>1, <1>6, <1>7, BookHolds DEF Mine
<1>10. Shown(net, split)'
    <2> SUFFICES ASSUME NEW d \in net.chans, NEW m \in Nicks
                 PROVE  /\ m \in on[d] <=> \/ In(net', m, d) /\ m \notin Unsent(split, d)
                                           \/ m \in Pending(split, d)
                        /\ m \in op[d] <=> \/ Has(net', m, d) /\ m \notin Unsent(split, d)
                                           \/ m \in Moded(split, d)
        BY <1>1, <1>7 DEF Shown
    <2>1. CASE d = names
        BY <2>1, <1>1, <1>7, <1>8
    <2>2. CASE d # names
        BY <2>2, <1>1, <1>7, BookHolds DEF Shown
    <2> QED BY <2>1, <2>2
<1>11. Fresh(net)'
    BY <1>1 DEF Fresh
<1>12. Held(net, split)'
    BY <1>1, <1>7, BookHolds DEF Held
<1>13. Whole(net, split)'
    <2>1. \A n \in on[names] : ~ToBeQuit(n)
        BY BookHolds, <1>1, QuittersAreNicks DEF ToBeQuit, Held, Before, NInv, Sound
    <2> QED BY <1>1, <1>7, <2>1, BookHolds DEF Whole, ToBeQuit
<1> QED BY <1>9, <1>10, <1>11, <1>12, <1>13 DEF Book, BookAt

\* QUIT, in a split.
LEMMA QuitInSplitBook ==
    ASSUME Before, NEW n \in Nicks, QuitInSplit(n),
           split.live => ~(Involved(n) \/ \E c \in Channels : Mask(n) \in split.sent[c])
    PROVE  Book'
<1>1. /\ ~Involved(n) /\ \A c \in Channels : Mask(n) \notin split.sent[c]
    BY Quiet, BookHolds DEF Held
<1>2. /\ names = NoChannel /\ Room /\ n # me /\ UNCHANGED <<me, names>>
      /\ me \in Nicks /\ net.chans \subseteq Channels /\ NoChannel \notin Channels
      /\ \A d \in Channels : on'[d] = on[d] \ {n} /\ op'[d] = op[d] \ {n}
    BY BookPresent, BookHolds, StateAssumption DEF QuitInSplit, Event, GoneFromAll, Mine
<1> DEFINE s == WithUsers(net, {n})
           cs == s.channels[s.users[n]]
<1>3. net' = s /\ split' = UserQuit(split, Mask(n), cs)
    BY DEF QuitInSplit
<1>4. /\ Booked(s) /\ Alike(net, s) /\ Known(s, n)
      /\ \A m \in Nicks : Known(net, m) => Known(s, m)
    BY <1>2, BookPresent, RoomIsRoomy, WithUsersView
<1>5. \A c \in Channels : c \in cs <=> In(s, n, c)
    <2>1. s.users[n] \in Ids
        BY <1>4, FiledAreThemselves DEF Booked
    <2> HIDE DEF s
    <2> QED BY <1>4, <2>1 DEF Booked, Good, Symmetric, In
<1> HIDE DEF s, cs
<1>6. /\ split'.live /\ split'.sent = split.sent
      /\ \A c \in Channels :
            /\ Pending(split', c) = Pending(split, c) /\ Moded(split', c) = Moded(split, c)
            /\ Quitters(split', c) = IF c \in cs THEN Quitters(split, c) \union {n}
                                     ELSE Quitters(split, c)
            /\ Unsent(split', c) = IF c \in cs THEN Unsent(split, c) \union {n}
                                   ELSE Unsent(split, c)
    <2>1. Mask(n) \in Masks /\ Mask(n).nick = n
        BY MaskIsMask DEF Before, Mask
    <2>2. split \in Splits
        BY DEF Before, NInv, Sound
    <2> QED BY <1>1, <1>3, <2>1, <2>2, UserQuitView
<1>7. /\ net'.chans = net.chans /\ net'.myNick = me /\ Booked(net')
      /\ \A m \in Nicks : Known(net, m) => Known(net', m)
      /\ \A m \in Nicks, d \in Channels :
            (In(net', m, d) <=> In(net, m, d)) /\ (Has(net', m, d) <=> Has(net, m, d))
    BY <1>3, <1>4, BookHolds DEF Alike, Mine
<1>8. ASSUME NEW m \in Nicks, NEW d \in Channels
      PROVE  m \in Unsent(split', d) <=> m \in Unsent(split, d) \/ (m = n /\ In(net', n, d))
    BY <1>3, <1>5, <1>6
<1>9. ASSUME NEW d \in Channels
      PROVE  (In(net, n, d) => d \in net.chans) /\ (Has(net, n, d) => In(net, n, d))
    BY BookPresent DEF Booked, Good, Symmetric, In, Has
<1>10. Mine(net)'
    <2>1. net'.chans = {d \in Channels : me' \in on'[d]}
        BY <1>2, <1>7, BookHolds DEF Mine
    <2> QED BY <1>2, <1>7, <2>1, BookHolds DEF Mine, Booked
<1>11. Shown(net, split)'
    <2> SUFFICES ASSUME NEW d \in net.chans, NEW m \in Nicks
                 PROVE  /\ m \in on'[d] <=> \/ In(net', m, d) /\ m \notin Unsent(split', d)
                                            \/ m \in Pending(split', d)
                        /\ m \in op'[d] <=> \/ Has(net', m, d) /\ m \notin Unsent(split', d)
                                            \/ m \in Moded(split', d)
        BY <1>7 DEF Shown
    <2>1. /\ m \in on[d] <=> \/ In(net, m, d) /\ m \notin Unsent(split, d)
                             \/ m \in Pending(split, d)
          /\ m \in op[d] <=> \/ Has(net, m, d) /\ m \notin Unsent(split, d)
                             \/ m \in Moded(split, d)
        BY <1>2, BookHolds DEF Shown
    <2>2. CASE m = n
        <3>1. n \notin Pending(split, d) /\ n \notin Moded(split, d)
            BY <1>1, <1>2, Plain
        <3> QED BY <1>2, <1>6, <1>7, <1>8, <1>9, <2>2, <3>1
    <2>3. CASE m # n
        BY <1>2, <1>6, <1>7, <1>8, <2>1, <2>3
    <2> QED BY <2>2, <2>3
<1>12. Fresh(net)'
    BY <1>2 DEF Fresh
<1>13. Held(net, split)'
    <2> SUFFICES ASSUME NEW d \in Channels, NEW m \in Nicks
                 PROVE  /\ m \in Quitters(split', d) \/ m \in Pending(split', d) =>
                              split'.live /\ d \in net'.chans \ {names'} /\ m # me'
                        /\ m \in Pending(split', d) => Known(net', m)
                        /\ split'.sent[d] # {} => split'.live
        BY DEF Held
    <2>1. /\ m \in Quitters(split, d) \/ m \in Pending(split, d) =>
                split.live /\ d \in net.chans \ {names} /\ m # me
          /\ m \in Pending(split, d) => Known(net, m)
        BY BookHolds DEF Held
    <2>2. d \in cs => d \in net.chans
        BY <1>3, <1>5, <1>7, <1>9
    <2>3. m \in Quitters(split', d) => m \in Quitters(split, d) \/ (m = n /\ d \in cs)
        BY <1>6
    <2> QED BY <1>2, <1>6, <1>7, <2>1, <2>2, <2>3
<1>14. Whole(net, split)'
    <2> SUFFICES ASSUME NEW m \in Nicks, NEW e \in Channels, m \in Unsent(split', e),
                        NEW d \in Channels
                 PROVE  m \notin Pending(split', d) /\ (In(net', m, d) => m \in Unsent(split', d))
        BY DEF Whole
    <2>1. CASE m = n
        BY <1>1, <1>6, <1>8, <2>1, Plain
    <2>2. CASE m # n
        BY <1>6, <1>7, <1>8, <2>2, BookHolds DEF Whole
    <2> QED BY <2>1, <2>2
<1> QED BY <1>10, <1>11, <1>12, <1>13, <1>14 DEF Book, BookAt

\* NICK.
LEMMA NickBook ==
    ASSUME Before, NEW n \in Nicks, NEW new \in Nicks, Nick(n, new),
           split.live => ~(Involved(n) \/ Involved(new))
    PROVE  Book'
<1>1. ~Involved(n) /\ ~Involved(new)
    BY Quiet
<1>2. /\ names = NoChannel /\ Room /\ new # me /\ UNCHANGED <<names, split>>
      /\ me' = (IF n = me THEN new ELSE me)
      /\ \A d \in Channels : new \notin on[d] /\ new \notin op[d]
      /\ n = me \/ \E d \in Channels : n \in on[d]
      /\ me \in Nicks /\ net.chans \subseteq Channels
    BY BookPresent, BookHolds DEF Nick, Event, Mine, Before, OpsAreOn
<1>3. \A d \in Channels, m \in Nicks :
         /\ m \in on'[d] <=> (m = new /\ n \in on[d]) \/ (m \notin {n, new} /\ m \in on[d])
         /\ m \in op'[d] <=> (m = new /\ n \in op[d]) \/ (m \notin {n, new} /\ m \in op[d])
    <2> DEFINE renamed(S) == IF n \in S THEN (S \ {n}) \union {new} ELSE S
    <2>1. /\ on' = [d \in Channels |-> renamed(on[d])]
          /\ op' = [d \in Channels |-> renamed(op[d])]
        BY DEF Nick
    <2>2. \A d \in Channels : on'[d] = renamed(on[d]) /\ op'[d] = renamed(op[d])
        BY <2>1
    <2>3. \A S, m : new \notin S => (m \in renamed(S) <=>
              (m = new /\ n \in S) \/ (m \notin {n, new} /\ m \in S))
        OBVIOUS
    <2> HIDE DEF renamed
    <2> QED BY <1>2, <2>2, <2>3
<1>4. new # n
    BY <1>2
<1>5. CASE Sees(n)
    <2> DEFINE s == WithUsers(net, {n})
               t == SetNick(s, s.users[n], new)
    <2>1. net' = Swept(t)
        BY <1>5 DEF Nick
    <2>2. /\ Booked(s) /\ Alike(net, s) /\ Known(s, n)
          /\ \A m \in Nicks : Known(net, m) => Known(s, m)
        BY <1>2, BookPresent, RoomIsRoomy, WithUsersView
    <2> HIDE DEF s
    <2>3. \A c \in Channels : ~In(net, new, c)
        <3> SUFFICES ASSUME NEW c \in Channels, In(net, new, c) PROVE FALSE
            OBVIOUS
        <3>1. c \in net.chans
            BY BookPresent DEF Booked, Good, Symmetric, In
        <3>2. c # names
            BY <1>2, StateAssumption
        <3> QED BY <1>1, <1>2, <3>1, <3>2, Plain
    <2>4. /\ Booked(t) /\ t.chans = s.chans
          /\ t.myNick = (IF n = s.myNick THEN new ELSE s.myNick)
          /\ \A m \in Nicks : Known(t, m) <=> m = new \/ (m # n /\ Known(s, m))
          /\ \A m \in Nicks, c \in Channels :
                /\ In(t, m, c) <=> (m = new /\ In(s, n, c)) \/ (m \notin {n, new} /\ In(s, m, c))
                /\ Has(t, m, c) <=> (m = new /\ Has(s, n, c)) \/ (m \notin {n, new} /\ Has(s, m, c))
        <3>1. s.myNick = me
            BY <2>2, BookHolds DEF Alike, Mine
        <3>2. new # s.myNick /\ \A c \in Channels : ~In(s, new, c)
            BY <1>2, <2>2, <2>3, <3>1 DEF Alike
        <3> QED BY <1>4, <2>2, <3>2, NickView
    <2> HIDE DEF t
    <2>5. Booked(net') /\ Alike(t, net') /\ \A m \in Nicks : Known(net', m) <=> Known(t, m)
        BY <2>1, <2>4, SweptView
    <2>6. /\ net'.chans = net.chans /\ net'.myNick = me'
          /\ \A m \in Nicks : m = new \/ (m # n /\ Known(net, m)) => Known(net', m)
          /\ \A m \in Nicks, c \in Channels :
                /\ In(net', m, c) <=> (m = new /\ In(net, n, c)) \/ (m \notin {n, new} /\ In(net, m, c))
                /\ Has(net', m, c) <=> (m = new /\ Has(net, n, c)) \/ (m \notin {n, new} /\ Has(net, m, c))
        BY <1>2, <2>2, <2>4, <2>5, BookHolds DEF Alike, Mine
    <2>7. Mine(net)'
        <3>1. net'.chans = {d \in Channels : me' \in on'[d]}
            <4>1. \A d \in Channels : me' \in on'[d] <=> me \in on[d]
                BY <1>2, <1>3, <1>4
            <4> QED BY <2>6, <4>1, BookHolds DEF Mine
        <3>2. Known(net', me')
            BY <1>2, <2>6, BookHolds DEF Mine
        <3> QED BY <2>5, <2>6, <3>1, <3>2 DEF Mine, Booked
    <2>8. Shown(net, split)'
        <3> SUFFICES ASSUME NEW d \in net.chans \ {names}, NEW m \in Nicks
                     PROVE  /\ m \in on'[d] <=> \/ In(net', m, d) /\ m \notin Unsent(split, d)
                                                \/ m \in Pending(split, d)
                            /\ m \in op'[d] <=> \/ Has(net', m, d) /\ m \notin Unsent(split, d)
                                                \/ m \in Moded(split, d)
            BY <1>2, <2>6 DEF Shown
        <3>1. /\ m \in on[d] <=> \/ In(net, m, d) /\ m \notin Unsent(split, d)
                                 \/ m \in Pending(split, d)
              /\ m \in op[d] <=> \/ Has(net, m, d) /\ m \notin Unsent(split, d)
                                 \/ m \in Moded(split, d)
            BY BookHolds DEF Shown
        <3>2. /\ n \in on[d] <=> In(net, n, d)
              /\ n \in op[d] <=> Has(net, n, d)
              /\ \A k \in {n, new} : /\ k \notin Pending(split, d) /\ k \notin Moded(split, d)
                                     /\ k \notin Unsent(split, d)
            BY <1>1, <1>2, Plain
        <3>3. CASE m = new
            BY <1>2, <1>3, <2>6, <3>2, <3>3
        <3>4. CASE m = n
            BY <1>2, <1>3, <1>4, <2>6, <3>2, <3>4
        <3>5. CASE m \notin {n, new}
            BY <1>2, <1>3, <2>6, <3>1, <3>5
        <3> QED BY <3>3, <3>4, <3>5
    <2>9. Fresh(net)'
        BY <1>2 DEF Fresh
    <2>10. Held(net, split)'
        <3> SUFFICES ASSUME NEW d \in Channels, NEW m \in Nicks
                     PROVE  /\ m \in Quitters(split, d) \/ m \in Pending(split, d) =>
                                  split.live /\ d \in net.chans \ {names} /\ m # me'
                            /\ m \in Pending(split, d) => Known(net', m)
                            /\ split.sent[d] # {} => split.live
            BY <1>2, <2>6 DEF Held
        <3>1. \A k \in {n, new} : k \notin Pending(split, d) /\ k \notin Quitters(split, d)
            BY <1>1, Plain
        <3> QED BY <1>2, <2>6, <3>1, BookHolds DEF Held
    <2>11. Whole(net, split)'
        <3> SUFFICES ASSUME NEW m \in Nicks, NEW e \in Channels, m \in Unsent(split, e),
                            NEW d \in Channels
                     PROVE  m \notin Pending(split, d) /\ (In(net', m, d) => m \in Unsent(split, d))
            BY <1>2 DEF Whole
        <3>1. m \notin {n, new}
            BY <1>1, Plain
        <3> QED BY <2>6, <3>1, BookHolds DEF Whole
    <2> QED BY <2>7, <2>8, <2>9, <2>10, <2>11 DEF Book, BookAt
<1>6. CASE ~Sees(n)
    <2>1. net' = net /\ n # me /\ me' = me
        BY <1>2, <1>6 DEF Nick, Sees
    <2>2. \A d \in net.chans : n \notin on[d] /\ n \notin op[d]
        BY <1>2, <1>6, BookHolds DEF Sees, Mine, Before, OpsAreOn
    <2>3. Mine(net)'
        <3>1. \A d \in Channels : me \in on'[d] <=> me \in on[d]
            BY <1>2, <1>3, <2>1
        <3> QED BY <2>1, <3>1, BookHolds DEF Mine
    <2>4. Shown(net, split)'
        <3> SUFFICES ASSUME NEW d \in net.chans \ {names}, NEW m \in Nicks
                     PROVE  /\ m \in on'[d] <=> m \in on[d]
                            /\ m \in op'[d] <=> m \in op[d]
            BY <1>2, <2>1, BookHolds DEF Shown
        <3> QED BY <1>2, <1>3, <2>2
    <2>5. Fresh(net)' /\ Held(net, split)' /\ Whole(net, split)'
        BY <1>2, <2>1, BookHolds DEF Fresh, Held, Whole
    <2> QED BY <2>3, <2>4, <2>5 DEF Book, BookAt
<1> QED BY <1>5, <1>6

\* MODE +o.
LEMMA GiveModeBook ==
    ASSUME Before, NEW n \in Nicks, NEW c \in Channels, GiveMode(n, c),
           split.live => ~(n \in Pending(split, c) /\ ~AlreadyJoined(split, Mask(n), c))
    PROVE  Book'
<1>1. /\ names = NoChannel /\ n \in on[c] /\ UNCHANGED <<on, me, names>>
      /\ me \in Nicks /\ net.chans \subseteq Channels /\ NoChannel \notin Channels
      /\ \A d \in Channels, m \in Nicks : m \in op'[d] <=> m \in op[d] \/ (m = n /\ d = c)
    BY BookPresent, BookHolds, StateAssumption DEF GiveMode, Event, Mine, Before, NInv
<1>2. c \in net.chans => c \in net.chans \ {names} /\ (n \in Pending(split, c)
                                       \/ (In(net, n, c) /\ n \notin Unsent(split, c)))
    BY <1>1, BookHolds DEF Shown
<1>3. /\ n \in Pending(split, c) => c \in net.chans /\ Known(net, n)
      /\ n \in Pending(split, c) <=> AlreadyJoined(split, Mask(n), c)
    <2>1. Mask(n).nick = n /\ \A e : MaskOf(e).nick = e.nick
        BY DEF Mask, MaskOf
    <2>2. AlreadyJoined(split, Mask(n), c) => n \in Pending(split, c)
        BY <2>1 DEF AlreadyJoined, Pending
    <2> QED BY <2>2, BookHolds DEF Held
<1>4. CASE c \notin net.chans
    <2>1. UNCHANGED <<net, split>>
        BY <1>4 DEF GiveMode
    <2> QED BY <1>1, <1>4, <2>1, BookHolds DEF Book, BookAt, Mine, Shown, Fresh, Held, Whole
<1>5. c \in net.chans => Known(net, n) /\ me \in on[c]
    BY <1>2, <1>3, BookHolds DEF In, Mine
<1>6. CASE c \in net.chans /\ n \in Pending(split, c)
    <2>1. split' = AddMode(split, Mask(n), c) /\ net' = net
        BY <1>3, <1>5, <1>6 DEF GiveMode
    <2>2. /\ split'.live = split.live /\ split'.sent = split.sent /\ split'.quits = split.quits
          /\ \A d \in Channels :
                /\ Pending(split', d) = Pending(split, d)
                /\ Moded(split', d) = IF d = c THEN Moded(split, d) \union {n} ELSE Moded(split, d)
        <3>1. Mask(n).nick = n
            BY DEF Mask
        <3> QED BY <1>3, <1>6, <2>1, <3>1, AddModeView DEF Before, NInv, Sound
    <2>3. \A d \in Channels : /\ Unsent(split', d) = Unsent(split, d)
                              /\ Quitters(split', d) = Quitters(split, d)
        BY <2>2 DEF Unsent, Quitters
    <2>4. Mine(net)' /\ Fresh(net)'
        BY <1>1, <2>1, BookHolds DEF Mine, Fresh
    <2>5. Shown(net, split)'
        <3> SUFFICES ASSUME NEW d \in net.chans \ {names}, NEW m \in Nicks
                     PROVE  /\ m \in on[d] <=> \/ In(net, m, d) /\ m \notin Unsent(split', d)
                                               \/ m \in Pending(split', d)
                            /\ m \in op'[d] <=> \/ Has(net, m, d) /\ m \notin Unsent(split', d)
                                                \/ m \in Moded(split', d)
            BY <1>1, <2>1 DEF Shown
        <3>1. /\ m \in on[d] <=> \/ In(net, m, d) /\ m \notin Unsent(split, d)
                                 \/ m \in Pending(split, d)
              /\ m \in op[d] <=> \/ Has(net, m, d) /\ m \notin Unsent(split, d)
                                 \/ m \in Moded(split, d)
            BY BookHolds DEF Shown
        <3> QED BY <1>1, <2>2, <2>3, <3>1
    <2>6. Held(net, split)' /\ Whole(net, split)'
        BY <1>1, <2>1, <2>2, <2>3, BookHolds DEF Held, Whole
    <2> QED BY <2>4, <2>5, <2>6 DEF Book, BookAt
<1>7. CASE c \in net.chans /\ n \notin Pending(split, c)
    <2>1. net' = AddUserMode(net, net.users[n], c) /\ split' = split
        BY <1>3, <1>5, <1>7 DEF GiveMode
    <2>2. In(net, n, c) /\ n \notin Unsent(split, c)
        BY <1>2, <1>7
    <2>3. /\ Booked(net') /\ net'.chans = net.chans /\ net'.myNick = net.myNick
          /\ \A m \in Nicks : Known(net', m) <=> Known(net, m)
          /\ \A m \in Nicks, d \in Channels :
                /\ In(net', m, d) <=> In(net, m, d)
                /\ Has(net', m, d) <=> Has(net, m, d) \/ (m = n /\ d = c)
        BY <1>5, <1>7, <2>1, <2>2, BookPresent, ModeView
    <2>4. Mine(net)' /\ Fresh(net)'
        BY <1>1, <2>3, BookHolds DEF Mine, Fresh, Booked
    <2>5. Shown(net, split)'
        <3> SUFFICES ASSUME NEW d \in net.chans \ {names}, NEW m \in Nicks
                     PROVE  /\ m \in on[d] <=> \/ In(net', m, d) /\ m \notin Unsent(split, d)
                                               \/ m \in Pending(split, d)
                            /\ m \in op'[d] <=> \/ Has(net', m, d) /\ m \notin Unsent(split, d)
                                                \/ m \in Moded(split, d)
            BY <1>1, <2>1, <2>3 DEF Shown
        <3>1. /\ m \in on[d] <=> \/ In(net, m, d) /\ m \notin Unsent(split, d)
                                 \/ m \in Pending(split, d)
              /\ m \in op[d] <=> \/ Has(net, m, d) /\ m \notin Unsent(split, d)
                                 \/ m \in Moded(split, d)
            BY BookHolds DEF Shown
        <3> QED BY <1>1, <2>2, <2>3, <3>1
    <2>6. Held(net, split)' /\ Whole(net, split)'
        BY <1>1, <2>1, <2>3, BookHolds DEF Held, Whole
    <2> QED BY <2>4, <2>5, <2>6 DEF Book, BookAt
<1> QED BY <1>4, <1>6, <1>7

\* MODE -o.
LEMMA TakeModeBook ==
    ASSUME Before, NEW n \in Nicks, NEW c \in Channels, TakeMode(n, c),
           split.live => n \notin Pending(split, c)
    PROVE  Book'
<1>1. /\ names = NoChannel /\ n \in op[c] /\ n \in on[c] /\ UNCHANGED <<on, me, names, split>>
      /\ me \in Nicks /\ net.chans \subseteq Channels /\ NoChannel \notin Channels
      /\ \A d \in Channels, m \in Nicks : m \in op'[d] <=> m \in op[d] /\ ~(m = n /\ d = c)
    BY BookPresent, BookHolds, StateAssumption
       DEF TakeMode, Event, Mine, Before, NInv, OpsAreOn
<1>2. n \notin Pending(split, c) /\ n \notin Moded(split, c)
    <2>1. n \notin Pending(split, c)
        BY BookHolds DEF Held
    <2> QED BY <2>1 DEF Moded, Pending, ToSet
<1>3. CASE c \notin net.chans
    <2>1. net' = net
        BY <1>3 DEF TakeMode
    <2> QED BY <1>1, <1>3, <2>1, BookHolds DEF Book, BookAt, Mine, Shown, Fresh, Held, Whole
<1>4. CASE c \in net.chans
    <2>1. Known(net, n) /\ me \in on[c]
        BY <1>1, <1>2, <1>4, BookHolds DEF Shown, In, Mine
    <2>2. net' = RemoveUserMode(net, net.users[n], c)
        BY <1>4, <2>1 DEF TakeMode
    <2>3. /\ Booked(net') /\ net'.chans = net.chans /\ net'.myNick = net.myNick
          /\ \A m \in Nicks : Known(net', m) <=> Known(net, m)
          /\ \A m \in Nicks, d \in Channels :
                /\ In(net', m, d) <=> In(net, m, d)
                /\ Has(net', m, d) <=> Has(net, m, d) /\ ~(m = n /\ d = c)
        BY <2>1, <2>2, BookPresent, ModeView
    <2>4. Mine(net)' /\ Fresh(net)'
        BY <1>1, <2>3, BookHolds DEF Mine, Fresh, Booked
    <2>5. Shown(net, split)'
        <3> SUFFICES ASSUME NEW d \in net.chans \ {names}, NEW m \in Nicks
                     PROVE  /\ m \in on[d] <=> \/ In(net', m, d) /\ m \notin Unsent(split, d)
                                               \/ m \in Pending(split, d)
                            /\ m \in op'[d] <=> \/ Has(net', m, d) /\ m \notin Unsent(split, d)
                                                \/ m \in Moded(split, d)
            BY <1>1, <2>3 DEF Shown
        <3>1. /\ m \in on[d] <=> \/ In(net, m, d) /\ m \notin Unsent(split, d)
                                 \/ m \in Pending(split, d)
              /\ m \in op[d] <=> \/ Has(net, m, d) /\ m \notin Unsent(split, d)
                                 \/ m \in Moded(split, d)
            BY BookHolds DEF Shown
        <3> QED BY <1>1, <1>2, <2>3, <3>1
    <2>6. Held(net, split)' /\ Whole(net, split)'
        BY <1>1, <2>3, BookHolds DEF Held, Whole
    <2> QED BY <2>4, <2>5, <2>6 DEF Book, BookAt
<1> QED BY <1>3, <1>4

\* A connection starts with empty books.
LEMMA EmptyBooks ==
    ASSUME NEW n \in Nicks
    PROVE  LET s == WithUsers(NoObjects(n), {n})
           IN  /\ Booked(s) /\ Known(s, n) /\ s.myNick = n /\ s.chans = {}
               /\ \A m \in Nicks, c \in Channels : ~In(s, m, c)
<1> DEFINE e == NoObjects(n)
           s == WithUsers(e, {n})
<1>1. Good(e) /\ Roomy(e)
    BY NoObjectsGood
<1>2. /\ Listed(e) /\ e.myNick = n /\ e.chans = {}
      /\ \A m \in Nicks, c \in Channels : ~In(e, m, c)
    BY DEF NoObjects, Listed, In
<1> HIDE DEF e
<1>3. Booked(s) /\ Alike(e, s) /\ Known(s, n)
    BY <1>1, <1>2, WithUsersView DEF Booked
<1> HIDE DEF s
<1>4. /\ Booked(s) /\ Known(s, n) /\ s.myNick = n /\ s.chans = {}
      /\ \A m \in Nicks, c \in Channels : ~In(s, m, c)
    BY <1>2, <1>3 DEF Alike
<1> QED BY <1>4 DEF s, e

\* Empty books of a user who is nowhere are right.
LEMMA FreshBook ==
    ASSUME NEW n \in Nicks, NEW s, s = WithUsers(NoObjects(n), {n}),
           n = me, names = NoChannel, \A c \in Channels : n \notin on[c]
    PROVE  BookAt(s, NoSplit)
<1>1. /\ Booked(s) /\ Known(s, n) /\ s.myNick = n /\ s.chans = {}
      /\ \A m \in Nicks, c \in Channels : ~In(s, m, c)
    BY EmptyBooks
<1>2. Mine(s) /\ Shown(s, NoSplit) /\ Fresh(s)
    BY <1>1 DEF Mine, Shown, Fresh, Booked
<1>3. Held(s, NoSplit) /\ Whole(s, NoSplit)
    BY NoSplitView DEF Held, Whole
<1> QED BY <1>2, <1>3 DEF BookAt

\* A new connection.
LEMMA ReconnectBook ==
    ASSUME IInv, NEW n \in Nicks, Reconnect(n)
    PROVE  Book'
<1>1. /\ me' = n /\ names' = NoChannel /\ net' = WithUsers(NoObjects(n), {n}) /\ split' = NoSplit
      /\ \A c \in Channels : n \notin on'[c]
    BY DEF Reconnect
<1>2. /\ Booked(net') /\ Known(net', n) /\ net'.myNick = n /\ net'.chans = {}
      /\ \A m \in Nicks, c \in Channels : ~In(net', m, c)
    BY <1>1, EmptyBooks
<1>3. Mine(net)' /\ Shown(net, split)' /\ Fresh(net)'
    BY <1>1, <1>2 DEF Mine, Shown, Fresh, Booked
<1>4. Held(net, split)' /\ Whole(net, split)'
    BY <1>1, NoSplitView DEF Held, Whole
<1> QED BY <1>3, <1>4 DEF Book, BookAt

\* A split is dropped after an hour: by then, by the book, nothing is held back.
LEMMA DiscardBook ==
    ASSUME Before, Discard, split.live => ~(split.quitTimer \/ split.joins # NoLists)
    PROVE  Book'
<1>1. split' = NoSplit /\ UNCHANGED <<on, op, me, names, net>> /\ split.live
    BY DEF Discard, serverVars
<1>2. split.joins = NoLists /\ \A c \in Channels : Unsent(split, c) = {}
    BY <1>1 DEF Before, NInv, Sound, Timed
<1>3. \A c \in Channels : /\ Pending(split, c) = {} /\ Moded(split, c) = {}
                          /\ Pending(split', c) = {} /\ Moded(split', c) = {}
                          /\ Unsent(split', c) = {} /\ Quitters(split', c) = {}
                          /\ split'.sent[c] = {}
    BY <1>1, <1>2, NothingPending, NoSplitView
<1>4. Mine(net)' /\ Fresh(net)'
    BY <1>1, BookHolds DEF Mine, Fresh
<1>5. Shown(net, split)'
    <2>1. net.chans \subseteq Channels
        BY BookHolds DEF Mine
    <2> QED BY <1>1, <1>2, <1>3, <2>1, BookHolds DEF Shown
<1>6. Held(net, split)' /\ Whole(net, split)'
    BY <1>3 DEF Held, Whole
<1> QED BY <1>4, <1>5, <1>6 DEF Book, BookAt

----------------------------------------------------------------------------
(* The timers.                                                              *)

\* After the quits are told, nothing is left to tell.
LEMMA ToldBook ==
    ASSUME Before, NEW s, s = Swept(HandleNetsplitQuit(net, split)), NEW sp, sp = QuitsTold(split)
    PROVE  /\ Booked(s) /\ BookAt(s, sp)
<1> DEFINE t == HandleNetsplitQuit(net, split)
<1>1. /\ me \in Nicks /\ net.chans \subseteq Channels /\ net.myNick = me
      /\ Booked(net) /\ Present(net)
    BY BookPresent, BookHolds DEF Mine
<1>2. \A c \in Channels : me \notin Unsent(split, c) /\ me \notin Pending(split, c)
    BY <1>1, BookHolds, QuittersAreNicks DEF Held, Before, NInv, Sound
<1>3. /\ Booked(t) /\ t.chans = net.chans /\ t.myNick = net.myNick
      /\ \A n \in Nicks : Known(t, n) <=>
            Known(net, n) /\ \A c \in Channels : n \notin Unsent(split, c)
      /\ \A n \in Nicks, c \in Channels :
            /\ In(t, n, c) <=> In(net, n, c) /\ \A d \in Channels : n \notin Unsent(split, d)
            /\ Has(t, n, c) <=> Has(net, n, c) /\ \A d \in Channels : n \notin Unsent(split, d)
    BY <1>1, <1>2, NetsplitQuitView
<1> HIDE DEF t
<1>4. Booked(s) /\ Alike(t, s) /\ \A n \in Nicks : Known(s, n) <=> Known(t, n)
    BY <1>3, SweptView DEF t
<1>5. /\ sp.live = split.live /\ sp.quits = split.quits
      /\ \A c \in Channels :
            /\ Pending(sp, c) = Pending(split, c) /\ Moded(sp, c) = Moded(split, c)
            /\ sp.sent[c] = split.sent[c] \union ToSet(split.quits[c])
            /\ Unsent(sp, c) = {}
    BY QuitsToldView DEF Before, NInv, Sound
<1>6. ASSUME NEW n \in Nicks, NEW c \in Channels
      PROVE  /\ In(s, n, c) <=> In(net, n, c) /\ n \notin Unsent(split, c)
             /\ Has(s, n, c) <=> Has(net, n, c) /\ n \notin Unsent(split, c)
    <2>1. Has(net, n, c) => In(net, n, c)
        BY <1>1 DEF Booked, Good, Symmetric, In, Has
    <2>2. In(net, n, c) /\ n \notin Unsent(split, c) => \A d \in Channels : n \notin Unsent(split, d)
        BY BookHolds DEF Whole
    <2> QED BY <1>3, <1>4, <2>1, <2>2 DEF Alike
<1>7. \A n \in Nicks, c \in Channels : n \in Pending(split, c) => Known(s, n)
    BY <1>3, <1>4, BookHolds DEF Held, Whole
<1>8. Known(s, me) /\ s.chans = net.chans /\ s.myNick = me
    BY <1>1, <1>2, <1>3, <1>4, BookHolds DEF Alike, Mine
<1>9. Mine(s)
    BY <1>4, <1>8, BookHolds DEF Mine, Booked
<1>10. Shown(s, sp)
    BY <1>1, <1>5, <1>6, <1>8, BookHolds DEF Shown
<1>11. Fresh(s)
    <2> SUFFICES ASSUME names # NoChannel
                 PROVE  names \in s.chans
                        /\ \A n \in Nicks : (In(s, n, names) <=> n = me) /\ ~Has(s, n, names)
        BY DEF Fresh
    <2>1. /\ names \in net.chans
          /\ \A n \in Nicks : (In(net, n, names) <=> n = me) /\ ~Has(net, n, names)
        BY BookHolds DEF Fresh
    <2> QED BY <1>1, <1>2, <1>6, <1>8, <2>1
<1>12. Held(s, sp)
    <2>1. \A c \in Channels : Quitters(sp, c) = Quitters(split, c)
        BY <1>5 DEF Quitters
    <2>2. \A c \in Channels : sp.sent[c] # {} => sp.live
        BY <1>1, <1>5, BookHolds, QuittersAreNicks DEF Held, Before, NInv, Sound
    <2> QED BY <1>5, <1>7, <1>8, <2>1, <2>2, BookHolds DEF Held
<1>13. Whole(s, sp)
    BY <1>5 DEF Whole
<1> QED BY <1>4, <1>9, <1>10, <1>11, <1>12, <1>13 DEF BookAt

\* The quits are told.
LEMMA QuitTimeoutBook ==
    ASSUME Before, QuitTimeout
    PROVE  Book'
<1>1. BookAt(net', split') /\ UNCHANGED <<on, op, me, names>>
    BY ToldBook DEF QuitTimeout, serverVars
<1>2. Mine(net)' /\ Fresh(net)'
    BY <1>1 DEF BookAt, Mine, Fresh
<1>3. Shown(net, split)'
    BY <1>1 DEF BookAt, Shown
<1>4. Held(net, split)' /\ Whole(net, split)'
    BY <1>1 DEF BookAt, Held, Whole
<1> QED BY <1>2, <1>3, <1>4 DEF Book, BookAt

\* After the joins are told, none is held back.
LEMMA JoinedBook ==
    ASSUME NEW s, Booked(s), NEW sp \in Splits, BookAt(s, sp),
           NEW t, t = Swept(BulkJoin(s, sp)), NEW r, r.live => sp.live,
           \A c \in Channels :
              /\ Pending(r, c) = {} /\ Moded(r, c) = {} /\ Unsent(r, c) = Unsent(sp, c)
              /\ Quitters(r, c) \subseteq Quitters(sp, c)
              /\ r.sent[c] \subseteq sp.sent[c]
              /\ sp.live /\ (Quitters(r, c) # {} \/ r.sent[c] # {}) => r.live
    PROVE  BookAt(t, r)
<1> DEFINE b == BulkJoin(s, sp)
<1>1. /\ Mine(s) /\ Shown(s, sp) /\ Fresh(s) /\ Held(s, sp) /\ Whole(s, sp)
      /\ s.chans \subseteq Channels
    BY DEF BookAt, Mine
<1>2. \A c \in Channels : Pending(sp, c) \subseteq Nicks /\ Moded(sp, c) \subseteq Pending(sp, c)
    <2> TAKE c \in Channels
    <2>1. sp.joins[c] \in Seq(Entries)
        BY DEF Splits
    <2>2. \A k \in DOMAIN sp.joins[c] : sp.joins[c][k] \in Entries
        BY <2>1
    <2>3. Pending(sp, c) \subseteq Nicks
        BY <2>2 DEF Pending, Entries
    <2> QED BY <2>3 DEF Moded, Pending, ToSet
<1>3. \A c \in Channels : \A n \in Pending(sp, c) : Known(s, n) /\ c \in s.chans
    BY <1>1, <1>2 DEF Held
<1>4. /\ Booked(b) /\ b.chans = s.chans /\ b.myNick = s.myNick
      /\ \A n \in Nicks : Known(b, n) <=> Known(s, n)
      /\ \A n \in Nicks, c \in Channels :
            /\ In(b, n, c) <=> In(s, n, c) \/ n \in Pending(sp, c)
            /\ Has(b, n, c) <=> Has(s, n, c) \/ n \in Moded(sp, c)
    BY <1>3, BulkJoinView
<1> HIDE DEF b
<1>5. Booked(t) /\ Alike(b, t) /\ \A n \in Nicks : Known(t, n) <=> Known(b, n)
    BY <1>4, SweptView DEF b
<1>6. /\ t.chans = s.chans /\ t.myNick = s.myNick
      /\ \A n \in Nicks : Known(t, n) <=> Known(s, n)
      /\ \A n \in Nicks, c \in Channels :
            /\ In(t, n, c) <=> In(s, n, c) \/ n \in Pending(sp, c)
            /\ Has(t, n, c) <=> Has(s, n, c) \/ n \in Moded(sp, c)
    BY <1>4, <1>5 DEF Alike
<1>7. ASSUME NEW n \in Nicks, NEW c \in Channels, n \in Unsent(sp, c), NEW d \in Channels
      PROVE  n \notin Pending(sp, d) /\ n \notin Moded(sp, d) /\ (In(s, n, d) => n \in Unsent(sp, d))
    BY <1>1, <1>2, <1>7 DEF Whole
<1>8. Mine(t)
    <2>1. Known(t, me)
        BY <1>1, <1>4, <1>5 DEF Mine, Booked, Good, Objects
    <2> QED BY <1>1, <1>5, <1>6, <2>1 DEF Mine, Booked
<1>9. Shown(t, r)
    <2> SUFFICES ASSUME NEW c \in s.chans \ {names}, NEW n \in Nicks
                 PROVE  /\ n \in on[c] <=> \/ In(t, n, c) /\ n \notin Unsent(r, c)
                                           \/ n \in Pending(r, c)
                        /\ n \in op[c] <=> \/ Has(t, n, c) /\ n \notin Unsent(r, c)
                                           \/ n \in Moded(r, c)
        BY <1>6 DEF Shown
    <2>1. c \in Channels
        BY <1>1
    <2>2. /\ n \in on[c] <=> (In(s, n, c) /\ n \notin Unsent(sp, c)) \/ n \in Pending(sp, c)
          /\ n \in op[c] <=> (Has(s, n, c) /\ n \notin Unsent(sp, c)) \/ n \in Moded(sp, c)
        BY <1>1 DEF Shown
    <2> QED BY <1>6, <1>7, <2>1, <2>2
<1>10. Fresh(t)
    <2> SUFFICES ASSUME names # NoChannel
                 PROVE  names \in t.chans
                        /\ \A n \in Nicks : (In(t, n, names) <=> n = me) /\ ~Has(t, n, names)
        BY DEF Fresh
    <2>1. /\ names \in s.chans
          /\ \A n \in Nicks : (In(s, n, names) <=> n = me) /\ ~Has(s, n, names)
        BY <1>1 DEF Fresh
    <2>2. \A n \in Nicks : n \notin Pending(sp, names) /\ n \notin Moded(sp, names)
        BY <1>1, <1>2, <2>1 DEF Held
    <2> QED BY <1>1, <1>6, <2>1, <2>2
<1>11. Held(t, r)
    <2> SUFFICES ASSUME NEW c \in Channels, NEW n \in Nicks
                 PROVE  /\ n \in Quitters(r, c) => r.live /\ c \in s.chans \ {names} /\ n # me
                        /\ r.sent[c] # {} => r.live
        BY <1>6 DEF Held
    <2> QED BY <1>1 DEF Held
<1>12. Whole(t, r)
    BY <1>6, <1>7 DEF Whole
<1> QED BY <1>8, <1>9, <1>10, <1>11, <1>12 DEF BookAt

\* Creating users changes nothing the books say of channels.
LEMMA BookAlike ==
    ASSUME NEW s, NEW t, NEW sp, BookAt(s, sp), Booked(t), Alike(s, t), me \in Nicks,
           \A n \in Nicks : Known(s, n) => Known(t, n)
    PROVE  BookAt(t, sp)
<1>1. Mine(s) /\ Shown(s, sp) /\ Fresh(s) /\ Held(s, sp) /\ Whole(s, sp)
    BY DEF BookAt
<1>2. s.chans \subseteq Channels
    BY <1>1 DEF Mine
<1>3. Mine(t)
    BY <1>1 DEF Mine, Alike, Booked
<1>4. Shown(t, sp)
    BY <1>1, <1>2 DEF Shown, Alike
<1>5. Fresh(t)
    BY <1>1, <1>2 DEF Fresh, Alike
<1>6. Held(t, sp)
    BY <1>1 DEF Held, Alike
<1>7. Whole(t, sp)
    BY <1>1 DEF Whole, Alike
<1> QED BY <1>3, <1>4, <1>5, <1>6, <1>7 DEF BookAt

\* The joins are told, after the quits if those are still held back.
LEMMA JoinTimeoutBook ==
    ASSUME IInv, NInv, VInv, JoinTimeout, oddities' = 0
    PROVE  Book'
<1> DEFINE sp == IF split.sentQuit THEN split ELSE QuitsTold(split)
           q == HandleNetsplitQuit(net, split)
           s == IF split.sentQuit THEN net ELSE Swept(q)
           t == WithUsers(s, UNION {Pending(sp, c) : c \in s.chans})
           early == sp.joinCounter < sp.quitCounter \div EarlyShare
<1>1. Before /\ (~early /\ split.live => ~sp.quitTimer)
    <2>1. CASE early
        <3>1. oddities = 0
            BY <2>1 DEF JoinTimeout
        <3> QED BY <2>1, <3>1 DEF VInv, Before
    <2>2. CASE ~early
        <3>1. Odd(sp.quitTimer)
            BY <2>2 DEF JoinTimeout
        <3> QED BY <3>1, ByTheBook
    <2> QED BY <2>1, <2>2
<1>2. Booked(net) /\ me \in Nicks /\ Roomy(net)
    BY <1>1, BookPresent, RoomIsRoomy DEF JoinTimeout
<1>3. Roomy(s)
    <2>1. Good(q) /\ q.nick = net.nick
        BY NetsplitQuitGood DEF IInv
    <2>2. Roomy(q)
        BY <1>2, <2>1 DEF Roomy, Unborn
    <2> QED BY <1>2, <2>1, <2>2, SweptGood
<1>4. Booked(s) /\ BookAt(s, sp)
    <2>1. CASE split.sentQuit
        BY <1>1, <1>2, <2>1 DEF Before, Book
    <2>2. CASE ~split.sentQuit
        BY <1>1, <2>2, ToldBook
    <2> QED BY <2>1, <2>2
<1>5. sp \in Splits /\ Sound(sp)
    BY QuitsToldSound DEF NInv, Sound
<1>6. sp.live = split.live
    BY DEF QuitsTold, NInv, Sound, Splits
<1>7. /\ UNCHANGED <<on, op, me, names>>
      /\ early => net' = Swept(BulkJoin(t, sp)) /\ split' = [sp EXCEPT !.joins = NoLists]
      /\ ~early => net' = Swept(BulkJoin(s, sp)) /\ split' = NoSplit
    BY DEF JoinTimeout, HandleNetsplitJoin, HandleEarlyNetsplitJoin, serverVars
<1>8. CASE early
    <2> DEFINE r == [sp EXCEPT !.joins = NoLists]
    <2>1. /\ Booked(t) /\ Alike(s, t)
          /\ \A n \in Nicks : Known(s, n) => Known(t, n)
        <3> HIDE DEF s, sp
        <3> QED BY <1>3, <1>4, WithUsersView
    <2>2. BookAt(t, sp)
        <3> HIDE DEF s, sp, t
        <3> QED BY <1>2, <1>4, <2>1, BookAlike
    <2>3. /\ r.live = sp.live /\ r.sent = sp.sent
          /\ \A c \in Channels : /\ Pending(r, c) = {} /\ Moded(r, c) = {}
                                 /\ Unsent(r, c) = Unsent(sp, c)
                                 /\ Quitters(r, c) = Quitters(sp, c)
        <3> HIDE DEF sp
        <3>1. r.live = sp.live /\ r.quits = sp.quits /\ r.sent = sp.sent /\ r.joins = NoLists
            BY <1>5 DEF Splits
        <3> HIDE DEF r
        <3> QED BY <3>1, NothingPending DEF Unsent, Quitters
    <2>4. BookAt(net', r)
        <3> HIDE DEF s, sp, t, r
        <3>1. \A c \in Channels : sp.live => r.live
            BY <2>3
        <3> QED BY <1>5, <1>7, <1>8, <2>1, <2>2, <2>3, JoinedBook DEF early
    <2> QED BY <1>7, <1>8, <2>4
            DEF Book, BookAt, Mine, Shown, Fresh, Held, Whole
<1>9. CASE ~early
    <2>1. \A c \in Channels : Unsent(sp, c) = {}
        <3> SUFFICES ASSUME NEW c \in Channels, NEW n \in Unsent(sp, c)
                     PROVE  FALSE
            OBVIOUS
        <3>1. sp.quitTimer
            BY <1>5 DEF Sound, Timed
        <3>2. n \in Nicks /\ n \in Quitters(sp, c)
            BY <1>5, QuittersAreNicks
        <3>3. sp.live
            BY <1>4, <3>2 DEF BookAt, Held
        <3> QED BY <1>1, <1>6, <1>9, <3>1, <3>3
    <2>2. BookAt(net', NoSplit)
        <3> HIDE DEF s, sp
        <3>1. NoSplit.live => sp.live
            BY DEF NoSplit
        <3>2. \A c \in Channels :
                /\ Pending(NoSplit, c) = {} /\ Moded(NoSplit, c) = {}
                /\ Unsent(NoSplit, c) = Unsent(sp, c)
                /\ Quitters(NoSplit, c) = {} /\ NoSplit.sent[c] = {}
            BY <2>1, NoSplitView
        <3>3. net' = Swept(BulkJoin(s, sp))
            BY <1>7, <1>9
        <3> QED BY <1>4, <1>5, <3>1, <3>2, <3>3, JoinedBook
    <2> QED BY <1>7, <1>9, <2>2
            DEF Book, BookAt, Mine, Shown, Fresh, Held, Whole
<1> QED BY <1>8, <1>9

----------------------------------------------------------------------------
(* The books through every step.                                            *)

\* Only who is on a channel has a mode there.
LEMMA OpsStayOn ==
    ASSUME IInv, NInv, OpsAreOn, [Next]_vars
    PROVE  OpsAreOn'
<1>1. ASSUME NEW n \in Nicks, NEW c \in Channels,
             Join(n, c) \/ Part(n, c) \/ GiveMode(n, c) \/ TakeMode(n, c)
      PROVE  OpsAreOn'
    <2>1. CASE Join(n, c)
        BY <2>1 DEF Join, IInv, Shape, OpsAreOn
    <2>2. CASE Part(n, c)
        BY <2>2 DEF Part, GoneFrom, IInv, Shape, NInv, OpsAreOn
    <2>3. CASE GiveMode(n, c)
        BY <2>3 DEF GiveMode, IInv, Shape, NInv, OpsAreOn
    <2>4. CASE TakeMode(n, c)
        BY <2>4 DEF TakeMode, IInv, Shape, NInv, OpsAreOn
    <2> QED BY <1>1, <2>1, <2>2, <2>3, <2>4
<1>2. CASE Names \/ QuitTimeout \/ JoinTimeout \/ Discard \/ UNCHANGED vars
    BY <1>2 DEF Names, QuitTimeout, JoinTimeout, Discard, vars, serverVars, OpsAreOn
<1>3. ASSUME NEW by \in Nicks, NEW n \in Nicks, NEW c \in Channels, Kick(by, n, c)
      PROVE  OpsAreOn'
    BY <1>3 DEF Kick, GoneFrom, IInv, Shape, NInv, OpsAreOn
<1>4. ASSUME NEW n \in Nicks,
             QuitAlone(n) \/ QuitInSplit(n) \/ Speak(n) \/ Reconnect(n)
      PROVE  OpsAreOn'
    BY <1>4 DEF QuitAlone, QuitInSplit, Speak, Reconnect, GoneFromAll, serverVars, OpsAreOn
<1>5. ASSUME NEW n \in Nicks, NEW new \in Nicks, Nick(n, new)
      PROVE  OpsAreOn'
    BY <1>5 DEF Nick, OpsAreOn
<1> QED BY <1>1, <1>2, <1>3, <1>4, <1>5 DEF Next

\* The books are right in the beginning, and through each kind of event.
LEMMA InitBook == Init => VInv
<1> SUFFICES ASSUME Init PROVE VInv
    OBVIOUS
<1>1. BookAt(net, split)
    <2>1. \A c \in Channels : me \notin on[c]
        BY DEF Init
    <2> QED BY <2>1, FreshBook DEF Init
<1>2. OpsAreOn
    BY DEF Init, OpsAreOn
<1> QED BY <1>1, <1>2 DEF VInv, Book

LEMMA EventBook ==
    ASSUME IInv, NInv, VInv, oddities' = 0, NEW n \in Nicks, NEW c \in Channels,
           Join(n, c) \/ Part(n, c) \/ GiveMode(n, c) \/ TakeMode(n, c)
    PROVE  Book'
<1>1. CASE Join(n, c)
    <2>1. Odd(ToBeQuit(n) \/ (n = me /\ TakesJoin(split, n, c)))
        BY <1>1 DEF Join
    <2> QED BY <1>1, <2>1, ByTheBook, JoinStep, JoinBook
<1>2. CASE Part(n, c)
    <2>1. Odd(n = me \/ Involved(n))
        BY <1>2 DEF Part
    <2> QED BY <1>2, <2>1, ByTheBook, PartBook
<1>3. CASE GiveMode(n, c)
    <2>1. Odd(n \in Pending(split, c) /\ ~AlreadyJoined(split, Mask(n), c))
        BY <1>3 DEF GiveMode
    <2> QED BY <1>3, <2>1, ByTheBook, GiveModeBook
<1>4. CASE TakeMode(n, c)
    <2>1. Odd(n \in Pending(split, c))
        BY <1>4 DEF TakeMode
    <2> QED BY <1>4, <2>1, ByTheBook, TakeModeBook
<1> QED BY <1>1, <1>2, <1>3, <1>4

LEMMA NamesEventBook ==
    ASSUME IInv, NInv, VInv, oddities' = 0, Names
    PROVE  Book'
<1>1. Odd(\E n \in on[names] : ToBeQuit(n))
    BY DEF Names
<1> QED BY <1>1, ByTheBook, NamesStep, NamesBook

LEMMA LeavingEventBook ==
    ASSUME IInv, NInv, VInv, oddities' = 0, NEW n \in Nicks,
           QuitAlone(n) \/ QuitInSplit(n) \/ Speak(n) \/ Reconnect(n)
    PROVE  Book'
<1>1. CASE QuitAlone(n)
    <2>1. Odd(Involved(n))
        BY <1>1 DEF QuitAlone
    <2> QED BY <1>1, <2>1, ByTheBook, QuitAloneBook
<1>2. CASE QuitInSplit(n)
    <2>1. Odd(Involved(n) \/ \E c \in Channels : Mask(n) \in split.sent[c])
        BY <1>2 DEF QuitInSplit
    <2> QED BY <1>2, <2>1, ByTheBook, QuitInSplitBook
<1>3. CASE Speak(n)
    <2>1. oddities = 0
        BY <1>3 DEF Speak
    <2> QED BY <1>3, <2>1, SpeakBook DEF VInv, Before
<1>4. CASE Reconnect(n)
    BY <1>4, ReconnectBook
<1> QED BY <1>1, <1>2, <1>3, <1>4

LEMMA OtherEventBook ==
    ASSUME IInv, NInv, VInv, oddities' = 0, NEW by \in Nicks, NEW n \in Nicks,
           (\E c \in Channels : Kick(by, n, c)) \/ Nick(by, n)
    PROVE  Book'
<1>1. ASSUME NEW c \in Channels, Kick(by, n, c) PROVE Book'
    <2>1. Odd(n = me \/ Involved(n))
        BY <1>1 DEF Kick
    <2> QED BY <1>1, <2>1, ByTheBook, KickBook
<1>2. CASE Nick(by, n)
    <2>1. Odd(Involved(by) \/ Involved(n))
        BY <1>2 DEF Nick
    <2> QED BY <1>2, <2>1, ByTheBook, NickBook
<1> QED BY <1>1, <1>2

LEMMA TimerBook ==
    ASSUME IInv, NInv, VInv, oddities' = 0, QuitTimeout \/ JoinTimeout \/ Discard
    PROVE  Book'
<1>1. CASE QuitTimeout
    <2>1. oddities = 0
        BY <1>1 DEF QuitTimeout
    <2> QED BY <1>1, <2>1, QuitTimeoutBook DEF VInv, Before
<1>2. CASE JoinTimeout
    BY <1>2, JoinTimeoutBook
<1>3. CASE Discard
    <2>1. Odd(split.quitTimer \/ split.joins # NoLists)
        BY <1>3 DEF Discard
    <2> QED BY <1>3, <2>1, ByTheBook, DiscardBook
<1> QED BY <1>1, <1>2, <1>3

LEMMA NextBook ==
    ASSUME IInv, NInv, VInv, [Next]_vars
    PROVE  VInv'
<1>1. OpsAreOn'
    BY OpsStayOn DEF VInv
<1>2. ASSUME oddities' = 0 PROVE Book'
    <2>1. ASSUME NEW n \in Nicks, NEW c \in Channels,
                 Join(n, c) \/ Part(n, c) \/ GiveMode(n, c) \/ TakeMode(n, c)
          PROVE  Book'
        BY <1>2, <2>1, EventBook
    <2>2. CASE Names
        BY <1>2, <2>2, NamesEventBook
    <2>3. ASSUME NEW n \in Nicks,
                 QuitAlone(n) \/ QuitInSplit(n) \/ Speak(n) \/ Reconnect(n)
          PROVE  Book'
        BY <1>2, <2>3, LeavingEventBook
    <2>4. ASSUME NEW by \in Nicks, NEW n \in Nicks,
                 (\E c \in Channels : Kick(by, n, c)) \/ Nick(by, n)
          PROVE  Book'
        BY <1>2, <2>4, OtherEventBook
    <2>5. CASE QuitTimeout \/ JoinTimeout \/ Discard
        BY <1>2, <2>5, TimerBook
    <2>6. CASE UNCHANGED vars
        <3>1. UNCHANGED <<on, op, me, names, net, split, oddities>>
            BY <2>6 DEF vars, serverVars
        <3>2. BookAt(net, split)
            BY <1>2, <3>1 DEF VInv, Book
        <3> QED BY <3>1, <3>2 DEF Book, BookAt, Mine, Shown, Fresh, Held, Whole
    <2> QED BY <2>1, <2>2, <2>3, <2>4, <2>5, <2>6 DEF Next
<1> QED BY <1>1, <1>2 DEF VInv

\* As long as all splits are by the book, what the core has written down of its
\* channels, and what the Netsplit holds back of it, make up what the server knows,
\* and what is held back can be told whenever a timer says so.
THEOREM BooksAreRight == Spec => []VInv
<1>1. Init => VInv
    BY InitBook
<1>2. IInv /\ NInv /\ VInv /\ [Next]_vars => VInv'
    BY NextBook
<1> QED BY <1>1, <1>2, Invariance, NetsplitIsSound, PTL DEF Spec

\* What the core shows is what the server knows, the quits and joins a split holds
\* back aside: the property the run checks.
THEOREM ViewIsTheServers == Spec => []ViewMatches
<1>1. IInv /\ NInv /\ VInv => ViewMatches
    <2> SUFFICES ASSUME IInv, NInv, VInv, oddities = 0
                 PROVE  /\ net.myNick = me
                        /\ \A n \in Nicks : Known(net, n) => net.nick[net.users[n]] = n
                        /\ net.chans = {c \in Channels : me \in on[c]}
                        /\ \A c \in net.chans \ {names} :
                              /\ on[c] = (MemberNicks(net, c) \ Unsent(split, c)) \union Pending(split, c)
                              /\ op[c] = (OpNicks(net, c) \ Unsent(split, c)) \union Moded(split, c)
                              /\ \A i, j \in net.members[c] : net.nick[i] = net.nick[j] => i = j
        BY DEF ViewMatches, Moded
    <2>1. Mine(net) /\ Shown(net, split) /\ Booked(net)
        BY DEF VInv, Book, BookAt, Mine, IInv, Booked
    <2>2. \A n \in Nicks : Known(net, n) => net.nick[net.users[n]] = n
        BY <2>1 DEF Booked, Good, Filed
    <2>3. ASSUME NEW c \in net.chans \ {names}
          PROVE  /\ on[c] = (MemberNicks(net, c) \ Unsent(split, c)) \union Pending(split, c)
                 /\ op[c] = (OpNicks(net, c) \ Unsent(split, c)) \union Moded(split, c)
                 /\ \A i, j \in net.members[c] : net.nick[i] = net.nick[j] => i = j
        <3>1. c \in Channels /\ on[c] \subseteq Nicks /\ op[c] \subseteq Nicks
            BY <2>1 DEF Mine, IInv, Shape, NInv
        <3>2. Pending(split, c) \subseteq Nicks /\ Moded(split, c) \subseteq Nicks
            <4>1. split.joins[c] \in Seq(Entries)
                BY <3>1 DEF NInv, Sound, Splits
            <4>2. \A k \in DOMAIN split.joins[c] : split.joins[c][k] \in Entries
                BY <4>1
            <4> QED BY <4>2 DEF Pending, Moded, ToSet, Entries
        <3>3. /\ \A n \in Nicks : n \in MemberNicks(net, c) <=> In(net, n, c)
              /\ \A n \in Nicks : n \in OpNicks(net, c) <=> Has(net, n, c)
              /\ \A i, j \in net.members[c] : net.nick[i] = net.nick[j] => i = j
              /\ MemberNicks(net, c) \subseteq Nicks /\ OpNicks(net, c) \subseteq Nicks
            BY <2>1, <3>1, MembersByNick
        <3>4. \A n \in Nicks :
                /\ n \in on[c] <=> \/ In(net, n, c) /\ n \notin Unsent(split, c)
                                   \/ n \in Pending(split, c)
                /\ n \in op[c] <=> \/ Has(net, n, c) /\ n \notin Unsent(split, c)
                                   \/ n \in Moded(split, c)
            BY <2>1 DEF Shown
        <3>5. \A n : n \in on[c] <=> n \in (MemberNicks(net, c) \ Unsent(split, c)) \union Pending(split, c)
            BY <3>1, <3>2, <3>3, <3>4
        <3>6. \A n : n \in op[c] <=> n \in (OpNicks(net, c) \ Unsent(split, c)) \union Moded(split, c)
            BY <3>1, <3>2, <3>3, <3>4
        <3> QED BY <3>3, <3>5, <3>6
    <2> QED BY <2>1, <2>2, <2>3 DEF Mine
<1> QED BY <1>1, BooksAreRight, Invariance, NetsplitIsSound, PTL
==============================================================================
