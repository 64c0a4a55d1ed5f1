-------------------------- MODULE SessionSyncProofs --------------------------
(***************************************************************************)
(* SessionSync, for any nicks and bounds: the types are kept, the client     *)
(* converges, and the protocol implements the delayed view.                  *)
(*                                                                         *)
(* The invariant relates the client to the next message under way, each       *)
(* message to the one before it and the last one to the core.                *)
(***************************************************************************)
EXTENDS SessionSync, SequenceTheorems, TLAPS

Tables == [Nicks -> 0 .. MaxEvents]
Names == Nicks \union {""}
Networks == {"none", "up", "removed"}
AboutUsers == {"addIrcUser", "setProperty", "setNick", "quit", "initUser"}
Kinds == AboutUsers \union
    {"sessionState", "networkCreated", "networkRemoved", "setConnected", "initNetwork"}

MessageType == [kind : Kinds, nick : Names, to : Names,
                network : Networks, connected : BOOLEAN, table : Tables]

\* The message by which a client hears that the network was disconnected.
Off(m) == m.kind = "setConnected" /\ ~m.connected

\* What a message says of the moment it was sent.
Messages == {m \in MessageType :
    /\ m.kind \in AboutUsers => m.nick \in Nicks
    /\ m.kind = "setNick" => m.to \in Nicks /\ m.table[m.to] # 0 /\ m.to # m.nick
    /\ m.kind \in {"quit", "setNick"} => m.table[m.nick] = 0
    /\ m.kind \in {"addIrcUser", "setProperty", "initUser"} => m.table[m.nick] # 0
    /\ ~m.connected => m.table = NoUsers
    /\ m.kind = "networkRemoved" => m.network = "removed"
    /\ m.kind = "networkCreated" => m.network = "up"
    /\ m.connected => m.network = "up"}

Requests == {r \in [kind : {"network", "user"}, nick : Names] : r.kind = "user" => r.nick \in Nicks}

\* There was a user n before the message was sent.
Had(m, n) ==
    \/ /\ m.table[n] # 0
       /\ ~(m.kind = "addIrcUser" /\ n = m.nick)
       /\ ~(m.kind = "setNick" /\ n = m.to)
    \/ m.kind \in {"quit", "setNick"} /\ n = m.nick

\* What a table t has of users is what the message leaves of them, or changes.
Fits(t, m) ==
    \A n \in Nicks : t[n] # 0 /\ ~Off(m) =>
        /\ Had(m, n)
        /\ \/ t[n] = m.table[n]
           \/ m.kind \in {"setProperty", "quit"} /\ n = m.nick
           \/ m.kind = "setNick" /\ n = m.nick /\ t[n] = m.table[m.to]

ConnectedBefore(m) == IF m.kind = "setConnected" THEN ~m.connected ELSE m.connected
NetworkBefore(m) == CASE m.kind = "networkCreated" -> "none"
                      [] m.kind = "networkRemoved" -> "up"
                      [] OTHER -> m.network

\* The message m comes after a moment with this network, connection and users.
Follows(nw, c, t, m) ==
    /\ m.kind # "sessionState"
    /\ nw = NetworkBefore(m) /\ c = ConnectedBefore(m)
    /\ Fits(t, m)
    /\ \A n \in Nicks : Had(m, n) /\ ~Off(m) => t[n] # 0

Linked(s) ==
    \A i \in DOMAIN s :
        i > 1 => Follows(s[i - 1].network, s[i - 1].connected, s[i - 1].table, s[i])

Removes(m, n) == (m.kind \in {"quit", "setNick"} /\ m.nick = n) \/ Off(m)
Settles(m) == m.kind \in {"initNetwork", "networkRemoved"}
Creates(m) == m.kind \in {"networkCreated", "sessionState"}

CoreOK ==
    /\ users \in Tables /\ connected \in BOOLEAN /\ network \in Networks
    /\ connected => network = "up"
    /\ ~connected => users = NoUsers

ClientOK ==
    /\ session \in BOOLEAN /\ netConnected \in BOOLEAN /\ disturbed \in BOOLEAN
    /\ net \in {"none", "fresh", "done"}
    /\ replicas \in [Nicks -> Replicas]
    /\ \A n \in Nicks : replicas[n].settled => replicas[n].known /\ replicas[n].value # 0
    /\ net = "none" => replicas = NoReplicas /\ ~netConnected
    /\ ~session => down = <<>> /\ up = <<>> /\ net = "none"

\* The last message tells of the core as it is.
UpToDate ==
    down # <<>> => /\ down[Len(down)].network = network
                   /\ down[Len(down)].connected = connected
                   /\ down[Len(down)].table = users

\* A user of an earlier moment who is gone was removed by a message.
GoneWasSaid ==
    \A i \in DOMAIN down : \A n \in Nicks :
        down[i].table[n] # 0 /\ users[n] = 0 => \E j \in DOMAIN down : j > i /\ Removes(down[j], n)

LinesOK ==
    /\ down \in Seq(Messages) /\ up \in Seq(Requests)
    /\ Linked(down)
    /\ UpToDate
    /\ GoneWasSaid

\* The client has handled all there was up to the given moment.
At(nw, c, t) ==
    /\ net # "none" <=> nw = "up"
    /\ net = "done" => netConnected = c /\ \A n \in Nicks : t[n] # 0 => replicas[n].known
    /\ \A n \in Nicks : View[n] # 0 => View[n] = t[n]
    /\ ~disturbed => \A n \in Nicks : replicas[n].known => t[n] # 0

\* The client is about to handle m.
Before(m) ==
    /\ IF m.kind = "sessionState" THEN net = "none" ELSE net # "none" <=> NetworkBefore(m) = "up"
    /\ net = "done" => /\ netConnected = ConnectedBefore(m)
                       /\ \A n \in Nicks : Had(m, n) /\ ~Off(m) => replicas[n].known
    /\ Fits(View, m)
    /\ ~disturbed => \A n \in Nicks : replicas[n].known /\ ~Off(m) => Had(m, n)

Heard == session => IF down = <<>> THEN At(network, connected, users) ELSE Before(Head(down))

AllSettled == \A n \in Nicks : replicas[n].known => replicas[n].settled

\* What disturbs is sent to a client that knows all; and who is not settled
\* is asked about, or answered, or gone.
DisturbedAtRest ==
    ~disturbed =>
        \A i \in DOMAIN down : down[i].kind = "setNick" \/ Off(down[i]) =>
            i = 1 /\ net = "done" /\ up = <<>> /\ AllSettled

AskedAbout ==
    ~disturbed =>
        \A n \in Nicks : replicas[n].known /\ ~replicas[n].settled =>
            \/ \E i \in DOMAIN up : up[i].kind = "user" /\ up[i].nick = n
            \/ \E i \in DOMAIN down : down[i].kind \in {"initUser", "quit"} /\ down[i].nick = n

NetworkAsked == up # <<>> /\ Head(up).kind = "network"

\* A network without its initial data has no settled users, and will get it.
FreshNet ==
    net = "fresh" =>
        /\ network # "none"
        /\ \A n \in Nicks : ~replicas[n].settled
        /\ \A i \in DOMAIN down : down[i].kind = "initUser" =>
               \E j \in DOMAIN down : j < i /\ Settles(down[j])
        /\ network # "up" \/ NetworkAsked \/ \E j \in DOMAIN down : Settles(down[j])

\* While the client is to hear of the network for the first time, it has none.
NoneYet == net = "none" /\ up = <<>> /\ \A i \in DOMAIN down : down[i].kind # "initUser"

Coming ==
    /\ \A i \in DOMAIN down :
          /\ down[i].network # "none" => network # "none"
          /\ Creates(down[i]) =>
                /\ NoneYet
                /\ \A j \in DOMAIN down :
                       Creates(down[j]) /\ j # i => "none" \in {down[i].network, down[j].network}
    /\ session /\ network = "none" => NoneYet

SyncInv ==
    /\ CoreOK /\ ClientOK /\ LinesOK /\ Heard
    /\ DisturbedAtRest /\ AskedAbout /\ FreshNet /\ Coming

----------------------------------------------------------------------------
(* The lines.                                                               *)

LEMMA MessagesAre == ASSUME NEW m \in Messages PROVE m \in MessageType
  BY DEF Messages

LEMMA LinkedAppend ==
  ASSUME NEW s \in Seq(Messages), NEW m \in Messages, Linked(s),
         s # <<>> => Follows(s[Len(s)].network, s[Len(s)].connected, s[Len(s)].table, m)
  PROVE  Linked(Append(s, m))
<1> SUFFICES ASSUME NEW i \in DOMAIN Append(s, m), i > 1
             PROVE  Follows(Append(s, m)[i - 1].network, Append(s, m)[i - 1].connected,
                            Append(s, m)[i - 1].table, Append(s, m)[i])
  BY DEF Linked
<1>1. i \in 1 .. Len(s) + 1 /\ i - 1 \in 1 .. Len(s) /\ Append(s, m)[i - 1] = s[i - 1]
  OBVIOUS
<1>2. CASE i = Len(s) + 1
  BY <1>1, <1>2
<1>3. CASE i # Len(s) + 1
  <2>1. i \in DOMAIN s /\ Append(s, m)[i] = s[i]
    BY <1>1, <1>3
  <2> QED
    BY <1>1, <2>1 DEF Linked
<1> QED
  BY <1>2, <1>3

LEMMA LinkedTail ==
  ASSUME NEW s \in Seq(Messages), s # <<>>, Linked(s)
  PROVE  /\ Linked(Tail(s))
         /\ Tail(s) # <<>> =>
                Follows(Head(s).network, Head(s).connected, Head(s).table, Head(Tail(s)))
<1>1. \A i \in DOMAIN Tail(s) : i \in 1 .. Len(s) - 1 /\ i + 1 \in DOMAIN s /\ Tail(s)[i] = s[i + 1]
  OBVIOUS
<1>2. ASSUME NEW i \in DOMAIN Tail(s), i > 1
      PROVE  Follows(Tail(s)[i - 1].network, Tail(s)[i - 1].connected, Tail(s)[i - 1].table,
                     Tail(s)[i])
  <2>1. i - 1 \in DOMAIN Tail(s) /\ i \in Int /\ (i - 1) + 1 = i
    BY <1>1, <1>2
  <2>2. Tail(s)[i] = s[i + 1] /\ Tail(s)[i - 1] = s[i]
    BY <1>1, <2>1
  <2>3. i + 1 \in DOMAIN s /\ i + 1 > 1 /\ (i + 1) - 1 = i
    BY <1>1, <2>1
  <2> QED
    BY <2>2, <2>3 DEF Linked
<1>3. ASSUME Tail(s) # <<>>
      PROVE  Follows(Head(s).network, Head(s).connected, Head(s).table, Head(Tail(s)))
  <2>1. 2 \in DOMAIN s /\ 2 > 1 /\ 2 - 1 = 1 /\ Head(s) = s[1] /\ Head(Tail(s)) = s[2]
    BY <1>3
  <2> QED
    BY <2>1 DEF Linked
<1> QED
  BY <1>2, <1>3 DEF Linked

\* What is said of the moment before a message holds for it when it comes next.
AtThenBefore ==
    \A nw \in Networks, c \in BOOLEAN, t \in Tables, m \in Messages :
        At(nw, c, t) /\ Follows(nw, c, t, m) => Before(m)

LEMMA AtThenBeforeHolds == AtThenBefore
<1> SUFFICES ASSUME NEW nw \in Networks, NEW c \in BOOLEAN, NEW t \in Tables, NEW m \in Messages,
                    At(nw, c, t), Follows(nw, c, t, m)
             PROVE  Before(m)
  BY DEF AtThenBefore
<1>1. ASSUME NEW n \in Nicks
      PROVE  /\ View[n] # 0 => View[n] = t[n]
             /\ t[n] # 0 /\ ~Off(m) => Had(m, n)
             /\ Had(m, n) /\ ~Off(m) => t[n] # 0
  BY DEF At, Follows, Fits
<1>2. Fits(View, m)
  <2> SUFFICES ASSUME NEW n \in Nicks, View[n] # 0, ~Off(m)
               PROVE  /\ Had(m, n)
                      /\ \/ View[n] = m.table[n]
                         \/ m.kind \in {"setProperty", "quit"} /\ n = m.nick
                         \/ m.kind = "setNick" /\ n = m.nick /\ View[n] = m.table[m.to]
    BY DEF Fits
  <2> QED
    BY <1>1 DEF Follows, Fits
<1>3. net = "done" => /\ netConnected = ConnectedBefore(m)
                      /\ \A n \in Nicks : Had(m, n) /\ ~Off(m) => replicas[n].known
  BY <1>1 DEF At, Follows
<1>4. ~disturbed => \A n \in Nicks : replicas[n].known /\ ~Off(m) => Had(m, n)
  BY <1>1 DEF At
<1>5. m.kind # "sessionState" /\ (net # "none" <=> NetworkBefore(m) = "up")
  BY DEF At, Follows
<1> QED
  BY <1>2, <1>3, <1>4, <1>5 DEF Before

\* What the core sends of a step, and what it means for the client.
Announced(m) ==
    /\ m.network = network' /\ m.connected = connected' /\ m.table = users'
    /\ Follows(network, connected, users, m)
    /\ \A n \in Nicks : users[n] # 0 /\ users'[n] = 0 => Removes(m, n)
    /\ down' = IF session THEN Append(down, m) ELSE down
    /\ UNCHANGED <<session, net, netConnected, replicas>>
    /\ disturbed' \in BOOLEAN /\ (disturbed => disturbed')
    /\ up' \in Seq(Requests) /\ (up = <<>> => up' = <<>>)

LEMMA AnnouncedLines ==
  ASSUME SyncInv, NEW m \in Messages, Announced(m)
  PROVE  /\ ClientOK' /\ LinesOK'
         /\ \A i \in DOMAIN down : i \in DOMAIN down' /\ down'[i] = down[i]
         /\ \A i \in DOMAIN down' : i \in DOMAIN down \/ (session /\ i = Len(down) + 1 /\ down'[i] = m)
         /\ session => Len(down) + 1 \in DOMAIN down' /\ down'[Len(down) + 1] = m
<1> USE DEF Announced
<1>1. down \in Seq(Messages) /\ down' \in Seq(Messages) /\ Len(down) \in Nat
  BY DEF SyncInv, LinesOK
<1>2. ClientOK'
  BY DEF SyncInv, ClientOK
<1>3. CASE ~session
  <2>1. down = <<>> /\ down' = <<>>
    BY <1>3 DEF SyncInv, ClientOK
  <2>2. DOMAIN down' = {} /\ DOMAIN down = {}
    BY <2>1
  <2>3. LinesOK'
    BY <1>1, <2>1, <2>2 DEF LinesOK, Linked, UpToDate, GoneWasSaid
  <2> QED
    BY <1>2, <1>3, <2>2, <2>3
<1>4. CASE session
  <2>1. down' = Append(down, m)
    BY <1>4
  <2>2. /\ \A i \in DOMAIN down : i \in DOMAIN down' /\ down'[i] = down[i] /\ i < Len(down) + 1
        /\ \A i \in DOMAIN down' : i \in DOMAIN down \/ (i = Len(down) + 1 /\ down'[i] = m)
        /\ Len(down) + 1 \in DOMAIN down' /\ down'[Len(down) + 1] = m
        /\ Len(down') = Len(down) + 1
    BY <1>1, <2>1
  <2>3. Linked(down')
    <3>1. Linked(down)
      BY DEF SyncInv, LinesOK
    <3>2. ASSUME down # <<>>
          PROVE  Follows(down[Len(down)].network, down[Len(down)].connected, down[Len(down)].table, m)
      BY <3>2 DEF SyncInv, LinesOK, UpToDate
    <3> QED
      BY <1>1, <2>1, <3>1, <3>2, LinkedAppend
  <2>4. UpToDate'
    BY <2>2 DEF UpToDate
  <2>5. GoneWasSaid'
    <3> SUFFICES ASSUME NEW i \in DOMAIN down', NEW n \in Nicks,
                        down'[i].table[n] # 0, users'[n] = 0
                 PROVE  \E j \in DOMAIN down' : j > i /\ Removes(down'[j], n)
      BY DEF GoneWasSaid
    <3>1. i \in DOMAIN down
      BY <2>2
    <3>2. CASE users[n] = 0
      <4>1. PICK j \in DOMAIN down : j > i /\ Removes(down[j], n)
        BY <2>2, <3>1, <3>2 DEF SyncInv, LinesOK, GoneWasSaid
      <4> QED
        BY <2>2, <4>1
    <3>3. CASE users[n] # 0
      <4>1. Removes(m, n)
        BY <3>3
      <4>2. Len(down) + 1 > i
        BY <1>1, <2>2, <3>1
      <4> QED
        BY <2>2, <4>1, <4>2
    <3> QED
      BY <3>2, <3>3
  <2>6. LinesOK'
    BY <1>1, <2>3, <2>4, <2>5 DEF LinesOK
  <2> QED
    BY <1>2, <1>4, <2>2, <2>6
<1> QED
  BY <1>3, <1>4

LEMMA AnnouncedHeard ==
  ASSUME SyncInv, NEW m \in Messages, Announced(m)
  PROVE  Heard'
<1> USE DEF Announced
<1>0. CASE ~session
  BY <1>0 DEF Heard
<1> SUFFICES ASSUME session PROVE Heard'
  BY <1>0
<1>1. down \in Seq(Messages) /\ down' = Append(down, m) /\ down' # <<>>
  BY DEF SyncInv, LinesOK
<1>2. ASSUME NEW k, Before(k)
      PROVE  Before(k)'
  BY <1>2 DEF Before, View
<1>3. PICK h : h = Head(down')
  OBVIOUS
<1>4. Before(h)
  <2>1. CASE down = <<>>
    <3>1. h = m
      BY <1>1, <1>3, <2>1
    <3>2. At(network, connected, users)
      BY <2>1 DEF SyncInv, Heard
    <3> QED
      BY <3>1, <3>2, AtThenBeforeHolds DEF AtThenBefore, SyncInv, CoreOK
  <2>2. CASE down # <<>>
    <3>1. h = Head(down)
      BY <1>1, <1>3, <2>2
    <3> QED
      BY <2>2, <3>1 DEF SyncInv, Heard
  <2> QED
    BY <2>1, <2>2
<1>5. Before(h)'
  BY <1>2, <1>4
<1>6. Before(Head(down))'
  BY <1>3, <1>5 DEF Before
<1> QED
  BY <1>1, <1>6 DEF Heard

----------------------------------------------------------------------------
(* The client handles a message.                                            *)

Taken(h) ==
    /\ down # <<>> /\ h = Head(down) /\ down' = Tail(down)
    /\ UNCHANGED <<network, connected, users, session, disturbed>>

LEMMA TakenIs ==
  ASSUME SyncInv, NEW h, Taken(h)
  PROVE  /\ h \in Messages /\ session /\ Before(h)
         /\ 1 \in DOMAIN down /\ down[1] = h
         /\ \A i \in DOMAIN down' : i + 1 \in DOMAIN down /\ i + 1 > 1 /\ down'[i] = down[i + 1]
         /\ \A i \in DOMAIN down : i = 1 \/ (i - 1 \in DOMAIN down' /\ down'[i - 1] = down[i])
         /\ \A i \in DOMAIN down : i \in Nat /\ i >= 1
<1> USE DEF Taken
<1>1. down \in Seq(Messages) /\ down # <<>>
  BY DEF SyncInv, LinesOK
<1>2. h = down[1] /\ 1 \in DOMAIN down /\ h \in Messages
  BY <1>1
<1>3. session
  BY <1>1 DEF SyncInv, ClientOK
<1>4. Before(h)
  BY <1>1, <1>3 DEF SyncInv, Heard
<1>5. /\ \A i \in DOMAIN down' : i + 1 \in DOMAIN down /\ i + 1 > 1 /\ down'[i] = down[i + 1]
      /\ \A i \in DOMAIN down : i = 1 \/ (i - 1 \in DOMAIN down' /\ down'[i - 1] = down[i])
      /\ \A i \in DOMAIN down : i \in Nat /\ i >= 1
  BY <1>1
<1> QED
  BY <1>2, <1>3, <1>4, <1>5

LEMMA TakenLines ==
  ASSUME SyncInv, NEW h, Taken(h), up' \in Seq(Requests)
  PROVE  LinesOK' /\ DisturbedAtRest'
<1>1. down \in Seq(Messages) /\ down' \in Seq(Messages) /\ down' = Tail(down) /\ down # <<>>
  BY DEF SyncInv, LinesOK, Taken
<1>2. Linked(down')
  BY <1>1, LinkedTail DEF SyncInv, LinesOK
<1>3. UpToDate'
  <2> SUFFICES ASSUME down' # <<>>
               PROVE  /\ down'[Len(down')].network = network'
                      /\ down'[Len(down')].connected = connected'
                      /\ down'[Len(down')].table = users'
    BY DEF UpToDate
  <2>1. down'[Len(down')] = down[Len(down)]
    BY <1>1
  <2> QED
    BY <1>1, <2>1 DEF SyncInv, LinesOK, UpToDate, Taken
<1>4. GoneWasSaid'
  <2> SUFFICES ASSUME NEW i \in DOMAIN down', NEW n \in Nicks,
                      down'[i].table[n] # 0, users[n] = 0
               PROVE  \E j \in DOMAIN down' : j > i /\ Removes(down'[j], n)
    BY DEF GoneWasSaid, Taken
  <2>1. i + 1 \in DOMAIN down /\ down[i + 1].table[n] # 0 /\ i \in Nat
    BY <1>1, TakenIs
  <2>2. PICK j \in DOMAIN down : j > i + 1 /\ Removes(down[j], n)
    BY <2>1 DEF SyncInv, LinesOK, GoneWasSaid
  <2>3. j - 1 \in DOMAIN down' /\ j - 1 > i /\ down'[j - 1] = down[j]
    BY <1>1, <2>1, <2>2
  <2> QED
    BY <2>2, <2>3
<1>5. DisturbedAtRest'
  <2> SUFFICES ASSUME ~disturbed, NEW i \in DOMAIN down',
                      down'[i].kind = "setNick" \/ Off(down'[i])
               PROVE  FALSE
    BY DEF DisturbedAtRest, Taken
  <2>1. i + 1 \in DOMAIN down /\ i + 1 > 1 /\ down'[i] = down[i + 1]
    BY TakenIs
  <2> QED
    BY <2>1 DEF SyncInv, DisturbedAtRest
<1> QED
  BY <1>1, <1>2, <1>3, <1>4, <1>5 DEF LinesOK

LEMMA TakenHeard ==
  ASSUME SyncInv, NEW h, Taken(h), ClientOK', At(h.network, h.connected, h.table)'
  PROVE  Heard'
<1>1. down \in Seq(Messages) /\ down' = Tail(down) /\ down # <<>> /\ h = Head(down) /\ h \in Messages
  BY TakenIs DEF SyncInv, LinesOK, Taken
<1>2. CASE down' = <<>>
  <2>1. Len(down) = 1 /\ down[Len(down)] = h
    <3>1. Len(down) \in Nat /\ Len(down) # 0 /\ Len(Tail(down)) = Len(down) - 1 /\ Head(down) = down[1]
      BY <1>1
    <3>2. Len(down') = 0
      BY <1>2
    <3> QED
      BY <1>1, <3>1, <3>2
  <2>2. h.network = network' /\ h.connected = connected' /\ h.table = users'
    BY <1>1, <2>1 DEF SyncInv, LinesOK, UpToDate, Taken
  <2>3. At(network, connected, users)'
    BY <2>2 DEF At
  <2> QED
    BY <1>2, <2>3 DEF Heard
<1>3. CASE down' # <<>>
  <2>1. PICK k : k = Head(down')
    OBVIOUS
  <2>2. Follows(h.network, h.connected, h.table, k) /\ k \in Messages
    BY <1>1, <1>3, <2>1, LinkedTail DEF SyncInv, LinesOK
  <2>3. h.network \in Networks /\ h.connected \in BOOLEAN /\ h.table \in Tables
    BY <1>1 DEF Messages, MessageType
  <2>4. AtThenBefore'
    BY AtThenBeforeHolds, PTL
  <2>5. Before(k)'
    BY <2>2, <2>3, <2>4 DEF AtThenBefore
  <2>6. Before(Head(down))'
    BY <2>1, <2>5 DEF Before
  <2> QED
    BY <1>3, <2>6 DEF Heard
<1> QED
  BY <1>2, <1>3

LEMMA KeepsAsking ==
  ASSUME SyncInv, NEW h, Taken(h),
         \A i \in DOMAIN up : i \in DOMAIN up' /\ up'[i] = up[i],
         \A n \in Nicks : ~disturbed /\ replicas'[n].known /\ ~replicas'[n].settled =>
             \/ /\ replicas[n].known /\ ~replicas[n].settled
                /\ ~(h.kind \in {"initUser", "quit"} /\ h.nick = n)
             \/ \E i \in DOMAIN up' : up'[i].kind = "user" /\ up'[i].nick = n
  PROVE  AskedAbout'
<1> SUFFICES ASSUME ~disturbed, NEW n \in Nicks, replicas'[n].known, ~replicas'[n].settled
             PROVE  \/ \E i \in DOMAIN up' : up'[i].kind = "user" /\ up'[i].nick = n
                    \/ \E i \in DOMAIN down' : down'[i].kind \in {"initUser", "quit"} /\ down'[i].nick = n
  BY DEF AskedAbout, Taken
<1>1. CASE \E i \in DOMAIN up' : up'[i].kind = "user" /\ up'[i].nick = n
  BY <1>1
<1>2. CASE /\ replicas[n].known /\ ~replicas[n].settled
           /\ ~(h.kind \in {"initUser", "quit"} /\ h.nick = n)
  <2>1. CASE \E i \in DOMAIN up : up[i].kind = "user" /\ up[i].nick = n
    BY <2>1
  <2>2. CASE \E i \in DOMAIN down : down[i].kind \in {"initUser", "quit"} /\ down[i].nick = n
    <3>1. PICK i \in DOMAIN down : down[i].kind \in {"initUser", "quit"} /\ down[i].nick = n
      BY <2>2
    <3>2. i - 1 \in DOMAIN down' /\ down'[i - 1] = down[i]
      BY <1>2, <3>1, TakenIs
    <3> QED
      BY <3>1, <3>2
  <2> QED
    BY <1>2, <2>1, <2>2 DEF SyncInv, AskedAbout
<1> QED
  BY <1>1, <1>2

LEMMA KeepsFresh ==
  ASSUME SyncInv, NEW h, Taken(h), net' = net, ~Settles(h),
         net = "fresh" => \A n \in Nicks : ~replicas'[n].settled,
         up # <<>> => up' # <<>> /\ Head(up') = Head(up)
  PROVE  FreshNet'
<1> SUFFICES ASSUME net = "fresh"
             PROVE  FreshNet'
  BY DEF FreshNet
<1>1. network' # "none" /\ \A n \in Nicks : ~replicas'[n].settled
  BY DEF SyncInv, FreshNet, Taken
<1>2. ASSUME NEW j \in DOMAIN down, Settles(down[j])
      PROVE  j - 1 \in DOMAIN down' /\ Settles(down'[j - 1])
  BY <1>2, TakenIs
<1>3. ASSUME NEW i \in DOMAIN down', down'[i].kind = "initUser"
      PROVE  \E j \in DOMAIN down' : j < i /\ Settles(down'[j])
  <2>1. i + 1 \in DOMAIN down /\ down[i + 1].kind = "initUser"
    BY <1>3, TakenIs
  <2>2. PICK j \in DOMAIN down : j < i + 1 /\ Settles(down[j])
    BY <2>1 DEF SyncInv, FreshNet
  <2>3. j \in Nat /\ i + 1 \in Nat /\ i \in Int
    BY <2>1, <2>2, TakenIs DEF SyncInv, LinesOK, Taken
  <2>4. j - 1 < i
    BY <2>2, <2>3
  <2> QED
    BY <1>2, <2>2, <2>4
<1>4. network' # "up" \/ NetworkAsked' \/ \E j \in DOMAIN down' : Settles(down'[j])
  <2>1. CASE network # "up"
    BY <2>1 DEF Taken
  <2>2. CASE NetworkAsked
    BY <2>2 DEF NetworkAsked
  <2>3. CASE \E j \in DOMAIN down : Settles(down[j])
    BY <1>2, <2>3
  <2> QED
    BY <2>1, <2>2, <2>3 DEF SyncInv, FreshNet
<1> QED
  BY <1>1, <1>3, <1>4 DEF FreshNet

LEMMA KeepsComing ==
  ASSUME SyncInv, NEW h, Taken(h),
         \/ net' = net /\ up' = up
         \/ net # "none"
         \/ Creates(h) /\ h.network = "up"
  PROVE  Coming'
<1>1. \A i \in DOMAIN down' : i + 1 \in DOMAIN down /\ i + 1 # 1 /\ down'[i] = down[i + 1] /\ i \in Int
  BY TakenIs DEF SyncInv, LinesOK, Taken
<1>2. ASSUME NEW i \in DOMAIN down'
      PROVE  down'[i].network # "none" => network' # "none"
  BY <1>1 DEF SyncInv, Coming, Taken
<1>3. CASE net' = net /\ up' = up
  <2>1. ASSUME NoneYet
        PROVE  NoneYet'
    BY <1>1, <1>3, <2>1 DEF NoneYet
  <2>2. ASSUME NEW i \in DOMAIN down', Creates(down'[i])
        PROVE  /\ NoneYet'
               /\ \A j \in DOMAIN down' :
                      Creates(down'[j]) /\ j # i => "none" \in {down'[i].network, down'[j].network}
    <3>1. i + 1 \in DOMAIN down /\ down'[i] = down[i + 1] /\ i \in Int
      BY <1>1
    <3>2. NoneYet
      BY <2>2, <3>1 DEF SyncInv, Coming
    <3>3. ASSUME NEW j \in DOMAIN down', Creates(down'[j]), j # i
          PROVE  "none" \in {down'[i].network, down'[j].network}
      <4>1. j + 1 \in DOMAIN down /\ down'[j] = down[j + 1] /\ j + 1 # i + 1
        BY <1>1, <3>1, <3>3
      <4> QED
        BY <2>2, <3>1, <3>3, <4>1 DEF SyncInv, Coming
    <3> QED
      BY <2>1, <3>2, <3>3
  <2>3. session' /\ network' = "none" => NoneYet'
    BY <2>1 DEF SyncInv, Coming, Taken
  <2> QED
    BY <1>2, <2>2, <2>3 DEF Coming
<1>4. CASE net # "none"
  <2>1. \A i \in DOMAIN down' : ~Creates(down'[i])
    BY <1>1, <1>4 DEF SyncInv, Coming, NoneYet
  <2>2. ~(session' /\ network' = "none")
    BY <1>4 DEF SyncInv, Coming, NoneYet, Taken
  <2> QED
    BY <1>2, <2>1, <2>2 DEF Coming
<1>5. CASE Creates(h) /\ h.network = "up"
  <2>1. ASSUME NEW i \in DOMAIN down', Creates(down'[i])
        PROVE  FALSE
    <3>1. PICK k \in DOMAIN down : k # 1 /\ k > 1 /\ down[k] = down'[i]
      BY <1>1, TakenIs
    <3>2. Creates(down[k]) /\ down[k].kind # "sessionState" /\ down[k] \in Messages
      BY <2>1, <3>1 DEF SyncInv, LinesOK, Linked, Follows
    <3>3. down[k].network = "up"
      BY <3>2 DEF Creates, Messages
    <3>4. 1 \in DOMAIN down /\ down[1] = h
      BY TakenIs
    <3>5. "none" \in {down[1].network, down[k].network}
      BY <1>5, <3>1, <3>2, <3>4 DEF SyncInv, Coming
    <3> QED
      BY <1>5, <3>3, <3>4, <3>5
  <2>2. network # "none"
    BY <1>5, TakenIs DEF SyncInv, Coming
  <2> QED
    BY <1>2, <2>1, <2>2 DEF Coming, Taken
<1> QED
  BY <1>3, <1>4, <1>5

\* What a handler makes of the client.
Handled(h) ==
    /\ up' \in Seq(Requests) /\ ClientOK'
    /\ At(h.network, h.connected, h.table)'
    /\ \A n \in Nicks : View[n] # 0 /\ View[n] = h.table[n] => View'[n] = View[n]
    /\ AskedAbout' /\ FreshNet' /\ Coming'

LEMMA RequestIsAdded ==
  ASSUME SyncInv, NEW r \in Requests, up' = Append(up, r)
  PROVE  /\ up' \in Seq(Requests)
         /\ \A i \in DOMAIN up : i \in DOMAIN up' /\ up'[i] = up[i]
         /\ up # <<>> => up' # <<>> /\ Head(up') = Head(up)
         /\ up = <<>> => up' # <<>> /\ Head(up') = r
         /\ Len(up) + 1 \in DOMAIN up' /\ up'[Len(up) + 1] = r
<1>1. up \in Seq(Requests)
  BY DEF SyncInv, LinesOK
<1> QED
  BY <1>1

LEMMA ViewOf ==
  ASSUME NEW n \in Nicks
  PROVE  View[n] = IF replicas[n].settled THEN replicas[n].value ELSE 0
  BY DEF View

LEMMA NobodyIs ==
  /\ Nobody \in Replicas /\ ~Nobody.known /\ ~Nobody.settled
  /\ NoReplicas \in [Nicks -> Replicas]
  /\ \A n \in Nicks : NoReplicas[n] = Nobody
  BY BoundsAssumption DEF Nobody, Replicas, NoReplicas

LEMMA ClientTypes ==
  ASSUME SyncInv
  PROVE  /\ replicas \in [Nicks -> Replicas] /\ up \in Seq(Requests)
         /\ \A n \in Nicks : /\ replicas[n] \in Replicas
                             /\ replicas[n].known \in BOOLEAN /\ replicas[n].settled \in BOOLEAN
                             /\ replicas[n].value \in 0 .. MaxEvents
                             /\ replicas[n].settled => replicas[n].known /\ replicas[n].value # 0
         /\ net \in {"none", "fresh", "done"} /\ netConnected \in BOOLEAN /\ session \in BOOLEAN
         /\ disturbed \in BOOLEAN
         /\ net = "none" => replicas = NoReplicas /\ ~netConnected
  BY DEF SyncInv, ClientOK, LinesOK, Replicas

\* A network that comes into being at the client.
LEMMA NetworkComes ==
  ASSUME SyncInv, NEW h, Taken(h), Creates(h), h.network = "up",
         net' = "fresh", up' = Append(up, Request("network", "")),
         UNCHANGED <<netConnected, replicas>>
  PROVE  Handled(h)
<1>1. h \in Messages /\ Before(h) /\ 1 \in DOMAIN down /\ down[1] = h /\ session
  BY TakenIs
<1>2. NoneYet /\ network # "none"
  BY <1>1 DEF SyncInv, Coming
<1>3. replicas' = NoReplicas /\ replicas = NoReplicas
  BY <1>2, ClientTypes DEF NoneYet
<1>4. Request("network", "") \in Requests /\ Request("network", "").kind = "network"
  BY DEF Request, Requests, Names
<1>5. \A n \in Nicks : ~replicas'[n].known /\ ~replicas'[n].settled /\ View'[n] = View[n] /\ View[n] = 0
  BY <1>3, NobodyIs DEF View
<1>6. ClientOK'
  <2>1. \A n \in Nicks : replicas'[n].settled => replicas'[n].known /\ replicas'[n].value # 0
    BY <1>5
  <2> QED
    BY <1>1, <2>1 DEF SyncInv, ClientOK, Taken
<1>7. At(h.network, h.connected, h.table)'
  BY <1>5 DEF At
<1>8. AskedAbout'
  BY <1>5 DEF AskedAbout
<1>9. FreshNet'
  <2>1. \A i \in DOMAIN down' : down'[i].kind # "initUser"
    <3>1. \A i \in DOMAIN down' : i + 1 \in DOMAIN down /\ down'[i] = down[i + 1]
      BY TakenIs
    <3> QED
      BY <1>2, <3>1 DEF NoneYet
  <2>2. NetworkAsked'
    BY <1>2, <1>4, RequestIsAdded DEF NoneYet, NetworkAsked
  <2> QED
    BY <1>2, <1>5, <2>1, <2>2 DEF FreshNet, Taken
<1>10. Coming'
  BY KeepsComing
<1>11. up' \in Seq(Requests)
  BY <1>4, RequestIsAdded
<1> QED
  BY <1>5, <1>6, <1>7, <1>8, <1>9, <1>10, <1>11 DEF Handled

LEMMA SessionStateHandled ==
  ASSUME SyncInv, NEW h, h = Head(down), HandleSessionState
  PROVE  Taken(h) /\ Handled(h)
<1>1. Taken(h)
  BY DEF HandleSessionState, Handle, Message, Taken, coreVars, countVars
<1>2. h \in Messages /\ h.kind = "sessionState" /\ Creates(h) /\ Before(h)
  BY <1>1, TakenIs DEF HandleSessionState, Handle, Message, Creates
<1>3. CASE h.network = "up"
  <2>1. /\ net' = "fresh" /\ up' = Append(up, Request("network", ""))
        /\ UNCHANGED <<netConnected, replicas>>
    BY <1>3 DEF HandleSessionState, Message
  <2> QED
    BY <1>1, <1>2, <1>3, <2>1, NetworkComes
<1>4. CASE h.network # "up"
  <2>1. UNCHANGED <<net, up, netConnected, replicas>>
    BY <1>4 DEF HandleSessionState, Message
  <2>2. net = "none"
    BY <1>2 DEF Before
  <2>3. \A n \in Nicks : ~replicas'[n].known /\ ~replicas'[n].settled /\ View'[n] = View[n] /\ View[n] = 0
    BY <2>1, <2>2, NobodyIs, ClientTypes DEF View
  <2>4. ClientOK' /\ up' \in Seq(Requests)
    BY <1>1, <2>1, <2>2, TakenIs DEF SyncInv, ClientOK, LinesOK, Taken
  <2>5. At(h.network, h.connected, h.table)'
    BY <1>4, <2>1, <2>2, <2>3 DEF At
  <2>6. AskedAbout' /\ FreshNet'
    BY <2>1, <2>2, <2>3 DEF AskedAbout, FreshNet
  <2>7. Coming'
    BY <1>1, <2>1, KeepsComing
  <2> QED
    BY <1>1, <2>3, <2>4, <2>5, <2>6, <2>7 DEF Handled
<1> QED
  BY <1>3, <1>4

LEMMA NetworkCreatedHandled ==
  ASSUME SyncInv, NEW h, h = Head(down), HandleNetworkCreated
  PROVE  Taken(h) /\ Handled(h)
<1>1. Taken(h)
  BY DEF HandleNetworkCreated, Handle, Message, Taken, coreVars, countVars
<1>2. h \in Messages /\ h.kind = "networkCreated" /\ Before(h)
  BY <1>1, TakenIs DEF HandleNetworkCreated, Handle, Message
<1>3. Creates(h) /\ h.network = "up" /\ net = "none"
  BY <1>2, ClientTypes DEF Creates, Messages, Before, NetworkBefore
<1>4. /\ net' = "fresh" /\ up' = Append(up, Request("network", ""))
      /\ UNCHANGED <<netConnected, replicas>>
  BY <1>3 DEF HandleNetworkCreated
<1> QED
  BY <1>1, <1>3, <1>4, NetworkComes

LEMMA NetworkRemovedHandled ==
  ASSUME SyncInv, NEW h, h = Head(down), HandleNetworkRemoved
  PROVE  Taken(h) /\ Handled(h)
<1>1. Taken(h)
  BY DEF HandleNetworkRemoved, Handle, Message, Taken, coreVars, countVars
<1>2. h \in Messages /\ h.kind = "networkRemoved" /\ Before(h)
  BY <1>1, TakenIs DEF HandleNetworkRemoved, Handle, Message
<1>3. net # "none"
  BY <1>2 DEF Before, NetworkBefore
<1>4. h.network = "removed" /\ ~h.connected /\ h.table = NoUsers
  BY <1>2 DEF Messages
<1>5. net' = "none" /\ ~netConnected' /\ netConnected' = FALSE /\ replicas' = NoReplicas /\ up' = up
  BY DEF HandleNetworkRemoved
<1>6. \A n \in Nicks : ~replicas'[n].known /\ ~replicas'[n].settled /\ View'[n] = 0 /\ h.table[n] = 0
  BY <1>4, <1>5, NobodyIs DEF View, NoUsers
<1>7. ClientOK' /\ up' \in Seq(Requests)
  BY <1>1, <1>5, <1>6, TakenIs, NobodyIs, ClientTypes DEF ClientOK, Taken
<1>8. At(h.network, h.connected, h.table)'
  BY <1>4, <1>5, <1>6 DEF At
<1>9. AskedAbout' /\ FreshNet'
  BY <1>5, <1>6 DEF AskedAbout, FreshNet
<1>10. Coming'
  BY <1>1, <1>3, KeepsComing
<1> QED
  BY <1>1, <1>6, <1>7, <1>8, <1>9, <1>10 DEF Handled

\* The parts of Handled() a handler of the users has in common.
LEMMA UsersHandled ==
  ASSUME SyncInv, NEW h, Taken(h), ~Settles(h), UNCHANGED net,
         netConnected' \in BOOLEAN, net = "none" => UNCHANGED <<replicas, netConnected>>,
         replicas' \in [Nicks -> Replicas],
         \A n \in Nicks : replicas'[n].settled =>
             replicas'[n].known /\ replicas'[n].value # 0 /\ net # "fresh"
  PROVE  /\ ClientOK'
         /\ up' = up => FreshNet' /\ Coming'
         /\ \A r \in Requests : up' = Append(up, r) /\ net # "none" =>
                FreshNet' /\ Coming' /\ up' \in Seq(Requests)
<1>1. ClientOK'
  BY TakenIs, ClientTypes DEF ClientOK, Taken
<1>2. ASSUME up' = up
      PROVE  FreshNet' /\ Coming'
  BY <1>2, KeepsFresh, KeepsComing
<1>3. ASSUME NEW r \in Requests, up' = Append(up, r), net # "none"
      PROVE  FreshNet' /\ Coming' /\ up' \in Seq(Requests)
  BY <1>3, KeepsFresh, KeepsComing, RequestIsAdded
<1> QED
  BY <1>1, <1>2, <1>3

LEMMA FreshHasNobody ==
  ASSUME SyncInv, net = "fresh", NEW n \in Nicks
  PROVE  ~replicas[n].settled
  BY DEF SyncInv, FreshNet

\* What becomes of one replica.
LEMMA ReplicaChanged ==
  ASSUME NEW r \in Replicas, NEW v \in 0 .. MaxEvents
  PROVE  /\ [r EXCEPT !.value = v] \in Replicas
         /\ [r EXCEPT !.value = v].known = r.known
         /\ [r EXCEPT !.value = v].settled = r.settled
         /\ [r EXCEPT !.value = v].value = v
         /\ [r EXCEPT !.settled = TRUE, !.value = v] \in Replicas
         /\ [r EXCEPT !.settled = TRUE, !.value = v].known = r.known
         /\ [r EXCEPT !.settled = TRUE, !.value = v].settled
         /\ [r EXCEPT !.settled = TRUE, !.value = v].value = v
  BY DEF Replicas

LEMMA ReplicaKnown ==
  ASSUME NEW r \in Replicas
  PROVE  /\ [r EXCEPT !.known = TRUE] \in Replicas
         /\ [r EXCEPT !.known = TRUE].known
         /\ [r EXCEPT !.known = TRUE].settled = r.settled
         /\ [r EXCEPT !.known = TRUE].value = r.value
  BY DEF Replicas

LEMMA ReplicaReplaced ==
  ASSUME SyncInv, NEW k \in Nicks, NEW r \in Replicas, replicas' = [replicas EXCEPT ![k] = r]
  PROVE  /\ replicas' \in [Nicks -> Replicas] /\ replicas'[k] = r
         /\ \A n \in Nicks : n # k => replicas'[n] = replicas[n] /\ View'[n] = View[n]
         /\ View'[k] = IF r.settled THEN r.value ELSE 0
<1>1. replicas \in [Nicks -> Replicas]
  BY ClientTypes
<1>2. /\ replicas' \in [Nicks -> Replicas] /\ replicas'[k] = r
      /\ \A n \in Nicks : n # k => replicas'[n] = replicas[n]
  BY <1>1
<1> QED
  BY <1>2 DEF View

LEMMA SetConnectedHandled ==
  ASSUME SyncInv, NEW h, h = Head(down), HandleSetConnected
  PROVE  Taken(h) /\ Handled(h)
<1>1. Taken(h)
  BY DEF HandleSetConnected, Handle, Message, Taken, coreVars, countVars
<1>2. h \in Messages /\ h.kind = "setConnected" /\ Before(h) /\ 1 \in DOMAIN down /\ down[1] = h
  BY <1>1, TakenIs DEF HandleSetConnected, Handle, Message
<1>3. h.connected \in BOOLEAN /\ (~h.connected => h.table = NoUsers) /\ (Off(h) <=> ~h.connected)
  BY <1>2 DEF Messages, MessageType, Off
<1>4. /\ net' = net /\ up' = up
      /\ IF net # "none" /\ netConnected # h.connected
         THEN /\ netConnected' = h.connected
              /\ replicas' = IF h.connected THEN replicas ELSE NoReplicas
         ELSE UNCHANGED <<netConnected, replicas>>
  BY DEF HandleSetConnected, Message
<1>5. replicas' = replicas \/ (replicas' = NoReplicas /\ ~h.connected)
  BY <1>4
<1>6. ~Settles(h)
  BY <1>2 DEF Settles
<1>7. replicas' \in [Nicks -> Replicas] /\ netConnected' \in BOOLEAN
  BY <1>3, <1>4, <1>5, ClientTypes, NobodyIs
<1>8. ASSUME NEW n \in Nicks
      PROVE  /\ replicas'[n].known => replicas[n].known
             /\ replicas'[n].settled => replicas[n].settled
             /\ replicas'[n].settled => replicas'[n].known /\ replicas'[n].value # 0 /\ net # "fresh"
             /\ replicas'[n].known => replicas'[n] = replicas[n]
             /\ View'[n] = 0 \/ View'[n] = View[n]
  BY <1>5, ClientTypes, NobodyIs, FreshHasNobody DEF View
<1>9. ClientOK' /\ FreshNet' /\ Coming'
  BY <1>1, <1>4, <1>6, <1>7, <1>8, UsersHandled
<1>10. AskedAbout'
  BY <1>1, <1>2, <1>4, <1>8, KeepsAsking
<1>11. net # "none" <=> h.network = "up"
  BY <1>2 DEF Before, NetworkBefore
<1>12. CASE h.connected
  <2>1. replicas' = replicas /\ View' = View
    BY <1>5, <1>12 DEF View
  <2>2. \A n \in Nicks : Had(h, n) <=> h.table[n] # 0
    BY <1>2 DEF Had
  <2>3. ~Off(h)
    BY <1>3, <1>12
  <2>4. net = "done" => netConnected' = h.connected /\ \A n \in Nicks : h.table[n] # 0 => replicas[n].known
    BY <1>2, <1>3, <1>4, <2>2, <2>3, ClientTypes DEF Before
  <2>5. \A n \in Nicks : View[n] # 0 => View[n] = h.table[n]
    BY <1>2, <2>3 DEF Before, Fits
  <2>6. ~disturbed => \A n \in Nicks : replicas[n].known => h.table[n] # 0
    BY <1>2, <2>2, <2>3 DEF Before
  <2>7. At(h.network, h.connected, h.table)'
    BY <1>1, <1>4, <1>11, <2>1, <2>4, <2>5, <2>6 DEF At, Taken
  <2> QED
    BY <1>1, <1>4, <1>9, <1>10, <2>1, <2>7, ClientTypes DEF Handled
<1>13. CASE ~h.connected
  <2>1. \A n \in Nicks : h.table[n] = 0
    BY <1>3, <1>13 DEF NoUsers
  <2>2. ASSUME net = "done"
        PROVE  replicas' = NoReplicas /\ netConnected' = h.connected
    <3>1. netConnected = TRUE
      BY <1>2, <1>13, <2>2 DEF Before, ConnectedBefore
    <3> QED
      BY <1>3, <1>4, <1>13, <2>2, <3>1
  <2>3. ASSUME net # "done", NEW n \in Nicks
        PROVE  View[n] = 0
    BY <2>3, ClientTypes, NobodyIs, FreshHasNobody DEF View
  <2>4. ASSUME NEW n \in Nicks
        PROVE  View'[n] = 0
    BY <1>8, <2>2, <2>3, NobodyIs DEF View
  <2>5. ASSUME ~disturbed, NEW n \in Nicks
        PROVE  ~replicas'[n].known
    <3>1. net = "done"
      BY <1>2, <1>3, <1>13, <2>5 DEF SyncInv, DisturbedAtRest
    <3> QED
      BY <2>2, <3>1, NobodyIs
  <2>6. At(h.network, h.connected, h.table)'
    BY <1>1, <1>4, <1>11, <2>1, <2>2, <2>4, <2>5 DEF At, Taken
  <2>7. \A n \in Nicks : View[n] # 0 => View[n] # h.table[n]
    BY <2>1
  <2> QED
    BY <1>1, <1>4, <1>9, <1>10, <2>6, <2>7, ClientTypes DEF Handled
<1> QED
  BY <1>12, <1>13

LEMMA AddIrcUserHandled ==
  ASSUME SyncInv, NEW h, h = Head(down), HandleAddIrcUser
  PROVE  Taken(h) /\ Handled(h)
<1>1. Taken(h)
  BY DEF HandleAddIrcUser, Handle, Message, Taken, coreVars, countVars
<1>2. h \in Messages /\ h.kind = "addIrcUser" /\ Before(h)
  BY <1>1, TakenIs DEF HandleAddIrcUser, Handle, Message
<1>3. h.nick \in Nicks /\ h.table[h.nick] # 0 /\ ~Off(h) /\ ~Settles(h)
  BY <1>2 DEF Messages, AboutUsers, Off, Settles
<1>4. /\ net' = net /\ netConnected' = netConnected
      /\ IF net # "none" /\ ~replicas[h.nick].known
         THEN /\ replicas' = [replicas EXCEPT ![h.nick].known = TRUE]
              /\ up' = Append(up, Request("user", h.nick))
         ELSE UNCHANGED <<replicas, up>>
  BY DEF HandleAddIrcUser, Message
<1>5. \A n \in Nicks : Had(h, n) <=> h.table[n] # 0 /\ n # h.nick
  BY <1>2 DEF Had
<1>6. PICK old \in Replicas : old = replicas[h.nick]
  BY <1>3, ClientTypes
<1>7. PICK r \in Replicas : /\ r = [old EXCEPT !.known = TRUE]
                           /\ r.known /\ r.settled = old.settled /\ r.value = old.value
  BY ReplicaKnown
<1>8. \/ replicas' = [replicas EXCEPT ![h.nick] = r]
      \/ replicas' = replicas /\ (net = "none" \/ old.known)
  BY <1>4, <1>6, <1>7
<1>9. replicas' \in [Nicks -> Replicas]
  BY <1>3, <1>8, ClientTypes, ReplicaReplaced
<1>10. ASSUME NEW n \in Nicks
       PROVE  /\ replicas'[n].settled = replicas[n].settled /\ replicas'[n].value = replicas[n].value
              /\ replicas'[n].known => replicas[n].known \/ n = h.nick
              /\ replicas[n].known => replicas'[n].known
              /\ net # "none" => replicas'[h.nick].known
              /\ View'[n] = View[n]
  <2>1. CASE replicas' = replicas /\ (net = "none" \/ old.known)
    BY <1>6, <2>1 DEF View
  <2>2. CASE replicas' = [replicas EXCEPT ![h.nick] = r]
    <3>1. /\ replicas'[h.nick] = r /\ View'[h.nick] = IF r.settled THEN r.value ELSE 0
          /\ n # h.nick => replicas'[n] = replicas[n] /\ View'[n] = View[n]
      BY <1>3, <2>2, ReplicaReplaced
    <3>2. View[h.nick] = IF old.settled THEN old.value ELSE 0
      BY <1>3, <1>6, ViewOf
    <3> QED
      BY <1>6, <1>7, <3>1, <3>2
  <2> QED
    BY <1>8, <2>1, <2>2
<1>11. Request("user", h.nick) \in Requests
  BY <1>3 DEF Request, Requests, Names
<1>12. ClientOK' /\ FreshNet' /\ Coming' /\ up' \in Seq(Requests)
  <2>1. \A n \in Nicks : replicas'[n].settled =>
            replicas'[n].known /\ replicas'[n].value # 0 /\ net # "fresh"
    BY <1>10, ClientTypes, FreshHasNobody
  <2>2. net = "none" => UNCHANGED <<replicas, netConnected>>
    BY <1>4
  <2>3. ClientOK' /\ (up' = up => FreshNet' /\ Coming')
    BY <1>1, <1>3, <1>4, <1>9, <2>1, <2>2, ClientTypes, UsersHandled
  <2>4. CASE up' = up
    BY <2>3, <2>4, ClientTypes
  <2>5. CASE up' = Append(up, Request("user", h.nick)) /\ net # "none"
    BY <1>1, <1>3, <1>4, <1>9, <1>11, <2>1, <2>2, <2>5, ClientTypes, UsersHandled
  <2> QED
    BY <1>4, <2>3, <2>4, <2>5
<1>13. AskedAbout'
  <2>1. \A i \in DOMAIN up : i \in DOMAIN up' /\ up'[i] = up[i]
    BY <1>4, <1>11, RequestIsAdded
  <2>2. ASSUME NEW n \in Nicks, replicas'[n].known, ~replicas'[n].settled, ~replicas[n].known
        PROVE  \E i \in DOMAIN up' : up'[i].kind = "user" /\ up'[i].nick = n
    <3>1. n = h.nick /\ up' = Append(up, Request("user", h.nick))
      BY <1>4, <1>10, <2>2
    <3>2. Len(up) + 1 \in DOMAIN up' /\ up'[Len(up) + 1] = Request("user", h.nick)
      BY <1>11, <3>1, RequestIsAdded
    <3> QED
      BY <3>1, <3>2 DEF Request
  <2> QED
    BY <1>1, <1>2, <1>10, <2>1, <2>2, KeepsAsking
<1>14. At(h.network, h.connected, h.table)'
  <2>1. net # "none" <=> h.network = "up"
    BY <1>2 DEF Before, NetworkBefore
  <2>2. net = "done" => netConnected = h.connected /\ \A n \in Nicks : h.table[n] # 0 => replicas'[n].known
    BY <1>2, <1>3, <1>5, <1>10 DEF Before, ConnectedBefore
  <2>3. \A n \in Nicks : View[n] # 0 => View[n] = h.table[n]
    BY <1>2, <1>3 DEF Before, Fits
  <2>4. ~disturbed => \A n \in Nicks : replicas'[n].known => h.table[n] # 0
    BY <1>2, <1>3, <1>5, <1>10 DEF Before
  <2> QED
    BY <1>1, <1>4, <1>10, <2>1, <2>2, <2>3, <2>4 DEF At, Taken
<1> QED
  BY <1>1, <1>10, <1>12, <1>13, <1>14 DEF Handled

LEMMA SetPropertyHandled ==
  ASSUME SyncInv, NEW h, h = Head(down), HandleSetProperty
  PROVE  Taken(h) /\ Handled(h)
<1>1. Taken(h)
  BY DEF HandleSetProperty, Handle, Message, Taken, coreVars, countVars
<1>2. h \in Messages /\ h.kind = "setProperty" /\ Before(h)
  BY <1>1, TakenIs DEF HandleSetProperty, Handle, Message
<1>3. h.nick \in Nicks /\ h.table[h.nick] # 0 /\ ~Off(h) /\ ~Settles(h) /\ h.table \in Tables
  BY <1>2 DEF Messages, MessageType, AboutUsers, Off, Settles
<1>4. /\ net' = net /\ netConnected' = netConnected /\ up' = up
      /\ replicas' = IF replicas[h.nick].known
                     THEN [replicas EXCEPT ![h.nick].value = h.table[h.nick]]
                     ELSE replicas
  BY DEF HandleSetProperty, Message
<1>5. \A n \in Nicks : Had(h, n) <=> h.table[n] # 0
  BY <1>2 DEF Had
<1>6. PICK old \in Replicas : old = replicas[h.nick]
  BY <1>3, ClientTypes
<1>7. h.table[h.nick] \in 0 .. MaxEvents
  BY <1>3 DEF Tables
<1>8. PICK r \in Replicas : /\ r = [old EXCEPT !.value = h.table[h.nick]]
                            /\ r.known = old.known /\ r.settled = old.settled
                            /\ r.value = h.table[h.nick]
  BY <1>7, ReplicaChanged
<1>9. \/ replicas' = [replicas EXCEPT ![h.nick] = r] /\ old.known
      \/ replicas' = replicas /\ ~old.known
  BY <1>4, <1>6, <1>8
<1>10. replicas' \in [Nicks -> Replicas]
  BY <1>3, <1>9, ClientTypes, ReplicaReplaced
<1>11. ASSUME NEW n \in Nicks
       PROVE  /\ replicas'[n].settled = replicas[n].settled /\ replicas'[n].known = replicas[n].known
              /\ n # h.nick => View'[n] = View[n] /\ replicas'[n] = replicas[n]
              /\ replicas'[n].settled => replicas'[n].value # 0
              /\ View'[h.nick] \in {0, h.table[h.nick]}
              /\ View'[h.nick] = 0 => View[h.nick] = 0
  <2>0. /\ View[h.nick] = IF old.settled THEN old.value ELSE 0
        /\ old.settled => old.known
        /\ replicas[n].settled => replicas[n].value # 0
    BY <1>3, <1>6, ViewOf, ClientTypes
  <2>1. CASE replicas' = replicas /\ ~old.known
    BY <2>0, <2>1 DEF View
  <2>2. CASE replicas' = [replicas EXCEPT ![h.nick] = r]
    <3>1. /\ replicas'[h.nick] = r /\ View'[h.nick] = IF r.settled THEN r.value ELSE 0
          /\ n # h.nick => replicas'[n] = replicas[n] /\ View'[n] = View[n]
      BY <1>3, <2>2, ReplicaReplaced
    <3>2. View'[h.nick] \in {0, h.table[h.nick]} /\ (View'[h.nick] = 0 => View[h.nick] = 0)
      BY <1>3, <1>8, <2>0, <3>1
    <3>3. CASE n = h.nick
      BY <1>3, <1>6, <1>8, <3>1, <3>2, <3>3
    <3>4. CASE n # h.nick
      BY <2>0, <3>1, <3>2, <3>4
    <3> QED
      BY <3>3, <3>4
  <2> QED
    BY <1>9, <2>1, <2>2
<1>12. ClientOK' /\ FreshNet' /\ Coming' /\ up' \in Seq(Requests)
  <2>1. \A n \in Nicks : replicas'[n].settled =>
            replicas'[n].known /\ replicas'[n].value # 0 /\ net # "fresh"
    BY <1>11, ClientTypes, FreshHasNobody
  <2>2. net = "none" => UNCHANGED <<replicas, netConnected>>
    BY <1>3, <1>4, <1>6, <1>9, ClientTypes, NobodyIs
  <2> QED
    BY <1>1, <1>3, <1>4, <1>10, <2>1, <2>2, ClientTypes, UsersHandled
<1>13. AskedAbout'
  BY <1>1, <1>2, <1>4, <1>11, KeepsAsking
<1>14. At(h.network, h.connected, h.table)'
  <2>1. net # "none" <=> h.network = "up"
    BY <1>2 DEF Before, NetworkBefore
  <2>2. net = "done" => netConnected = h.connected /\ \A n \in Nicks : h.table[n] # 0 => replicas'[n].known
    BY <1>2, <1>3, <1>5, <1>11 DEF Before, ConnectedBefore
  <2>3. \A n \in Nicks : View[n] # 0 /\ n # h.nick => View[n] = h.table[n]
    BY <1>2, <1>3 DEF Before, Fits
  <2>4. ~disturbed => \A n \in Nicks : replicas'[n].known => h.table[n] # 0
    BY <1>2, <1>3, <1>5, <1>11 DEF Before
  <2> QED
    BY <1>1, <1>4, <1>11, <2>1, <2>2, <2>3, <2>4 DEF At, Taken
<1>15. ASSUME NEW n \in Nicks, View[n] # 0, View[n] = h.table[n]
       PROVE  View'[n] = View[n]
  BY <1>11, <1>15
<1> QED
  BY <1>1, <1>12, <1>13, <1>14, <1>15 DEF Handled

LEMMA QuitHandled ==
  ASSUME SyncInv, NEW h, h = Head(down), HandleQuit
  PROVE  Taken(h) /\ Handled(h)
<1>1. Taken(h)
  BY DEF HandleQuit, Handle, Message, Taken, coreVars, countVars
<1>2. h \in Messages /\ h.kind = "quit" /\ Before(h)
  BY <1>1, TakenIs DEF HandleQuit, Handle, Message
<1>3. h.nick \in Nicks /\ h.table[h.nick] = 0 /\ ~Off(h) /\ ~Settles(h)
  BY <1>2 DEF Messages, AboutUsers, Off, Settles
<1>4. /\ net' = net /\ netConnected' = netConnected /\ up' = up
      /\ replicas' = [replicas EXCEPT ![h.nick] = Nobody]
  BY DEF HandleQuit, Message, Without
<1>5. \A n \in Nicks : n # h.nick => (Had(h, n) <=> h.table[n] # 0)
  BY <1>2 DEF Had
<1>6. ASSUME NEW n \in Nicks
      PROVE  /\ replicas' \in [Nicks -> Replicas]
             /\ n # h.nick => View'[n] = View[n] /\ replicas'[n] = replicas[n]
             /\ View'[h.nick] = 0 /\ ~replicas'[h.nick].known /\ ~replicas'[h.nick].settled
  BY <1>3, <1>4, ReplicaReplaced, NobodyIs
<1>7. ClientOK' /\ FreshNet' /\ Coming' /\ up' \in Seq(Requests)
  <2>1. \A n \in Nicks : replicas'[n].settled =>
            replicas'[n].known /\ replicas'[n].value # 0 /\ net # "fresh"
    BY <1>6, ClientTypes, FreshHasNobody
  <2>2. net = "none" => UNCHANGED <<replicas, netConnected>>
    BY <1>3, <1>4, ClientTypes DEF NoReplicas
  <2> QED
    BY <1>1, <1>3, <1>4, <1>6, <2>1, <2>2, ClientTypes, UsersHandled
<1>8. AskedAbout'
  BY <1>1, <1>4, <1>6, KeepsAsking
<1>9. At(h.network, h.connected, h.table)'
  <2>1. net # "none" <=> h.network = "up"
    BY <1>2 DEF Before, NetworkBefore
  <2>2. net = "done" => netConnected = h.connected /\ \A n \in Nicks : h.table[n] # 0 => replicas'[n].known
    BY <1>2, <1>3, <1>5, <1>6 DEF Before, ConnectedBefore
  <2>3. \A n \in Nicks : View[n] # 0 /\ n # h.nick => View[n] = h.table[n]
    BY <1>2, <1>3 DEF Before, Fits
  <2>4. ~disturbed => \A n \in Nicks : replicas'[n].known => h.table[n] # 0
    BY <1>2, <1>3, <1>5, <1>6 DEF Before
  <2> QED
    BY <1>1, <1>3, <1>4, <1>6, <2>1, <2>2, <2>3, <2>4 DEF At, Taken
<1>10. ASSUME NEW n \in Nicks, View[n] # 0, View[n] = h.table[n]
       PROVE  View'[n] = View[n]
  BY <1>3, <1>6, <1>10
<1> QED
  BY <1>1, <1>7, <1>8, <1>9, <1>10 DEF Handled

LEMMA InitUserHandled ==
  ASSUME SyncInv, NEW h, h = Head(down), HandleInitUser
  PROVE  Taken(h) /\ Handled(h)
<1>1. Taken(h)
  BY DEF HandleInitUser, Handle, Message, Taken, coreVars, countVars
<1>2. h \in Messages /\ h.kind = "initUser" /\ Before(h) /\ 1 \in DOMAIN down /\ down[1] = h
  BY <1>1, TakenIs DEF HandleInitUser, Handle, Message
<1>3. h.nick \in Nicks /\ h.table[h.nick] # 0 /\ ~Off(h) /\ ~Settles(h) /\ h.table \in Tables
  BY <1>2 DEF Messages, MessageType, AboutUsers, Off, Settles
<1>4. PICK old \in Replicas : old = replicas[h.nick]
  BY <1>3, ClientTypes
<1>5. /\ net' = net /\ netConnected' = netConnected /\ up' = up
      /\ replicas' = IF old.known /\ ~old.settled
                     THEN [replicas EXCEPT ![h.nick] =
                              [@ EXCEPT !.settled = TRUE, !.value = h.table[h.nick]]]
                     ELSE replicas
  BY <1>4 DEF HandleInitUser, Message
<1>6. \A n \in Nicks : Had(h, n) <=> h.table[n] # 0
  BY <1>2 DEF Had
<1>7. h.table[h.nick] \in 0 .. MaxEvents
  BY <1>3 DEF Tables
<1>8. PICK r \in Replicas : /\ r = [old EXCEPT !.settled = TRUE, !.value = h.table[h.nick]]
                            /\ r.known = old.known /\ r.settled /\ r.value = h.table[h.nick]
  BY <1>7, ReplicaChanged
<1>9. \/ replicas' = [replicas EXCEPT ![h.nick] = r] /\ old.known
      \/ replicas' = replicas /\ (old.known => old.settled)
  BY <1>4, <1>5, <1>8
<1>10. replicas' \in [Nicks -> Replicas]
  BY <1>3, <1>9, ClientTypes, ReplicaReplaced
<1>11. net # "fresh"
  <2>1. \A j \in DOMAIN down : ~(j < 1)
    BY <1>1, TakenIs
  <2> QED
    BY <1>2, <2>1 DEF SyncInv, FreshNet
<1>12. \A n \in Nicks : View[n] # 0 => View[n] = h.table[n]
  BY <1>2, <1>3 DEF Before, Fits
<1>13. ASSUME NEW n \in Nicks
       PROVE  /\ replicas'[n].known = replicas[n].known
              /\ n # h.nick => View'[n] = View[n] /\ replicas'[n] = replicas[n]
              /\ replicas'[n].settled => replicas'[n].known /\ replicas'[n].value # 0
              /\ replicas'[h.nick].known => replicas'[h.nick].settled
              /\ View'[h.nick] \in {0, h.table[h.nick]}
              /\ View'[h.nick] = 0 => View[h.nick] = 0
  <2>0. /\ View[h.nick] = IF old.settled THEN old.value ELSE 0
        /\ replicas[n].settled => replicas[n].known /\ replicas[n].value # 0
    BY <1>3, <1>4, ViewOf, ClientTypes
  <2>1. CASE replicas' = replicas /\ (old.known => old.settled)
    <3>1. View' = View
      BY <2>1 DEF View
    <3> QED
      BY <1>3, <1>4, <1>12, <2>0, <2>1, <3>1
  <2>2. CASE replicas' = [replicas EXCEPT ![h.nick] = r] /\ old.known
    <3>1. /\ replicas'[h.nick] = r /\ View'[h.nick] = IF r.settled THEN r.value ELSE 0
          /\ n # h.nick => replicas'[n] = replicas[n] /\ View'[n] = View[n]
      BY <1>3, <2>2, ReplicaReplaced
    <3>2. /\ View'[h.nick] \in {0, h.table[h.nick]} /\ (View'[h.nick] = 0 => View[h.nick] = 0)
          /\ replicas'[h.nick].settled
      BY <1>3, <1>8, <3>1
    <3>3. CASE n = h.nick
      BY <1>3, <1>4, <1>8, <2>2, <3>1, <3>2, <3>3
    <3>4. CASE n # h.nick
      BY <2>0, <3>1, <3>2, <3>4
    <3> QED
      BY <3>3, <3>4
  <2> QED
    BY <1>9, <2>1, <2>2
<1>14. ClientOK' /\ FreshNet' /\ Coming' /\ up' \in Seq(Requests)
  <2>1. net = "none" => UNCHANGED <<replicas, netConnected>>
    BY <1>3, <1>4, <1>5, <1>9, ClientTypes, NobodyIs
  <2> QED
    BY <1>1, <1>3, <1>5, <1>10, <1>11, <1>13, <2>1, ClientTypes, UsersHandled
<1>15. AskedAbout'
  BY <1>1, <1>3, <1>5, <1>13, KeepsAsking
<1>16. At(h.network, h.connected, h.table)'
  <2>1. net # "none" <=> h.network = "up"
    BY <1>2 DEF Before, NetworkBefore
  <2>2. net = "done" => netConnected = h.connected /\ \A n \in Nicks : h.table[n] # 0 => replicas'[n].known
    BY <1>2, <1>3, <1>6, <1>13 DEF Before, ConnectedBefore
  <2>3. ~disturbed => \A n \in Nicks : replicas'[n].known => h.table[n] # 0
    BY <1>2, <1>3, <1>6, <1>13 DEF Before
  <2> QED
    BY <1>1, <1>3, <1>5, <1>12, <1>13, <2>1, <2>2, <2>3 DEF At, Taken
<1>17. ASSUME NEW n \in Nicks, View[n] # 0, View[n] = h.table[n]
       PROVE  View'[n] = View[n]
  BY <1>13, <1>17
<1> QED
  BY <1>1, <1>14, <1>15, <1>16, <1>17 DEF Handled

LEMMA SetNickHandled ==
  ASSUME SyncInv, NEW h, h = Head(down), HandleSetNick
  PROVE  Taken(h) /\ Handled(h)
<1>1. Taken(h)
  BY DEF HandleSetNick, Handle, Message, Taken, coreVars, countVars
<1>2. h \in Messages /\ h.kind = "setNick" /\ Before(h) /\ 1 \in DOMAIN down /\ down[1] = h
  BY <1>1, TakenIs DEF HandleSetNick, Handle, Message
<1>3. /\ h.nick \in Nicks /\ h.to \in Nicks /\ h.to # h.nick /\ h.table[h.nick] = 0
      /\ h.table[h.to] # 0 /\ ~Off(h) /\ ~Settles(h)
  BY <1>2 DEF Messages, AboutUsers, Off, Settles
<1>4. PICK old \in Replicas : old = replicas[h.nick]
  BY <1>3, ClientTypes
<1>5. /\ net' = net /\ netConnected' = netConnected
      /\ IF old.known
         THEN /\ replicas' = [replicas EXCEPT ![h.to] = old, ![h.nick] = Nobody]
              /\ up' = IF old.settled THEN up ELSE Append(up, Request("user", h.nick))
         ELSE UNCHANGED <<replicas, up>>
  BY <1>4 DEF HandleSetNick, Message, MovedTo
<1>6. \A n \in Nicks : Had(h, n) <=> (h.table[n] # 0 /\ n # h.to) \/ n = h.nick
  BY <1>2 DEF Had
<1>7. ASSUME NEW n \in Nicks
      PROVE  /\ View[n] # 0 => n # h.to
             /\ View[n] # 0 /\ n # h.nick => View[n] = h.table[n]
             /\ View[h.nick] # 0 => View[h.nick] = h.table[h.to]
  BY <1>2, <1>3, <1>6 DEF Before, Fits
<1>8. /\ View[h.nick] = IF old.settled THEN old.value ELSE 0
      /\ old.settled => old.known /\ old.value # 0 /\ net # "fresh"
      /\ old.known \in BOOLEAN /\ old.settled \in BOOLEAN
      /\ net = "none" => ~old.known
  BY <1>3, <1>4, ViewOf, ClientTypes, FreshHasNobody, NobodyIs
<1>9. ASSUME old.known, NEW n \in Nicks
      PROVE  /\ replicas' \in [Nicks -> Replicas]
             /\ replicas'[h.to] = old /\ ~replicas'[h.nick].known /\ ~replicas'[h.nick].settled
             /\ View'[h.to] = View[h.nick] /\ View'[h.nick] = 0
             /\ n \notin {h.nick, h.to} => replicas'[n] = replicas[n] /\ View'[n] = View[n]
  <2>1. replicas' = [replicas EXCEPT ![h.to] = old, ![h.nick] = Nobody]
    BY <1>5, <1>9
  <2>2. replicas \in [Nicks -> Replicas] /\ Nobody \in Replicas /\ ~Nobody.known /\ ~Nobody.settled
    BY ClientTypes, NobodyIs
  <2>3. /\ replicas' \in [Nicks -> Replicas]
        /\ replicas'[h.to] = old /\ replicas'[h.nick] = Nobody
        /\ n \notin {h.nick, h.to} => replicas'[n] = replicas[n]
    BY <1>3, <2>1, <2>2
  <2>4. View'[h.to] = View[h.nick] /\ View'[h.nick] = 0
    BY <1>3, <1>8, <2>2, <2>3 DEF View
  <2>5. n \notin {h.nick, h.to} => View'[n] = View[n]
    BY <2>3 DEF View
  <2> QED
    BY <2>2, <2>3, <2>4, <2>5
<1>10. ASSUME ~old.known
       PROVE  replicas' = replicas /\ View' = View /\ up' = up
  BY <1>5, <1>10 DEF View
<1>11. Request("user", h.nick) \in Requests
  BY <1>3 DEF Request, Requests, Names
<1>12. ASSUME NEW n \in Nicks, replicas'[n].settled
       PROVE  replicas'[n].known /\ replicas'[n].value # 0 /\ net # "fresh"
  <2>1. CASE old.known /\ n \in {h.nick, h.to}
    BY <1>8, <1>9, <1>12, <2>1
  <2>2. replicas[n].settled => replicas[n].known /\ replicas[n].value # 0 /\ net # "fresh"
    BY ClientTypes, FreshHasNobody
  <2> QED
    BY <1>8, <1>9, <1>10, <1>12, <2>1, <2>2
<1>13. ClientOK' /\ FreshNet' /\ Coming' /\ up' \in Seq(Requests)
  <2>1. replicas' \in [Nicks -> Replicas]
    BY <1>3, <1>8, <1>9, <1>10, ClientTypes
  <2>2. net = "none" => UNCHANGED <<replicas, netConnected>>
    BY <1>5, <1>8
  <2>3. ClientOK' /\ (up' = up => FreshNet' /\ Coming')
    BY <1>1, <1>3, <1>5, <1>12, <2>1, <2>2, ClientTypes, UsersHandled
  <2>4. CASE up' = up
    BY <2>3, <2>4, ClientTypes
  <2>5. CASE up' = Append(up, Request("user", h.nick)) /\ net # "none"
    BY <1>1, <1>3, <1>5, <1>11, <1>12, <2>1, <2>2, <2>5, ClientTypes, UsersHandled
  <2> QED
    BY <1>5, <1>8, <2>3, <2>4, <2>5
<1>14. ASSUME ~disturbed
       PROVE  AllSettled /\ \A n \in Nicks : replicas[n].known => Had(h, n)
  BY <1>2, <1>3, <1>14 DEF SyncInv, DisturbedAtRest, Before
<1>15. AskedAbout'
  <2>1. ASSUME ~disturbed, NEW n \in Nicks, replicas'[n].known
        PROVE  replicas'[n].settled
    <3>1. CASE old.known /\ n \in {h.nick, h.to}
      BY <1>3, <1>4, <1>9, <1>14, <2>1, <3>1 DEF AllSettled
    <3>2. replicas[n].known => replicas[n].settled
      BY <1>14, <2>1 DEF AllSettled
    <3> QED
      BY <1>8, <1>9, <1>10, <2>1, <3>1, <3>2
  <2> QED
    BY <1>1, <2>1 DEF AskedAbout, Taken
<1>16. ASSUME NEW n \in Nicks
       PROVE  /\ net = "done" /\ h.table[n] # 0 => replicas'[n].known
              /\ View'[n] # 0 => View'[n] = h.table[n]
              /\ ~disturbed /\ replicas'[n].known => h.table[n] # 0
              /\ View[n] # 0 /\ View[n] = h.table[n] => View'[n] = View[n]
  <2>1. net = "done" => old.known /\ \A k \in Nicks : Had(h, k) => replicas[k].known
    BY <1>2, <1>3, <1>4, <1>6 DEF Before
  <2>2. CASE old.known /\ n = h.nick
    BY <1>3, <1>9, <2>2
  <2>3. CASE old.known /\ n = h.to
    BY <1>3, <1>7, <1>9, <2>3
  <2>4. CASE n \notin {h.nick, h.to}
    <3>1. replicas'[n] = replicas[n] /\ View'[n] = View[n]
      BY <1>8, <1>9, <1>10, <2>4
    <3>2. Had(h, n) <=> h.table[n] # 0
      BY <1>6, <2>4
    <3> QED
      BY <1>7, <1>14, <2>1, <2>4, <3>1, <3>2
  <2>5. CASE ~old.known /\ n = h.nick
    BY <1>3, <1>4, <1>8, <1>10, <2>1, <2>5
  <2>6. CASE ~old.known /\ n = h.to
    BY <1>3, <1>7, <1>10, <2>1, <2>6
  <2> QED
    BY <1>8, <2>2, <2>3, <2>4, <2>5, <2>6
<1>17. At(h.network, h.connected, h.table)'
  <2>1. net # "none" <=> h.network = "up"
    BY <1>2 DEF Before, NetworkBefore
  <2>2. net = "done" => netConnected = h.connected
    BY <1>2 DEF Before, ConnectedBefore
  <2> QED
    BY <1>1, <1>5, <1>16, <2>1, <2>2 DEF At, Taken
<1> QED
  BY <1>1, <1>13, <1>15, <1>16, <1>17 DEF Handled

LEMMA InitNetworkHandled ==
  ASSUME SyncInv, NEW h, h = Head(down), HandleInitNetwork
  PROVE  Taken(h) /\ Handled(h)
<1>1. Taken(h)
  BY DEF HandleInitNetwork, Handle, Message, Taken, coreVars, countVars
<1>2. h \in Messages /\ h.kind = "initNetwork" /\ Before(h)
  BY <1>1, TakenIs DEF HandleInitNetwork, Handle, Message
<1>3. /\ ~Off(h) /\ h.table \in Tables /\ h.connected \in BOOLEAN
      /\ ~h.connected => h.table = NoUsers
  BY <1>2 DEF Messages, MessageType, Off
<1>4. \A n \in Nicks : Had(h, n) <=> h.table[n] # 0
  BY <1>2 DEF Had
<1>5. /\ net # "none" <=> h.network = "up"
      /\ net = "done" => /\ netConnected = h.connected
                         /\ \A n \in Nicks : h.table[n] # 0 => replicas[n].known
      /\ \A n \in Nicks : View[n] # 0 => View[n] = h.table[n]
      /\ ~disturbed => \A n \in Nicks : replicas[n].known => h.table[n] # 0
  BY <1>2, <1>3, <1>4 DEF Before, Fits, NetworkBefore, ConnectedBefore
<1>6. up' = up
  BY DEF HandleInitNetwork
<1>7. ASSUME net # "fresh"
      PROVE  Handled(h)
  <2>1. UNCHANGED <<net, netConnected, replicas>> /\ View' = View
    BY <1>7 DEF HandleInitNetwork, clientVars, View
  <2>2. ClientOK'
    BY <1>1, <1>6, <2>1, TakenIs DEF SyncInv, ClientOK, Taken
  <2>3. At(h.network, h.connected, h.table)'
    BY <1>1, <1>5, <2>1 DEF At, Taken
  <2>4. Coming' /\ FreshNet'
    BY <1>1, <1>6, <1>7, <2>1, KeepsComing DEF FreshNet
  <2>5. AskedAbout'
    BY <1>1, <1>2, <1>6, <2>1, KeepsAsking
  <2> QED
    BY <1>6, <2>1, <2>2, <2>3, <2>4, <2>5, ClientTypes DEF Handled
<1>8. ASSUME net = "fresh"
      PROVE  Handled(h)
  <2>1. /\ net' = "done" /\ netConnected' = h.connected
        /\ replicas' = IF netConnected /\ ~h.connected THEN NoReplicas ELSE WithUsersOf(h.table)
    BY <1>8 DEF HandleInitNetwork, Message
  <2>2. ASSUME NEW n \in Nicks
        PROVE  View[n] = 0
    BY <1>8, FreshHasNobody, ViewOf
  <2>3. CASE netConnected /\ ~h.connected
    <3>1. replicas' = NoReplicas /\ \A n \in Nicks : h.table[n] = 0
      BY <1>3, <2>1, <2>3 DEF NoUsers
    <3>2. \A n \in Nicks : ~replicas'[n].known /\ ~replicas'[n].settled /\ View'[n] = 0
      BY <3>1, NobodyIs DEF View
    <3>3. ClientOK'
      BY <1>1, <1>3, <2>1, <3>1, <3>2, TakenIs, ClientTypes, NobodyIs DEF ClientOK, Taken
    <3>4. At(h.network, h.connected, h.table)'
      BY <1>5, <1>8, <2>1, <3>1, <3>2 DEF At
    <3>5. AskedAbout' /\ FreshNet' /\ Coming'
      BY <1>1, <1>8, <2>1, <3>2, KeepsComing DEF AskedAbout, FreshNet
    <3> QED
      BY <1>6, <2>2, <3>3, <3>4, <3>5, ClientTypes DEF Handled
  <2>4. CASE ~(netConnected /\ ~h.connected)
    <3>1. replicas' = WithUsersOf(h.table)
      BY <2>1, <2>4
    <3>2. ASSUME NEW n \in Nicks
          PROVE  /\ replicas'[n] \in Replicas
                 /\ replicas'[n].known <=> replicas[n].known \/ h.table[n] # 0
                 /\ replicas'[n].known /\ ~replicas'[n].settled => replicas[n].known /\ ~replicas[n].settled
                 /\ replicas'[n].settled =>
                        replicas'[n].known /\ replicas'[n].value # 0 /\ replicas'[n].value = h.table[n]
      <4>1. h.table[n] \in 0 .. MaxEvents
        BY <1>3 DEF Tables
      <4>2. replicas[n] \in Replicas /\ ~replicas[n].settled
        BY <1>8, ClientTypes, FreshHasNobody
      <4>3. CASE h.table[n] # 0 /\ ~replicas[n].known
        <5>1. replicas'[n] = [known |-> TRUE, settled |-> TRUE, value |-> h.table[n]]
          BY <3>1, <4>3 DEF WithUsersOf
        <5> QED
          BY <4>1, <4>3, <5>1 DEF Replicas
      <4>4. CASE ~(h.table[n] # 0 /\ ~replicas[n].known)
        <5>1. replicas'[n] = replicas[n]
          BY <3>1, <4>4 DEF WithUsersOf
        <5> QED
          BY <4>2, <4>4, <5>1
      <4> QED
        BY <4>3, <4>4
    <3>3. replicas' \in [Nicks -> Replicas]
      BY <3>1, <3>2 DEF WithUsersOf
    <3>4. ClientOK'
      BY <1>1, <1>3, <2>1, <3>2, <3>3, TakenIs, ClientTypes DEF ClientOK, Taken
    <3>5. \A n \in Nicks : View'[n] # 0 => View'[n] = h.table[n]
      BY <3>2 DEF View
    <3>6. At(h.network, h.connected, h.table)'
      BY <1>1, <1>5, <1>8, <2>1, <3>2, <3>5 DEF At, Taken
    <3>7. AskedAbout'
      BY <1>1, <1>2, <1>6, <3>2, KeepsAsking
    <3>8. FreshNet' /\ Coming'
      BY <1>1, <1>8, <2>1, KeepsComing DEF FreshNet
    <3> QED
      BY <1>6, <2>2, <3>4, <3>6, <3>7, <3>8, ClientTypes DEF Handled
  <2> QED
    BY <2>3, <2>4
<1> QED
  BY <1>1, <1>7, <1>8

LEMMA ClientHandlesOne ==
  ASSUME SyncInv, ClientHandles
  PROVE  /\ SyncInv' /\ down # <<>> /\ down' = Tail(down) /\ users' = users
         /\ \A n \in Nicks : /\ View'[n] # 0 => View'[n] = Head(down).table[n]
                             /\ View[n] # 0 /\ View[n] = Head(down).table[n] => View'[n] = View[n]
<1>1. PICK h : h = Head(down)
  OBVIOUS
<1>2. Taken(h) /\ Handled(h)
  BY <1>1, SessionStateHandled, NetworkCreatedHandled, NetworkRemovedHandled, SetConnectedHandled,
     AddIrcUserHandled, SetPropertyHandled, SetNickHandled, QuitHandled, InitNetworkHandled,
     InitUserHandled DEF ClientHandles
<1>3. LinesOK' /\ DisturbedAtRest' /\ Heard'
  BY <1>2, TakenLines, TakenHeard DEF Handled
<1>4. CoreOK'
  BY <1>2 DEF SyncInv, CoreOK, Taken
<1>5. SyncInv'
  BY <1>2, <1>3, <1>4 DEF SyncInv, Handled
<1>6. \A n \in Nicks : View'[n] # 0 => View'[n] = h.table[n]
  BY <1>2 DEF Handled, At
<1> QED
  BY <1>1, <1>2, <1>5, <1>6 DEF Taken, Handled

----------------------------------------------------------------------------
(* The core.                                                                *)

LEMMA AtRest ==
  ASSUME SyncInv, Quiet
  PROVE  /\ At(network, connected, users) /\ net # "fresh"
         /\ ~disturbed => AllSettled
<1>1. session /\ down = <<>> /\ up = <<>> /\ DOMAIN down = {} /\ DOMAIN up = {}
  BY DEF Quiet
<1>2. At(network, connected, users)
  BY <1>1 DEF SyncInv, Heard
<1>3. net # "fresh"
  BY <1>1, <1>2 DEF SyncInv, FreshNet, NetworkAsked, At
<1>4. ~disturbed => AllSettled
  BY <1>1 DEF SyncInv, AskedAbout, AllSettled
<1> QED
  BY <1>2, <1>3, <1>4

LEMMA EventKeeps ==
  ASSUME SyncInv, CoreOK', NEW m \in Messages, Announced(m), UNCHANGED up,
         m.kind \notin {"initUser", "sessionState"},
         m.kind = "networkCreated" => network = "none",
         network # "none" => network' # "none" /\ (network' = "up" => network = "up"),
         m.kind = "setNick" \/ Off(m) => network = "up" /\ Disturbing
  PROVE  SyncInv'
<1> USE DEF Announced
<1>1. /\ ClientOK' /\ LinesOK' /\ Heard'
      /\ \A i \in DOMAIN down : i \in DOMAIN down' /\ down'[i] = down[i]
      /\ \A i \in DOMAIN down' : i \in DOMAIN down \/ (session /\ i = Len(down) + 1 /\ down'[i] = m)
  BY AnnouncedLines, AnnouncedHeard
<1>2. DisturbedAtRest'
  <2> SUFFICES ASSUME ~disturbed', NEW i \in DOMAIN down', down'[i].kind = "setNick" \/ Off(down'[i])
               PROVE  i = 1 /\ net = "done" /\ up = <<>> /\ AllSettled
    BY DEF DisturbedAtRest, AllSettled
  <2>1. ~disturbed
    OBVIOUS
  <2>2. CASE i \in DOMAIN down
    BY <1>1, <2>1, <2>2 DEF SyncInv, DisturbedAtRest
  <2>3. CASE session /\ i = Len(down) + 1 /\ down'[i] = m
    <3>1. network = "up" /\ Quiet /\ down = <<>>
      BY <2>3 DEF Disturbing, Quiet
    <3>2. net = "done" /\ AllSettled
      BY <2>1, <3>1, AtRest, ClientTypes DEF At
    <3>3. i = 1
      BY <2>3, <3>1
    <3> QED
      BY <3>1, <3>2, <3>3 DEF Quiet
  <2> QED
    BY <1>1, <2>2, <2>3
<1>3. AskedAbout'
  <2> SUFFICES ASSUME ~disturbed', NEW n \in Nicks, replicas[n].known, ~replicas[n].settled
               PROVE  \/ \E i \in DOMAIN up : up[i].kind = "user" /\ up[i].nick = n
                      \/ \E i \in DOMAIN down' : down'[i].kind \in {"initUser", "quit"} /\ down'[i].nick = n
    BY DEF AskedAbout
  <2>1. \/ \E i \in DOMAIN up : up[i].kind = "user" /\ up[i].nick = n
        \/ \E i \in DOMAIN down : down[i].kind \in {"initUser", "quit"} /\ down[i].nick = n
    BY DEF SyncInv, AskedAbout
  <2> QED
    BY <1>1, <2>1
<1>4. FreshNet'
  <2> SUFFICES ASSUME net = "fresh"
               PROVE  FreshNet'
    BY DEF FreshNet
  <2>1. network' # "none" /\ \A n \in Nicks : ~replicas'[n].settled
    BY DEF SyncInv, FreshNet
  <2>2. ASSUME NEW i \in DOMAIN down', down'[i].kind = "initUser"
        PROVE  \E j \in DOMAIN down' : j < i /\ Settles(down'[j])
    <3>1. i \in DOMAIN down /\ down[i].kind = "initUser"
      BY <1>1, <2>2
    <3>2. PICK j \in DOMAIN down : j < i /\ Settles(down[j])
      BY <3>1 DEF SyncInv, FreshNet
    <3> QED
      BY <1>1, <3>2
  <2>3. network' # "up" \/ NetworkAsked' \/ \E j \in DOMAIN down' : Settles(down'[j])
    BY <1>1, <2>1 DEF SyncInv, FreshNet, NetworkAsked
  <2> QED
    BY <2>1, <2>2, <2>3 DEF FreshNet
<1>5. Coming'
  <2>1. ASSUME NoneYet
        PROVE  NoneYet'
    BY <1>1, <2>1 DEF NoneYet
  <2>2. ASSUME NEW i \in DOMAIN down'
        PROVE  down'[i].network # "none" => network' # "none"
    BY <1>1 DEF SyncInv, Coming
  <2>3. ASSUME NEW i \in DOMAIN down', Creates(down'[i])
        PROVE  /\ NoneYet'
               /\ \A j \in DOMAIN down' :
                      Creates(down'[j]) /\ j # i => "none" \in {down'[i].network, down'[j].network}
    <3>1. ASSUME NEW j \in DOMAIN down', j \notin DOMAIN down, Creates(down'[j])
          PROVE  network = "none" /\ session
      BY <1>1, <3>1 DEF Creates
    <3>2. NoneYet
      BY <1>1, <2>3, <3>1 DEF SyncInv, Coming
    <3>3. ASSUME NEW j \in DOMAIN down', Creates(down'[j]), j # i
          PROVE  "none" \in {down'[i].network, down'[j].network}
      <4>1. CASE i \in DOMAIN down /\ j \in DOMAIN down
        BY <1>1, <2>3, <3>3, <4>1 DEF SyncInv, Coming
      <4>2. CASE i \in DOMAIN down /\ j \notin DOMAIN down
        BY <1>1, <3>1, <3>3, <4>2 DEF SyncInv, Coming
      <4>3. CASE i \notin DOMAIN down /\ j \in DOMAIN down
        BY <1>1, <2>3, <3>1, <4>3 DEF SyncInv, Coming
      <4>4. CASE i \notin DOMAIN down /\ j \notin DOMAIN down
        BY <1>1, <3>3, <4>4
      <4> QED
        BY <4>1, <4>2, <4>3, <4>4
    <3> QED
      BY <2>1, <3>2, <3>3
  <2>4. session' /\ network' = "none" => NoneYet'
    BY <2>1 DEF SyncInv, Coming
  <2> QED
    BY <2>2, <2>3, <2>4 DEF Coming
<1> QED
  BY <1>1, <1>2, <1>3, <1>4, <1>5 DEF SyncInv

\* The variables nothing else depends on.
Rest ==
    /\ events \in 0 .. MaxEvents /\ sessions \in 0 .. MaxSessions
    /\ stage \in Stages /\ awaited \in BOOLEAN

LEMMA EventIs ==
  ASSUME Rest, Event
  PROVE  events' \in 0 .. MaxEvents /\ events' # 0 /\ UNCHANGED <<session, up, net, netConnected, replicas>>
  BY BoundsAssumption DEF Rest, Event, clientVars

LEMMA KindsAre ==
  /\ "" \in Names /\ \A n \in Nicks : n \in Names
  /\ "networkCreated" \in Kinds /\ "networkRemoved" \in Kinds /\ "setConnected" \in Kinds
  /\ "addIrcUser" \in Kinds /\ "setProperty" \in Kinds /\ "setNick" \in Kinds /\ "quit" \in Kinds
  /\ "initNetwork" \in Kinds /\ "initUser" \in Kinds /\ "sessionState" \in Kinds
  BY DEF Kinds, AboutUsers, Names

\* The message m tells of the core as it is now.
Sent(m) ==
    /\ m.network = network' /\ m.connected = connected' /\ m.table = users'
    /\ down' = IF session THEN Append(down, m) ELSE down

LEMMA TellIs ==
  ASSUME CoreOK', NEW kind \in Kinds, NEW nick \in Names, NEW to \in Names, Tell(kind, nick, to)
  PROVE  \E m \in MessageType : m.kind = kind /\ m.nick = nick /\ m.to = to /\ Sent(m)
<1> DEFINE m == [kind |-> kind, nick |-> nick, to |-> to,
                 network |-> network', connected |-> connected', table |-> users']
<1>1. m \in MessageType
  BY DEF CoreOK, MessageType
<1>2. Sent(m)
  BY DEF Tell, Sent
<1> QED
  BY <1>1, <1>2

LEMMA AnnouncedIs ==
  ASSUME SyncInv, Rest, Event, NEW m \in Messages,
         Sent(m),
         UNCHANGED disturbed \/ Disturbing,
         m.kind # "sessionState",
         network = NetworkBefore(m), connected = ConnectedBefore(m),
         \A n \in Nicks :
             \/ Off(m) /\ users'[n] = 0
             \/ users'[n] = users[n] /\ (Had(m, n) <=> users[n] # 0)
             \/ m.kind = "addIrcUser" /\ n = m.nick /\ users[n] = 0
             \/ m.kind = "setProperty" /\ n = m.nick /\ users[n] # 0 /\ users'[n] # 0
             \/ m.kind = "quit" /\ n = m.nick /\ users[n] # 0
             \/ m.kind = "setNick" /\ n = m.nick /\ users[n] # 0 /\ users'[m.to] = users[n]
             \/ m.kind = "setNick" /\ n = m.to /\ n # m.nick /\ users[n] = 0 /\ users'[n] # 0
  PROVE  Announced(m)
<1>1. ASSUME NEW n \in Nicks
      PROVE  /\ users[n] # 0 /\ ~Off(m) =>
                    /\ Had(m, n)
                    /\ \/ users[n] = m.table[n]
                       \/ m.kind \in {"setProperty", "quit"} /\ n = m.nick
                       \/ m.kind = "setNick" /\ n = m.nick /\ users[n] = m.table[m.to]
             /\ Had(m, n) /\ ~Off(m) => users[n] # 0
             /\ users[n] # 0 /\ users'[n] = 0 => Removes(m, n)
  BY DEF Had, Removes, Sent
<1>2. Follows(network, connected, users, m)
  BY <1>1 DEF Follows, Fits
<1>3. disturbed' \in BOOLEAN /\ (disturbed => disturbed')
  BY ClientTypes DEF Disturbing
<1> QED
  BY <1>1, <1>2, <1>3, EventIs, ClientTypes DEF Announced, Sent

LEMMA CreateNetworkKeeps ==
  ASSUME SyncInv, Rest, CreateNetwork
  PROVE  SyncInv'
<1>1. /\ Event /\ network = "none" /\ network' = "up"
      /\ UNCHANGED <<connected, users, disturbed>> /\ Tell("networkCreated", "", "")
  BY DEF CreateNetwork
<1>2. CoreOK' /\ ~connected
  BY <1>1 DEF SyncInv, CoreOK, Networks
<1>3. PICK m \in MessageType : m.kind = "networkCreated" /\ Sent(m)
  BY <1>1, <1>2, TellIs, KindsAre
<1>4. m \in Messages /\ ~Off(m)
  BY <1>1, <1>2, <1>3 DEF Messages, AboutUsers, Off, CoreOK, Sent
<1>5. Announced(m)
  <2>1. \A n \in Nicks : users'[n] = users[n] /\ (Had(m, n) <=> users[n] # 0)
    BY <1>1, <1>3 DEF Had, Sent
  <2>2. network = NetworkBefore(m) /\ connected = ConnectedBefore(m)
    BY <1>1, <1>3 DEF NetworkBefore, ConnectedBefore, Sent
  <2> QED
    BY <1>1, <1>3, <1>4, <2>1, <2>2, AnnouncedIs
<1> QED
  BY <1>1, <1>2, <1>3, <1>4, <1>5, EventIs, EventKeeps

LEMMA RemoveNetworkKeeps ==
  ASSUME SyncInv, Rest, RemoveNetwork
  PROVE  SyncInv'
<1>1. /\ Event /\ network = "up" /\ ~connected /\ network' = "removed"
      /\ UNCHANGED <<connected, users, disturbed>> /\ Tell("networkRemoved", "", "")
  BY DEF RemoveNetwork
<1>2. CoreOK'
  BY <1>1 DEF SyncInv, CoreOK, Networks
<1>3. PICK m \in MessageType : m.kind = "networkRemoved" /\ Sent(m)
  BY <1>1, <1>2, TellIs, KindsAre
<1>4. m \in Messages /\ ~Off(m)
  BY <1>1, <1>2, <1>3 DEF Messages, AboutUsers, Off, CoreOK, Sent
<1>5. Announced(m)
  <2>1. \A n \in Nicks : users'[n] = users[n] /\ (Had(m, n) <=> users[n] # 0)
    BY <1>1, <1>3 DEF Had, Sent
  <2>2. network = NetworkBefore(m) /\ connected = ConnectedBefore(m)
    BY <1>1, <1>3 DEF NetworkBefore, ConnectedBefore, Sent
  <2> QED
    BY <1>1, <1>3, <1>4, <2>1, <2>2, AnnouncedIs
<1> QED
  BY <1>1, <1>2, <1>3, <1>4, <1>5, EventIs, EventKeeps

LEMMA SetConnectedKeeps ==
  ASSUME SyncInv, Rest, NEW on \in BOOLEAN, SetConnected(on)
  PROVE  SyncInv'
<1>1. /\ Event /\ network = "up" /\ connected # on /\ connected' = on
      /\ users' = IF on THEN users ELSE NoUsers
      /\ UNCHANGED network /\ Tell("setConnected", "", "")
      /\ IF on THEN UNCHANGED disturbed ELSE Disturbing
  BY DEF SetConnected
<1>2. NoUsers \in Tables /\ \A n \in Nicks : NoUsers[n] = 0
  BY BoundsAssumption DEF NoUsers, Tables
<1>3. CoreOK'
  BY <1>1, <1>2 DEF SyncInv, CoreOK
<1>4. PICK m \in MessageType : m.kind = "setConnected" /\ Sent(m)
  BY <1>1, <1>3, TellIs, KindsAre
<1>5. m \in Messages /\ (Off(m) <=> ~on)
  <2>1. connected' \in BOOLEAN /\ (connected' <=> on)
    BY <1>1, <1>3 DEF CoreOK
  <2>2. m \in Messages
    BY <1>3, <1>4 DEF Messages, AboutUsers, CoreOK, Sent
  <2> QED
    BY <1>4, <2>1, <2>2 DEF Off, Sent
<1>6. Announced(m)
  <2>1. \A n \in Nicks : \/ Off(m) /\ users'[n] = 0
                         \/ users'[n] = users[n] /\ (Had(m, n) <=> users[n] # 0)
    BY <1>1, <1>2, <1>4, <1>5 DEF Had, Sent
  <2>2. network = NetworkBefore(m) /\ connected = ConnectedBefore(m)
    <3>1. network = NetworkBefore(m) /\ ConnectedBefore(m) = ~m.connected
      BY <1>1, <1>4 DEF NetworkBefore, ConnectedBefore, Sent
    <3>2. connected \in BOOLEAN /\ connected' \in BOOLEAN /\ connected # connected'
      BY <1>1, <1>3 DEF SyncInv, CoreOK
    <3> QED
      BY <1>4, <3>1, <3>2 DEF Sent
  <2> QED
    BY <1>1, <1>4, <1>5, <2>1, <2>2, AnnouncedIs
<1> QED
  BY <1>1, <1>3, <1>4, <1>5, <1>6, EventIs, EventKeeps

\* Of users there are some only while there is a connection.
LEMMA UsersMeanConnected ==
  ASSUME SyncInv, NEW n \in Nicks, users[n] # 0
  PROVE  connected /\ network = "up" /\ users \in Tables
  BY DEF SyncInv, CoreOK, NoUsers

LEMMA CoreIsOK ==
  ASSUME SyncInv, connected, UNCHANGED <<network, connected>>, users' \in Tables
  PROVE  CoreOK'
  BY DEF SyncInv, CoreOK

LEMMA AddIrcUserKeeps ==
  ASSUME SyncInv, Rest, NEW nick \in Nicks, AddIrcUser(nick)
  PROVE  SyncInv'
<1>1. /\ Event /\ connected /\ users[nick] = 0
      /\ users' = [users EXCEPT ![nick] = events']
      /\ UNCHANGED <<network, connected, disturbed>>
  BY DEF AddIrcUser
<1>2. Tell("addIrcUser", nick, "")
  BY DEF AddIrcUser
<1>3. users \in Tables /\ users' \in Tables /\ users'[nick] # 0
      /\ \A n \in Nicks : n # nick => users'[n] = users[n]
  BY <1>1, EventIs DEF SyncInv, CoreOK, Tables
<1>4. CoreOK'
  BY <1>1, <1>3, CoreIsOK
<1>5. PICK m \in MessageType : m.kind = "addIrcUser" /\ m.nick = nick /\ Sent(m)
  <2>1. "addIrcUser" \in Kinds /\ nick \in Names /\ "" \in Names
    BY KindsAre
  <2> QED
    BY <1>2, <1>4, <2>1, TellIs
<1>6. m \in Messages /\ ~Off(m)
  BY <1>3, <1>4, <1>5 DEF Messages, AboutUsers, CoreOK, Off, Sent
<1>7. Announced(m)
  <2>1. ASSUME NEW n \in Nicks
        PROVE  \/ users'[n] = users[n] /\ (Had(m, n) <=> users[n] # 0)
               \/ m.kind = "addIrcUser" /\ n = m.nick /\ users[n] = 0
    BY <1>1, <1>3, <1>5 DEF Had, Sent
  <2>2. network = NetworkBefore(m) /\ connected = ConnectedBefore(m)
    BY <1>1, <1>5 DEF NetworkBefore, ConnectedBefore, Sent
  <2> QED
    BY <1>1, <1>5, <1>6, <2>1, <2>2, AnnouncedIs
<1> QED
  BY <1>1, <1>4, <1>5, <1>6, <1>7, EventIs, EventKeeps

LEMMA SetPropertyKeeps ==
  ASSUME SyncInv, Rest, NEW nick \in Nicks, SetProperty(nick)
  PROVE  SyncInv'
<1>1. /\ Event /\ users[nick] # 0
      /\ users' = [users EXCEPT ![nick] = events']
      /\ UNCHANGED <<network, connected, disturbed>>
  BY DEF SetProperty
<1>2. Tell("setProperty", nick, "")
  BY DEF SetProperty
<1>3. users \in Tables /\ users' \in Tables /\ users'[nick] # 0
      /\ \A n \in Nicks : n # nick => users'[n] = users[n]
  BY <1>1, EventIs DEF SyncInv, CoreOK, Tables
<1>4. CoreOK'
  BY <1>1, <1>3, CoreIsOK, UsersMeanConnected
<1>5. PICK m \in MessageType : m.kind = "setProperty" /\ m.nick = nick /\ Sent(m)
  <2>1. "setProperty" \in Kinds /\ nick \in Names /\ "" \in Names
    BY KindsAre
  <2> QED
    BY <1>2, <1>4, <2>1, TellIs
<1>6. m \in Messages /\ ~Off(m)
  BY <1>3, <1>4, <1>5 DEF Messages, AboutUsers, CoreOK, Off, Sent
<1>7. Announced(m)
  <2>1. ASSUME NEW n \in Nicks
        PROVE  \/ users'[n] = users[n] /\ (Had(m, n) <=> users[n] # 0)
               \/ m.kind = "setProperty" /\ n = m.nick /\ users[n] # 0 /\ users'[n] # 0
    BY <1>1, <1>3, <1>5 DEF Had, Sent
  <2>2. network = NetworkBefore(m) /\ connected = ConnectedBefore(m)
    BY <1>1, <1>5 DEF NetworkBefore, ConnectedBefore, Sent
  <2> QED
    BY <1>1, <1>5, <1>6, <2>1, <2>2, AnnouncedIs
<1> QED
  BY <1>1, <1>4, <1>5, <1>6, <1>7, EventIs, EventKeeps

LEMMA QuitKeeps ==
  ASSUME SyncInv, Rest, NEW nick \in Nicks, Quit(nick)
  PROVE  SyncInv'
<1>1. /\ Event /\ users[nick] # 0
      /\ users' = [users EXCEPT ![nick] = 0]
      /\ UNCHANGED <<network, connected, disturbed>>
  BY DEF Quit
<1>2. Tell("quit", nick, "")
  BY DEF Quit
<1>3. users \in Tables /\ users' \in Tables /\ users'[nick] = 0
      /\ \A n \in Nicks : n # nick => users'[n] = users[n]
  <2>1. users \in [Nicks -> 0 .. MaxEvents] /\ 0 \in 0 .. MaxEvents
    BY BoundsAssumption DEF SyncInv, CoreOK, Tables
  <2> QED
    BY <1>1, <2>1 DEF Tables
<1>4. CoreOK'
  BY <1>1, <1>3, CoreIsOK, UsersMeanConnected
<1>5. PICK m \in MessageType : m.kind = "quit" /\ m.nick = nick /\ Sent(m)
  <2>1. "quit" \in Kinds /\ nick \in Names /\ "" \in Names
    BY KindsAre
  <2> QED
    BY <1>2, <1>4, <2>1, TellIs
<1>6. m \in Messages /\ ~Off(m)
  BY <1>3, <1>4, <1>5 DEF Messages, AboutUsers, CoreOK, Off, Sent
<1>7. Announced(m)
  <2>1. ASSUME NEW n \in Nicks
        PROVE  \/ users'[n] = users[n] /\ (Had(m, n) <=> users[n] # 0)
               \/ m.kind = "quit" /\ n = m.nick /\ users[n] # 0
    BY <1>1, <1>3, <1>5 DEF Had, Sent
  <2>2. network = NetworkBefore(m) /\ connected = ConnectedBefore(m)
    BY <1>1, <1>5 DEF NetworkBefore, ConnectedBefore, Sent
  <2> QED
    BY <1>1, <1>5, <1>6, <2>1, <2>2, AnnouncedIs
<1> QED
  BY <1>1, <1>4, <1>5, <1>6, <1>7, EventIs, EventKeeps

LEMMA SetNickKeeps ==
  ASSUME SyncInv, Rest, NEW nick \in Nicks, NEW newnick \in Nicks, SetNick(nick, newnick)
  PROVE  SyncInv'
<1>1. /\ Event /\ users[nick] # 0 /\ users[newnick] = 0
      /\ users' = [users EXCEPT ![newnick] = users[nick], ![nick] = 0]
      /\ UNCHANGED <<network, connected>> /\ Disturbing
  BY DEF SetNick
<1>2. Tell("setNick", nick, newnick)
  BY DEF SetNick
<1>3. /\ users \in Tables /\ users' \in Tables /\ nick # newnick
      /\ users'[nick] = 0 /\ users'[newnick] = users[nick]
      /\ \A n \in Nicks : n \notin {nick, newnick} => users'[n] = users[n]
  BY <1>1, BoundsAssumption DEF SyncInv, CoreOK, Tables
<1>4. CoreOK' /\ network = "up"
  BY <1>1, <1>3, CoreIsOK, UsersMeanConnected
<1>5. PICK m \in MessageType : m.kind = "setNick" /\ m.nick = nick /\ m.to = newnick /\ Sent(m)
  <2>1. "setNick" \in Kinds /\ nick \in Names /\ newnick \in Names
    BY KindsAre
  <2> QED
    BY <1>2, <1>4, <2>1, TellIs
<1>6. m \in Messages
  BY <1>1, <1>3, <1>4, <1>5 DEF Messages, AboutUsers, CoreOK, Sent
<1>7. Announced(m)
  <2>1. ASSUME NEW n \in Nicks
        PROVE  \/ users'[n] = users[n] /\ (Had(m, n) <=> users[n] # 0)
               \/ m.kind = "setNick" /\ n = m.nick /\ users[n] # 0 /\ users'[m.to] = users[n]
               \/ m.kind = "setNick" /\ n = m.to /\ n # m.nick /\ users[n] = 0 /\ users'[n] # 0
    BY <1>1, <1>3, <1>5 DEF Had, Sent
  <2>2. network = NetworkBefore(m) /\ connected = ConnectedBefore(m)
    BY <1>1, <1>5 DEF NetworkBefore, ConnectedBefore, Sent
  <2> QED
    BY <1>1, <1>5, <1>6, <2>1, <2>2, AnnouncedIs
<1> QED
  BY <1>1, <1>4, <1>5, <1>6, <1>7, EventIs, EventKeeps

LEMMA CoreEventsKeep ==
  ASSUME SyncInv, Rest, CoreEvents
  PROVE  SyncInv'
<1>1. CASE CreateNetwork
  BY <1>1, CreateNetworkKeeps
<1>2. CASE RemoveNetwork
  BY <1>2, RemoveNetworkKeeps
<1>3. CASE \E on \in BOOLEAN : SetConnected(on)
  BY <1>3, SetConnectedKeeps
<1>4. CASE \E nick \in Nicks : AddIrcUser(nick) \/ SetProperty(nick) \/ Quit(nick)
  BY <1>4, AddIrcUserKeeps, SetPropertyKeeps, QuitKeeps
<1>5. CASE \E nick, newnick \in Nicks : SetNick(nick, newnick)
  BY <1>5, SetNickKeeps
<1> QED
  BY <1>1, <1>2, <1>3, <1>4, <1>5 DEF CoreEvents

\* Of a user who is gone while there are requests the client will hear.
LEMMA QuitIsComing ==
  ASSUME SyncInv, ~disturbed, up # <<>>, NEW n \in Nicks, replicas[n].known, users[n] = 0
  PROVE  \E i \in DOMAIN down : down[i].kind = "quit" /\ down[i].nick = n
<1>1. session /\ down \in Seq(Messages)
  BY DEF SyncInv, ClientOK, LinesOK
<1>2. \A i \in DOMAIN down : down[i].kind # "setNick" /\ ~Off(down[i])
  BY DEF SyncInv, DisturbedAtRest
<1>3. down # <<>>
  <2> SUFFICES ASSUME down = <<>>
               PROVE  FALSE
    OBVIOUS
  <2>1. At(network, connected, users)
    BY <1>1 DEF SyncInv, Heard
  <2> QED
    BY <2>1 DEF At
<1>4. PICK h : h = Head(down)
  OBVIOUS
<1>5. 1 \in DOMAIN down /\ down[1] = h /\ Before(h)
  BY <1>1, <1>3, <1>4 DEF SyncInv, Heard
<1>6. Had(h, n)
  BY <1>2, <1>5 DEF Before
<1>7. CASE h.kind = "quit" /\ n = h.nick
  BY <1>5, <1>7
<1>8. CASE h.table[n] # 0
  <2>1. PICK j \in DOMAIN down : Removes(down[j], n)
    BY <1>5, <1>8 DEF SyncInv, LinesOK, GoneWasSaid
  <2> QED
    BY <1>2, <2>1 DEF Removes
<1> QED
  BY <1>2, <1>5, <1>6, <1>7, <1>8 DEF Had

\* Whether the request is answered or not.
LEMMA RequestKeeps ==
  ASSUME SyncInv, up # <<>>, up' = Tail(up),
         UNCHANGED <<network, connected, users, session, net, netConnected, replicas, disturbed>>,
         ClientOK', LinesOK', Heard',
         \A i \in DOMAIN down : i \in DOMAIN down' /\ down'[i] = down[i],
         \A i \in DOMAIN down' : i \in DOMAIN down \/
             /\ i = Len(down) + 1 /\ down'[i].kind \in {"initNetwork", "initUser"}
             /\ down'[i].network = network
             /\ down'[i].kind = "initUser" => network = "up" /\ Head(up).kind = "user",
         Head(up).kind = "network" /\ network = "up" =>
             \E i \in DOMAIN down' : Settles(down'[i]),
         Head(up).kind = "user" /\ users[Head(up).nick] # 0 =>
             \E i \in DOMAIN down' : down'[i].kind = "initUser" /\ down'[i].nick = Head(up).nick
  PROVE  SyncInv'
<1>1. up \in Seq(Requests) /\ 1 \in DOMAIN up /\ Head(up) = up[1] /\ Head(up) \in Requests
  BY ClientTypes
<1>2. session /\ down \in Seq(Messages) /\ ~NoneYet /\ network # "none"
  BY DEF SyncInv, ClientOK, LinesOK, Coming, NoneYet
<1>3. CoreOK'
  BY DEF SyncInv, CoreOK
<1>4. DisturbedAtRest'
  <2> SUFFICES ASSUME ~disturbed, NEW i \in DOMAIN down', down'[i].kind = "setNick" \/ Off(down'[i])
               PROVE  FALSE
    BY DEF DisturbedAtRest
  <2>1. i \in DOMAIN down /\ down'[i] = down[i]
    BY DEF Off
  <2> QED
    BY <2>1 DEF SyncInv, DisturbedAtRest
<1>5. AskedAbout'
  <2> SUFFICES ASSUME ~disturbed, NEW n \in Nicks, replicas[n].known, ~replicas[n].settled
               PROVE  \/ \E i \in DOMAIN up' : up'[i].kind = "user" /\ up'[i].nick = n
                      \/ \E i \in DOMAIN down' : down'[i].kind \in {"initUser", "quit"} /\ down'[i].nick = n
    BY DEF AskedAbout
  <2>1. CASE \E i \in DOMAIN down : down[i].kind \in {"initUser", "quit"} /\ down[i].nick = n
    BY <2>1
  <2>2. CASE \E i \in DOMAIN up : up[i].kind = "user" /\ up[i].nick = n
    <3>1. PICK i \in DOMAIN up : up[i].kind = "user" /\ up[i].nick = n
      BY <2>2
    <3>2. CASE i # 1
      <4>1. i - 1 \in DOMAIN up' /\ up'[i - 1] = up[i]
        BY <1>1, <3>1, <3>2
      <4> QED
        BY <3>1, <4>1
    <3>3. CASE i = 1 /\ users[n] # 0
      BY <1>1, <3>1, <3>3
    <3>4. CASE i = 1 /\ users[n] = 0
      BY <2>1, <3>4, QuitIsComing
    <3> QED
      BY <3>2, <3>3, <3>4
  <2> QED
    BY <2>1, <2>2 DEF SyncInv, AskedAbout
<1>6. FreshNet'
  <2> SUFFICES ASSUME net = "fresh"
               PROVE  FreshNet'
    BY DEF FreshNet
  <2>1. network' # "none" /\ \A n \in Nicks : ~replicas'[n].settled
    BY DEF SyncInv, FreshNet
  <2>2. ASSUME NEW i \in DOMAIN down', down'[i].kind = "initUser"
        PROVE  \E j \in DOMAIN down' : j < i /\ Settles(down'[j])
    <3>1. CASE i \in DOMAIN down
      <4>1. PICK j \in DOMAIN down : j < i /\ Settles(down[j])
        BY <2>2, <3>1 DEF SyncInv, FreshNet
      <4> QED
        BY <4>1
    <3>2. CASE i \notin DOMAIN down
      <4>1. i = Len(down) + 1 /\ network = "up" /\ ~NetworkAsked
        BY <2>2, <3>2 DEF NetworkAsked
      <4>2. PICK j \in DOMAIN down : Settles(down[j])
        BY <4>1 DEF SyncInv, FreshNet
      <4>3. j < i
        BY <1>2, <4>1, <4>2
      <4> QED
        BY <4>2, <4>3
    <3> QED
      BY <3>1, <3>2
  <2>3. network' # "up" \/ \E j \in DOMAIN down' : Settles(down'[j])
    BY DEF SyncInv, FreshNet, NetworkAsked
  <2> QED
    BY <2>1, <2>2, <2>3 DEF FreshNet
<1>7. Coming'
  <2>1. \A i \in DOMAIN down' : down'[i].network # "none" => network' # "none"
    BY <1>2
  <2>2. \A i \in DOMAIN down' : ~Creates(down'[i])
    <3>1. \A i \in DOMAIN down : ~Creates(down[i])
      BY <1>2 DEF SyncInv, Coming
    <3> QED
      BY <3>1 DEF Creates
  <2> QED
    BY <1>2, <2>1, <2>2 DEF Coming
<1> QED
  BY <1>3, <1>4, <1>5, <1>6, <1>7 DEF SyncInv

LEMMA AnswerIsAnnounced ==
  ASSUME SyncInv, up # <<>>, up' = Tail(up),
         UNCHANGED <<network, connected, users, session, net, netConnected, replicas, disturbed>>,
         NEW m \in MessageType, m.kind \in {"initNetwork", "initUser"},
         m.kind = "initUser" => m.nick \in Nicks /\ users[m.nick] # 0,
         Sent(m)
  PROVE  m \in Messages /\ Announced(m)
<1>1. m \in Messages
  BY DEF Messages, AboutUsers, SyncInv, CoreOK, Sent
<1>2. \A n \in Nicks : (Had(m, n) <=> users[n] # 0) /\ users[n] = m.table[n] /\ ~Off(m)
  BY DEF Had, Sent, Off
<1>3. NetworkBefore(m) = network /\ ConnectedBefore(m) = connected
  BY DEF NetworkBefore, ConnectedBefore, Sent
<1>4. Follows(network, connected, users, m)
  BY <1>2, <1>3 DEF Follows, Fits
<1>5. up' \in Seq(Requests) /\ disturbed' \in BOOLEAN
  BY ClientTypes
<1> QED
  BY <1>1, <1>4, <1>5 DEF Announced, Sent

LEMMA HandleInitRequestKeeps ==
  ASSUME SyncInv, HandleInitRequest
  PROVE  SyncInv'
<1>1. /\ up # <<>> /\ up' = Tail(up)
      /\ UNCHANGED <<network, connected, users, session, net, netConnected, replicas, disturbed>>
  BY DEF HandleInitRequest, coreVars, clientVars, countVars
<1>2. PICK r : r = Head(up)
  OBVIOUS
<1>3. r \in Requests /\ up \in Seq(Requests) /\ session
  BY <1>1, <1>2, ClientTypes DEF SyncInv, ClientOK
<1>4. CoreOK'
  BY <1>1 DEF SyncInv, CoreOK
<1>5. ASSUME NEW m \in MessageType, Sent(m),
             \/ m.kind = "initNetwork" /\ r.kind = "network"
             \/ m.kind = "initUser" /\ r.kind = "user" /\ m.nick = r.nick /\ users[r.nick] # 0
      PROVE  SyncInv'
  <2>1. m.kind = "initUser" => m.nick \in Nicks /\ users[m.nick] # 0 /\ network = "up"
    BY <1>3, <1>5, UsersMeanConnected DEF Requests
  <2>2. m \in Messages /\ Announced(m)
    BY <1>1, <1>5, <2>1, AnswerIsAnnounced
  <2>3. /\ ClientOK' /\ LinesOK' /\ Heard'
        /\ \A i \in DOMAIN down : i \in DOMAIN down' /\ down'[i] = down[i]
        /\ \A i \in DOMAIN down' : i \in DOMAIN down \/ (session /\ i = Len(down) + 1 /\ down'[i] = m)
        /\ Len(down) + 1 \in DOMAIN down' /\ down'[Len(down) + 1] = m
    BY <1>3, <2>2, AnnouncedLines, AnnouncedHeard
  <2>4. m.network = network
    BY <1>1, <1>5 DEF Sent
  <2> QED
    BY <1>1, <1>2, <1>5, <2>1, <2>3, <2>4, RequestKeeps DEF Settles
<1>6. CASE r.kind = "network" /\ network = "up"
  <2>1. Tell("initNetwork", "", "")
    BY <1>2, <1>6 DEF HandleInitRequest
  <2>2. PICK m \in MessageType : m.kind = "initNetwork" /\ Sent(m)
    BY <1>4, <2>1, TellIs, KindsAre
  <2> QED
    BY <1>5, <1>6, <2>2
<1>7. CASE r.kind = "user" /\ users[r.nick] # 0
  <2>1. Tell("initUser", r.nick, "")
    BY <1>2, <1>7 DEF HandleInitRequest
  <2>2. "initUser" \in Kinds /\ r.nick \in Names /\ "" \in Names
    BY <1>3, KindsAre DEF Requests
  <2>3. PICK m \in MessageType : m.kind = "initUser" /\ m.nick = r.nick /\ Sent(m)
    BY <1>4, <2>1, <2>2, TellIs
  <2> QED
    BY <1>5, <1>7, <2>3
<1>8. CASE /\ ~(r.kind = "network" /\ network = "up")
           /\ ~(r.kind = "user" /\ users[r.nick] # 0)
  <2>1. down' = down
    BY <1>2, <1>8 DEF HandleInitRequest
  <2>2. up' \in Seq(Requests)
    BY <1>1, <1>3
  <2>3. ClientOK' /\ LinesOK'
    BY <1>1, <1>3, <2>1, <2>2 DEF SyncInv, ClientOK, LinesOK, UpToDate, GoneWasSaid
  <2>4. Heard'
    BY <1>1, <2>1 DEF SyncInv, Heard, At, Before, View
  <2> QED
    BY <1>1, <1>2, <1>8, <2>1, <2>3, <2>4, RequestKeeps
<1> QED
  BY <1>6, <1>7, <1>8

LEMMA AddClientKeeps ==
  ASSUME SyncInv, AddClient
  PROVE  SyncInv'
<1>1. PICK m : m = [kind |-> "sessionState", nick |-> "", to |-> "",
                    network |-> network, connected |-> connected, table |-> users]
  OBVIOUS
<1>2. /\ ~session /\ session' = TRUE /\ down' = <<m>> /\ up' = <<>> /\ disturbed' = FALSE
      /\ UNCHANGED <<network, connected, users, net, netConnected, replicas>>
  BY <1>1 DEF AddClient, coreVars
<1>3. CoreOK /\ CoreOK'
  BY <1>2 DEF SyncInv, CoreOK
<1>4. m \in MessageType
  BY <1>1, <1>3, KindsAre DEF CoreOK, MessageType
<1>5. m.kind = "sessionState" /\ m.network = network /\ m.connected = connected /\ m.table = users
  BY <1>1
<1>6. m \in Messages /\ ~Off(m) /\ Creates(m)
  BY <1>3, <1>4, <1>5 DEF Messages, AboutUsers, CoreOK, Off, Creates
<1>7. net = "none" /\ replicas = NoReplicas
  BY <1>2, ClientTypes DEF SyncInv, ClientOK
<1>8. \A n \in Nicks : ~replicas[n].known /\ ~replicas[n].settled /\ View[n] = 0
  BY <1>7, NobodyIs DEF View
<1>9. DOMAIN down' = {1} /\ down'[1] = m /\ Len(down') = 1 /\ down' # <<>> /\ Head(down') = m
      /\ down' \in Seq(Messages) /\ up' \in Seq(Requests)
  BY <1>2, <1>6
<1>10. ClientOK'
  BY <1>2, ClientTypes DEF ClientOK
<1>11. LinesOK'
  <2>1. Linked(down')
    BY <1>9 DEF Linked
  <2>2. UpToDate'
    BY <1>2, <1>5, <1>9 DEF UpToDate
  <2>3. GoneWasSaid'
    BY <1>2, <1>5, <1>9 DEF GoneWasSaid
  <2> QED
    BY <1>9, <2>1, <2>2, <2>3 DEF LinesOK
<1>12. Heard'
  <2>1. Before(m)'
    BY <1>2, <1>5, <1>7, <1>8 DEF Before, Fits, View
  <2>2. Before(Head(down))'
    BY <1>9, <2>1 DEF Before
  <2> QED
    BY <1>9, <2>2 DEF Heard
<1>13. DisturbedAtRest' /\ AskedAbout' /\ FreshNet'
  BY <1>2, <1>5, <1>6, <1>7, <1>8, <1>9 DEF DisturbedAtRest, AskedAbout, FreshNet
<1>14. Coming'
  <2>1. NoneYet'
    BY <1>2, <1>5, <1>7, <1>9 DEF NoneYet
  <2> QED
    BY <1>2, <1>5, <1>9, <2>1 DEF Coming
<1> QED
  BY <1>3, <1>10, <1>11, <1>12, <1>13, <1>14 DEF SyncInv

LEMMA DisconnectedKeeps ==
  ASSUME SyncInv, Disconnected
  PROVE  SyncInv'
<1>1. /\ session' = FALSE /\ down' = <<>> /\ up' = <<>>
      /\ net' = "none" /\ netConnected' = FALSE /\ replicas' = NoReplicas
      /\ UNCHANGED <<network, connected, users, disturbed>>
  BY DEF Disconnected, coreVars, countVars
<1>2. CoreOK'
  BY <1>1 DEF SyncInv, CoreOK
<1>3. \A n \in Nicks : ~replicas'[n].known /\ ~replicas'[n].settled
  BY <1>1, NobodyIs
<1>4. ClientOK'
  BY <1>1, <1>3, ClientTypes, NobodyIs DEF ClientOK
<1>5. down' \in Seq(Messages) /\ up' \in Seq(Requests) /\ DOMAIN down' = {}
  BY <1>1
<1>6. LinesOK'
  BY <1>1, <1>5 DEF LinesOK, Linked, UpToDate, GoneWasSaid
<1>7. Heard' /\ DisturbedAtRest' /\ AskedAbout' /\ FreshNet' /\ Coming'
  BY <1>1, <1>3, <1>5 DEF Heard, DisturbedAtRest, AskedAbout, FreshNet, Coming
<1> QED
  BY <1>2, <1>4, <1>6, <1>7 DEF SyncInv

----------------------------------------------------------------------------
(* The theorems.                                                            *)

LEMMA InitIsInvariant ==
  ASSUME Init
  PROVE  SyncInv /\ Rest
<1> USE DEF Init
<1>1. /\ DOMAIN down = {} /\ down \in Seq(Messages) /\ up \in Seq(Requests)
      /\ \A n \in Nicks : NoUsers[n] = 0
  BY DEF NoUsers
<1>2. CoreOK
  <2>1. NoUsers \in Tables
    BY BoundsAssumption DEF NoUsers, Tables
  <2> QED
    BY <2>1 DEF CoreOK, Networks
<1>3. ClientOK
  BY NobodyIs DEF ClientOK
<1>4. LinesOK
  BY <1>1 DEF LinesOK, Linked, UpToDate, GoneWasSaid
<1>5. Heard /\ DisturbedAtRest /\ AskedAbout /\ FreshNet /\ Coming
  BY <1>1, NobodyIs DEF Heard, DisturbedAtRest, AskedAbout, FreshNet, Coming
<1>6. Rest
  <2>1. 0 \in 0 .. MaxEvents /\ 0 \in 0 .. MaxSessions
    BY BoundsAssumption
  <2> QED
    BY <2>1 DEF Rest, Stages
<1> QED
  BY <1>2, <1>3, <1>4, <1>5, <1>6 DEF SyncInv

LEMMA RestStep ==
  ASSUME Rest, [Next]_vars
  PROVE  Rest'
<1> USE DEF Rest, Stages
<1>1. CASE CoreEvents
  <2>1. Event
    BY <1>1 DEF CoreEvents, CreateNetwork, RemoveNetwork, SetConnected, AddIrcUser, SetProperty,
                SetNick, Quit
  <2> QED
    BY <2>1, EventIs DEF Event, clientVars
<1>2. CASE AddClient
  <2>1. sessions' \in 0 .. MaxSessions
    <3>1. sessions \in 0 .. MaxSessions /\ sessions < MaxSessions /\ sessions' = sessions + 1
      BY <1>2 DEF AddClient
    <3> QED
      BY <3>1, BoundsAssumption
  <2> QED
    BY <1>2, <2>1 DEF AddClient
<1>3. CASE Disconnected
  BY <1>3 DEF Disconnected, countVars
<1>4. CASE HandleInitRequest
  BY <1>4 DEF HandleInitRequest, clientVars, countVars
<1>5. CASE ClientHandles
  <2>1. UNCHANGED <<events, sessions>>
    BY <1>5 DEF ClientHandles, Handle, countVars, HandleSessionState, HandleNetworkCreated,
                HandleNetworkRemoved, HandleSetConnected, HandleAddIrcUser, HandleSetProperty,
                HandleSetNick, HandleQuit, HandleInitNetwork, HandleInitUser
  <2>2. stage' \in Stages /\ awaited' \in BOOLEAN
    BY <1>5 DEF ClientHandles, HandleSessionState, HandleNetworkCreated, HandleNetworkRemoved,
                HandleSetConnected, HandleAddIrcUser, HandleSetProperty, HandleSetNick, HandleQuit,
                HandleInitNetwork, HandleInitUser, SyncState, AwaitedAfterRemoval, clientVars
  <2> QED
    BY <2>1, <2>2
<1>6. CASE UNCHANGED vars
  BY <1>6 DEF vars, clientVars, countVars
<1> QED
  BY <1>1, <1>2, <1>3, <1>4, <1>5, <1>6 DEF Next

LEMMA Step ==
  ASSUME SyncInv, Rest, [Next]_vars
  PROVE  SyncInv' /\ Rest'
<1>1. Rest'
  BY RestStep
<1>2. CASE Next
  BY <1>1, <1>2, CoreEventsKeep, AddClientKeeps, DisconnectedKeeps, HandleInitRequestKeeps,
     ClientHandlesOne DEF Next
<1>3. CASE UNCHANGED vars
  <2>1. UNCHANGED <<network, connected, users, session, down, up, net, netConnected, replicas, disturbed>>
    BY <1>3 DEF vars, coreVars, clientVars, countVars
  <2>2. CoreOK' /\ ClientOK'
    BY <2>1 DEF SyncInv, CoreOK, ClientOK
  <2>3. LinesOK'
    BY <2>1 DEF SyncInv, LinesOK, UpToDate, GoneWasSaid
  <2>4. Heard'
    BY <2>1 DEF SyncInv, Heard, At, Before, View
  <2>5. DisturbedAtRest' /\ AskedAbout'
    BY <2>1 DEF SyncInv, DisturbedAtRest, AskedAbout, AllSettled
  <2>6. FreshNet' /\ Coming'
    BY <2>1 DEF SyncInv, FreshNet, NetworkAsked, Coming, NoneYet
  <2> QED
    BY <1>1, <2>2, <2>3, <2>4, <2>5, <2>6 DEF SyncInv
<1> QED
  BY <1>2, <1>3

LEMMA InvariantHolds == Spec => [](SyncInv /\ Rest)
<1>1. Init => SyncInv /\ Rest
  BY InitIsInvariant
<1>2. SyncInv /\ Rest /\ [Next]_vars => (SyncInv /\ Rest)'
  BY Step
<1> QED
  BY <1>1, <1>2, PTL DEF Spec

\* Every variable keeps its type, and only users that are known are settled.
THEOREM TypeCorrectness == Spec => []TypeOK
<1>1. SyncInv /\ Rest => TypeOK
  BY DEF SyncInv, CoreOK, ClientOK, Rest, TypeOK, Tables, Networks
<1> QED
  BY <1>1, InvariantHolds, PTL

\* When all messages have been handled the client has what the core has, and,
\* unless something disturbed the session, knows all about every user of it.
THEOREM ClientConverges == Spec => []Converged
<1>1. ASSUME SyncInv, Quiet
      PROVE  /\ net = IF network = "up" THEN "done" ELSE "none"
             /\ netConnected = connected
             /\ \A n \in Nicks : users[n] # 0 => replicas[n].known
             /\ ~disturbed => View = users /\ \A n \in Nicks : replicas[n].known => users[n] # 0
  <2>1. At(network, connected, users) /\ net # "fresh" /\ (~disturbed => AllSettled)
    BY <1>1, AtRest
  <2>2. net = IF network = "up" THEN "done" ELSE "none"
    BY <1>1, <2>1, ClientTypes DEF At
  <2>3. netConnected = connected /\ \A n \in Nicks : users[n] # 0 => replicas[n].known
    <3>1. CASE net = "done"
      BY <2>1, <3>1 DEF At
    <3>2. CASE net = "none"
      <4>1. netConnected = FALSE /\ connected = FALSE
        BY <1>1, <2>2, <3>2, ClientTypes DEF SyncInv, CoreOK
      <4> QED
        BY <1>1, <4>1, UsersMeanConnected
    <3> QED
      BY <2>2, <3>1, <3>2
  <2>4. ASSUME ~disturbed
        PROVE  View = users /\ \A n \in Nicks : replicas[n].known => users[n] # 0
    <3>1. ASSUME NEW n \in Nicks
          PROVE  /\ replicas[n].known => users[n] # 0
                 /\ View[n] = users[n]
      BY <1>1, <2>1, <2>3, <2>4, <3>1, ViewOf, ClientTypes DEF At, AllSettled
    <3>2. users = [n \in Nicks |-> users[n]] /\ View = [n \in Nicks |-> View[n]]
      BY <1>1 DEF SyncInv, CoreOK, Tables, View
    <3> QED
      BY <3>1, <3>2
  <2> QED
    BY <2>2, <2>3, <2>4
<1>2. SyncInv /\ Rest => Converged
  BY <1>1 DEF Converged
<1> QED
  BY <1>2, InvariantHolds, PTL

----------------------------------------------------------------------------
(* The refinement.                                                          *)

\* The tables of the moments the client has yet to hear of.
TablesOf(s) == [i \in DOMAIN s |-> s[i].table]

LEMMA TablesOfNone == TablesOf(<<>>) = <<>>
  BY EmptySeq DEF TablesOf

LEMMA TablesOfAppend ==
  ASSUME NEW S, NEW s \in Seq(S), NEW m \in S
  PROVE  TablesOf(Append(s, m)) = Append(TablesOf(s), m.table)
<1> DEFINE a == TablesOf(Append(s, m))
           b == Append(TablesOf(s), m.table)
           T == {x.table : x \in S}
<1>1. TablesOf(s) = [i \in 1 .. Len(s) |-> s[i].table] /\ Len(s) \in Nat
  BY DEF TablesOf
<1>2. TablesOf(s) \in Seq(T) /\ Len(TablesOf(s)) = Len(s)
  BY <1>1
<1>3. a = [i \in 1 .. Len(s) + 1 |-> Append(s, m)[i].table]
  BY DEF TablesOf
<1>4. a \in Seq(T) /\ Len(a) = Len(s) + 1
  <2>1. \A i \in 1 .. Len(s) + 1 : Append(s, m)[i] \in S
    OBVIOUS
  <2> HIDE DEF a
  <2> QED
    BY <1>1, <1>3, <2>1
<1>5. b \in Seq(T) /\ Len(b) = Len(s) + 1
  BY <1>2
<1>6. ASSUME NEW i \in 1 .. Len(s) + 1
      PROVE  a[i] = b[i]
  BY <1>1, <1>2, <1>3
<1> HIDE DEF a, b
<1>7. a = b
  BY <1>4, <1>5, <1>6, SeqEqual
<1> QED
  BY <1>7 DEF a, b

LEMMA TablesOfTail ==
  ASSUME NEW S, NEW s \in Seq(S), s # <<>>
  PROVE  /\ TablesOf(s) # <<>> /\ Head(TablesOf(s)) = Head(s).table
         /\ TablesOf(Tail(s)) = Tail(TablesOf(s))
<1> DEFINE T == {x.table : x \in S}
           t == TablesOf(s)
           a == TablesOf(Tail(s))
<1>1. Len(s) \in Nat /\ Len(s) # 0 /\ Tail(s) \in Seq(S) /\ Len(Tail(s)) = Len(s) - 1
  OBVIOUS
<1>2. t = [i \in 1 .. Len(s) |-> s[i].table]
  BY DEF TablesOf
<1>3. a = [i \in 1 .. Len(s) - 1 |-> s[i + 1].table]
  BY <1>1 DEF TablesOf
<1> HIDE DEF t, a
<1>4. t \in Seq(T) /\ Len(t) = Len(s)
  BY <1>1, <1>2
<1>5. a \in Seq(T) /\ Len(a) = Len(s) - 1
  BY <1>1, <1>3
<1>6. t # <<>> /\ Head(t) = Head(s).table
  BY <1>1, <1>2, <1>4
<1>7. Tail(t) \in Seq(T) /\ Len(Tail(t)) = Len(s) - 1
  BY <1>1, <1>4, <1>6
<1>8. ASSUME NEW i \in 1 .. Len(s) - 1
      PROVE  a[i] = Tail(t)[i]
  BY <1>1, <1>2, <1>3, <1>4, <1>6
<1>9. a = Tail(t)
  BY <1>5, <1>7, <1>8, SeqEqual
<1> QED
  BY <1>6, <1>9 DEF t, a

LEMMA PublishIs ==
  ASSUME SyncInv, SyncInv', View' = View,
         down' = down \/ \E m : down' = Append(down, m) /\ m.table = users'
  PROVE  Promise!Publish
<1>1. users' \in Tables
  BY DEF SyncInv, CoreOK
<1>2. TablesOf(down') \in {TablesOf(down), Append(TablesOf(down), users')}
  <2>1. CASE down' = down
    BY <2>1
  <2>2. CASE \E m : down' = Append(down, m) /\ m.table = users'
    <3>1. PICK m : down' = Append(down, m) /\ m.table = users'
      BY <2>2
    <3>2. down \in Seq(Messages) /\ down' \in Seq(Messages)
      BY DEF SyncInv, LinesOK
    <3>3. m \in Messages
      BY <3>1, <3>2
    <3> QED
      BY <3>1, <3>2, <3>3, TablesOfAppend
  <2> QED
    BY <2>1, <2>2
<1> QED
  BY <1>1, <1>2 DEF Promise!Publish, Promise!Tables, Tables, TablesOf

LEMMA TellPublishes ==
  ASSUME NEW kind, NEW nick, NEW to, Tell(kind, nick, to)
  PROVE  down' = down \/ \E m : down' = Append(down, m) /\ m.table = users'
<1>1. PICK m : m = [kind |-> kind, nick |-> nick, to |-> to,
                    network |-> network', connected |-> connected', table |-> users']
  OBVIOUS
<1>2. m.table = users' /\ (down' = down \/ down' = Append(down, m))
  BY <1>1 DEF Tell
<1> QED
  BY <1>2

LEMMA RefinementInit ==
  ASSUME Init
  PROVE  Promise!Init
<1>1. View = NoUsers
  BY NobodyIs DEF Init, View, NoUsers
<1>2. TablesOf(down) = <<>>
  BY TablesOfNone DEF Init
<1> QED
  BY <1>1, <1>2 DEF Init, Promise!Init, Promise!NoUsers, NoUsers, TablesOf

LEMMA RefinementStep ==
  ASSUME SyncInv, SyncInv', [Next]_vars
  PROVE  [Promise!Next]_(Promise!vars)
<1>1. CASE CoreEvents
  <2>1. View' = View
    BY <1>1 DEF CoreEvents, CreateNetwork, RemoveNetwork, SetConnected, AddIrcUser, SetProperty,
                SetNick, Quit, Event, clientVars, View
  <2>2. \E kind, nick, to : Tell(kind, nick, to)
    BY <1>1 DEF CoreEvents, CreateNetwork, RemoveNetwork, SetConnected, AddIrcUser, SetProperty,
                SetNick, Quit
  <2> QED
    BY <2>1, <2>2, TellPublishes, PublishIs DEF Promise!Next
<1>2. CASE AddClient
  <2>1. View' = View /\ users' = users
    BY <1>2 DEF AddClient, coreVars, View
  <2>2. down = <<>>
    BY <1>2 DEF AddClient, SyncInv, ClientOK
  <2>3. PICK m : m = [kind |-> "sessionState", nick |-> "", to |-> "",
                      network |-> network, connected |-> connected, table |-> users]
    OBVIOUS
  <2>4. down' = Append(down, m) /\ m.table = users'
    <3>1. down' = <<m>>
      BY <1>2, <2>3 DEF AddClient
    <3>2. m.table = users'
      BY <2>1, <2>3
    <3> QED
      BY <2>2, <3>1, <3>2
  <2> QED
    BY <2>1, <2>4, PublishIs DEF Promise!Next
<1>3. CASE Disconnected
  <2>1. TablesOf(down') = <<>> /\ users' = users
    BY <1>3, TablesOfNone DEF Disconnected, coreVars
  <2>2. View' = NoUsers
    BY <1>3, NobodyIs DEF Disconnected, View, NoUsers
  <2> QED
    BY <2>1, <2>2 DEF Promise!Next, Promise!Forget, Promise!NoUsers, NoUsers, TablesOf
<1>4. CASE HandleInitRequest
  <2>1. View' = View
    BY <1>4 DEF HandleInitRequest, clientVars, View
  <2>2. down' = down \/ \E kind, nick, to : Tell(kind, nick, to)
    BY <1>4 DEF HandleInitRequest
  <2> QED
    BY <2>1, <2>2, TellPublishes, PublishIs DEF Promise!Next
<1>5. CASE ClientHandles
  <2>1. /\ down # <<>> /\ down' = Tail(down) /\ users' = users
        /\ \A n \in Nicks : /\ View'[n] # 0 => View'[n] = Head(down).table[n]
                            /\ View[n] # 0 /\ View[n] = Head(down).table[n] => View'[n] = View[n]
    BY <1>5, ClientHandlesOne
  <2>2. down \in Seq(Messages)
    BY DEF SyncInv, LinesOK
  <2>3. /\ TablesOf(down) # <<>> /\ Head(TablesOf(down)) = Head(down).table
        /\ TablesOf(down') = Tail(TablesOf(down))
    BY <2>1, <2>2, TablesOfTail
  <2>4. View' \in Tables
    <3>1. replicas' \in [Nicks -> Replicas] /\ 0 \in 0 .. MaxEvents
      BY BoundsAssumption DEF SyncInv, ClientOK
    <3> QED
      BY <3>1 DEF View, Tables, Replicas
  <2>5. Promise!Deliver
    BY <2>1, <2>3, <2>4 DEF Promise!Deliver, Promise!Tables, Tables, TablesOf
  <2> QED
    BY <2>5 DEF Promise!Next
<1>6. CASE UNCHANGED vars
  BY <1>6 DEF vars, coreVars, clientVars, Promise!vars, View
<1> QED
  BY <1>1, <1>2, <1>3, <1>4, <1>5, <1>6 DEF Next

\* What the client takes for settled is what the core said at one moment, and
\* moments are not revisited: the protocol implements the delayed view.
THEOREM ImplementsDelayedView == Spec => ViewIsDelayed
<1>1. Init => Promise!Init
  BY RefinementInit
<1>2. SyncInv /\ SyncInv' /\ [Next]_vars => [Promise!Next]_(Promise!vars)
  BY RefinementStep
<1> QED
  BY <1>1, <1>2, InvariantHolds, PTL DEF Spec, ViewIsDelayed, Promise!Spec

=============================================================================
