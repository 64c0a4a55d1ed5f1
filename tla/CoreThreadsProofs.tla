-------------------------- MODULE CoreThreadsProofs --------------------------
(***************************************************************************)
(* For any connections, users and bounds: the records of the core's threads  *)
(* are about known users and connections, a core that runs can be reached    *)
(* unless its setup could not be saved, a connection is in one place at a    *)
(* time, and the way from the core thread into a session, over three queues  *)
(* of two threads, is one queue of logins.                                   *)
(***************************************************************************)
EXTENDS CoreThreads, FunctionTheorems, FiniteSetTheorems, SequenceTheorems, TLAPS

\* What is posted to the core thread is about a connection exactly if it hands one over.
Events == [kind : {"client"}, user : Users, peer : Peers]
          \union [kind : {"initialized", "addSocket"}, user : Users, peer : {NoPeer}]
Threads == {"none", "starting", "running", "quitting", "ended"}

SetupOK == configured \in BOOLEAN /\ listening \in BOOLEAN /\ backends \in BOOLEAN /\ unsaved \in BOOLEAN
SocketsOK == /\ fresh \subseteq Peers /\ open \subseteq Peers
             /\ connecting \subseteq Peers /\ registered \subseteq Peers
             /\ released \subseteq Peers /\ silent \subseteq Peers
             /\ beats \in [Peers -> 0 .. MaxHeartBeats]
QueuesOK == /\ events \in Seq(Events)
            /\ clientQueue \in [Users -> Seq(Peers)] /\ arrivals \in [Users -> Seq(Peers)]
SessionsOK == /\ initialized \subseteq Users /\ blocked \subseteq Users
              /\ thread \in [Users -> Threads]
              /\ attached \in [Users -> SUBSET Peers]
              /\ opened \in [Users -> 0 .. MaxSockets]
              /\ stage \in {"running", "stopping", "ended"} /\ waiting \in Users \union {NoUser}

TInv == SetupOK /\ SocketsOK /\ QueuesOK /\ SessionsOK

LEMMA TInvImpliesTypeOK == TInv => TypeOK
<1> SUFFICES ASSUME TInv PROVE TypeOK
  OBVIOUS
<1> DEFINE AllEvents == [kind : {"client", "initialized", "addSocket"}, user : Users, peer : Peers \union {NoPeer}]
<1>1. Events \subseteq AllEvents
  BY DEF Events
<1>2. events \in Seq(AllEvents)
  <2>1. events \in Seq(Events)
    BY DEF TInv, QueuesOK
  <2> QED
    BY <1>1, <2>1, SeqMonotonic
<1> QED
  BY <1>2 DEF TInv, TypeOK, SetupOK, SocketsOK, QueuesOK, SessionsOK, Threads

LEMMA PostedIsEvent ==
    ASSUME NEW u \in Users
    PROVE  /\ \A p \in Peers : Posted("client", u, p) \in Events
           /\ Posted("initialized", u, NoPeer) \in Events
           /\ Posted("addSocket", u, NoPeer) \in Events
BY DEF Posted, Events

LEMMA TInvInit == Init => TInv
<1> SUFFICES ASSUME Init PROVE TInv
  OBVIOUS
<1>1. SetupOK
  BY DEF Init, SetupOK
<1>2. SocketsOK
  BY ThreadsAssumption DEF Init, SocketsOK
<1>3. QueuesOK
  BY DEF Init, QueuesOK
<1>4. SessionsOK
  BY ThreadsAssumption DEF Init, SessionsOK, Threads
<1> QED
  BY <1>1, <1>2, <1>3, <1>4 DEF TInv

LEMMA TInvStep == TInv /\ [Next]_vars => TInv'
<1> SUFFICES ASSUME TInv, [Next]_vars PROVE TInv'
  OBVIOUS
<1> USE ThreadsAssumption
<1>1. ASSUME NEW p \in Peers, IncomingConnection(p) PROVE TInv'
  BY <1>1 DEF IncomingConnection, TInv, SetupOK, SocketsOK, QueuesOK, SessionsOK, handover, sessions, stopping
<1>2. ASSUME NEW p \in Peers, Deny(p) PROVE TInv'
  BY <1>2 DEF Deny, TInv, SetupOK, SocketsOK, QueuesOK, SessionsOK, setup, handshake, handover, sessions, stopping
<1>3. ASSUME NEW p \in Peers, RegisterClient(p) PROVE TInv'
  BY <1>3 DEF RegisterClient, TInv, SetupOK, SocketsOK, QueuesOK, SessionsOK, sockets, handover, sessions, stopping
<1>4. ASSUME NEW p \in Peers, SetupData(p) PROVE TInv'
  BY <1>4 DEF SetupData, SetUp, TInv, SetupOK, SocketsOK, QueuesOK, SessionsOK, sockets, handshake, handover, sessions, stopping
<1>5. ASSUME NEW p \in Peers, ClientDisconnected(p) PROVE TInv'
  BY <1>5 DEF ClientDisconnected, TInv, SetupOK, SocketsOK, QueuesOK, SessionsOK, Handles, sockets, handover, sessions, stopping
<1>6. ASSUME NEW p \in Peers, ClientCloses(p) \/ FallsSilent(p) PROVE TInv'
  BY <1>6 DEF ClientCloses, FallsSilent, TInv, SetupOK, SocketsOK, QueuesOK, SessionsOK, setup, handshake, handover, sessions, stopping
<1>7. ASSUME NEW p \in Peers, NEW u \in Users, Login(p, u) PROVE TInv'
  <2>1. events' \in Seq(Events)
    BY <1>7, PostedIsEvent DEF Login, TInv, QueuesOK
  <2>2. thread' \in [Users -> Threads]
    BY <1>7 DEF Login, TInv, SessionsOK, Threads
  <2> QED
    BY <1>7, <2>1, <2>2 DEF Login, TInv, SetupOK, SocketsOK, QueuesOK, SessionsOK, setup, sockets, stopping
<1>8. ASSUME NEW p \in Peers, NEW u \in Users, PeerDisconnected(p, u) PROVE TInv'
  BY <1>8 DEF PeerDisconnected, TInv, SetupOK, SocketsOK, QueuesOK, SessionsOK, setup, sockets, handshake, handover, stopping
<1>9. ASSUME NEW p \in Peers, NEW u \in Users, SendHeartBeat(p, u) PROVE TInv'
  <2>1. SocketsOK'
    BY <1>9 DEF SendHeartBeat, TInv, SocketsOK, handshake
  <2> QED
    BY <1>9, <2>1 DEF SendHeartBeat, TInv, SetupOK, QueuesOK, SessionsOK, setup, handover, sessions, stopping
<1>10. ASSUME NEW p \in Peers, NEW u \in Users, HeartBeatReply(p, u) PROVE TInv'
  BY <1>10 DEF HeartBeatReply, TInv, SetupOK, SocketsOK, QueuesOK, SessionsOK, setup, handshake, handover, sessions, stopping
<1>11. ASSUME NEW u \in Users, Run(u) PROVE TInv'
  <2>1. events' \in Seq(Events)
    BY <1>11, PostedIsEvent DEF Run, TInv, QueuesOK
  <2> QED
    BY <1>11, <2>1 DEF Run, TInv, SetupOK, SocketsOK, QueuesOK, SessionsOK, Threads, setup, sockets, handshake, stopping
<1>12. ASSUME NEW u \in Users, AddPeer(u) PROVE TInv'
  <2>1. arrivals[u] \in Seq(Peers) /\ arrivals[u] # <<>>
    BY <1>12 DEF AddPeer, TInv, QueuesOK
  <2>2. Head(arrivals[u]) \in Peers /\ Tail(arrivals[u]) \in Seq(Peers)
    BY <2>1
  <2>3. QueuesOK'
    BY <1>12, <2>2 DEF AddPeer, TInv, QueuesOK
  <2> QED
    BY <1>12, <2>2, <2>3 DEF AddPeer, TInv, SetupOK, SocketsOK, SessionsOK, setup, sockets, handshake, stopping
<1>13. ASSUME NEW u \in Users, SocketInitialized(u) PROVE TInv'
  <2>1. events' \in Seq(Events)
    BY <1>13, PostedIsEvent DEF SocketInitialized, TInv, QueuesOK
  <2>2. opened' \in [Users -> 0 .. MaxSockets]
    BY <1>13 DEF SocketInitialized, TInv, SessionsOK
  <2> QED
    BY <1>13, <2>1, <2>2 DEF SocketInitialized, TInv, SetupOK, SocketsOK, QueuesOK, SessionsOK, setup, sockets, handshake, stopping
<1>14. ASSUME NEW u \in Users, Wait(u) \/ LeaveLoop(u) PROVE TInv'
  BY <1>14 DEF Wait, LeaveLoop, TInv, SetupOK, SocketsOK, QueuesOK, SessionsOK, Threads, setup, sockets, handshake, handover, sessions, stopping
<1>15. ASSUME NEW u \in Users, EndSession(u) PROVE TInv'
  BY <1>15 DEF EndSession, TInv, SetupOK, SocketsOK, QueuesOK, SessionsOK, Threads, setup, handshake, handover
<1>16. CASE CoreEvent
  <2> DEFINE e == Head(events)
  <2>1. events \in Seq(Events) /\ events # <<>>
    BY <1>16 DEF CoreEvent, TInv, QueuesOK
  <2>2. e \in Events /\ events' \in Seq(Events)
    BY <1>16, <2>1 DEF CoreEvent
  <2>3. e.user \in Users /\ (e.kind = "client" => e.peer \in Peers)
    BY <2>2 DEF Events
  <2>4. QueuesOK' /\ initialized' \subseteq Users /\ blocked' \subseteq Users
    <3> HIDE DEF e
    <3>1. CASE e.kind = "client" /\ AddClientEvent(e)
      <4>1. UNCHANGED <<initialized, blocked>> /\ e.peer \in Peers
        BY <2>3, <3>1 DEF AddClientEvent
      <4>2. CASE arrivals' = [arrivals EXCEPT ![e.user] = Append(@, e.peer)] /\ UNCHANGED clientQueue
        BY <2>2, <2>3, <4>1, <4>2 DEF TInv, QueuesOK, SessionsOK
      <4>3. CASE clientQueue' = [clientQueue EXCEPT ![e.user] = Append(@, e.peer)] /\ UNCHANGED arrivals
        BY <2>2, <2>3, <4>1, <4>3 DEF TInv, QueuesOK, SessionsOK
      <4> QED
        BY <3>1, <4>2, <4>3 DEF AddClientEvent
    <3>2. CASE SetSessionInitialized(e.user)
      <4>1. arrivals[e.user] \o clientQueue[e.user] \in Seq(Peers)
        BY <2>3 DEF TInv, QueuesOK
      <4> QED
        BY <2>2, <2>3, <3>2, <4>1 DEF SetSessionInitialized, TInv, QueuesOK, SessionsOK
    <3>3. CASE AddSocket(e.user)
      BY <2>2, <2>3, <3>3 DEF AddSocket, TInv, QueuesOK, SessionsOK
    <3> QED
      BY <1>16, <3>1, <3>2, <3>3 DEF CoreEvent, e
  <2> QED
    BY <1>16, <2>4 DEF CoreEvent, TInv, SetupOK, SocketsOK, SessionsOK, setup, sockets, handshake, stopping
<1>17. CASE Stop \/ End
  BY <1>17 DEF Stop, End, TInv, SetupOK, SocketsOK, QueuesOK, SessionsOK, setup, sockets, handshake, handover, sessions, stopping
<1>18. CASE UNCHANGED vars
  BY <1>18 DEF vars, TInv, SetupOK, SocketsOK, QueuesOK, SessionsOK, setup, sockets, handshake, handover, sessions, stopping
<1> QED
  BY <1>1, <1>2, <1>3, <1>4, <1>5, <1>6, <1>7, <1>8, <1>9, <1>10, <1>11, <1>12, <1>13, <1>14, <1>15, <1>16, <1>17, <1>18 DEF Next

\* Every record of the core thread, of the session threads and of the queues between
\* them is about known users and connections, and within its bounds.
THEOREM TypeCorrectness == Spec => []TypeOK
<1>1. Spec => []TInv
  BY TInvInit, TInvStep, PTL DEF Spec
<1> QED
  BY <1>1, TInvImpliesTypeOK, PTL

-----------------------------------------------------------------------------
\* What an unconfigured core adds: it listens exactly when nobody is connecting, and it
\* never has two clients connecting.
Reachable ==
    CoreRuns =>
        /\ configured /\ ~unsaved => listening
        /\ ~configured => /\ listening <=> connecting = {}
                          /\ \A x, y \in connecting : x = y

LEMMA ReachableImplies == Reachable => CoreIsReachable
<1> SUFFICES ASSUME Reachable, CoreRuns
             PROVE  /\ connecting = {} /\ ~unsaved => listening
                    /\ ~configured => Cardinality(connecting) <= 1
  BY DEF CoreIsReachable
<1>1. connecting = {} /\ ~unsaved => listening
  BY DEF Reachable
<1>2. ASSUME ~configured PROVE Cardinality(connecting) <= 1
  <2>1. CASE connecting = {}
    BY <2>1, FS_EmptySet
  <2>2. ASSUME NEW x \in connecting PROVE Cardinality(connecting) <= 1
    <3>1. connecting = {x}
      BY <1>2, <2>2 DEF Reachable
    <3> QED
      BY <3>1, FS_Singleton
  <2> QED
    BY <2>1, <2>2
<1> QED
  BY <1>1, <1>2

LEMMA ReachableStep == TInv /\ Reachable /\ [Next]_vars => Reachable'
<1> SUFFICES ASSUME TInv, Reachable, [Next]_vars PROVE Reachable'
  OBVIOUS
<1>0. SetupOK
  BY DEF TInv
<1>1. ASSUME NEW p \in Peers, IncomingConnection(p) PROVE Reachable'
  <2>1. CASE configured
    BY <1>0, <1>1, <2>1 DEF IncomingConnection, Reachable, CoreRuns, SetupOK, stopping
  <2>2. CASE ~configured
    <3>1. connecting' = {p} /\ ~configured' /\ ~listening'
      BY <1>0, <1>1, <2>2 DEF IncomingConnection, Reachable, SetupOK
    <3> QED
      BY <3>1 DEF Reachable
  <2> QED
    BY <2>1, <2>2
<1>2. ASSUME NEW p \in Peers, SetupData(p) PROVE Reachable'
  <2>1. p \in connecting /\ connecting' = connecting /\ stage' = stage /\ CoreRuns /\ ~configured
    BY <1>2 DEF SetupData, Handles, handshake, stopping
  <2>2. PICK outcome \in {"authenticator", "settings", "done"} : SetUp(outcome)
    BY <1>2 DEF SetupData
  <2> QED
    BY <1>0, <2>1, <2>2 DEF SetUp, Reachable, CoreRuns, SetupOK
<1>3. ASSUME NEW p \in Peers, ClientDisconnected(p) PROVE Reachable'
  BY <1>0, <1>3 DEF ClientDisconnected, Handles, Reachable, CoreRuns, SetupOK, stopping
<1>4. ASSUME NEW p \in Peers, NEW u \in Users, Login(p, u) PROVE Reachable'
  BY <1>4 DEF Login, Reachable, CoreRuns, setup, stopping
<1>5. CASE Stop \/ End
  BY <1>5 DEF Stop, End, Reachable, CoreRuns
<1>6. CASE /\ UNCHANGED <<configured, listening, unsaved, connecting>>
           /\ CoreRuns' => CoreRuns
  BY <1>6 DEF Reachable
<1>7. ASSUME NEW p \in Peers, Deny(p) \/ RegisterClient(p) \/ ClientCloses(p) \/ FallsSilent(p) PROVE Reachable'
  BY <1>6, <1>7 DEF Deny, RegisterClient, ClientCloses, FallsSilent, CoreRuns, setup, handshake, stopping
<1>8. ASSUME NEW p \in Peers, NEW u \in Users, PeerDisconnected(p, u) \/ SendHeartBeat(p, u) \/ HeartBeatReply(p, u)
      PROVE  Reachable'
  BY <1>6, <1>8 DEF PeerDisconnected, SendHeartBeat, HeartBeatReply, CoreRuns, setup, handshake, stopping
<1>9. ASSUME NEW u \in Users, Run(u) \/ AddPeer(u) \/ SocketInitialized(u) \/ Wait(u) \/ LeaveLoop(u) \/ EndSession(u)
      PROVE  Reachable'
  BY <1>6, <1>9 DEF Run, AddPeer, SocketInitialized, Wait, LeaveLoop, EndSession, CoreRuns, setup, handshake, stopping
<1>10. CASE CoreEvent \/ UNCHANGED vars
  BY <1>6, <1>10 DEF CoreEvent, vars, CoreRuns, setup, handshake, stopping
<1> QED
  BY <1>1, <1>2, <1>3, <1>4, <1>5, <1>7, <1>8, <1>9, <1>10 DEF Next

\* Unless its settings could not be saved, a core listens whenever nobody is connecting,
\* whatever its clients do, wherever its setup fails; and until it is configured it has
\* one client at a time.
THEOREM CoreCanBeReached == Spec => []CoreIsReachable
<1>1. Init => Reachable
  BY DEF Init, Reachable
<1>2. Spec => [](TInv /\ Reachable)
  BY <1>1, TInvInit, TInvStep, ReachableStep, PTL DEF Spec
<1> QED
  BY <1>2, ReachableImplies, PTL

-----------------------------------------------------------------------------
(* Sequences without repetition and their members.                          *)

Members(s) == {s[i] : i \in DOMAIN s}
NoRepeats(s) == \A i, j \in DOMAIN s : s[i] = s[j] => i = j

LEMMA Appended ==
    ASSUME NEW S, NEW s \in Seq(S), NEW x \in S
    PROVE  /\ Members(Append(s, x)) = Members(s) \union {x}
           /\ NoRepeats(s) /\ x \notin Members(s) => NoRepeats(Append(s, x))
<1>1. /\ DOMAIN s = 1 .. Len(s) /\ Len(s) \in Nat
      /\ DOMAIN Append(s, x) = 1 .. Len(s) + 1
      /\ \A i \in DOMAIN s : Append(s, x)[i] = s[i]
      /\ Append(s, x)[Len(s) + 1] = x
  OBVIOUS
<1>2. DOMAIN Append(s, x) = DOMAIN s \union {Len(s) + 1}
  BY <1>1
<1>3. Members(Append(s, x)) = Members(s) \union {x}
  BY <1>1, <1>2 DEF Members
<1>4. ASSUME NoRepeats(s), x \notin Members(s) PROVE NoRepeats(Append(s, x))
  BY <1>1, <1>2, <1>4 DEF Members, NoRepeats
<1> QED
  BY <1>3, <1>4

LEMMA HeadTaken ==
    ASSUME NEW S, NEW s \in Seq(S), s # <<>>
    PROVE  /\ Members(s) = Members(Tail(s)) \union {Head(s)}
           /\ NoRepeats(s) => NoRepeats(Tail(s)) /\ Head(s) \notin Members(Tail(s))
<1>1. /\ DOMAIN s = 1 .. Len(s) /\ Len(s) \in Nat \ {0} /\ Head(s) = s[1]
      /\ DOMAIN Tail(s) = 1 .. Len(s) - 1
      /\ \A i \in 1 .. Len(s) - 1 : Tail(s)[i] = s[i + 1]
  OBVIOUS
<1>2. Members(s) = Members(Tail(s)) \union {Head(s)}
  <2>1. ASSUME NEW x \in Members(s) PROVE x \in Members(Tail(s)) \union {Head(s)}
    <3>1. PICK i \in DOMAIN s : x = s[i]
      BY <2>1 DEF Members
    <3>2. i = 1 \/ (i - 1 \in DOMAIN Tail(s) /\ Tail(s)[i - 1] = x)
      BY <1>1, <3>1
    <3> QED
      BY <1>1, <3>1, <3>2 DEF Members
  <2>2. Members(Tail(s)) \subseteq Members(s) /\ Head(s) \in Members(s)
    BY <1>1 DEF Members
  <2> QED
    BY <2>1, <2>2
<1>3. ASSUME NoRepeats(s) PROVE NoRepeats(Tail(s)) /\ Head(s) \notin Members(Tail(s))
  BY <1>1, <1>3 DEF Members, NoRepeats
<1> QED
  BY <1>2, <1>3

LEMMA Concatenated ==
    ASSUME NEW S, NEW s \in Seq(S), NEW t \in Seq(S)
    PROVE  /\ Members(s \o t) = Members(s) \union Members(t)
           /\ NoRepeats(s) /\ NoRepeats(t) /\ Members(s) \intersect Members(t) = {} => NoRepeats(s \o t)
<1>1. /\ DOMAIN s = 1 .. Len(s) /\ Len(s) \in Nat
      /\ DOMAIN t = 1 .. Len(t) /\ Len(t) \in Nat
      /\ DOMAIN (s \o t) = 1 .. Len(s) + Len(t)
      /\ \A i \in 1 .. Len(s) + Len(t) : (s \o t)[i] = IF i <= Len(s) THEN s[i] ELSE t[i - Len(s)]
  OBVIOUS
<1>2. Members(s \o t) = Members(s) \union Members(t)
  <2>1. ASSUME NEW x \in Members(s \o t) PROVE x \in Members(s) \union Members(t)
    <3>1. PICK i \in 1 .. Len(s) + Len(t) : x = (s \o t)[i]
      BY <1>1, <2>1 DEF Members
    <3>2. \/ i \in DOMAIN s /\ x = s[i]
          \/ i - Len(s) \in DOMAIN t /\ x = t[i - Len(s)]
      BY <1>1, <3>1
    <3> QED
      BY <3>2 DEF Members
  <2>2. ASSUME NEW i \in DOMAIN s PROVE s[i] \in Members(s \o t)
    BY <1>1 DEF Members
  <2>3. ASSUME NEW i \in DOMAIN t PROVE t[i] \in Members(s \o t)
    <3>1. i + Len(s) \in 1 .. Len(s) + Len(t) /\ ~(i + Len(s) <= Len(s)) /\ i + Len(s) - Len(s) = i
      BY <1>1
    <3>2. i + Len(s) \in DOMAIN (s \o t) /\ t[i] = (s \o t)[i + Len(s)]
      BY <1>1, <3>1
    <3> QED
      BY <3>2 DEF Members
  <2>4. Members(s) \subseteq Members(s \o t) /\ Members(t) \subseteq Members(s \o t)
    <3> HIDE <1>1
    <3> QED
      BY <2>2, <2>3 DEF Members
  <2> QED
    BY <2>1, <2>4
<1>3. ASSUME NoRepeats(s), NoRepeats(t), Members(s) \intersect Members(t) = {} PROVE NoRepeats(s \o t)
  <2> SUFFICES ASSUME NEW i \in DOMAIN (s \o t), NEW j \in DOMAIN (s \o t), (s \o t)[i] = (s \o t)[j]
               PROVE  i = j
    BY DEF NoRepeats
  <2>1. CASE i <= Len(s) /\ j <= Len(s)
    BY <1>1, <1>3, <2>1 DEF NoRepeats
  <2>2. CASE ~(i <= Len(s)) /\ ~(j <= Len(s))
    BY <1>1, <1>3, <2>2 DEF NoRepeats
  <2>3. CASE i <= Len(s) /\ ~(j <= Len(s))
    <3>1. (s \o t)[i] \in Members(s)
      BY <1>1, <2>3 DEF Members
    <3>2. (s \o t)[j] \in Members(t)
      BY <1>1, <2>3 DEF Members
    <3> QED
      BY <1>3, <3>1, <3>2
  <2>4. CASE ~(i <= Len(s)) /\ j <= Len(s)
    <3>1. (s \o t)[i] \in Members(t)
      BY <1>1, <2>4 DEF Members
    <3>2. (s \o t)[j] \in Members(s)
      BY <1>1, <2>4 DEF Members
    <3> QED
      BY <1>3, <3>1, <3>2
  <2> QED
    BY <2>1, <2>2, <2>3, <2>4
<1> QED
  BY <1>2, <1>3

-----------------------------------------------------------------------------
(* Where the connections are, as sets: with the core thread, posted to it,   *)
(* in the queue of a session, posted to a session, and in a session.         *)

PostedPeers(es) == {es[i].peer : i \in DOMAIN es} \ {NoPeer}
PostedOnce(es) == \A i, j \in DOMAIN es : es[i].peer = es[j].peer /\ es[i].peer # NoPeer => i = j

QueuedFor(u) == Members(clientQueue[u])
ArrivingFor(u) == Members(arrivals[u])
Gone == released \union fresh

Once ==
    /\ PostedOnce(events)
    /\ \A u \in Users : NoRepeats(clientQueue[u]) /\ NoRepeats(arrivals[u])

Apart ==
    /\ connecting \intersect PostedPeers(events) = {}
    /\ (connecting \union PostedPeers(events) \union released) \intersect fresh = {}
    /\ (connecting \union PostedPeers(events)) \intersect released = {}
    /\ \A u \in Users :
          /\ (QueuedFor(u) \union ArrivingFor(u) \union attached[u])
                \intersect (connecting \union PostedPeers(events) \union Gone) = {}
          /\ QueuedFor(u) \intersect ArrivingFor(u) = {}
          /\ (QueuedFor(u) \union ArrivingFor(u)) \intersect attached[u] = {}
    /\ \A u, v \in Users : u # v =>
          (QueuedFor(u) \union ArrivingFor(u) \union attached[u])
             \intersect (QueuedFor(v) \union ArrivingFor(v) \union attached[v]) = {}

Somewhere ==
    stage # "ended" =>
        \A p \in open :
           \/ p \in connecting \union PostedPeers(events)
           \/ \E u \in Users : p \in QueuedFor(u) \union ArrivingFor(u) \union attached[u]

Placed == Once /\ Apart /\ Somewhere

LEMMA EventAppended ==
    ASSUME NEW es \in Seq(Events), NEW e \in Events
    PROVE  /\ PostedPeers(Append(es, e)) = PostedPeers(es) \union ({e.peer} \ {NoPeer})
           /\ PostedOnce(es) /\ e.peer \notin PostedPeers(es) => PostedOnce(Append(es, e))
<1>1. /\ DOMAIN es = 1 .. Len(es) /\ Len(es) \in Nat
      /\ DOMAIN Append(es, e) = 1 .. Len(es) + 1
      /\ \A i \in DOMAIN es : Append(es, e)[i] = es[i]
      /\ Append(es, e)[Len(es) + 1] = e
  OBVIOUS
<1>2. DOMAIN Append(es, e) = DOMAIN es \union {Len(es) + 1}
  BY <1>1
<1>3. PostedPeers(Append(es, e)) = PostedPeers(es) \union ({e.peer} \ {NoPeer})
  BY <1>1, <1>2 DEF PostedPeers
<1>4. ASSUME PostedOnce(es), e.peer \notin PostedPeers(es) PROVE PostedOnce(Append(es, e))
  BY <1>1, <1>2, <1>4 DEF PostedPeers, PostedOnce
<1> QED
  BY <1>3, <1>4

LEMMA EventTaken ==
    ASSUME NEW es \in Seq(Events), es # <<>>
    PROVE  /\ PostedPeers(es) = PostedPeers(Tail(es)) \union ({Head(es).peer} \ {NoPeer})
           /\ PostedOnce(es) => PostedOnce(Tail(es)) /\ Head(es).peer \notin PostedPeers(Tail(es))
<1>1. /\ DOMAIN es = 1 .. Len(es) /\ Len(es) \in Nat \ {0} /\ Head(es) = es[1]
      /\ DOMAIN Tail(es) = 1 .. Len(es) - 1
      /\ \A i \in 1 .. Len(es) - 1 : Tail(es)[i] = es[i + 1]
  OBVIOUS
<1>2. PostedPeers(es) = PostedPeers(Tail(es)) \union ({Head(es).peer} \ {NoPeer})
  <2>1. ASSUME NEW x \in PostedPeers(es) PROVE x \in PostedPeers(Tail(es)) \union ({Head(es).peer} \ {NoPeer})
    <3>1. PICK i \in DOMAIN es : x = es[i].peer
      BY <2>1 DEF PostedPeers
    <3>2. i = 1 \/ (i - 1 \in DOMAIN Tail(es) /\ Tail(es)[i - 1].peer = x)
      BY <1>1, <3>1
    <3> QED
      BY <1>1, <2>1, <3>1, <3>2 DEF PostedPeers
  <2>2. PostedPeers(Tail(es)) \subseteq PostedPeers(es)
    BY <1>1 DEF PostedPeers
  <2>3. {Head(es).peer} \ {NoPeer} \subseteq PostedPeers(es)
    BY <1>1 DEF PostedPeers
  <2> QED
    BY <2>1, <2>2, <2>3
<1>3. ASSUME PostedOnce(es) PROVE PostedOnce(Tail(es)) /\ Head(es).peer \notin PostedPeers(Tail(es))
  BY <1>1, <1>3 DEF PostedPeers, PostedOnce
<1> QED
  BY <1>2, <1>3

LEMMA OwnerIsSomewhere ==
    ASSUME NEW p \in Peers, NEW o \in Owners(p)
    PROVE  \/ o = <<"core">> /\ p \in connecting
           \/ \E i \in DOMAIN events : o = <<"event", i>> /\ events[i].peer = p
           \/ \E u \in Users : \E i \in DOMAIN clientQueue[u] : o = <<"queue", u, i>> /\ clientQueue[u][i] = p
           \/ \E u \in Users : \E i \in DOMAIN arrivals[u] : o = <<"arrival", u, i>> /\ arrivals[u][i] = p
           \/ \E u \in Users : o = <<"session", u>> /\ p \in attached[u]
BY DEF Owners

LEMMA SomewhereHasOwner ==
    ASSUME NEW p \in Peers,
           \/ p \in connecting \union PostedPeers(events)
           \/ \E u \in Users : p \in QueuedFor(u) \union ArrivingFor(u) \union attached[u]
    PROVE  Owners(p) # {}
<1> DEFINE AtSession(u) ==
        {<<"queue", u, i>> : i \in {i \in DOMAIN clientQueue[u] : clientQueue[u][i] = p}}
        \union {<<"arrival", u, i>> : i \in {i \in DOMAIN arrivals[u] : arrivals[u][i] = p}}
        \union {<<"session", u>> : x \in {p} \intersect attached[u]}
<1>0. ASSUME NEW u \in Users, AtSession(u) # {} PROVE Owners(p) # {}
  <2>1. PICK o : o \in AtSession(u)
    BY <1>0
  <2> HIDE DEF AtSession
  <2>2. o \in UNION {AtSession(v) : v \in Users}
    BY <2>1
  <2>3. UNION {AtSession(v) : v \in Users} \subseteq Owners(p)
    BY DEF Owners, AtSession
  <2> QED
    BY <2>2, <2>3
<1>1. CASE p \in connecting
  <2>1. <<"core">> \in {<<"core">> : x \in {p} \intersect connecting}
    BY <1>1
  <2> QED
    BY <2>1 DEF Owners
<1>2. CASE p \in PostedPeers(events)
  <2>1. PICK i \in DOMAIN events : events[i].peer = p
    BY <1>2 DEF PostedPeers
  <2>2. <<"event", i>> \in {<<"event", j>> : j \in {k \in DOMAIN events : events[k].peer = p}}
    BY <2>1
  <2> QED
    BY <2>2 DEF Owners
<1>3. ASSUME NEW u \in Users, p \in QueuedFor(u) PROVE Owners(p) # {}
  <2>1. PICK i \in DOMAIN clientQueue[u] : clientQueue[u][i] = p
    BY <1>3 DEF QueuedFor, Members
  <2>2. <<"queue", u, i>> \in {<<"queue", u, j>> : j \in {k \in DOMAIN clientQueue[u] : clientQueue[u][k] = p}}
    BY <2>1
  <2> QED
    BY <1>0, <2>2
<1>4. ASSUME NEW u \in Users, p \in ArrivingFor(u) PROVE Owners(p) # {}
  <2>1. PICK i \in DOMAIN arrivals[u] : arrivals[u][i] = p
    BY <1>4 DEF ArrivingFor, Members
  <2>2. <<"arrival", u, i>> \in {<<"arrival", u, j>> : j \in {k \in DOMAIN arrivals[u] : arrivals[u][k] = p}}
    BY <2>1
  <2> QED
    BY <1>0, <2>2
<1>5. ASSUME NEW u \in Users, p \in attached[u] PROVE Owners(p) # {}
  <2>1. <<"session", u>> \in {<<"session", u>> : x \in {p} \intersect attached[u]}
    BY <1>5
  <2> QED
    BY <1>0, <2>1
<1> QED
  BY <1>1, <1>2, <1>3, <1>4, <1>5

LEMMA PlacedImplies == TInv /\ Placed => OnePlace
<1> SUFFICES ASSUME TInv, Placed, NEW p \in Peers
             PROVE  /\ \A o1, o2 \in Owners(p) : o1 = o2
                    /\ p \in released \union fresh => Owners(p) = {}
                    /\ p \in open /\ stage # "ended" => Owners(p) # {}
  BY DEF OnePlace
<1> DEFINE Core(o) == o = <<"core">> /\ p \in connecting
           Event(o) == \E i \in DOMAIN events : o = <<"event", i>> /\ events[i].peer = p
           Queued(o, u) == \E i \in DOMAIN clientQueue[u] : o = <<"queue", u, i>> /\ clientQueue[u][i] = p
           Arriving(o, u) == \E i \in DOMAIN arrivals[u] : o = <<"arrival", u, i>> /\ arrivals[u][i] = p
           Inside(o, u) == o = <<"session", u>> /\ p \in attached[u]
<1>0. p # NoPeer
  BY ThreadsAssumption
<1>1. \A o \in Owners(p) : Core(o) \/ Event(o) \/ \E u \in Users : Queued(o, u) \/ Arriving(o, u) \/ Inside(o, u)
  BY OwnerIsSomewhere
<1>2. \A o : Event(o) => p \in PostedPeers(events)
  BY <1>0 DEF PostedPeers
<1>3. \A o, u : Queued(o, u) => p \in QueuedFor(u)
  BY DEF QueuedFor, Members
<1>4. \A o, u : Arriving(o, u) => p \in ArrivingFor(u)
  BY DEF ArrivingFor, Members
<1>5. \A o, u : Inside(o, u) => p \in attached[u]
  OBVIOUS
<1>6. \A o1, o2 : (Core(o1) /\ Core(o2) => o1 = o2) /\ (Event(o1) /\ Event(o2) => o1 = o2)
  BY <1>0 DEF Placed, Once, PostedOnce
<1>7. ASSUME NEW o1, NEW o2, NEW u \in Users
      PROVE  /\ Queued(o1, u) /\ Queued(o2, u) => o1 = o2
             /\ Arriving(o1, u) /\ Arriving(o2, u) => o1 = o2
             /\ Inside(o1, u) /\ Inside(o2, u) => o1 = o2
  BY DEF Placed, Once, NoRepeats
<1> HIDE DEF Core, Event, Queued, Arriving, Inside
<1>8. ASSUME NEW o1 \in Owners(p), NEW o2 \in Owners(p) PROVE o1 = o2
  <2>1. CASE p \in connecting
    <3>1. Core(o1) /\ Core(o2)
      BY <1>1, <1>2, <1>3, <1>4, <1>5, <2>1 DEF Placed, Apart
    <3> QED
      BY <1>6, <3>1
  <2>2. CASE p \in PostedPeers(events)
    <3>1. p \notin connecting
      BY <2>2 DEF Placed, Apart
    <3>2. \A o : ~Core(o)
      BY <3>1 DEF Core
    <3>3. Event(o1) /\ Event(o2)
      BY <1>1, <1>3, <1>4, <1>5, <2>2, <3>2 DEF Placed, Apart
    <3> QED
      BY <1>6, <3>3
  <2>3. CASE p \notin connecting \union PostedPeers(events)
    <3>1. \A o : ~Core(o) /\ ~Event(o)
      BY <1>2, <2>3 DEF Core
    <3>2. PICK u \in Users : Queued(o1, u) \/ Arriving(o1, u) \/ Inside(o1, u)
      BY <1>1, <3>1
    <3>3. PICK v \in Users : Queued(o2, v) \/ Arriving(o2, v) \/ Inside(o2, v)
      BY <1>1, <3>1
    <3>4. u = v
      BY <1>3, <1>4, <1>5, <3>2, <3>3 DEF Placed, Apart
    <3>5. \/ Queued(o1, u) /\ Queued(o2, u)
          \/ Arriving(o1, u) /\ Arriving(o2, u)
          \/ Inside(o1, u) /\ Inside(o2, u)
      BY <1>3, <1>4, <1>5, <3>2, <3>3, <3>4 DEF Placed, Apart
    <3> QED
      BY <1>7, <3>5
  <2> QED
    BY <2>1, <2>2, <2>3
<1>9. ASSUME p \in released \union fresh PROVE Owners(p) = {}
  <2>1. p \notin connecting
    BY <1>9 DEF Placed, Apart
  <2>2. \A o : ~Core(o)
    BY <2>1 DEF Core
  <2> QED
    BY <1>1, <1>2, <1>3, <1>4, <1>5, <1>9, <2>2 DEF Placed, Apart, Gone
<1>10. ASSUME p \in open, stage # "ended" PROVE Owners(p) # {}
  BY <1>10, SomewhereHasOwner DEF Placed, Somewhere
<1> QED
  BY <1>8, <1>9, <1>10

LEMMA PlacedInit == Init => Placed
<1> SUFFICES ASSUME Init PROVE Placed
  OBVIOUS
<1>1. /\ \A u \in Users : clientQueue[u] = <<>> /\ arrivals[u] = <<>> /\ attached[u] = {}
      /\ events = <<>> /\ connecting = {} /\ released = {} /\ open = {}
  BY DEF Init
<1>2. PostedPeers(events) = {} /\ PostedOnce(events)
  BY <1>1 DEF PostedPeers, PostedOnce
<1>3. \A u \in Users : QueuedFor(u) = {} /\ ArrivingFor(u) = {}
  BY <1>1 DEF QueuedFor, ArrivingFor, Members
<1>4. Once
  BY <1>1, <1>2 DEF Once, NoRepeats
<1>5. Apart
  BY <1>1, <1>2, <1>3 DEF Apart
<1>6. Somewhere
  BY <1>1 DEF Somewhere
<1> QED
  BY <1>4, <1>5, <1>6 DEF Placed

\* Nobody changes place; connections may be closed, or the core may end.
LEMMA StaysPlaced ==
    ASSUME Placed, open' \subseteq open, stage' # "ended" => stage # "ended",
           UNCHANGED <<events, clientQueue, arrivals, attached, connecting, released, fresh>>
    PROVE  Placed'
BY DEF Placed, Once, Apart, Somewhere, QueuedFor, ArrivingFor, Gone

LEMMA PlacedStep == TInv /\ Placed /\ [Next]_vars => Placed'
<1> SUFFICES ASSUME TInv, Placed, [Next]_vars PROVE Placed'
  OBVIOUS
<1>0. SocketsOK /\ QueuesOK /\ SessionsOK /\ Once /\ Apart /\ Somewhere
  BY DEF TInv, Placed
<1>1. ASSUME NEW p \in Peers, IncomingConnection(p) PROVE Placed'
  <2>1. /\ p \in fresh /\ fresh' = fresh \ {p} /\ connecting' = connecting \union {p}
        /\ open' = open \union {p} /\ UNCHANGED <<events, clientQueue, arrivals, attached, released, stage>>
    BY <1>1 DEF IncomingConnection, handover, sessions, stopping
  <2>2. Once'
    BY <1>0, <2>1 DEF Once
  <2>3. Apart'
    BY <1>0, <2>1 DEF Apart, QueuedFor, ArrivingFor, Gone
  <2>4. Somewhere'
    BY <1>0, <2>1 DEF Somewhere, QueuedFor, ArrivingFor
  <2> QED
    BY <2>2, <2>3, <2>4 DEF Placed
<1>2. ASSUME NEW p \in Peers, Deny(p) \/ RegisterClient(p) \/ SetupData(p) \/ ClientCloses(p) \/ FallsSilent(p)
      PROVE  Placed'
  BY <1>2, StaysPlaced DEF Deny, RegisterClient, SetupData, ClientCloses, FallsSilent, sockets, handshake, handover,
     sessions, stopping
<1>3. ASSUME NEW p \in Peers, ClientDisconnected(p) PROVE Placed'
  <2>1. /\ p \in connecting /\ p \notin open
        /\ connecting' = connecting \ {p} /\ released' = released \union {p}
        /\ UNCHANGED <<events, clientQueue, arrivals, attached, fresh, open, stage>>
    BY <1>3 DEF ClientDisconnected, Handles, sockets, handover, sessions, stopping
  <2>2. Once'
    BY <1>0, <2>1 DEF Once
  <2>3. Apart'
    BY <1>0, <2>1 DEF Apart, QueuedFor, ArrivingFor, Gone
  <2>4. Somewhere'
    BY <1>0, <2>1 DEF Somewhere, QueuedFor, ArrivingFor
  <2> QED
    BY <2>2, <2>3, <2>4 DEF Placed
<1>4. ASSUME NEW p \in Peers, NEW u \in Users, Login(p, u) PROVE Placed'
  <2>1. /\ p \in connecting /\ connecting' = connecting \ {p}
        /\ events' = Append(events, Posted("client", u, p))
        /\ UNCHANGED <<clientQueue, arrivals, attached, released, fresh, open, stage>>
    BY <1>4 DEF Login, Handles, sockets, stopping
  <2>2. Posted("client", u, p) \in Events /\ Posted("client", u, p).peer = p /\ p # NoPeer
    BY PostedIsEvent, ThreadsAssumption DEF Posted
  <2>3. PostedPeers(events') = PostedPeers(events) \union {p} /\ p \notin PostedPeers(events)
    BY <1>0, <2>1, <2>2, EventAppended DEF QueuesOK, Apart
  <2>4. Once'
    BY <1>0, <2>1, <2>2, <2>3, EventAppended DEF Once, QueuesOK
  <2>5. \A v \in Users : QueuedFor(v)' = QueuedFor(v) /\ ArrivingFor(v)' = ArrivingFor(v)
    BY <2>1 DEF QueuedFor, ArrivingFor
  <2>6. connecting' \union PostedPeers(events') = connecting \union PostedPeers(events)
    BY <2>1, <2>3
  <2>7. connecting' \intersect PostedPeers(events') = {}
    BY <1>0, <2>1, <2>3 DEF Apart
  <2>8. Apart'
    BY <1>0, <2>1, <2>5, <2>6, <2>7 DEF Apart, Gone
  <2>9. Somewhere'
    BY <1>0, <2>1, <2>5, <2>6 DEF Somewhere
  <2> QED
    BY <2>4, <2>8, <2>9 DEF Placed
<1>5. ASSUME NEW p \in Peers, NEW u \in Users, PeerDisconnected(p, u) PROVE Placed'
  <2>1. /\ p \in attached[u] /\ p \notin open /\ attached' = [attached EXCEPT ![u] = @ \ {p}]
        /\ released' = released \union {p}
        /\ UNCHANGED <<events, clientQueue, arrivals, connecting, fresh, open, stage>>
    BY <1>5 DEF PeerDisconnected, sockets, handshake, handover, stopping
  <2>2. \A v \in Users : attached'[v] = IF v = u THEN attached[v] \ {p} ELSE attached[v]
    BY <1>0, <2>1 DEF SessionsOK
  <2>3. Once'
    BY <1>0, <2>1 DEF Once
  <2>4. \A v \in Users : QueuedFor(v)' = QueuedFor(v) /\ ArrivingFor(v)' = ArrivingFor(v)
    BY <2>1 DEF QueuedFor, ArrivingFor
  <2>5. /\ p \notin connecting \union PostedPeers(events) \union fresh
        /\ \A v \in Users : /\ p \notin QueuedFor(v) \union ArrivingFor(v)
                           /\ p \notin attached'[v]
                           /\ attached'[v] \subseteq attached[v]
    BY <1>0, <2>1, <2>2 DEF Apart, Gone
  <2>6. Apart'
    BY <1>0, <2>1, <2>4, <2>5 DEF Apart, Gone
  <2>7. Somewhere'
    BY <1>0, <2>1, <2>2, <2>4 DEF Somewhere
  <2> QED
    BY <2>3, <2>6, <2>7 DEF Placed
<1>6. ASSUME NEW p \in Peers, NEW u \in Users, SendHeartBeat(p, u) \/ HeartBeatReply(p, u) PROVE Placed'
  BY <1>6, StaysPlaced DEF SendHeartBeat, HeartBeatReply, handshake, handover, sessions, stopping
<1>7. ASSUME NEW u \in Users, Run(u) \/ SocketInitialized(u) PROVE Placed'
  <2>1. PICK kind \in {"initialized", "addSocket"} : events' = Append(events, Posted(kind, u, NoPeer))
    BY <1>7 DEF Run, SocketInitialized
  <2>2. UNCHANGED <<clientQueue, arrivals, attached, connecting, released, fresh, open, stage>>
    BY <1>7 DEF Run, SocketInitialized, sockets, handshake, stopping
  <2>3. Posted(kind, u, NoPeer) \in Events /\ Posted(kind, u, NoPeer).peer = NoPeer
    BY PostedIsEvent DEF Posted
  <2>4. PostedPeers(events') = PostedPeers(events) /\ PostedOnce(events')
    <3>1. NoPeer \notin PostedPeers(events)
      BY DEF PostedPeers
    <3> QED
      BY <1>0, <2>1, <2>3, <3>1, EventAppended DEF Once, QueuesOK
  <2>5. Once'
    BY <1>0, <2>2, <2>4 DEF Once
  <2>6. Apart'
    BY <1>0, <2>2, <2>4 DEF Apart, QueuedFor, ArrivingFor, Gone
  <2>7. Somewhere'
    BY <1>0, <2>2, <2>4 DEF Somewhere, QueuedFor, ArrivingFor
  <2> QED
    BY <2>5, <2>6, <2>7 DEF Placed
<1>8. ASSUME NEW u \in Users, AddPeer(u) PROVE Placed'
  <2> DEFINE x == Head(arrivals[u])
  <2>1. /\ arrivals[u] \in Seq(Peers) /\ arrivals[u] # <<>>
        /\ arrivals' = [arrivals EXCEPT ![u] = Tail(@)]
        /\ attached' = [attached EXCEPT ![u] = @ \union ({x} \intersect open)]
        /\ UNCHANGED <<events, clientQueue, connecting, released, fresh, open, stage>>
    BY <1>0, <1>8 DEF AddPeer, QueuesOK, sockets, handshake, stopping
  <2>2. /\ Members(arrivals[u]) = Members(Tail(arrivals[u])) \union {x}
        /\ NoRepeats(Tail(arrivals[u])) /\ x \notin Members(Tail(arrivals[u]))
    BY <1>0, <2>1, HeadTaken DEF Once
  <2>3. \A v \in Users : /\ arrivals'[v] = IF v = u THEN Tail(arrivals[u]) ELSE arrivals[v]
                         /\ attached'[v] = IF v = u THEN attached[u] \union ({x} \intersect open) ELSE attached[v]
    BY <1>0, <2>1 DEF SessionsOK, QueuesOK
  <2> HIDE DEF x
  <2>4. Once'
    BY <1>0, <2>1, <2>2, <2>3 DEF Once
  <2>5. \A v \in Users : /\ QueuedFor(v)' = QueuedFor(v)
                         /\ v # u => ArrivingFor(v)' = ArrivingFor(v)
    BY <2>1, <2>3 DEF QueuedFor, ArrivingFor
  <2>6. ArrivingFor(u)' = ArrivingFor(u) \ {x} /\ x \in ArrivingFor(u)
    BY <2>2, <2>3 DEF ArrivingFor
  <2>7. Apart'
    BY <1>0, <2>1, <2>3, <2>5, <2>6 DEF Apart, Gone
  <2>8. Somewhere'
    BY <1>0, <2>1, <2>3, <2>5, <2>6 DEF Somewhere
  <2> QED
    BY <2>4, <2>7, <2>8 DEF Placed
<1>9. CASE CoreEvent
  <2>0. PICK e \in Events : e = Head(events)
    BY <1>0, <1>9 DEF CoreEvent, QueuesOK
  <2>1. /\ events \in Seq(Events) /\ events # <<>> /\ events' = Tail(events)
        /\ UNCHANGED <<attached, connecting, released, fresh, open, stage>>
    BY <1>0, <1>9 DEF CoreEvent, QueuesOK, sockets, handshake, stopping
  <2>2. /\ PostedPeers(events) = PostedPeers(events') \union ({e.peer} \ {NoPeer})
        /\ PostedOnce(events') /\ e.peer \notin PostedPeers(events')
    BY <1>0, <2>0, <2>1, EventTaken DEF Once
  <2>3. /\ e.user \in Users
        /\ e.kind = "client" => e.peer \in Peers /\ e.peer # NoPeer
        /\ e.kind # "client" => e.peer = NoPeer
    BY ThreadsAssumption DEF Events
  <2>4. \/ e.kind = "client" /\ AddClientEvent(e)
        \/ e.kind = "initialized" /\ SetSessionInitialized(e.user)
        \/ e.kind = "addSocket" /\ AddSocket(e.user)
    BY <1>9, <2>0 DEF CoreEvent
  <2>5. CASE e.kind = "client" /\ AddClientEvent(e)
    <3>1. PostedPeers(events') = PostedPeers(events) \ {e.peer} /\ e.peer \in PostedPeers(events)
      BY <2>2, <2>3, <2>5
    <3>2. CASE arrivals' = [arrivals EXCEPT ![e.user] = Append(@, e.peer)] /\ UNCHANGED clientQueue
      <4>1. \A v \in Users : arrivals'[v] = IF v = e.user THEN Append(arrivals[v], e.peer) ELSE arrivals[v]
        BY <1>0, <2>3, <3>2 DEF QueuesOK
      <4>2. e.peer \notin Members(arrivals[e.user])
        BY <1>0, <2>3, <3>1 DEF Apart, ArrivingFor
      <4>3. arrivals[e.user] \in Seq(Peers)
        BY <1>0, <2>3 DEF QueuesOK
      <4>4. /\ Members(Append(arrivals[e.user], e.peer)) = Members(arrivals[e.user]) \union {e.peer}
            /\ NoRepeats(Append(arrivals[e.user], e.peer))
        BY <1>0, <2>3, <2>5, <4>2, <4>3, Appended DEF Once
      <4>5. Once'
        BY <1>0, <2>2, <3>2, <4>1, <4>4 DEF Once
      <4>6. /\ \A v \in Users : QueuedFor(v)' = QueuedFor(v) /\ (v # e.user => ArrivingFor(v)' = ArrivingFor(v))
            /\ ArrivingFor(e.user)' = ArrivingFor(e.user) \union {e.peer}
        BY <2>3, <3>2, <4>1, <4>4 DEF QueuedFor, ArrivingFor
      <4>7. Apart'
        BY <1>0, <2>1, <2>3, <3>1, <4>6 DEF Apart, Gone
      <4>8. Somewhere'
        BY <1>0, <2>1, <2>3, <3>1, <4>6 DEF Somewhere
      <4> QED
        BY <4>5, <4>7, <4>8 DEF Placed
    <3>3. CASE clientQueue' = [clientQueue EXCEPT ![e.user] = Append(@, e.peer)] /\ UNCHANGED arrivals
      <4>1. \A v \in Users : clientQueue'[v] = IF v = e.user THEN Append(clientQueue[v], e.peer) ELSE clientQueue[v]
        BY <1>0, <2>3, <3>3 DEF QueuesOK
      <4>2. e.peer \notin Members(clientQueue[e.user])
        BY <1>0, <2>3, <3>1 DEF Apart, QueuedFor
      <4>3. clientQueue[e.user] \in Seq(Peers)
        BY <1>0, <2>3 DEF QueuesOK
      <4>4. /\ Members(Append(clientQueue[e.user], e.peer)) = Members(clientQueue[e.user]) \union {e.peer}
            /\ NoRepeats(Append(clientQueue[e.user], e.peer))
        BY <1>0, <2>3, <2>5, <4>2, <4>3, Appended DEF Once
      <4>5. Once'
        BY <1>0, <2>2, <3>3, <4>1, <4>4 DEF Once
      <4>6. /\ \A v \in Users : ArrivingFor(v)' = ArrivingFor(v) /\ (v # e.user => QueuedFor(v)' = QueuedFor(v))
            /\ QueuedFor(e.user)' = QueuedFor(e.user) \union {e.peer}
        BY <2>3, <3>3, <4>1, <4>4 DEF QueuedFor, ArrivingFor
      <4>7. Apart'
        BY <1>0, <2>1, <2>3, <3>1, <4>6 DEF Apart, Gone
      <4>8. Somewhere'
        BY <1>0, <2>1, <2>3, <3>1, <4>6 DEF Somewhere
      <4> QED
        BY <4>5, <4>7, <4>8 DEF Placed
    <3> QED
      BY <2>5, <3>2, <3>3 DEF AddClientEvent
  <2>6. CASE e.kind = "initialized" /\ SetSessionInitialized(e.user)
    <3>0. PostedPeers(events') = PostedPeers(events)
      BY <2>2, <2>3, <2>6
    <3>1. \A v \in Users :
             /\ arrivals'[v] = IF v = e.user THEN arrivals[v] \o clientQueue[v] ELSE arrivals[v]
             /\ clientQueue'[v] = IF v = e.user THEN <<>> ELSE clientQueue[v]
      BY <1>0, <2>3, <2>6 DEF SetSessionInitialized, QueuesOK
    <3>2. arrivals[e.user] \in Seq(Peers) /\ clientQueue[e.user] \in Seq(Peers)
      BY <1>0, <2>3 DEF QueuesOK
    <3>3. Members(arrivals[e.user]) \intersect Members(clientQueue[e.user]) = {}
      BY <1>0, <2>3 DEF Apart, QueuedFor, ArrivingFor
    <3>4. /\ Members(arrivals[e.user] \o clientQueue[e.user]) = Members(arrivals[e.user]) \union Members(clientQueue[e.user])
          /\ NoRepeats(arrivals[e.user] \o clientQueue[e.user])
      BY <1>0, <2>3, <3>2, <3>3, Concatenated DEF Once
    <3>5. Members(<<>>) = {} /\ NoRepeats(<<>>)
      BY DEF Members, NoRepeats
    <3>6. Once'
      BY <1>0, <2>2, <3>1, <3>4, <3>5 DEF Once
    <3>7. \A v \in Users :
             /\ Members(arrivals'[v]) = IF v = e.user THEN Members(arrivals[v]) \union Members(clientQueue[v])
                                                      ELSE Members(arrivals[v])
             /\ Members(clientQueue'[v]) = IF v = e.user THEN {} ELSE Members(clientQueue[v])
      BY <3>1, <3>4, <3>5
    <3>8. Apart'
      BY <1>0, <2>1, <2>3, <3>0, <3>7 DEF Apart, QueuedFor, ArrivingFor, Gone
    <3>9. Somewhere'
      BY <1>0, <2>1, <2>3, <3>0, <3>7 DEF Somewhere, QueuedFor, ArrivingFor
    <3> QED
      BY <3>6, <3>8, <3>9 DEF Placed
  <2>7. CASE e.kind = "addSocket" /\ AddSocket(e.user)
    <3>1. PostedPeers(events') = PostedPeers(events) /\ UNCHANGED <<clientQueue, arrivals>>
      BY <2>2, <2>3, <2>7 DEF AddSocket
    <3>2. Once'
      BY <1>0, <2>2, <3>1 DEF Once
    <3>3. Apart'
      BY <1>0, <2>1, <3>1 DEF Apart, QueuedFor, ArrivingFor, Gone
    <3>4. Somewhere'
      BY <1>0, <2>1, <3>1 DEF Somewhere, QueuedFor, ArrivingFor
    <3> QED
      BY <3>2, <3>3, <3>4 DEF Placed
  <2> QED
    BY <2>4, <2>5, <2>6, <2>7
<1>10. CASE Stop
  <2>1. /\ open' = open \ connecting /\ released' = released \union connecting /\ connecting' = {}
        /\ stage # "ended" /\ UNCHANGED <<events, clientQueue, arrivals, attached, fresh>>
    BY <1>10 DEF Stop, CoreRuns, handover, sessions
  <2>2. Once'
    BY <1>0, <2>1 DEF Once
  <2>3. Apart'
    BY <1>0, <2>1 DEF Apart, QueuedFor, ArrivingFor, Gone
  <2>4. Somewhere'
    BY <1>0, <2>1 DEF Somewhere, QueuedFor, ArrivingFor
  <2> QED
    BY <2>2, <2>3, <2>4 DEF Placed
<1>11. ASSUME NEW u \in Users, EndSession(u) PROVE Placed'
  <2>1. /\ open' = open \ attached[u] /\ released' = released \union attached[u]
        /\ attached' = [attached EXCEPT ![u] = {}]
        /\ UNCHANGED <<events, clientQueue, arrivals, connecting, fresh, stage>>
    BY <1>11 DEF EndSession, handshake, handover
  <2>2. \A v \in Users : attached'[v] = IF v = u THEN {} ELSE attached[v]
    BY <1>0, <2>1 DEF SessionsOK
  <2>3. Once'
    BY <1>0, <2>1 DEF Once
  <2>4. Apart'
    BY <1>0, <2>1, <2>2 DEF Apart, QueuedFor, ArrivingFor, Gone
  <2>5. Somewhere'
    BY <1>0, <2>1, <2>2 DEF Somewhere, QueuedFor, ArrivingFor
  <2> QED
    BY <2>3, <2>4, <2>5 DEF Placed
<1>12. ASSUME NEW u \in Users, Wait(u) \/ LeaveLoop(u) PROVE Placed'
  BY <1>12, StaysPlaced DEF Wait, LeaveLoop, sockets, handshake, handover, sessions, stopping
<1>13. CASE End \/ UNCHANGED vars
  BY <1>13, StaysPlaced DEF End, vars, sockets, handshake, handover, sessions, stopping
<1> QED
  BY <1>1, <1>2, <1>3, <1>4, <1>5, <1>6, <1>7, <1>8, <1>9, <1>10, <1>11, <1>12, <1>13 DEF Next

\* A connection is in one place at a time on its way from the core thread to the
\* session of its user, an open one in none only when the core has ended, and one whose
\* object is deleted nowhere: for any number of clients that hang up, fall silent and
\* log in to sessions that start, wait and end at any moment.
THEOREM ConnectionsHaveOnePlace == Spec => []OnePlace
<1>1. Spec => [](TInv /\ Placed)
  BY TInvInit, TInvStep, PlacedInit, PlacedStep, PTL DEF Spec
<1> QED
  BY <1>1, PlacedImplies, PTL

-----------------------------------------------------------------------------
(* The hand-overs posted to the core thread, of one session, in order.       *)

\* Who lists a set of places in rising order lists each at its rank.
LEMMA ListedInOrder ==
    ASSUME NEW places, places \subseteq Nat, NEW n \in Nat, NEW e \in [1 .. n -> places],
           \A k, l \in 1 .. n : k < l => e[k] < e[l],
           \A i \in places : \E k \in 1 .. n : e[k] = i
    PROVE  Cardinality(places) = n /\ \A k \in 1 .. n : Nth(places, k) = e[k]
<1> DEFINE Low(i) == {j \in places : j <= i}
<1>1. \A k \in 1 .. n : e[k] \in places /\ e[k] \in Nat
  OBVIOUS
<1>2. \A k, l \in 1 .. n : e[k] = e[l] => k = l
  <2> SUFFICES ASSUME NEW k \in 1 .. n, NEW l \in 1 .. n, k # l PROVE e[k] # e[l]
    OBVIOUS
  <2>1. k < l \/ l < k
    OBVIOUS
  <2>2. e[k] < e[l] \/ e[l] < e[k]
    BY <2>1
  <2> QED BY <1>1, <2>2
<1>3. \A k, l \in 1 .. n : e[l] <= e[k] => l <= k
  BY <1>1
<1>4. ASSUME NEW k \in 1 .. n PROVE Cardinality(Low(e[k])) = k
  <2> DEFINE f == [l \in 1 .. k |-> e[l]]
  <2>1. k \in Nat /\ \A l \in 1 .. k : l \in 1 .. n /\ l <= k /\ (l = k \/ l < k)
    OBVIOUS
  <2>2. \A l \in 1 .. k : e[l] \in Low(e[k])
    <3> TAKE l \in 1 .. k
    <3>1. l = k \/ e[l] < e[k]
      BY <2>1
    <3> QED BY <1>1, <2>1, <3>1
  <2>3. f \in Injection(1 .. k, Low(e[k]))
    <3>1. f \in [1 .. k -> Low(e[k])]
      BY <2>2
    <3>2. \A l, m \in 1 .. k : f[l] = f[m] => l = m
      BY <1>2, <2>1
    <3> HIDE DEF f, Low
    <3> QED BY <3>1, <3>2 DEF Injection, IsInjective
  <2>4. \A i \in Low(e[k]) : \E l \in 1 .. k : f[l] = i
    <3> SUFFICES ASSUME NEW i \in Low(e[k]) PROVE \E l \in 1 .. k : e[l] = i
      OBVIOUS
    <3>1. PICK l \in 1 .. n : e[l] = i
      OBVIOUS
    <3>2. l <= k
      BY <1>3, <3>1
    <3>3. l \in 1 .. k
      BY <2>1, <3>2
    <3> QED BY <3>1, <3>3
  <2>5. f \in Bijection(1 .. k, Low(e[k]))
    <3> HIDE DEF f, Low
    <3> QED BY <2>3, <2>4 DEF Injection, Surjection, Bijection
  <2>6. IsFiniteSet(1 .. k) /\ Cardinality(1 .. k) = k
    BY <2>1, FS_Interval
  <2> HIDE DEF f, Low
  <2> QED BY <2>5, <2>6, FS_Bijection DEF ExistsBijection
<1>5. Cardinality(places) = n
  <2>1. e \in Bijection(1 .. n, places)
    BY <1>2 DEF Injection, IsInjective, Surjection, Bijection
  <2>2. IsFiniteSet(1 .. n) /\ Cardinality(1 .. n) = n
    BY FS_Interval
  <2> QED BY <2>1, <2>2, FS_Bijection DEF ExistsBijection
<1>6. ASSUME NEW k \in 1 .. n PROVE Nth(places, k) = e[k]
  <2>1. \A i \in places : Cardinality(Low(i)) = k => i = e[k]
    <3> SUFFICES ASSUME NEW i \in places, Cardinality(Low(i)) = k PROVE i = e[k]
      OBVIOUS
    <3>1. PICK l \in 1 .. n : e[l] = i
      OBVIOUS
    <3> HIDE DEF Low
    <3> QED BY <1>4, <3>1
  <2> QED BY <1>1, <1>4, <2>1 DEF Nth
<1> QED BY <1>5, <1>6

\* The places up to a length have such a list: that of their ranks.
LEMMA RanksAreRising ==
    ASSUME NEW n \in Nat, NEW places, places \subseteq 1 .. n
    PROVE  /\ Cardinality(places) \in Nat
           /\ \A k \in 1 .. Cardinality(places) : Nth(places, k) \in places
           /\ \A k, l \in 1 .. Cardinality(places) : k < l => Nth(places, k) < Nth(places, l)
           /\ \A i \in places : \E k \in 1 .. Cardinality(places) : Nth(places, k) = i
<1> DEFINE Low(i) == {j \in places : j <= i}
           UpTo(i) == Cardinality(Low(i))
           rank == [i \in places |-> UpTo(i)]
           size == Cardinality(places)
<1>1. IsFiniteSet(places) /\ size \in Nat
  <2>1. IsFiniteSet(1 .. n) /\ places \in SUBSET (1 .. n)
    BY FS_Interval
  <2> QED BY <2>1, FS_Subset, FS_CardinalityType
<1>2. \A i \in places : /\ IsFiniteSet(Low(i)) /\ Low(i) \in SUBSET places
                        /\ UpTo(i) \in Nat /\ UpTo(i) <= size
  BY <1>1, FS_Subset, FS_CardinalityType
<1>3. \A i \in places : UpTo(i) \in 1 .. size
  <2> SUFFICES ASSUME NEW i \in places PROVE UpTo(i) # 0
    BY <1>1, <1>2
  <2>1. i \in Low(i)
    OBVIOUS
  <2> QED BY <1>2, <2>1, FS_EmptySet
<1>4. ASSUME NEW i \in places, NEW j \in places, i < j PROVE UpTo(i) < UpTo(j)
  <2>1. i \in Nat /\ j \in Nat /\ \A k \in places : k \in Nat
    OBVIOUS
  <2>2. \A k \in places : k <= i => k <= j
    BY <1>4, <2>1
  <2>3. j <= j /\ ~(j <= i)
    BY <1>4, <2>1
  <2>4. Low(i) \in SUBSET Low(j) /\ j \in Low(j) /\ j \notin Low(i)
    BY <2>2, <2>3
  <2> HIDE DEF Low
  <2>5. UpTo(i) <= UpTo(j) /\ UpTo(i) # UpTo(j)
    BY <1>2, <2>4, FS_Subset
  <2>6. UpTo(i) \in Nat /\ UpTo(j) \in Nat
    BY <1>2
  <2> HIDE DEF UpTo
  <2> QED BY <2>5, <2>6
<1>5. \A i, j \in places : UpTo(i) = UpTo(j) => i = j
  <2> SUFFICES ASSUME NEW i \in places, NEW j \in places, i # j PROVE UpTo(i) # UpTo(j)
    OBVIOUS
  <2>1. i < j \/ j < i
    OBVIOUS
  <2>2. UpTo(i) \in Nat /\ UpTo(j) \in Nat
    BY <1>2
  <2> HIDE DEF UpTo
  <2> QED BY <1>4, <2>1, <2>2
<1>6. \A k \in 1 .. size : \E i \in places : UpTo(i) = k
  <2> HIDE DEF UpTo, size
  <2>1. rank \in Injection(places, 1 .. size)
    BY <1>3, <1>5 DEF Injection, IsInjective
  <2>2. IsFiniteSet(1 .. size) /\ Cardinality(1 .. size) = size
    BY <1>1, FS_Interval
  <2>3. rank \in Surjection(places, 1 .. size)
    BY <2>1, <2>2, FS_Injection DEF size
  <2> QED BY <2>3 DEF Surjection
<1>7. \A k \in 1 .. size : Nth(places, k) \in places /\ UpTo(Nth(places, k)) = k
  <2> SUFFICES ASSUME NEW k \in 1 .. size PROVE Nth(places, k) \in places /\ UpTo(Nth(places, k)) = k
    OBVIOUS
  <2>1. Nth(places, k) = CHOOSE i \in places : UpTo(i) = k
    BY DEF Nth
  <2> HIDE DEF UpTo, size
  <2> QED BY <1>6, <2>1
<1>8. \A k, l \in 1 .. size : k < l => Nth(places, k) < Nth(places, l)
  <2> SUFFICES ASSUME NEW k \in 1 .. size, NEW l \in 1 .. size, k < l PROVE Nth(places, k) < Nth(places, l)
    OBVIOUS
  <2> DEFINE i == Nth(places, k)
             j == Nth(places, l)
  <2>1. i \in places /\ j \in places /\ UpTo(i) = k /\ UpTo(j) = l /\ k \in Nat /\ l \in Nat
    BY <1>1, <1>7
  <2> HIDE DEF UpTo, i, j, size
  <2>2. i < j \/ i = j \/ j < i
    BY <2>1
  <2>3. j < i => UpTo(j) < UpTo(i)
    BY <1>4, <2>1
  <2>4. i < j
    BY <2>1, <2>2, <2>3
  <2> QED BY <2>4 DEF i, j
<1>9. \A i \in places : Nth(places, UpTo(i)) = i
  <2> HIDE DEF UpTo, size
  <2> QED BY <1>3, <1>5, <1>7
<1> QED
  <2> HIDE DEF UpTo
  <2> QED BY <1>1, <1>3, <1>7, <1>8, <1>9

\* The places that hand-overs to a session have are places, with a connection at each.
LEMMA HandOversAre ==
    ASSUME NEW es \in Seq(Events), NEW u
    PROVE  /\ HandOvers(es, u) \subseteq 1 .. Len(es)
           /\ \A i \in HandOvers(es, u) : es[i].peer \in Peers
<1>1. DOMAIN es = 1 .. Len(es) /\ \A i \in 1 .. Len(es) : es[i] \in Events
  OBVIOUS
<1> QED BY <1>1 DEF HandOvers, Events

\* What is posted for a session is a sequence of connections, as long as there are places.
LEMMA PostedType ==
    ASSUME NEW es \in Seq(Events), NEW u
    PROVE  /\ PostedTo(es, u) \in Seq(Peers)
           /\ Len(PostedTo(es, u)) = Cardinality(HandOvers(es, u))
           /\ \A k \in 1 .. Len(PostedTo(es, u)) : PostedTo(es, u)[k] = es[Nth(HandOvers(es, u), k)].peer
<1> DEFINE n == Cardinality(HandOvers(es, u))
           At(k) == es[Nth(HandOvers(es, u), k)].peer
<1>1. n \in Nat /\ \A k \in 1 .. n : At(k) \in Peers
  <2>1. Len(es) \in Nat
    OBVIOUS
  <2> QED BY <2>1, HandOversAre, RanksAreRising
<1>2. PostedTo(es, u) = [k \in 1 .. n |-> At(k)]
  BY DEF PostedTo
<1> HIDE DEF n, At
<1>3. PostedTo(es, u) \in Seq(Peers)
  BY <1>1, <1>2, IsASeq
<1>4. Len(PostedTo(es, u)) = n /\ \A k \in 1 .. n : PostedTo(es, u)[k] = At(k)
  BY <1>1, <1>2, <1>3, LenProperties
<1> QED BY <1>3, <1>4 DEF n, At

\* What is posted last comes last.
LEMMA PostedAfterAppend ==
    ASSUME NEW es \in Seq(Events), NEW e \in Events, NEW u
    PROVE  PostedTo(Append(es, e), u) =
               IF e.kind = "client" /\ e.user = u THEN Append(PostedTo(es, u), e.peer) ELSE PostedTo(es, u)
<1> DEFINE fs == Append(es, e)
           places == HandOvers(es, u)
           after == HandOvers(fs, u)
           n == Cardinality(places)
<1>1. /\ Len(es) \in Nat /\ DOMAIN es = 1 .. Len(es) /\ DOMAIN fs = 1 .. Len(es) + 1
      /\ fs \in Seq(Events) /\ \A i \in 1 .. Len(es) : fs[i] = es[i]
      /\ fs[Len(es) + 1] = e
  OBVIOUS
<1>2. DOMAIN fs = DOMAIN es \union {Len(es) + 1} /\ Len(es) + 1 \notin DOMAIN es
  BY <1>1
<1> HIDE DEF fs
<1>3. after = places \union {i \in {Len(es) + 1} : e.kind = "client" /\ e.user = u}
  BY <1>1, <1>2 DEF HandOvers
<1>4. /\ places \subseteq 1 .. Len(es) /\ n \in Nat
      /\ \A k \in 1 .. n : Nth(places, k) \in places
      /\ \A k, l \in 1 .. n : k < l => Nth(places, k) < Nth(places, l)
      /\ \A i \in places : \E k \in 1 .. n : Nth(places, k) = i
  BY <1>1, HandOversAre, RanksAreRising
<1>5. /\ PostedTo(es, u) \in Seq(Peers) /\ Len(PostedTo(es, u)) = n
      /\ \A k \in 1 .. n : PostedTo(es, u)[k] = es[Nth(places, k)].peer
  BY PostedType
<1>6. /\ PostedTo(fs, u) \in Seq(Peers) /\ Len(PostedTo(fs, u)) = Cardinality(after)
      /\ \A k \in 1 .. Cardinality(after) : PostedTo(fs, u)[k] = fs[Nth(after, k)].peer
  BY <1>1, PostedType
<1> HIDE DEF places, after, n
<1>7. ASSUME ~(e.kind = "client" /\ e.user = u) PROVE PostedTo(fs, u) = PostedTo(es, u)
  <2>1. after = places
    BY <1>3, <1>7
  <2>2. \A k \in 1 .. n : Nth(places, k) \in 1 .. Len(es)
    BY <1>4
  <2>3. \A k \in 1 .. n : PostedTo(fs, u)[k] = PostedTo(es, u)[k]
    BY <1>1, <1>5, <1>6, <2>1, <2>2 DEF n
  <2> QED BY <1>5, <1>6, <2>1, <2>3, SeqEqual DEF n
<1>8. ASSUME e.kind = "client", e.user = u PROVE PostedTo(fs, u) = Append(PostedTo(es, u), e.peer)
  <2> DEFINE list == [k \in 1 .. n + 1 |-> IF k \in 1 .. n THEN Nth(places, k) ELSE Len(es) + 1]
  <2>1. after = places \union {Len(es) + 1}
    BY <1>3, <1>8
  <2>2. n + 1 \in Nat /\ n + 1 \in 1 .. n + 1 /\ n + 1 \notin 1 .. n
        /\ \A k \in 1 .. n + 1 : k \in 1 .. n \/ k = n + 1
    BY <1>4
  <2>3. \A k \in 1 .. n : k \in 1 .. n + 1 /\ list[k] = Nth(places, k) /\ list[k] \in 1 .. Len(es)
    <3> SUFFICES ASSUME NEW k \in 1 .. n
                 PROVE  k \in 1 .. n + 1 /\ list[k] = Nth(places, k) /\ list[k] \in 1 .. Len(es)
      OBVIOUS
    <3>1. k \in 1 .. n + 1
      BY <1>4
    <3>2. list[k] = Nth(places, k)
      BY <3>1
    <3>3. Nth(places, k) \in 1 .. Len(es)
      BY <1>4
    <3> HIDE DEF list
    <3> QED BY <3>1, <3>2, <3>3
  <2>4. list[n + 1] = Len(es) + 1
    BY <2>2
  <2>5. list \in [1 .. n + 1 -> after]
    <3>1. \A k \in 1 .. n + 1 : list[k] \in after
      BY <1>4, <2>1, <2>2, <2>3, <2>4
    <3>2. list = [k \in 1 .. n + 1 |-> list[k]]
      OBVIOUS
    <3> HIDE DEF list
    <3> QED BY <3>1, <3>2
  <2> HIDE DEF list
  <2>6. \A k, l \in 1 .. n + 1 : k < l => list[k] < list[l]
    <3> SUFFICES ASSUME NEW k \in 1 .. n + 1, NEW l \in 1 .. n + 1, k < l PROVE list[k] < list[l]
      OBVIOUS
    <3>1. k \in 1 .. n
      BY <1>4
    <3>2. CASE l \in 1 .. n
      BY <1>4, <2>3, <3>1, <3>2
    <3>3. CASE l = n + 1
      BY <1>1, <2>3, <2>4, <3>1, <3>3
    <3> QED BY <2>2, <3>2, <3>3
  <2>7. \A i \in after : \E k \in 1 .. n + 1 : list[k] = i
    BY <1>4, <2>1, <2>2, <2>3, <2>4
  <2>8. after \subseteq Nat
    <3>1. 1 .. Len(es) \subseteq Nat /\ Len(es) + 1 \in Nat
      BY <1>1
    <3> QED BY <1>4, <2>1, <3>1
  <2>9. Cardinality(after) = n + 1 /\ \A k \in 1 .. n + 1 : Nth(after, k) = list[k]
    BY <2>2, <2>5, <2>6, <2>7, <2>8, ListedInOrder
  <2>10. e.peer \in Peers
    BY <1>8 DEF Events
  <2>11. \A k \in 1 .. n : PostedTo(fs, u)[k] = PostedTo(es, u)[k]
    BY <1>1, <1>5, <1>6, <2>3, <2>9
  <2>12. PostedTo(fs, u)[n + 1] = e.peer
    BY <1>1, <1>6, <2>2, <2>4, <2>9
  <2>13. /\ Append(PostedTo(es, u), e.peer) \in Seq(Peers) /\ Len(Append(PostedTo(es, u), e.peer)) = n + 1
         /\ \A k \in 1 .. n : Append(PostedTo(es, u), e.peer)[k] = PostedTo(es, u)[k]
         /\ Append(PostedTo(es, u), e.peer)[n + 1] = e.peer
    BY <1>5, <2>10, AppendProperties
  <2>14. \A k \in 1 .. n + 1 : PostedTo(fs, u)[k] = Append(PostedTo(es, u), e.peer)[k]
    BY <2>2, <2>11, <2>12, <2>13
  <2> QED BY <1>6, <2>9, <2>13, <2>14, SeqEqual
<1> QED BY <1>7, <1>8 DEF fs

\* What is taken from the front was the first.
LEMMA PostedBeforeTail ==
    ASSUME NEW es \in Seq(Events), es # <<>>, NEW u
    PROVE  PostedTo(es, u) = IF Head(es).kind = "client" /\ Head(es).user = u
                             THEN <<Head(es).peer>> \o PostedTo(Tail(es), u)
                             ELSE PostedTo(Tail(es), u)
<1> DEFINE fs == Tail(es)
           e == Head(es)
           places == HandOvers(fs, u)
           before == HandOvers(es, u)
           n == Cardinality(places)
           m == Len(fs)
<1>1. /\ m \in Nat /\ DOMAIN fs = 1 .. m /\ DOMAIN es = 1 .. m + 1
      /\ fs \in Seq(Events) /\ \A i \in 1 .. m : fs[i] = es[i + 1]
      /\ es[1] = e /\ e \in Events
  OBVIOUS
<1> HIDE DEF fs, e, m
<1>2. /\ \A i \in DOMAIN es : i = 1 \/ (i - 1 \in 1 .. m /\ i = (i - 1) + 1 /\ i # 1)
      /\ 1 \in DOMAIN es
      /\ \A i \in 1 .. m : i + 1 \in DOMAIN es /\ i + 1 # 1
  BY <1>1
<1>3. ASSUME NEW i \in 1 .. m PROVE i + 1 \in before <=> i \in places
  BY <1>1, <1>2 DEF HandOvers
<1>4. 1 \in before <=> e.kind = "client" /\ e.user = u
  BY <1>1, <1>2 DEF HandOvers
<1>5. before \subseteq DOMAIN es
  BY DEF HandOvers
<1>6. /\ places \subseteq 1 .. m /\ n \in Nat
      /\ \A k \in 1 .. n : Nth(places, k) \in places
      /\ \A k, l \in 1 .. n : k < l => Nth(places, k) < Nth(places, l)
      /\ \A i \in places : \E k \in 1 .. n : Nth(places, k) = i
  BY <1>1, HandOversAre, RanksAreRising DEF m
<1>7. /\ PostedTo(fs, u) \in Seq(Peers) /\ Len(PostedTo(fs, u)) = n
      /\ \A k \in 1 .. n : PostedTo(fs, u)[k] = fs[Nth(places, k)].peer
  BY <1>1, PostedType
<1>8. /\ PostedTo(es, u) \in Seq(Peers) /\ Len(PostedTo(es, u)) = Cardinality(before)
      /\ \A k \in 1 .. Cardinality(before) : PostedTo(es, u)[k] = es[Nth(before, k)].peer
  BY PostedType
<1> HIDE DEF places, before, n
<1>9. before \subseteq Nat
  BY <1>1, <1>5
<1>10. ASSUME ~(e.kind = "client" /\ e.user = u) PROVE PostedTo(es, u) = PostedTo(fs, u)
  <2> DEFINE list == [k \in 1 .. n |-> Nth(places, k) + 1]
  <2>1. \A k \in 1 .. n : list[k] = Nth(places, k) + 1 /\ Nth(places, k) \in 1 .. m /\ list[k] \in before
    BY <1>3, <1>6
  <2>2. list \in [1 .. n -> before]
    BY <2>1
  <2> HIDE DEF list
  <2>3. \A k, l \in 1 .. n : k < l => list[k] < list[l]
    BY <1>6, <2>1
  <2>4. \A i \in before : \E k \in 1 .. n : list[k] = i
    <3> SUFFICES ASSUME NEW i \in before PROVE \E k \in 1 .. n : list[k] = i
      OBVIOUS
    <3>1. i - 1 \in 1 .. m /\ i = (i - 1) + 1
      BY <1>2, <1>4, <1>5, <1>10
    <3>2. i - 1 \in places
      BY <1>3, <3>1
    <3> QED BY <1>6, <2>1, <3>1, <3>2
  <2>5. Cardinality(before) = n /\ \A k \in 1 .. n : Nth(before, k) = list[k]
    BY <1>6, <1>9, <2>2, <2>3, <2>4, ListedInOrder
  <2>6. \A k \in 1 .. n : PostedTo(es, u)[k] = PostedTo(fs, u)[k]
    <3> SUFFICES ASSUME NEW k \in 1 .. n PROVE PostedTo(es, u)[k] = PostedTo(fs, u)[k]
      OBVIOUS
    <3>1. PostedTo(es, u)[k] = es[Nth(places, k) + 1].peer
      BY <1>8, <2>1, <2>5
    <3>2. PostedTo(fs, u)[k] = fs[Nth(places, k)].peer
      BY <1>7
    <3>3. Nth(places, k) \in 1 .. m
      BY <2>1
    <3> QED BY <1>1, <3>1, <3>2, <3>3
  <2> QED BY <1>7, <1>8, <2>5, <2>6, SeqEqual
<1>11. ASSUME e.kind = "client", e.user = u PROVE PostedTo(es, u) = <<e.peer>> \o PostedTo(fs, u)
  <2> DEFINE list == [k \in 1 .. n + 1 |-> IF k = 1 THEN 1 ELSE Nth(places, k - 1) + 1]
  <2>1. n + 1 \in Nat /\ 1 \in 1 .. n + 1 /\ \A k \in 1 .. n + 1 : k = 1 \/ (k # 1 /\ k - 1 \in 1 .. n)
    BY <1>6
  <2>2. list[1] = 1
    BY <2>1
  <2>3. \A k \in 1 .. n : /\ k + 1 \in 1 .. n + 1 /\ list[k + 1] = Nth(places, k) + 1
                          /\ Nth(places, k) \in 1 .. m /\ list[k + 1] \in before
    <3> SUFFICES ASSUME NEW k \in 1 .. n
                 PROVE  /\ k + 1 \in 1 .. n + 1 /\ list[k + 1] = Nth(places, k) + 1
                        /\ Nth(places, k) \in 1 .. m /\ list[k + 1] \in before
      OBVIOUS
    <3>1. k + 1 \in 1 .. n + 1 /\ k + 1 # 1 /\ (k + 1) - 1 = k
      BY <1>6
    <3>2. list[k + 1] = Nth(places, k) + 1
      BY <3>1
    <3>3. Nth(places, k) \in places /\ Nth(places, k) \in 1 .. m
      BY <1>6
    <3> HIDE DEF list
    <3> QED BY <1>3, <3>1, <3>2, <3>3
  <2>4. list \in [1 .. n + 1 -> before]
    <3>1. \A k \in 1 .. n + 1 : list[k] \in before
      <4> SUFFICES ASSUME NEW k \in 1 .. n + 1 PROVE list[k] \in before
        OBVIOUS
      <4>1. CASE k = 1
        BY <1>4, <1>11, <2>2, <4>1
      <4>2. CASE k # 1
        <5>1. k - 1 \in 1 .. n /\ k = (k - 1) + 1
          BY <2>1, <4>2
        <5> HIDE DEF list
        <5> QED BY <2>3, <5>1
      <4> HIDE DEF list
      <4> QED BY <4>1, <4>2
    <3>2. list = [k \in 1 .. n + 1 |-> list[k]]
      OBVIOUS
    <3> HIDE DEF list
    <3> QED BY <3>1, <3>2
  <2> HIDE DEF list
  <2>5. \A k \in 1 .. n + 1 : k = 1 \/ (k - 1 \in 1 .. n /\ list[k] = Nth(places, k - 1) + 1)
    <3> TAKE k \in 1 .. n + 1
    <3>1. k = 1 \/ (k - 1 \in 1 .. n /\ k = (k - 1) + 1)
      BY <2>1
    <3> QED BY <2>3, <3>1
  <2>6. \A k, l \in 1 .. n + 1 : k < l => list[k] < list[l]
    <3> SUFFICES ASSUME NEW k \in 1 .. n + 1, NEW l \in 1 .. n + 1, k < l PROVE list[k] < list[l]
      OBVIOUS
    <3>1. l # 1 /\ l - 1 \in 1 .. n /\ list[l] = Nth(places, l - 1) + 1 /\ Nth(places, l - 1) \in 1 .. m
      BY <1>6, <2>3, <2>5
    <3>2. CASE k = 1
      BY <1>1, <2>2, <3>1, <3>2
    <3>3. CASE k # 1
      <4>1. k - 1 \in 1 .. n /\ list[k] = Nth(places, k - 1) + 1 /\ Nth(places, k - 1) \in 1 .. m
        BY <2>3, <2>5, <3>3
      <4>2. k - 1 < l - 1
        BY <1>6
      <4>3. Nth(places, k - 1) < Nth(places, l - 1)
        BY <1>6, <3>1, <4>1, <4>2
      <4> QED BY <3>1, <4>1, <4>3
    <3> QED BY <3>2, <3>3
  <2>7. \A i \in before : \E k \in 1 .. n + 1 : list[k] = i
    <3> SUFFICES ASSUME NEW i \in before PROVE \E k \in 1 .. n + 1 : list[k] = i
      OBVIOUS
    <3>1. CASE i = 1
      BY <2>1, <2>2, <3>1
    <3>2. CASE i # 1
      <4>1. i - 1 \in 1 .. m /\ i = (i - 1) + 1
        BY <1>2, <1>5, <3>2
      <4>2. i - 1 \in places
        BY <1>3, <4>1
      <4>3. PICK k \in 1 .. n : Nth(places, k) = i - 1
        BY <1>6, <4>2
      <4> QED BY <2>3, <4>1, <4>3
    <3> QED BY <3>1, <3>2
  <2>8. Cardinality(before) = n + 1 /\ \A k \in 1 .. n + 1 : Nth(before, k) = list[k]
    BY <1>9, <2>1, <2>4, <2>6, <2>7, ListedInOrder
  <2>9. e.peer \in Peers
    BY <1>1, <1>11 DEF Events
  <2>10. /\ <<e.peer>> \in Seq(Peers) /\ Len(<<e.peer>>) = 1 /\ <<e.peer>>[1] = e.peer
    BY <2>9
  <2>11. /\ <<e.peer>> \o PostedTo(fs, u) \in Seq(Peers)
         /\ Len(<<e.peer>> \o PostedTo(fs, u)) = 1 + n
         /\ \A k \in 1 .. 1 + n : (<<e.peer>> \o PostedTo(fs, u))[k] =
                IF k <= 1 THEN <<e.peer>>[k] ELSE PostedTo(fs, u)[k - 1]
    BY <1>7, <2>10, ConcatProperties
  <2>12. \A k \in 1 .. n + 1 : PostedTo(es, u)[k] = (<<e.peer>> \o PostedTo(fs, u))[k]
    <3> SUFFICES ASSUME NEW k \in 1 .. n + 1
                 PROVE  PostedTo(es, u)[k] = (<<e.peer>> \o PostedTo(fs, u))[k]
      OBVIOUS
    <3>1. k \in 1 .. 1 + n /\ PostedTo(es, u)[k] = es[list[k]].peer
      BY <1>8, <1>6, <2>8
    <3>2. CASE k = 1
      BY <1>1, <2>2, <2>10, <2>11, <3>1, <3>2
    <3>3. CASE k # 1
      <4>1. k - 1 \in 1 .. n /\ ~(k <= 1) /\ list[k] = Nth(places, k - 1) + 1 /\ Nth(places, k - 1) \in 1 .. m
        BY <1>6, <2>3, <2>5, <3>3
      <4>2. PostedTo(fs, u)[k - 1] = es[list[k]].peer
        BY <1>1, <1>7, <4>1
      <4> QED BY <2>11, <3>1, <4>1, <4>2
    <3> QED BY <3>2, <3>3
  <2>13. Len(PostedTo(es, u)) = Len(<<e.peer>> \o PostedTo(fs, u))
    BY <1>6, <1>8, <2>8, <2>11
  <2> QED BY <1>6, <1>8, <2>8, <2>11, <2>12, <2>13, SeqEqual
<1> QED BY <1>10, <1>11 DEF fs, e

-----------------------------------------------------------------------------
(* What the steps do to the line of a session.                               *)

\* A connection at the end of the third part of a line is at the end of the line.
LEMMA MovedLast ==
    \A a, b, c \in Seq(Peers) : \A x \in Peers : a \o b \o Append(c, x) = Append(a \o b \o c, x)
OBVIOUS

\* The first of the third part may as well be the last of the second.
LEMMA MovedToQueue ==
    \A a, b, c \in Seq(Peers) : \A x \in Peers : a \o b \o (<<x>> \o c) = a \o Append(b, x) \o c
<1> SUFFICES ASSUME NEW a \in Seq(Peers), NEW b \in Seq(Peers), NEW c \in Seq(Peers), NEW x \in Peers
             PROVE  a \o b \o (<<x>> \o c) = a \o Append(b, x) \o c
  OBVIOUS
<1>1. a \o b \in Seq(Peers) /\ <<x>> \in Seq(Peers) /\ b \o <<x>> \in Seq(Peers)
  OBVIOUS
<1>2. Append(b, x) = b \o <<x>>
  BY AppendIsConcat
<1>3. a \o b \o (<<x>> \o c) = (a \o b \o <<x>>) \o c
  BY <1>1, ConcatAssociative
<1>4. a \o b \o <<x>> = a \o (b \o <<x>>)
  BY <1>1, ConcatAssociative
<1> QED BY <1>2, <1>3, <1>4

\* With nothing in the second part, it may as well be the last of the first.
LEMMA MovedToArrivals ==
    \A a, c \in Seq(Peers) : \A x \in Peers : a \o <<>> \o (<<x>> \o c) = Append(a, x) \o <<>> \o c
<1> SUFFICES ASSUME NEW a \in Seq(Peers), NEW c \in Seq(Peers), NEW x \in Peers
             PROVE  a \o <<>> \o (<<x>> \o c) = Append(a, x) \o <<>> \o c
  OBVIOUS
<1>1. <<x>> \in Seq(Peers) /\ Append(a, x) \in Seq(Peers)
  OBVIOUS
<1>2. a \o <<>> = a /\ Append(a, x) \o <<>> = Append(a, x)
  BY <1>1, ConcatEmptySeq
<1>3. Append(a, x) = a \o <<x>>
  BY AppendIsConcat
<1>4. a \o (<<x>> \o c) = (a \o <<x>>) \o c
  BY <1>1, ConcatAssociative
<1> QED BY <1>2, <1>3, <1>4

\* The first of the first part is the first of the line.
LEMMA ConcatTail ==
    ASSUME NEW S, NEW a \in Seq(S), NEW b \in Seq(S), NEW c \in Seq(S), a # <<>>
    PROVE  /\ a \o b \o c # <<>>
           /\ Head(a \o b \o c) = Head(a)
           /\ Tail(a \o b \o c) = Tail(a) \o b \o c
<1> DEFINE x == Head(a)
           t == Tail(a)
<1>1. x \in S /\ t \in Seq(S) /\ <<x>> \in Seq(S)
  BY HeadTailProperties
<1>2. a = <<x>> \o t
  <2>1. /\ Len(<<x>> \o t) = 1 + Len(t) /\ <<x>> \o t \in Seq(S)
        /\ \A i \in 1 .. 1 + Len(t) : (<<x>> \o t)[i] = IF i <= 1 THEN x ELSE t[i - 1]
    BY <1>1
  <2>2. /\ Len(a) \in Nat \ {0} /\ Len(t) = Len(a) - 1 /\ x = a[1]
        /\ \A i \in 1 .. Len(t) : t[i] = a[i + 1]
    OBVIOUS
  <2> HIDE DEF x, t
  <2>3. ASSUME NEW i \in 1 .. Len(a) PROVE a[i] = (<<x>> \o t)[i]
    <3>1. i \in 1 .. 1 + Len(t) /\ (i <= 1 \/ (i - 1 \in 1 .. Len(t) /\ (i - 1) + 1 = i)) /\ (i <= 1 => i = 1)
      BY <2>2
    <3> QED BY <2>1, <2>2, <3>1
  <2>4. Len(a) = Len(<<x>> \o t)
    BY <2>1, <2>2
  <2> QED BY <2>1, <2>3, <2>4, SeqEqual
<1> HIDE DEF x, t
<1>3. a \o b \o c = <<x>> \o (t \o b \o c)
  <2>1. t \o b \in Seq(S) /\ t \o b \o c \in Seq(S)
    BY <1>1
  <2>2. (<<x>> \o t) \o b = <<x>> \o (t \o b)
    BY <1>1, ConcatAssociative
  <2>3. (<<x>> \o (t \o b)) \o c = <<x>> \o ((t \o b) \o c)
    BY <1>1, <2>1, ConcatAssociative
  <2> QED BY <1>2, <2>2, <2>3
<1>4. t \o b \o c \in Seq(S)
  BY <1>1
<1>5. ASSUME NEW s \in Seq(S)
      PROVE  <<x>> \o s # <<>> /\ Head(<<x>> \o s) = x /\ Tail(<<x>> \o s) = s
  <2>1. /\ <<x>> \o s \in Seq(S) /\ Len(<<x>> \o s) = 1 + Len(s) /\ Len(s) \in Nat
        /\ \A i \in 1 .. 1 + Len(s) : (<<x>> \o s)[i] = IF i <= 1 THEN x ELSE s[i - 1]
    BY <1>1
  <2> DEFINE xs == <<x>> \o s
  <2> HIDE DEF xs
  <2>2. xs # <<>> /\ Head(xs) = x
    <3>1. Len(xs) # 0 /\ xs[1] = x /\ xs \in Seq(S)
      BY <2>1 DEF xs
    <3> QED BY <3>1
  <2>3. Tail(xs) \in Seq(S) /\ Len(Tail(xs)) = Len(s) /\ \A i \in 1 .. Len(s) : Tail(xs)[i] = xs[i + 1]
    BY <2>1, <2>2, HeadTailProperties DEF xs
  <2>4. ASSUME NEW i \in 1 .. Len(s) PROVE Tail(xs)[i] = s[i]
    <3>1. i + 1 \in 1 .. 1 + Len(s) /\ ~(i + 1 <= 1) /\ (i + 1) - 1 = i
      BY <2>1
    <3> QED BY <2>1, <2>3, <3>1 DEF xs
  <2>5. Tail(xs) = s
    BY <2>3, <2>4, SeqEqual
  <2> QED BY <2>2, <2>5 DEF xs
<1> QED BY <1>3, <1>4, <1>5 DEF x, t

\* A session that was announced to the core thread has nobody in its queue any more.
NobodyLeftBehind == \A u \in initialized : clientQueue[u] = <<>>

\* Who comes after the announcement is posted to the session at once.
LEMMA NobodyLeftBehindStep == TInv /\ NobodyLeftBehind /\ [Next]_vars => NobodyLeftBehind'
<1> SUFFICES ASSUME TInv, NobodyLeftBehind, [Next]_vars PROVE NobodyLeftBehind'
  OBVIOUS
<1>1. CASE CoreEvent
  <2> DEFINE e == Head(events)
  <2>1. events \in Seq(Events) /\ events # <<>>
    BY <1>1 DEF CoreEvent, TInv, QueuesOK
  <2>2. e.user \in Users
    <3>1. e \in Events
      BY <2>1
    <3> QED BY <3>1 DEF Events
  <2> HIDE DEF e
  <2>3. clientQueue \in [Users -> Seq(Peers)] /\ initialized \subseteq Users
    BY DEF TInv, QueuesOK, SessionsOK
  <2>4. CASE AddClientEvent(e)
    BY <2>2, <2>3, <2>4 DEF AddClientEvent, NobodyLeftBehind
  <2>5. CASE SetSessionInitialized(e.user)
    BY <2>2, <2>3, <2>5 DEF SetSessionInitialized, NobodyLeftBehind
  <2>6. CASE AddSocket(e.user)
    BY <2>6 DEF AddSocket, NobodyLeftBehind
  <2> QED BY <1>1, <2>4, <2>5, <2>6 DEF CoreEvent, e
<1>2. CASE UNCHANGED <<initialized, clientQueue>>
  BY <1>2 DEF NobodyLeftBehind
<1>3. ASSUME NEW p \in Peers,
             \/ IncomingConnection(p) \/ Deny(p) \/ RegisterClient(p) \/ SetupData(p)
             \/ ClientDisconnected(p) \/ ClientCloses(p) \/ FallsSilent(p)
      PROVE  NobodyLeftBehind'
  BY <1>2, <1>3 DEF IncomingConnection, Deny, RegisterClient, SetupData, ClientDisconnected, ClientCloses,
                    FallsSilent, handover
<1>4. ASSUME NEW p \in Peers, NEW u \in Users,
             Login(p, u) \/ PeerDisconnected(p, u) \/ SendHeartBeat(p, u) \/ HeartBeatReply(p, u)
      PROVE  NobodyLeftBehind'
  BY <1>2, <1>4 DEF Login, PeerDisconnected, SendHeartBeat, HeartBeatReply, handover
<1>5. ASSUME NEW u \in Users,
             Run(u) \/ AddPeer(u) \/ SocketInitialized(u) \/ Wait(u) \/ LeaveLoop(u) \/ EndSession(u)
      PROVE  NobodyLeftBehind'
  BY <1>2, <1>5 DEF Run, AddPeer, SocketInitialized, Wait, LeaveLoop, EndSession, handover
<1>6. CASE Stop \/ End \/ UNCHANGED vars
  BY <1>2, <1>6 DEF Stop, End, vars, handover
<1> QED BY <1>1, <1>3, <1>4, <1>5, <1>6 DEF Next

\* The parts of a line are sequences of connections.
LEMMA LineType ==
    ASSUME TInv, NEW u \in Users
    PROVE  /\ events \in Seq(Events)
           /\ arrivals[u] \in Seq(Peers) /\ clientQueue[u] \in Seq(Peers) /\ PostedTo(events, u) \in Seq(Peers)
           /\ InLine(u) \in Seq(Peers)
<1>1. events \in Seq(Events) /\ arrivals[u] \in Seq(Peers) /\ clientQueue[u] \in Seq(Peers)
  BY DEF TInv, QueuesOK
<1>2. PostedTo(events, u) \in Seq(Peers)
  BY <1>1, PostedType
<1> QED BY <1>1, <1>2 DEF InLine

\* What is posted to the core thread but no connection leaves the lines as they are.
LEMMA LinesAfterPost ==
    ASSUME TInv, NEW e \in Events, e.kind # "client",
           events' = Append(events, e), UNCHANGED <<arrivals, clientQueue>>
    PROVE  \A u \in Users : InLine(u)' = InLine(u)
<1> SUFFICES ASSUME NEW u \in Users PROVE InLine(u)' = InLine(u)
  OBVIOUS
<1>1. PostedTo(events', u) = PostedTo(events, u)
  BY LineType, PostedAfterAppend
<1> QED BY <1>1 DEF InLine

\* Who logs in gets to the end of the line.
LEMMA LinesAfterLogin ==
    ASSUME TInv, NEW p \in Peers, NEW u \in Users,
           events' = Append(events, Posted("client", u, p)), UNCHANGED <<arrivals, clientQueue>>
    PROVE  \A v \in Users : InLine(v)' = IF v = u THEN Append(InLine(v), p) ELSE InLine(v)
<1> SUFFICES ASSUME NEW v \in Users PROVE InLine(v)' = IF v = u THEN Append(InLine(v), p) ELSE InLine(v)
  OBVIOUS
<1>1. Posted("client", u, p) \in Events /\ Posted("client", u, p).kind = "client"
      /\ Posted("client", u, p).user = u /\ Posted("client", u, p).peer = p
  BY PostedIsEvent DEF Posted
<1>2. PostedTo(events', v) = IF v = u THEN Append(PostedTo(events, v), p) ELSE PostedTo(events, v)
  BY <1>1, LineType, PostedAfterAppend
<1>3. /\ arrivals[v] \in Seq(Peers) /\ clientQueue[v] \in Seq(Peers) /\ PostedTo(events, v) \in Seq(Peers)
  BY LineType
<1>4. arrivals[v] \o clientQueue[v] \o Append(PostedTo(events, v), p) = Append(InLine(v), p)
  <2> DEFINE a == arrivals[v]
             b == clientQueue[v]
             c == PostedTo(events, v)
  <2>1. a \in Seq(Peers) /\ b \in Seq(Peers) /\ c \in Seq(Peers) /\ InLine(v) = a \o b \o c
    BY <1>3 DEF InLine
  <2> HIDE DEF a, b, c
  <2>2. a \o b \o Append(c, p) = Append(a \o b \o c, p)
    BY <2>1, MovedLast
  <2> QED BY <2>1, <2>2 DEF a, b, c
<1> QED BY <1>2, <1>4 DEF InLine

\* The session takes the first in its line.
LEMMA LinesAfterArrival ==
    ASSUME TInv, NEW u \in Users, arrivals[u] # <<>>,
           arrivals' = [arrivals EXCEPT ![u] = Tail(@)], UNCHANGED <<events, clientQueue>>
    PROVE  /\ InLine(u) # <<>> /\ Head(InLine(u)) = Head(arrivals[u])
           /\ \A v \in Users : InLine(v)' = IF v = u THEN Tail(InLine(v)) ELSE InLine(v)
<1>1. /\ InLine(u) # <<>> /\ Head(InLine(u)) = Head(arrivals[u])
      /\ Tail(InLine(u)) = Tail(arrivals[u]) \o clientQueue[u] \o PostedTo(events, u)
  <2> DEFINE a == arrivals[u]
             b == clientQueue[u]
             c == PostedTo(events, u)
  <2>1. a \in Seq(Peers) /\ b \in Seq(Peers) /\ c \in Seq(Peers) /\ a # <<>> /\ InLine(u) = a \o b \o c
    BY LineType DEF InLine
  <2> HIDE DEF a, b, c
  <2>2. /\ a \o b \o c # <<>> /\ Head(a \o b \o c) = Head(a)
        /\ Tail(a \o b \o c) = Tail(a) \o b \o c
    BY <2>1, ConcatTail
  <2> QED BY <2>1, <2>2 DEF a, b, c
<1>2. \A v \in Users : arrivals'[v] = IF v = u THEN Tail(arrivals[v]) ELSE arrivals[v]
  BY DEF TInv, QueuesOK
<1>3. ASSUME NEW v \in Users PROVE InLine(v)' = IF v = u THEN Tail(InLine(v)) ELSE InLine(v)
  <2>1. InLine(v)' = arrivals'[v] \o clientQueue[v] \o PostedTo(events, v)
    BY DEF InLine
  <2>2. CASE v = u
    BY <1>1, <1>2, <2>1, <2>2
  <2>3. CASE v # u
    <3>1. arrivals'[v] = arrivals[v]
      BY <1>2, <2>3
    <3>2. InLine(v)' = InLine(v)
      BY <2>1, <3>1 DEF InLine
    <3> QED BY <2>3, <3>2
  <2> QED BY <2>2, <2>3
<1> QED BY <1>1, <1>3

\* The core thread moves connections along the lines and changes none of them.
LEMMA LinesAfterEvent ==
    ASSUME TInv, NobodyLeftBehind, CoreEvent
    PROVE  \A u \in Users : InLine(u)' = InLine(u)
<1> DEFINE e == Head(events)
<1>1. events \in Seq(Events) /\ events # <<>> /\ events' = Tail(events)
  BY DEF CoreEvent, TInv, QueuesOK
<1>2. e \in Events /\ e.user \in Users /\ (e.kind = "client" => e.peer \in Peers)
  <2>1. e \in Events
    BY <1>1
  <2> QED BY <2>1 DEF Events
<1>3. \A u \in Users : PostedTo(events, u) = IF e.kind = "client" /\ e.user = u
                                             THEN <<e.peer>> \o PostedTo(events', u)
                                             ELSE PostedTo(events', u)
  BY <1>1, PostedBeforeTail
<1>4. events' \in Seq(Events) /\ \A u \in Users : PostedTo(events', u) \in Seq(Peers)
  <2>1. events' \in Seq(Events)
    BY <1>1, HeadTailProperties
  <2> QED BY <2>1, PostedType
<1>5. /\ arrivals \in [Users -> Seq(Peers)] /\ clientQueue \in [Users -> Seq(Peers)]
      /\ initialized \subseteq Users
  BY DEF TInv, QueuesOK, SessionsOK
<1>6. \/ e.kind = "client" /\ AddClientEvent(e)
      \/ e.kind = "initialized" /\ SetSessionInitialized(e.user)
      \/ e.kind = "addSocket" /\ AddSocket(e.user)
  BY DEF CoreEvent
<1> HIDE DEF e
<1> SUFFICES ASSUME NEW u \in Users PROVE InLine(u)' = InLine(u)
  OBVIOUS
<1> DEFINE a == arrivals[u]
           b == clientQueue[u]
           c == PostedTo(events', u)
<1>7. a \in Seq(Peers) /\ b \in Seq(Peers) /\ c \in Seq(Peers)
  BY <1>4, <1>5
<1>8. InLine(u)' = arrivals'[u] \o clientQueue'[u] \o c
  BY DEF InLine
<1>9. InLine(u) = a \o b \o PostedTo(events, u)
  BY DEF InLine
<1> HIDE DEF a, b, c
<1>10. CASE e.kind = "client" /\ AddClientEvent(e) /\ e.user = u
  <2>1. PostedTo(events, u) = <<e.peer>> \o c /\ e.peer \in Peers
    BY <1>2, <1>3, <1>10 DEF c
  <2>2. CASE u \in initialized
    <3>1. arrivals'[u] = Append(a, e.peer) /\ clientQueue'[u] = <<>> /\ b = <<>>
      BY <1>5, <1>10, <2>2 DEF AddClientEvent, NobodyLeftBehind, a, b
    <3>2. a \o <<>> \o (<<e.peer>> \o c) = Append(a, e.peer) \o <<>> \o c
      BY <1>7, <2>1, MovedToArrivals
    <3>3. InLine(u)' = Append(a, e.peer) \o <<>> \o c
      BY <1>8, <3>1
    <3>4. InLine(u) = a \o <<>> \o (<<e.peer>> \o c)
      BY <1>9, <2>1, <3>1
    <3> QED BY <3>2, <3>3, <3>4
  <2>3. CASE u \notin initialized
    <3>1. arrivals'[u] = a /\ clientQueue'[u] = Append(b, e.peer)
      BY <1>5, <1>10, <2>3 DEF AddClientEvent, a, b
    <3>2. a \o b \o (<<e.peer>> \o c) = a \o Append(b, e.peer) \o c
      BY <1>7, <2>1, MovedToQueue
    <3>3. InLine(u)' = a \o Append(b, e.peer) \o c
      BY <1>8, <3>1
    <3>4. InLine(u) = a \o b \o (<<e.peer>> \o c)
      BY <1>9, <2>1
    <3> QED BY <3>2, <3>3, <3>4
  <2> QED BY <2>2, <2>3
<1>11. CASE e.kind = "client" /\ AddClientEvent(e) /\ e.user # u
  <2>1. arrivals'[u] = a /\ clientQueue'[u] = b
    BY <1>2, <1>5, <1>11 DEF AddClientEvent, a, b
  <2> QED BY <1>3, <1>8, <1>9, <1>11, <2>1 DEF c
<1>12. CASE e.kind = "initialized" /\ SetSessionInitialized(e.user) /\ e.user = u
  <2>1. arrivals'[u] = a \o b /\ clientQueue'[u] = <<>> /\ PostedTo(events, u) = c
    BY <1>3, <1>5, <1>12 DEF SetSessionInitialized, a, b, c
  <2>2. InLine(u)' = (a \o b) \o <<>> \o c
    BY <1>8, <2>1
  <2>3. a \o b \in Seq(Peers)
    BY <1>7
  <2>4. (a \o b) \o <<>> = a \o b
    BY <2>3, ConcatEmptySeq
  <2> QED BY <1>9, <2>1, <2>2, <2>4
<1>13. CASE e.kind = "initialized" /\ SetSessionInitialized(e.user) /\ e.user # u
  <2>1. arrivals'[u] = a /\ clientQueue'[u] = b /\ PostedTo(events, u) = c
    BY <1>2, <1>3, <1>5, <1>13 DEF SetSessionInitialized, a, b, c
  <2> QED BY <1>8, <1>9, <2>1
<1>14. CASE e.kind = "addSocket" /\ AddSocket(e.user)
  <2>1. arrivals'[u] = a /\ clientQueue'[u] = b /\ PostedTo(events, u) = c
    BY <1>3, <1>14 DEF AddSocket, a, b, c
  <2> QED BY <1>8, <1>9, <2>1
<1> QED BY <1>6, <1>10, <1>11, <1>12, <1>13, <1>14

-----------------------------------------------------------------------------
(* The hand-over implements the queue of logins.                             *)

\* At first nobody has logged in.
LEMMA QueueAtFirst == Init => Queue!Init
<1> SUFFICES ASSUME Init PROVE Queue!Init
  OBVIOUS
<1>1. fresh \union connecting = Peers
  BY DEF Init
<1>2. ASSUME NEW u \in Users PROVE InLine(u) = <<>>
  <2>1. HandOvers(events, u) = {}
    BY DEF Init, HandOvers
  <2>2. Cardinality({}) = 0
    BY FS_EmptySet
  <2>3. PostedTo(events, u) \in Seq(Peers) /\ Len(PostedTo(events, u)) = 0
    <3>1. events \in Seq(Events)
      BY DEF Init
    <3> QED BY <2>1, <2>2, <3>1, PostedType
  <2>4. PostedTo(events, u) = <<>>
    BY <2>3
  <2>5. arrivals[u] = <<>> /\ clientQueue[u] = <<>>
    BY DEF Init
  <2>6. <<>> \o <<>> \o <<>> = <<>>
    OBVIOUS
  <2> QED BY <2>4, <2>5, <2>6 DEF InLine
<1>3. [u \in Users |-> InLine(u)] = [u \in Users |-> <<>>]
  BY <1>2
<1>4. attached = [u \in Users |-> {}]
  BY DEF Init
<1> QED BY <1>1, <1>3, <1>4 DEF Queue!Init

\* The step leaves everything as it is that the queue of logins is about.
Same == /\ (fresh \union connecting)' = fresh \union connecting
        /\ \A u \in Users : InLine(u)' = InLine(u)
        /\ attached' = attached

\* Such a step is no step of the queue.
LEMMA SameIsStutter == Same => UNCHANGED Queue!vars
BY DEF Same, Queue!vars

\* A line consists of the posted events, the queue of the session thread and the arrivals.
LEMMA SameLines ==
    ASSUME UNCHANGED <<events, arrivals, clientQueue>>
    PROVE  \A u \in Users : InLine(u)' = InLine(u)
BY DEF InLine

\* Each step of the threads is a step of the queue of logins, or none.
LEMMA QueueStep == TInv /\ Placed /\ NobodyLeftBehind /\ [Next]_vars => [Queue!Next]_(Queue!vars)
<1> SUFFICES ASSUME TInv, Placed, NobodyLeftBehind, [Next]_vars PROVE [Queue!Next]_(Queue!vars)
  OBVIOUS
<1>1. connecting \subseteq Peers /\ fresh \intersect connecting = {}
  BY DEF TInv, SocketsOK, Placed, Apart
<1>2. attached \in [Users -> SUBSET Peers]
  BY DEF TInv, SessionsOK
<1>3. ASSUME NEW p \in Peers,
             \/ IncomingConnection(p) \/ Deny(p) \/ RegisterClient(p) \/ SetupData(p)
             \/ ClientCloses(p) \/ FallsSilent(p)
      PROVE  UNCHANGED Queue!vars
  <2>1. UNCHANGED <<events, arrivals, clientQueue, attached>>
    BY <1>3 DEF IncomingConnection, Deny, RegisterClient, SetupData, ClientCloses, FallsSilent, handover, sessions
  <2>2. (fresh \union connecting)' = fresh \union connecting
    BY <1>3 DEF IncomingConnection, Deny, RegisterClient, SetupData, ClientCloses, FallsSilent, sockets, handshake
  <2> QED BY <2>1, <2>2, SameLines, SameIsStutter DEF Same
<1>4. ASSUME NEW p \in Peers, ClientDisconnected(p) PROVE Queue!Refuse({p})
  <2>1. UNCHANGED <<events, arrivals, clientQueue, attached>>
    BY <1>4 DEF ClientDisconnected, handover, sessions
  <2>2. /\ {p} \subseteq fresh \union connecting
        /\ (fresh \union connecting)' = (fresh \union connecting) \ {p}
    BY <1>1, <1>4 DEF ClientDisconnected, Handles, sockets
  <2> QED BY <2>1, <2>2, SameLines DEF Queue!Refuse
<1>5. ASSUME NEW p \in Peers, NEW u \in Users, Login(p, u) PROVE Queue!Login(p, u)
  <2>1. /\ p \in fresh \union connecting
        /\ (fresh \union connecting)' = (fresh \union connecting) \ {p}
    BY <1>1, <1>5 DEF Login, Handles, sockets
  <2>2. \A v \in Users : InLine(v)' = IF v = u THEN Append(InLine(v), p) ELSE InLine(v)
    BY <1>5, LinesAfterLogin DEF Login
  <2>3. [v \in Users |-> InLine(v)'] = [[v \in Users |-> InLine(v)] EXCEPT ![u] = Append(@, p)]
    BY <2>2
  <2>4. attached' = attached
    BY <1>5 DEF Login
  <2> QED BY <2>1, <2>3, <2>4 DEF Queue!Login
<1>6. ASSUME NEW p \in Peers, NEW u \in Users, PeerDisconnected(p, u) PROVE Queue!Leave(p, u)
  <2>1. UNCHANGED <<events, arrivals, clientQueue>>
    BY <1>6 DEF PeerDisconnected, handover
  <2>2. (fresh \union connecting)' = fresh \union connecting
    BY <1>6 DEF PeerDisconnected, sockets, handshake
  <2>3. p \in attached[u] /\ attached' = [attached EXCEPT ![u] = @ \ {p}]
    BY <1>6 DEF PeerDisconnected
  <2> QED BY <2>1, <2>2, <2>3, SameLines DEF Queue!Leave
<1>7. ASSUME NEW p \in Peers, NEW u \in Users, SendHeartBeat(p, u) \/ HeartBeatReply(p, u) PROVE UNCHANGED Queue!vars
  <2>1. UNCHANGED <<events, arrivals, clientQueue, attached, fresh, connecting>>
    BY <1>7 DEF SendHeartBeat, HeartBeatReply, handshake, handover, sessions
  <2> QED BY <2>1, SameLines, SameIsStutter DEF Same
<1>8. ASSUME NEW u \in Users, Run(u) \/ SocketInitialized(u) PROVE UNCHANGED Queue!vars
  <2>1. UNCHANGED <<arrivals, clientQueue, attached, fresh, connecting>>
    BY <1>8 DEF Run, SocketInitialized, sockets, handshake
  <2>2. PICK e \in Events : e.kind # "client" /\ events' = Append(events, e)
    <3>1. /\ Posted("initialized", u, NoPeer).kind # "client"
          /\ Posted("addSocket", u, NoPeer).kind # "client"
      BY DEF Posted
    <3> QED BY <1>8, <3>1, PostedIsEvent DEF Run, SocketInitialized
  <2>3. \A v \in Users : InLine(v)' = InLine(v)
    BY <2>1, <2>2, LinesAfterPost
  <2> QED BY <2>1, <2>3, SameIsStutter DEF Same
<1>9. ASSUME NEW u \in Users, AddPeer(u) PROVE Queue!Arrive(u)
  <2>1. /\ arrivals[u] # <<>> /\ arrivals' = [arrivals EXCEPT ![u] = Tail(@)]
        /\ attached' = [attached EXCEPT ![u] = @ \union ({Head(arrivals[u])} \intersect open)]
        /\ UNCHANGED <<events, clientQueue, fresh, connecting>>
    BY <1>9 DEF AddPeer, sockets, handshake
  <2>2. /\ InLine(u) # <<>> /\ Head(InLine(u)) = Head(arrivals[u])
        /\ \A v \in Users : InLine(v)' = IF v = u THEN Tail(InLine(v)) ELSE InLine(v)
    BY <2>1, LinesAfterArrival
  <2>3. [v \in Users |-> InLine(v)'] = [[v \in Users |-> InLine(v)] EXCEPT ![u] = Tail(@)]
    BY <2>2
  <2>4. [v \in Users |-> InLine(v)][u] = InLine(u)
    OBVIOUS
  <2>5. \/ attached' = [attached EXCEPT ![u] = @ \union {Head(InLine(u))}]
        \/ attached' = attached
    <3>1. CASE Head(arrivals[u]) \in open
      <4>1. {Head(arrivals[u])} \intersect open = {Head(InLine(u))}
        BY <2>2, <3>1
      <4> QED BY <2>1, <4>1
    <3>2. CASE Head(arrivals[u]) \notin open
      <4>1. {Head(arrivals[u])} \intersect open = {}
        BY <3>2
      <4>2. attached' = [attached EXCEPT ![u] = @ \union {}]
        BY <2>1, <4>1
      <4> QED BY <1>2, <4>2
    <3> QED BY <3>1, <3>2
  <2> QED BY <2>1, <2>2, <2>3, <2>4, <2>5 DEF Queue!Arrive
<1>10. ASSUME NEW u \in Users, Wait(u) \/ LeaveLoop(u) PROVE UNCHANGED Queue!vars
  <2>1. UNCHANGED <<events, arrivals, clientQueue, attached, fresh, connecting>>
    BY <1>10 DEF Wait, LeaveLoop, sockets, handshake, handover, sessions
  <2> QED BY <2>1, SameLines, SameIsStutter DEF Same
<1>11. ASSUME NEW u \in Users, EndSession(u) PROVE Queue!EndSession(u)
  <2>1. UNCHANGED <<events, arrivals, clientQueue, fresh, connecting>>
    BY <1>11 DEF EndSession, handshake, handover
  <2>2. attached' = [attached EXCEPT ![u] = {}]
    BY <1>11 DEF EndSession
  <2> QED BY <2>1, <2>2, SameLines DEF Queue!EndSession
<1>12. CASE CoreEvent
  <2>1. UNCHANGED <<attached, fresh, connecting>>
    BY <1>12 DEF CoreEvent, sockets, handshake
  <2>2. UNCHANGED Queue!vars
    BY <1>12, <2>1, LinesAfterEvent, SameIsStutter DEF Same
  <2> QED BY <2>2
<1>13. CASE Stop
  <2>1. UNCHANGED <<events, arrivals, clientQueue, attached>>
    BY <1>13 DEF Stop, handover, sessions
  <2>2. (fresh \union connecting)' = (fresh \union connecting) \ connecting
    BY <1>1, <1>13 DEF Stop
  <2>3. Queue!Refuse(connecting)
    BY <2>1, <2>2, SameLines DEF Queue!Refuse
  <2> QED BY <1>1, <2>3 DEF Queue!Next
<1>14. CASE End \/ UNCHANGED vars
  <2>1. UNCHANGED <<events, arrivals, clientQueue, attached, fresh, connecting>>
    BY <1>14 DEF End, vars, sockets, handshake, handover, sessions
  <2>2. UNCHANGED Queue!vars
    BY <2>1, SameLines, SameIsStutter DEF Same
  <2> QED BY <2>2
<1>15. ASSUME NEW p \in Peers, ClientDisconnected(p) PROVE Queue!Next
  <2>1. {p} \in SUBSET Peers
    OBVIOUS
  <2> QED BY <1>4, <1>15, <2>1 DEF Queue!Next
<1>16. ASSUME NEW p \in Peers, NEW u \in Users, Login(p, u) \/ PeerDisconnected(p, u) PROVE Queue!Next
  BY <1>5, <1>6, <1>16 DEF Queue!Next
<1>17. ASSUME NEW u \in Users, AddPeer(u) \/ EndSession(u) PROVE Queue!Next
  BY <1>9, <1>11, <1>17 DEF Queue!Next
<1> QED BY <1>3, <1>7, <1>8, <1>10, <1>12, <1>13, <1>14, <1>15, <1>16, <1>17 DEF Next

\* For any connections and users, clients arrive in the session they logged in to, in the
\* order of their logins and at most once, however the events of the core thread, the start
\* of the session threads, hang-ups and the shutdown interleave: the way over the posted
\* events, the queue of the session thread and the posted arrivals is one queue.
THEOREM ArrivesAsInOneQueue == Spec => IsLoginQueue
<1>1. Init => Placed
  BY PlacedInit
<1>2. Init => NobodyLeftBehind
  BY DEF Init, NobodyLeftBehind
<1>3. Spec => [](TInv /\ Placed /\ NobodyLeftBehind)
  BY <1>1, <1>2, TInvInit, TInvStep, PlacedStep, NobodyLeftBehindStep, PTL DEF Spec
<1>4. TInv /\ Placed /\ NobodyLeftBehind /\ [Next]_vars => [Queue!Next]_(Queue!vars)
  BY QueueStep
<1> QED BY <1>3, <1>4, QueueAtFirst, PTL DEF Spec, IsLoginQueue, Queue!Spec
=============================================================================
