------------------------------ MODULE CoreThreads ------------------------------
(***************************************************************************)
(* The threads of the core, and how a client gets from one to another: the   *)
(* core thread accepts a connection, has the handshake with it               *)
(* (CoreAuthHandler), starts the session of its user (SessionThread) and     *)
(* hands the connection over to it (CoreSession::addClient,                  *)
(* SignalProxy::addPeer); then it is the session's until it is closed or     *)
(* falls silent.  Also the first setup of the core, and its shutdown, in     *)
(* which the core thread waits for each session thread.                      *)
(*                                                                         *)
(* Each thread is an event loop; `events` and `arrivals` are its queues of   *)
(* posted events.  What a socket reports may come between any two of them.   *)
(***************************************************************************)
EXTENDS Naturals, Sequences, FiniteSets

CONSTANTS
    Peers,          \* connections, each of which is made and lost once
    Users,          \* a session each
    NoUser, NoPeer, \* none of them
    IdentOn,        \* --ident-daemon or --oidentd
    MaxHeartBeats,  \* maxHeartBeatCount of the session
    MaxSockets      \* bound: sockets to IRC servers a session opens

ASSUME ThreadsAssumption ==
    /\ NoUser \notin Users /\ NoPeer \notin Peers
    /\ IdentOn \in BOOLEAN /\ MaxHeartBeats \in Nat \ {0} /\ MaxSockets \in Nat

VARIABLES
    configured, listening,
    backends,       \* whether storage backends are registered
    unsaved,        \* history: the settings of the setup could not be saved
    fresh, open,    \* connections: still to come; not closed by either side
    connecting,     \* _connectingClients
    registered,     \* ... whose client has sent RegisterClient
    events,         \* what is posted to the core thread
    thread,         \* the session threads
    initialized,    \* SessionThread::_sessionInitialized, of the core thread
    clientQueue,    \* SessionThread::clientQueue, of the core thread
    arrivals,       \* addRemoteClient(), posted to the session thread
    attached,       \* SignalProxy::_peerMap
    released,       \* connections whose object was deleted
    blocked,        \* session threads that wait for the core thread
    opened,         \* sockets to IRC servers a session has opened
    silent, beats,  \* peers that send nothing any more; _heartBeatCount
    stage,          \* of the core thread: running, stopping, ended
    waiting         \* the session thread it waits for

setup == <<configured, listening, backends, unsaved>>
sockets == <<fresh, open, silent, beats>>
handshake == <<connecting, registered>>
handover == <<events, initialized, clientQueue, arrivals>>
sessions == <<thread, attached, blocked, opened>>
stopping == <<stage, waiting>>
vars == <<setup, sockets, handshake, handover, sessions, released, stopping>>

CoreRuns == stage = "running"
Runs(u) == thread[u] \in {"running", "quitting"} /\ u \notin blocked

Posted(kind, u, p) == [kind |-> kind, user |-> u, peer |-> p]

----------------------------------------------------------------------------
(* The core thread: listening, handshake and setup.                         *)

\* Core::incomingConnection(): an unconfigured core takes one client at a time.
IncomingConnection(p) ==
    /\ CoreRuns /\ listening
    /\ p \in fresh
    /\ fresh' = fresh \ {p}
    /\ open' = open \union {p}
    /\ connecting' = connecting \union {p}
    /\ listening' = configured
    /\ UNCHANGED <<configured, backends, unsaved, silent, beats, registered, handover, sessions,
                   released, stopping>>

\* Messages that were received before the socket was closed are still handled.
Handles(p) == CoreRuns /\ p \in connecting

\* checkClientRegistered(), or handle(RegisterClient) without the SSL it requires.
Deny(p) ==
    /\ Handles(p) /\ p \in open
    /\ open' = open \ {p}
    /\ UNCHANGED <<setup, fresh, silent, beats, handshake, handover, sessions, released, stopping>>

\* handle(RegisterClient); Core::backendInfo() registers the backends if there are none.
RegisterClient(p) ==
    /\ Handles(p)
    /\ registered' = registered \union {p}
    /\ backends' = (backends \/ ~configured)
    /\ UNCHANGED <<configured, listening, unsaved, sockets, connecting, handover, sessions, released, stopping>>

\* Core::setupCore() with storage and authenticator that can be used: initStorage()
\* forgets the other backends. The last step fails, or the one before, or none.
SetUp(outcome) ==
    /\ backends' = FALSE
    /\ configured' = (outcome # "authenticator")
    /\ unsaved' = (outcome = "settings")
    /\ listening' = (listening \/ outcome = "done")

\* handle(SetupData); without a change if it is refused: core configured, no name of an
\* admin given, backend unknown or not usable.
SetupData(p) ==
    /\ Handles(p)
    /\ p \in registered
    /\ ~configured /\ backends
    /\ \E outcome \in {"authenticator", "settings", "done"} : SetUp(outcome)
    /\ UNCHANGED <<sockets, handshake, handover, sessions, released, stopping>>

\* Mutant: the connection is queued for the session at once, if that exists.
LoginAtOnce(p, u) ==
    /\ Handles(p)
    /\ p \in registered
    /\ configured
    /\ connecting' = connecting \ {p}
    /\ thread' = [thread EXCEPT ![u] = IF @ = "none" THEN "starting" ELSE @]
    /\ IF u \in initialized
       THEN arrivals' = [arrivals EXCEPT ![u] = Append(@, p)] /\ UNCHANGED events
       ELSE events' = Append(events, Posted("client", u, p)) /\ UNCHANGED arrivals
    /\ UNCHANGED <<setup, sockets, registered, initialized, clientQueue, attached, blocked, opened, released, stopping>>

\* handle(Login) and Core::setupClientSession(): sessionForUser() starts the thread.
Login(p, u) ==
    /\ Handles(p)
    /\ p \in registered
    /\ configured
    /\ connecting' = connecting \ {p}
    /\ thread' = [thread EXCEPT ![u] = IF @ = "none" THEN "starting" ELSE @]
    /\ events' = Append(events, Posted("client", u, p))
    /\ UNCHANGED <<setup, sockets, registered, initialized, clientQueue, arrivals, attached, blocked, opened,
                   released, stopping>>

\* Mutant: the core does not listen again.
ClientDisconnectedOnly(p) ==
    /\ Handles(p) /\ p \notin open
    /\ connecting' = connecting \ {p}
    /\ released' = released \union {p}
    /\ UNCHANGED <<setup, sockets, registered, handover, sessions, stopping>>

\* AuthHandler::onSocketDisconnected() and Core::clientDisconnected().
ClientDisconnected(p) ==
    /\ Handles(p) /\ p \notin open
    /\ connecting' = connecting \ {p}
    /\ released' = released \union {p}
    /\ listening' = (listening \/ ~configured)
    /\ UNCHANGED <<configured, backends, unsaved, sockets, registered, handover, sessions, stopping>>

----------------------------------------------------------------------------
(* The core thread: what was posted to it.                                  *)

\* Core::customEvent(), addClientHelper() and SessionThread::addClient().
AddClientEvent(e) ==
    /\ IF e.user \in initialized
       THEN /\ arrivals' = [arrivals EXCEPT ![e.user] = Append(@, e.peer)]
            /\ UNCHANGED clientQueue
       ELSE /\ clientQueue' = [clientQueue EXCEPT ![e.user] = Append(@, e.peer)]
            /\ UNCHANGED arrivals
    /\ UNCHANGED <<initialized, blocked>>

\* Mutant: the queue of clients is not emptied.
SetSessionInitializedAgain(u) ==
    /\ initialized' = initialized \union {u}
    /\ arrivals' = [arrivals EXCEPT ![u] = @ \o clientQueue[u]]
    /\ UNCHANGED <<clientQueue, blocked>>

\* Mutant: the clients that wait are forgotten.
SetSessionInitializedOnly(u) ==
    /\ initialized' = initialized \union {u}
    /\ UNCHANGED <<clientQueue, arrivals, blocked>>

\* SessionThread::setSessionInitialized().
SetSessionInitialized(u) ==
    /\ initialized' = initialized \union {u}
    /\ arrivals' = [arrivals EXCEPT ![u] = @ \o clientQueue[u]]
    /\ clientQueue' = [clientQueue EXCEPT ![u] = <<>>]
    /\ UNCHANGED blocked

\* IdentServer::addSocket(), OidentdConfigGenerator::addSocket(): the caller goes on.
AddSocket(u) ==
    /\ blocked' = blocked \ {u}
    /\ UNCHANGED <<initialized, clientQueue, arrivals>>

CoreEvent ==
    /\ CoreRuns
    /\ events # <<>>
    /\ events' = Tail(events)
    /\ LET e == Head(events)
       IN  \/ e.kind = "client" /\ AddClientEvent(e)
           \/ e.kind = "initialized" /\ SetSessionInitialized(e.user)
           \/ e.kind = "addSocket" /\ AddSocket(e.user)
    /\ UNCHANGED <<setup, sockets, handshake, thread, attached, opened, released, stopping>>

----------------------------------------------------------------------------
(* A session thread.                                                        *)

\* SessionThread::run(): the session is made, then the loop entered.
Run(u) ==
    /\ thread[u] = "starting"
    /\ thread' = [thread EXCEPT ![u] = "running"]
    /\ events' = Append(events, Posted("initialized", u, NoPeer))
    /\ UNCHANGED <<setup, sockets, handshake, initialized, clientQueue, arrivals, attached, blocked, opened,
                   released, stopping>>

\* CoreSession::addClient() and SignalProxy::addPeer(), which takes open peers only; a
\* closed one has no owner then.
AddPeer(u) ==
    /\ Runs(u)
    /\ arrivals[u] # <<>>
    /\ arrivals' = [arrivals EXCEPT ![u] = Tail(@)]
    /\ attached' = [attached EXCEPT ![u] = @ \union ({Head(arrivals[u])} \intersect open)]
    /\ UNCHANGED <<setup, sockets, handshake, events, initialized, clientQueue, thread, blocked, opened,
                   released, stopping>>

\* RemotePeer emits disconnected(): SignalProxy::removePeer().
PeerDisconnected(p, u) ==
    /\ Runs(u)
    /\ p \in attached[u] \ open
    /\ attached' = [attached EXCEPT ![u] = @ \ {p}]
    /\ released' = released \union {p}
    /\ UNCHANGED <<setup, sockets, handshake, handover, thread, blocked, opened, stopping>>

\* Mutant: one heartbeat too many.
SendHeartBeatMore(p, u) ==
    /\ Runs(u)
    /\ p \in attached[u] \intersect open
    /\ IF beats[p] > MaxHeartBeats
       THEN open' = open \ {p} /\ UNCHANGED beats
       ELSE beats' = [beats EXCEPT ![p] = @ + 1] /\ UNCHANGED open
    /\ UNCHANGED <<setup, fresh, silent, handshake, handover, sessions, released, stopping>>

\* Mutant: heartbeats are not counted.
SendHeartBeatOnly(p, u) ==
    /\ Runs(u)
    /\ p \in attached[u] \intersect open
    /\ UNCHANGED vars

\* RemotePeer::sendHeartBeat(): too many without a reply, and the socket is closed.
SendHeartBeat(p, u) ==
    /\ Runs(u)
    /\ p \in attached[u] \intersect open
    /\ IF beats[p] >= MaxHeartBeats
       THEN open' = open \ {p} /\ UNCHANGED beats
       ELSE beats' = [beats EXCEPT ![p] = @ + 1] /\ UNCHANGED open
    /\ UNCHANGED <<setup, fresh, silent, handshake, handover, sessions, released, stopping>>

\* RemotePeer::handle(HeartBeatReply).
HeartBeatReply(p, u) ==
    /\ Runs(u)
    /\ p \in (attached[u] \intersect open) \ silent
    /\ beats[p] > 0
    /\ beats' = [beats EXCEPT ![p] = 0]
    /\ UNCHANGED <<setup, fresh, open, silent, handshake, handover, sessions, released, stopping>>

\* CoreNetwork::socketInitialized() of one of its networks, over a blocking connection.
SocketInitialized(u) ==
    /\ IdentOn
    /\ Runs(u)
    /\ opened[u] < MaxSockets
    /\ opened' = [opened EXCEPT ![u] = @ + 1]
    /\ blocked' = blocked \union {u}
    /\ events' = Append(events, Posted("addSocket", u, NoPeer))
    /\ UNCHANGED <<setup, sockets, handshake, initialized, clientQueue, arrivals, thread, attached,
                   released, stopping>>

----------------------------------------------------------------------------
(* Clients, external: they close connections, or are cut off.               *)

ClientCloses(p) ==
    /\ p \in open \ silent
    /\ open' = open \ {p}
    /\ UNCHANGED <<setup, fresh, silent, beats, handshake, handover, sessions, released, stopping>>

\* Who is cut off before is not noticed before.
FallsSilent(p) ==
    /\ p \in open \ silent
    /\ \E u \in Users : p \in attached[u]
    /\ silent' = silent \union {p}
    /\ UNCHANGED <<setup, fresh, open, beats, handshake, handover, sessions, released, stopping>>

----------------------------------------------------------------------------
(* Shutdown: Core::~Core() and SessionThread::~SessionThread().             *)

Stop ==
    /\ CoreRuns
    /\ stage' = "stopping"
    /\ open' = open \ connecting
    /\ released' = released \union connecting
    /\ connecting' = {}
    /\ UNCHANGED <<setup, fresh, silent, beats, registered, handover, sessions, waiting>>

\* quit() and wait(), of one session after the other.
Wait(u) ==
    /\ stage = "stopping"
    /\ waiting = NoUser
    /\ thread[u] \notin {"none", "ended"}
    /\ waiting' = u
    /\ UNCHANGED <<setup, sockets, handshake, handover, sessions, released, stage>>

\* exec() returns.
LeaveLoop(u) ==
    /\ waiting = u
    /\ Runs(u) /\ thread[u] = "running"
    /\ thread' = [thread EXCEPT ![u] = "quitting"]
    /\ UNCHANGED <<setup, sockets, handshake, handover, attached, blocked, opened, released, stopping>>

\* Mutant: a session with clients does not end.
EndIdleSession(u) ==
    /\ Runs(u) /\ thread[u] = "quitting"
    /\ attached[u] = {}
    /\ thread' = [thread EXCEPT ![u] = "ended"]
    /\ waiting' = NoUser
    /\ UNCHANGED <<setup, sockets, attached, released, handshake, handover, blocked, opened, stage>>

\* CoreSession::~CoreSession() handles what was posted, and SignalProxy::removeAllPeers().
EndSession(u) ==
    /\ Runs(u) /\ thread[u] = "quitting"
    /\ arrivals[u] = <<>>
    /\ thread' = [thread EXCEPT ![u] = "ended"]
    /\ open' = open \ attached[u]
    /\ released' = released \union attached[u]
    /\ attached' = [attached EXCEPT ![u] = {}]
    /\ waiting' = NoUser
    /\ UNCHANGED <<setup, fresh, silent, beats, handshake, handover, blocked, opened, stage>>

End ==
    /\ stage = "stopping"
    /\ \A u \in Users : thread[u] \in {"none", "ended"}
    /\ stage' = "ended"
    /\ open' = {}
    /\ UNCHANGED <<setup, fresh, silent, beats, handshake, handover, sessions, released, waiting>>

----------------------------------------------------------------------------
\* Core::init() and restoreState(): a configured core may start sessions at once.
Init ==
    /\ configured \in BOOLEAN
    /\ listening = TRUE
    /\ backends = ~configured
    /\ unsaved = FALSE
    /\ fresh = Peers
    /\ open = {} /\ connecting = {} /\ registered = {}
    /\ events = <<>>
    /\ thread \in [Users -> {"none", "starting"}]
    /\ ~configured => \A u \in Users : thread[u] = "none"
    /\ initialized = {}
    /\ clientQueue = [u \in Users |-> <<>>]
    /\ arrivals = [u \in Users |-> <<>>]
    /\ attached = [u \in Users |-> {}]
    /\ released = {} /\ blocked = {} /\ silent = {}
    /\ beats = [p \in Peers |-> 0]
    /\ opened = [u \in Users |-> 0]
    /\ stage = "running"
    /\ waiting = NoUser

Next ==
    \/ \E p \in Peers :
          \/ IncomingConnection(p) \/ Deny(p) \/ RegisterClient(p) \/ SetupData(p)
          \/ ClientDisconnected(p) \/ ClientCloses(p) \/ FallsSilent(p)
    \/ \E p \in Peers, u \in Users :
          Login(p, u) \/ PeerDisconnected(p, u) \/ SendHeartBeat(p, u) \/ HeartBeatReply(p, u)
    \/ \E u \in Users :
          Run(u) \/ AddPeer(u) \/ SocketInitialized(u) \/ Wait(u) \/ LeaveLoop(u) \/ EndSession(u)
    \/ CoreEvent \/ Stop \/ End

\* The loops run: the core thread handles what is posted and gets on with its shutdown;
\* a session thread handles what is posted, its timers and its sockets, and leaves its
\* loop when asked to.
Fairness ==
    /\ WF_vars(CoreEvent) /\ WF_vars(End)
    /\ \A u \in Users :
          /\ WF_vars(Run(u)) /\ WF_vars(Wait(u))
          /\ WF_vars(AddPeer(u)) /\ WF_vars(LeaveLoop(u)) /\ WF_vars(EndSession(u))
          /\ \A p \in Peers : WF_vars(SendHeartBeat(p, u)) /\ WF_vars(PeerDisconnected(p, u))

Spec == Init /\ [][Next]_vars /\ Fairness

----------------------------------------------------------------------------
(* Properties.                                                              *)

\* The state has its type: each record of the core thread, of the sessions and of the
\* queues between them is about known users and connections.
TypeOK ==
    /\ {configured, listening, backends, unsaved} \subseteq BOOLEAN
    /\ {fresh, open, connecting, registered, released, silent} \subseteq SUBSET Peers
    /\ initialized \subseteq Users /\ blocked \subseteq Users
    /\ events \in Seq([kind : {"client", "initialized", "addSocket"}, user : Users,
                       peer : Peers \union {NoPeer}])
    /\ thread \in [Users -> {"none", "starting", "running", "quitting", "ended"}]
    /\ clientQueue \in [Users -> Seq(Peers)] /\ arrivals \in [Users -> Seq(Peers)]
    /\ attached \in [Users -> SUBSET Peers]
    /\ beats \in [Peers -> 0 .. MaxHeartBeats] /\ opened \in [Users -> 0 .. MaxSockets]
    /\ stage \in {"running", "stopping", "ended"} /\ waiting \in Users \union {NoUser}

\* Where a connection is: who would handle what it sends, or will.
Owners(p) ==
    {<<"core">> : x \in {p} \intersect connecting}
    \union {<<"event", i>> : i \in {i \in DOMAIN events : events[i].peer = p}}
    \union UNION {
        {<<"queue", u, i>> : i \in {i \in DOMAIN clientQueue[u] : clientQueue[u][i] = p}}
        \union {<<"arrival", u, i>> : i \in {i \in DOMAIN arrivals[u] : arrivals[u][i] = p}}
        \union {<<"session", u>> : x \in {p} \intersect attached[u]} : u \in Users}

\* A connection is in one place at a time, on its way from the core thread to the session
\* of its user: never in two, an open one never in none before the core has ended, and
\* one whose object is deleted nowhere (Core::setupClientSession, SessionThread::addClient,
\* SignalProxy::addPeer).
OnePlace ==
    \A p \in Peers :
       /\ \A o1, o2 \in Owners(p) : o1 = o2
       /\ p \in released \union fresh => Owners(p) = {}
       /\ p \in open /\ stage # "ended" => Owners(p) # {}

\* The core can be reached: unless its settings could not be saved, it listens whenever
\* nobody is connecting. Without a configuration it has one client at a time.
CoreIsReachable ==
    CoreRuns => /\ connecting = {} /\ ~unsaved => listening
                /\ ~configured => Cardinality(connecting) <= 1

\* The connections that are posted to the core thread for a session, first to last.
HandOvers(es, u) == {i \in DOMAIN es : es[i].kind = "client" /\ es[i].user = u}
Nth(places, k) == CHOOSE i \in places : Cardinality({j \in places : j <= i}) = k
PostedTo(es, u) == [k \in 1 .. Cardinality(HandOvers(es, u)) |-> es[Nth(HandOvers(es, u), k)].peer]

InLine(u) == arrivals[u] \o clientQueue[u] \o PostedTo(events, u)

\* Clients arrive in the session they logged in to, in the order of their logins, once.
Queue == INSTANCE LoginQueue WITH
    outside <- fresh \union connecting,
    underWay <- [u \in Users |-> InLine(u)],
    inside <- attached
IsLoginQueue == Queue!Spec

\* A client that logged in gets its session, whether that was there or had to be started,
\* unless it hangs up or the core stops.
LoginsArrive ==
    \A p \in Peers :
       (p \notin fresh \union connecting)
          ~> ((\E u \in Users : p \in attached[u]) \/ p \notin open \/ ~CoreRuns)

\* A session gets rid of each client that falls silent or hangs up, as long as it runs.
DeadPeersAreRemoved ==
    \A p \in Peers :
       (p \in silent \union (Peers \ open) /\ \E u \in Users : p \in attached[u])
          ~> ((\A u \in Users : p \notin attached[u]) \/ ~CoreRuns)

\* Once asked to stop, the core ends, unless a session thread waits for the core thread
\* just when that waits for it.
ShutdownEnds ==
    (stage = "stopping") ~> (stage = "ended" \/ \E u \in blocked : waiting = u)

\* What SessionThread::~SessionThread() says it does: "shut down thread gracefully".
ShutdownCompletes ==
    (stage = "stopping") ~> (stage = "ended")
==============================================================================
