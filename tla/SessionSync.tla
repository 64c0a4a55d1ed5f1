----------------------------- MODULE SessionSync -----------------------------
(***************************************************************************)
(* One client's copy of a network's users: the core's session hands its     *)
(* state over (src/src/core/coresession.cpp), SignalProxy and               *)
(* SyncableObject carry changes, requests for initial data and the answers   *)
(* (src/src/common/signalproxy.cpp, syncableobject.cpp), Network and IrcUser *)
(* apply them (src/src/common/network.cpp, ircuser.cpp), and CoreConnection  *)
(* tells when the client is synchronised (src/src/client/coreconnection.cpp).*)
(*                                                                         *)
(* Messages of one connection arrive in order.  Clients share nothing but   *)
(* the core's objects, so that one of them stands for each.  A renamed user  *)
(* is announced by two messages that leave the core in one call and are      *)
(* adjacent on the way: they are one message here.                          *)
(***************************************************************************)
EXTENDS Integers, Sequences

CONSTANTS
    Nicks,          \* the nicks users may have
    MaxEvents,      \* bound: changes of the core's network
    MaxSessions     \* bound: logins of the client

ASSUME BoundsAssumption == MaxEvents \in Nat /\ MaxSessions \in Nat

VARIABLES
    network,    \* the core's network: not yet created, up, or removed
    connected,  \* Network::_connected
    users,      \* Network::_ircUsers: what there is to know of each, 0 for none
    session,    \* the client is one of the proxy's peers
    down, up,   \* the messages under way to the client and to the core
    stage,      \* CoreConnection::state()
    net,        \* the client's network: none, fresh, or done (initialised)
    netConnected, replicas,     \* its _connected and its users
    awaited,    \* the network is in _netsToSync
    events, sessions,
    disturbed   \* history: a user changed nick or the network was disconnected
                \* while messages of this session were under way

coreVars == <<network, connected, users>>
clientVars == <<stage, net, netConnected, replicas, awaited>>
countVars == <<events, sessions, disturbed>>
vars == <<coreVars, session, down, up, clientVars, countVars>>

Stages == {"offline", "connected", "synchronizing", "synchronized"}
Replicas == [known : BOOLEAN, settled : BOOLEAN, value : 0 .. MaxEvents]
Nobody == [known |-> FALSE, settled |-> FALSE, value |-> 0]
NoReplicas == [n \in Nicks |-> Nobody]
NoUsers == [n \in Nicks |-> 0]

Request(kind, nick) == [kind |-> kind, nick |-> nick]

\* SignalProxy::dispatch(): to the peer, if there is one.  A message about a user
\* carries its row of the table, InitData of the network all of it; the rest of
\* the table is a record of the moment the message was sent.
Tell(kind, nick, to) ==
    down' = IF session
            THEN Append(down, [kind |-> kind, nick |-> nick, to |-> to,
                               network |-> network', connected |-> connected',
                               table |-> users'])
            ELSE down

----------------------------------------------------------------------------
(* The core: what happens to the network and its users.                     *)

Event ==
    /\ events < MaxEvents
    /\ events' = events + 1
    /\ UNCHANGED <<session, up, clientVars, sessions>>

Quiet == session /\ down = <<>> /\ up = <<>>
Disturbing == disturbed' = (disturbed \/ (session /\ ~Quiet))

CreateNetwork ==
    /\ Event
    /\ network = "none"
    /\ network' = "up"
    /\ UNCHANGED <<connected, users, disturbed>>
    /\ Tell("networkCreated", "", "")

\* destroyNetwork(), of a network that is disconnected by then.
RemoveNetwork ==
    /\ Event
    /\ network = "up" /\ ~connected
    /\ network' = "removed"
    /\ UNCHANGED <<connected, users, disturbed>>
    /\ Tell("networkRemoved", "", "")

\* setConnected(): without a connection there are no users.
SetConnected(on) ==
    /\ Event
    /\ network = "up" /\ connected # on
    /\ connected' = on
    /\ users' = IF on THEN users ELSE NoUsers
    /\ UNCHANGED network
    /\ IF on THEN UNCHANGED disturbed ELSE Disturbing
    /\ Tell("setConnected", "", "")

\* newIrcUser()
AddIrcUser(nick) ==
    /\ Event
    /\ connected /\ users[nick] = 0
    /\ users' = [users EXCEPT ![nick] = events']
    /\ UNCHANGED <<network, connected, disturbed>>
    /\ Tell("addIrcUser", nick, "")

\* Any of IrcUser's properties but the nick, e.g. setRealName().
SetProperty(nick) ==
    /\ Event
    /\ users[nick] # 0
    /\ users' = [users EXCEPT ![nick] = events']
    /\ UNCHANGED <<network, connected, disturbed>>
    /\ Tell("setProperty", nick, "")

\* setNick(): the server gives out a nick to one user only.
SetNick(nick, newnick) ==
    /\ Event
    /\ users[nick] # 0 /\ users[newnick] = 0
    /\ users' = [users EXCEPT ![newnick] = users[nick], ![nick] = 0]
    /\ UNCHANGED <<network, connected>>
    /\ Disturbing
    /\ Tell("setNick", nick, newnick)

Quit(nick) ==
    /\ Event
    /\ users[nick] # 0
    /\ users' = [users EXCEPT ![nick] = 0]
    /\ UNCHANGED <<network, connected, disturbed>>
    /\ Tell("quit", nick, "")

----------------------------------------------------------------------------
(* Sessions.                                                                *)

\* CoreSession::addClient(): the session state goes out first, and whatever
\* happens from here on is dispatched to the new peer.
AddClient ==
    /\ ~session /\ sessions < MaxSessions
    /\ sessions' = sessions + 1
    /\ session' = TRUE
    /\ down' = <<[kind |-> "sessionState", nick |-> "", to |-> "",
                  network |-> network, connected |-> connected, table |-> users]>>
    /\ up' = <<>>
    /\ stage' = "connected"
    /\ disturbed' = FALSE
    /\ UNCHANGED <<coreVars, net, netConnected, replicas, awaited, events>>

\* The connection is lost: the proxies drop their peers, the client everything.
Disconnected ==
    /\ session
    /\ session' = FALSE
    /\ down' = <<>> /\ up' = <<>>
    /\ stage' = "offline"
    /\ net' = "none" /\ netConnected' = FALSE
    /\ replicas' = NoReplicas /\ awaited' = FALSE
    /\ UNCHANGED <<coreVars, countVars>>

\* handle(InitRequest): what is not registered under the name is not answered.
HandleInitRequest ==
    /\ up # <<>>
    /\ up' = Tail(up)
    /\ UNCHANGED <<coreVars, session, clientVars, countVars>>
    /\ LET request == Head(up)
       IN  CASE request.kind = "network" /\ network = "up" ->
                    Tell("initNetwork", "", "")
             [] request.kind = "user" /\ users[request.nick] # 0 ->
                    Tell("initUser", request.nick, "")
             [] OTHER -> UNCHANGED down

----------------------------------------------------------------------------
(* The client, handling the next message.                                   *)

Message == Head(down)

Handle(kind) ==
    /\ down # <<>>
    /\ Message.kind = kind
    /\ down' = Tail(down)
    /\ UNCHANGED <<coreVars, session, countVars>>

\* checkSyncState()
SyncState(stillAwaited) ==
    IF stage = "synchronizing" /\ ~stillAwaited THEN "synchronized" ELSE stage

\* onHandshakeComplete() and syncToCore()
HandleSessionState ==
    /\ Handle("sessionState")
    /\ IF Message.network = "up"
       THEN /\ net' = "fresh" /\ awaited' = TRUE
            /\ up' = Append(up, Request("network", ""))
            /\ stage' = "synchronizing"
       ELSE /\ stage' = "synchronized"
            /\ UNCHANGED <<net, awaited, up>>
    /\ UNCHANGED <<netConnected, replicas>>

HandleNetworkCreated ==
    /\ Handle("networkCreated")
    /\ IF net = "none"
       THEN /\ net' = "fresh"
            /\ up' = Append(up, Request("network", ""))
       ELSE UNCHANGED <<net, up>>
    /\ UNCHANGED <<stage, netConnected, replicas, awaited>>

\* Mutant: the client goes on waiting for a network that was removed.
WaitsOn == awaited

\* networkInitDone() is also called for destroyed networks.
AwaitedAfterRemoval == FALSE

HandleNetworkRemoved ==
    /\ Handle("networkRemoved")
    /\ net' = "none" /\ netConnected' = FALSE
    /\ replicas' = NoReplicas
    /\ awaited' = AwaitedAfterRemoval
    /\ stage' = SyncState(awaited')
    /\ UNCHANGED up

HandleSetConnected ==
    /\ Handle("setConnected")
    /\ IF net # "none" /\ netConnected # Message.connected
       THEN /\ netConnected' = Message.connected
            /\ replicas' = IF Message.connected THEN replicas ELSE NoReplicas
       ELSE UNCHANGED <<netConnected, replicas>>
    /\ UNCHANGED <<up, stage, net, awaited>>

\* newIrcUser() and synchronize(): a user that is known already stays as it is.
HandleAddIrcUser ==
    /\ Handle("addIrcUser")
    /\ IF net # "none" /\ ~replicas[Message.nick].known
       THEN /\ replicas' = [replicas EXCEPT ![Message.nick].known = TRUE]
            /\ up' = Append(up, Request("user", Message.nick))
       ELSE UNCHANGED <<replicas, up>>
    /\ UNCHANGED <<stage, net, netConnected, awaited>>

HandleSetProperty ==
    /\ Handle("setProperty")
    /\ replicas' = IF replicas[Message.nick].known
                   THEN [replicas EXCEPT ![Message.nick].value = Message.table[Message.nick]]
                   ELSE replicas
    /\ UNCHANGED <<up, stage, net, netConnected, awaited>>

\* Mutant: the replica stays registered under its old nick too.
CopiedTo(nick, newnick) == [replicas EXCEPT ![newnick] = replicas[nick]]

MovedTo(nick, newnick) == [replicas EXCEPT ![newnick] = replicas[nick], ![nick] = Nobody]

\* objectRenamed(), then setNick().  A replica without initial data asks for it
\* again, but objectName() is still the old one then.
HandleSetNick ==
    /\ Handle("setNick")
    /\ IF replicas[Message.nick].known
       THEN /\ replicas' = MovedTo(Message.nick, Message.to)
            /\ up' = IF replicas[Message.nick].settled THEN up
                     ELSE Append(up, Request("user", Message.nick))
       ELSE UNCHANGED <<replicas, up>>
    /\ UNCHANGED <<stage, net, netConnected, awaited>>

\* Mutant: the user is no longer registered, but stays initialised.
OnlyUnknown(nick) == [replicas EXCEPT ![nick].known = FALSE]

Without(nick) == [replicas EXCEPT ![nick] = Nobody]

\* quit() and removeIrcUser()
HandleQuit ==
    /\ Handle("quit")
    /\ replicas' = Without(Message.nick)
    /\ UNCHANGED <<up, stage, net, netConnected, awaited>>

\* Mutant: the new users are not marked as initialised.
NeverSettled(table) ==
    [n \in Nicks |-> IF table[n] # 0 /\ ~replicas[n].known
                     THEN [known |-> TRUE, settled |-> FALSE, value |-> table[n]]
                     ELSE replicas[n]]

\* initSetIrcUsersAndChannels(): users that are not known come with their data.
WithUsersOf(table) ==
    [n \in Nicks |-> IF table[n] # 0 /\ ~replicas[n].known
                     THEN [known |-> TRUE, settled |-> TRUE, value |-> table[n]]
                     ELSE replicas[n]]

\* setInitData() of a network; its users are set before isConnected.
HandleInitNetwork ==
    /\ Handle("initNetwork")
    /\ IF net = "fresh"
       THEN /\ net' = "done"
            /\ replicas' = IF netConnected /\ ~Message.connected
                           THEN NoReplicas ELSE WithUsersOf(Message.table)
            /\ netConnected' = Message.connected
            /\ awaited' = FALSE
            /\ stage' = SyncState(awaited')
       ELSE UNCHANGED clientVars
    /\ UNCHANGED up

\* setInitData() of a user.
HandleInitUser ==
    /\ Handle("initUser")
    /\ LET replica == replicas[Message.nick]
       IN  replicas' = IF replica.known /\ ~replica.settled
                       THEN [replicas EXCEPT ![Message.nick] =
                                [@ EXCEPT !.settled = TRUE,
                                          !.value = Message.table[Message.nick]]]
                       ELSE replicas
    /\ UNCHANGED <<up, stage, net, netConnected, awaited>>

----------------------------------------------------------------------------
Init ==
    /\ network \in {"none", "up"}
    /\ connected = FALSE /\ users = NoUsers
    /\ session = FALSE /\ down = <<>> /\ up = <<>>
    /\ stage = "offline" /\ net = "none" /\ netConnected = FALSE
    /\ replicas = NoReplicas /\ awaited = FALSE
    /\ events = 0 /\ sessions = 0 /\ disturbed = FALSE

CoreEvents ==
    \/ CreateNetwork \/ RemoveNetwork
    \/ \E on \in BOOLEAN : SetConnected(on)
    \/ \E nick \in Nicks : AddIrcUser(nick) \/ SetProperty(nick) \/ Quit(nick)
    \/ \E nick, newnick \in Nicks : SetNick(nick, newnick)

ClientHandles ==
    \/ HandleSessionState
    \/ HandleNetworkCreated \/ HandleNetworkRemoved \/ HandleSetConnected
    \/ HandleAddIrcUser \/ HandleSetProperty \/ HandleSetNick \/ HandleQuit
    \/ HandleInitNetwork \/ HandleInitUser

Next ==
    \/ CoreEvents
    \/ AddClient \/ Disconnected
    \/ HandleInitRequest
    \/ ClientHandles

Spec == Init /\ [][Next]_vars

\* Messages arrive and are handled.
FairSpec == Spec /\ WF_vars(HandleInitRequest) /\ WF_vars(ClientHandles)

----------------------------------------------------------------------------
TypeOK ==
    /\ network \in {"none", "up", "removed"} /\ connected \in BOOLEAN
    /\ users \in [Nicks -> 0 .. MaxEvents]
    /\ session \in BOOLEAN /\ stage \in Stages
    /\ net \in {"none", "fresh", "done"} /\ netConnected \in BOOLEAN
    /\ replicas \in [Nicks -> Replicas]
    /\ \A n \in Nicks : replicas[n].settled => replicas[n].known
    /\ awaited \in BOOLEAN /\ disturbed \in BOOLEAN
    /\ events \in 0 .. MaxEvents /\ sessions \in 0 .. MaxSessions

\* The users the client knows all about.
View == [n \in Nicks |-> IF replicas[n].settled THEN replicas[n].value ELSE 0]

\* When all messages have been handled the client has the network if and only
\* if the core has it, and every user the core has; and it knows all about every
\* user and of nobody else, unless a nick changed or the network was disconnected
\* while the messages were under way.
Converged ==
    Quiet =>
        /\ net = IF network = "up" THEN "done" ELSE "none"
        /\ netConnected = connected
        /\ \A n \in Nicks : users[n] # 0 => replicas[n].known
        /\ ~disturbed => View = users /\ \A n \in Nicks : replicas[n].known => users[n] # 0

\* What the client takes for settled is what the core said at one moment, and
\* moments are not revisited: the protocol implements the delayed view.
Promise == INSTANCE DelayedView WITH
    Values <- 0 .. MaxEvents,
    table <- users,
    pending <- [i \in DOMAIN down |-> down[i].table],
    view <- View
ViewIsDelayed == Promise!Spec

\* A client that logged in gets synchronised, whatever becomes of the network
\* whose state it waits for, unless the connection is lost.
SyncCompletes == stage \in {"connected", "synchronizing"} ~> stage \in {"synchronized", "offline"}
==============================================================================
