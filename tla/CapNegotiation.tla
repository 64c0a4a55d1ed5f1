--------------------------- MODULE CapNegotiation ---------------------------
(***************************************************************************)
(* The negotiation of IRCv3 capabilities between the core and an IRC       *)
(* server: CoreNetwork's queues of capabilities to request                 *)
(* (src/src/core/corenetwork.cpp), the handling of the server's CAP,       *)
(* AUTHENTICATE and SASL replies                                           *)
(* (src/src/core/coresessioneventprocessor.cpp) and the network's record   *)
(* of what is available and enabled (src/src/common/network.cpp).          *)
(*                                                                         *)
(* The server is outside this program: it speaks the protocol the code's   *)
(* comments refer to.  It grants or denies a request as a whole, may refuse *)
(* what it has offered, and may announce changes.                          *)
(***************************************************************************)
EXTENDS Integers, Sequences, FiniteSets

CONSTANTS
    KnownCaps,      \* the capabilities the core knows, in alphabetical order
    Sasl,           \* the one that takes further messages to configure
    MaxBundle,      \* how many fit in one request (maxCapRequestLength)
    EarlyChanges,   \* whether the server announces changes before the welcome
    MaxChanges,     \* bound: changes the server announces
    MaxConnections  \* bound: connections in one behaviour

Caps == {KnownCaps[i] : i \in DOMAIN KnownCaps}

ASSUME CapsAssumption ==
    /\ KnownCaps \in Seq(Caps)
    /\ \A i, j \in DOMAIN KnownCaps : KnownCaps[i] = KnownCaps[j] => i = j
    /\ Sasl \in Caps
    /\ MaxBundle \in Nat \ {0}
    /\ EarlyChanges \in BOOLEAN
    /\ MaxChanges \in Nat /\ MaxConnections \in Nat

VARIABLES
    useSasl,        \* the network is to authenticate with SASL
    mechanism,      \* the server's SASL has the mechanism the identity calls for
    caps, capsEnabled,      \* Network::_caps (its keys) and _capsEnabled
    individual, bundled, lastBundle,    \* _capsQueued...
    active, ended,  \* _capNegotiationActive, _capInitialNegotiationEnded
    toServer, toClient,     \* the lines under way
    offered, refused, enabled,  \* the server: what it offers, what of it it
                                \* denies, what is on for this connection
    serverPhase, authenticating,
    changes, connections,
    saslDone,           \* history of this connection: a SASL exchange is over
    skipped,            \* ... what a denied bundle had and no retry will have
    unlisted            \* ... what was granted when not listed as available

clientVars == <<caps, capsEnabled, individual, bundled, lastBundle, active, ended>>
serverVars == <<offered, refused, enabled, serverPhase, authenticating>>
userVars == <<useSasl, mechanism>>
deniedVars == <<skipped, unlisted>>
vars == <<userVars, clientVars, serverVars, toServer, toClient, changes,
          connections, saslDone, deniedVars>>

\* The server before CAP LS, after it, and after the welcome was sent; the last
\* of these is a server that knows nothing of capabilities and just welcomed.
Phases == {"waiting", "listed", "welcomed", "capless"}

Message(cmd, names, more) == [cmd |-> cmd, caps |-> names, more |-> more]
Line(cmd) == Message(cmd, {}, FALSE)

\* The names in alphabetical order: the k-th has k places of names up to its own.
InOrder(names) ==
    LET places == {i \in DOMAIN KnownCaps : KnownCaps[i] \in names}
        Place(k) == CHOOSE i \in places : Cardinality({j \in places : j <= i}) = k
    IN  [k \in 1 .. Cardinality(places) |-> KnownCaps[Place(k)]]
ToSet(s) == {s[i] : i \in DOMAIN s}

\* What a handler works on: the core's variables and the lines it puts.
Client == [caps |-> caps, on |-> capsEnabled, individual |-> individual,
           bundled |-> bundled, last |-> lastBundle, active |-> active,
           ended |-> ended, out |-> <<>>]
Becomes(result) == \E client \in {result} :
    /\ caps' = client.caps /\ capsEnabled' = client.on
    /\ individual' = client.individual /\ bundled' = client.bundled
    /\ lastBundle' = client.last
    /\ active' = client.active /\ ended' = client.ended
    /\ toServer' = toServer \o client.out

----------------------------------------------------------------------------
(* The core's functions.                                                    *)

InProgress(client) == client.individual # <<>> \/ client.bundled # <<>>

\* addCap() and serverCapAdded(): SASL is wanted only if it is configured.
AddCaps(client, names) ==
    LET added == names \ client.caps
        wanted == IF useSasl THEN added ELSE added \ {Sasl}
        alone == (wanted \cap {Sasl}) \ ToSet(client.individual)
        together == (wanted \ {Sasl}) \ ToSet(client.bundled)
    IN  [client EXCEPT !.caps = @ \cup names,
                       !.individual = @ \o InOrder(alone),
                       !.bundled = @ \o InOrder(together)]

EndCapNegotiation(client) ==
    IF client.ended THEN client
    ELSE [client EXCEPT !.out = Append(@, Line("END")), !.ended = TRUE]

\* takeQueuedCaps(): one capability that needs configuration, else as many of
\* the others as fit.
FirstBundle(queue) ==
    SubSeq(queue, 1, IF Len(queue) < MaxBundle THEN Len(queue) ELSE MaxBundle)

WithoutTheBundle(queue) == SubSeq(queue, Len(FirstBundle(queue)) + 1, Len(queue))

\* Mutant: the record of the previous bundle is not cleared.
LongerRecord(last, bundle) == last \o Tail(bundle)

\* What is recorded for retryCapsIndividually(): not the first of the bundle.
RecordOf(last, bundle) == Tail(bundle)

RequestQueuedCaps(client) ==
    IF client.individual # <<>>
    THEN [client EXCEPT !.last = <<>>,
                        !.individual = Tail(@),
                        !.out = Append(@, Message("REQ", {Head(client.individual)}, FALSE))]
    ELSE LET bundle == FirstBundle(client.bundled)
         IN  [client EXCEPT !.last = RecordOf(@, bundle),
                            !.bundled = WithoutTheBundle(@),
                            !.out = Append(@, Message("REQ", ToSet(bundle), FALSE))]

SendNextCap(client) ==
    IF InProgress(client)
    THEN RequestQueuedCaps(client)
    ELSE EndCapNegotiation([client EXCEPT !.active = FALSE])

BeginCapNegotiation(client) ==
    IF InProgress(client)
    THEN SendNextCap([client EXCEPT !.active = TRUE])
    ELSE EndCapNegotiation(client)

RetryCapsIndividually(client) ==
    [client EXCEPT !.individual = @ \o client.last, !.last = <<>>]

AcknowledgeCaps(client, names) == [client EXCEPT !.on = @ \cup names]

\* Mutant: a capability that is removed stays enabled.
RemoveFromList(client, names) == [client EXCEPT !.caps = @ \ names]

\* removeCap(): only a capability listed as available is removed at all.
RemoveCaps(client, names) ==
    [client EXCEPT !.caps = @ \ names, !.on = @ \ (names \cap client.caps)]

----------------------------------------------------------------------------
(* The core's handlers, for the next line from the server.                  *)

Receive(cmds) ==
    /\ toClient # <<>>
    /\ Head(toClient).cmd \in cmds
    /\ toClient' = Tail(toClient)

\* Mutant: negotiation begins with every line of the list.
BeginOnEveryLine(message) == BeginCapNegotiation(AddCaps(Client, message.caps))

\* ... it begins when the list is complete.
AfterList(message) ==
    LET client == AddCaps(Client, message.caps)
    IN  IF message.more THEN client ELSE BeginCapNegotiation(client)

HandleList ==
    /\ Receive({"LS", "NEW"})
    /\ Becomes(AfterList(Head(toClient)))
    /\ UNCHANGED <<userVars, serverVars, changes, connections, saslDone, deniedVars>>

\* saslMaybeSupports()
MaybeSupports(known) == mechanism /\ Sasl \in known.caps

\* Mutant: every acknowledgement is followed by the next request.
AlwaysNext(client, names, known) ==
    LET started == IF Sasl \in names \ known.on /\ MaybeSupports(known)
                   THEN [client EXCEPT !.out = Append(@, Line("AUTHENTICATE"))]
                   ELSE client
    IN  SendNextCap(started)

\* serverCapAcknowledged() is called for what was not enabled before.  SASL is
\* configured before the next request is made.
AfterAck(client, names, known) ==
    CASE Sasl \notin names -> SendNextCap(client)
      [] Sasl \in names \cap known.on -> client
      [] Sasl \in names \ known.on /\ MaybeSupports(known) ->
             [client EXCEPT !.out = Append(@, Line("AUTHENTICATE"))]
      [] OTHER -> SendNextCap(client)

HandleAck ==
    /\ Receive({"ACK"})
    /\ LET names == Head(toClient).caps
       IN  /\ Becomes(AfterAck(AcknowledgeCaps(Client, names), names, Client))
           /\ saslDone' = (saslDone \/ (Sasl \in names /\ ~MaybeSupports(Client)))
           /\ unlisted' = unlisted \cup (names \ caps)
    /\ UNCHANGED <<userVars, serverVars, changes, connections, skipped>>

\* Mutant: only a denied bundle is followed by the next request.
NextAfterBundle(client, names) ==
    IF Cardinality(names) > 1
    THEN SendNextCap(RetryCapsIndividually(client))
    ELSE client

AfterNak(client, names) ==
    SendNextCap(IF Cardinality(names) > 1 THEN RetryCapsIndividually(client) ELSE client)

HandleNak ==
    /\ Receive({"NAK"})
    /\ LET names == Head(toClient).caps
       IN  /\ Becomes(AfterNak(RemoveCaps(Client, names), names))
           /\ saslDone' = (saslDone \/ Sasl \in names)
           /\ skipped' = skipped \cup
                  (IF Cardinality(names) > 1 THEN names \ ToSet(lastBundle) ELSE {})
    /\ UNCHANGED <<userVars, serverVars, changes, connections, unlisted>>

HandleDel ==
    /\ Receive({"DEL"})
    /\ Becomes(RemoveCaps(Client, Head(toClient).caps))
    /\ UNCHANGED <<userVars, serverVars, changes, connections, saslDone, deniedVars>>

\* processIrcEventAuthenticate()
HandleAuthenticate ==
    /\ Receive({"AUTHENTICATE"})
    /\ Becomes([Client EXCEPT !.out = <<Line("CREDENTIALS")>>])
    /\ UNCHANGED <<userVars, serverVars, changes, connections, saslDone, deniedVars>>

\* Numerics 902 to 907, good or bad, move on.
HandleSaslReply ==
    /\ Receive({"SASLREPLY"})
    /\ Becomes(SendNextCap(Client))
    /\ saslDone' = TRUE
    /\ UNCHANGED <<userVars, serverVars, changes, connections, deniedVars>>

HandleWelcome ==
    /\ Receive({"WELCOME"})
    /\ UNCHANGED <<userVars, clientVars, serverVars, toServer, changes, connections,
                   saslDone, deniedVars>>

\* connectToIrc() to a server that may be another one, and the CAP LS of
\* socketInitialized(); lastBundle is left as it is.
ConnectToIrc ==
    /\ connections < MaxConnections
    /\ connections' = connections + 1
    /\ caps' = {} /\ capsEnabled' = {}
    /\ individual' = <<>> /\ bundled' = <<>> /\ UNCHANGED lastBundle
    /\ active' = FALSE /\ ended' = FALSE
    /\ toServer' = <<Line("LS")>> /\ toClient' = <<>>
    /\ offered' = {} /\ refused' = {} /\ enabled' = {}
    /\ serverPhase' = "waiting" /\ authenticating' = FALSE
    /\ changes' = 0 /\ saslDone' = FALSE /\ skipped' = {} /\ unlisted' = {}
    /\ UNCHANGED userVars

----------------------------------------------------------------------------
(* The server.                                                              *)

ServerReceives(cmd, replies) ==
    /\ toServer # <<>>
    /\ Head(toServer).cmd = cmd
    /\ toServer' = Tail(toServer)
    /\ toClient' = toClient \o replies
    /\ UNCHANGED <<userVars, clientVars, changes, connections, saslDone, deniedVars>>

\* What the server offers, and what of it it will not grant after all, is up to
\* the server.  The list comes in one line or in two.
ServerLists ==
    /\ \E offer \in SUBSET Caps : \E first \in SUBSET offer :
           /\ ServerReceives("LS", IF first = offer
                                   THEN <<Message("LS", offer, FALSE)>>
                                   ELSE <<Message("LS", first, TRUE),
                                          Message("LS", offer \ first, FALSE)>>)
           /\ offered' = offer
           /\ refused' \in SUBSET offer
    /\ serverPhase' = "listed"
    /\ UNCHANGED <<enabled, authenticating>>

\* A server that does not know CAP ignores it and completes the registration.
ServerIgnoresCap ==
    /\ ServerReceives("LS", <<Line("WELCOME")>>)
    /\ serverPhase' = "capless"
    /\ UNCHANGED <<offered, refused, enabled, authenticating>>

ServerAnswersRequest ==
    /\ toServer # <<>>
    /\ LET names == Head(toServer).caps
           granted == names \subseteq offered \ refused
       IN  /\ ServerReceives("REQ", <<Message(IF granted THEN "ACK" ELSE "NAK", names, FALSE)>>)
           /\ enabled' = IF granted THEN enabled \cup names ELSE enabled
    /\ UNCHANGED <<offered, refused, serverPhase, authenticating>>

ServerAuthenticates ==
    /\ \/ /\ Sasl \in enabled
          /\ ServerReceives("AUTHENTICATE", <<Line("AUTHENTICATE")>>)
          /\ authenticating' = TRUE
       \/ /\ ServerReceives("AUTHENTICATE", <<Line("SASLREPLY")>>)
          /\ UNCHANGED authenticating
       \/ /\ ServerReceives("CREDENTIALS",
                            IF authenticating THEN <<Line("SASLREPLY")>> ELSE <<>>)
          /\ authenticating' = FALSE
    /\ UNCHANGED <<offered, refused, enabled, serverPhase>>

\* CAP END aborts an authentication and completes the registration.
ServerWelcomes ==
    /\ ServerReceives("END",
           (IF authenticating THEN <<Line("SASLREPLY")>> ELSE <<>>)
           \o (IF serverPhase = "listed" THEN <<Line("WELCOME")>> ELSE <<>>))
    /\ authenticating' = FALSE
    /\ serverPhase' = "welcomed"
    /\ UNCHANGED <<offered, refused, enabled>>

ServerChanges(names) ==
    /\ serverPhase = "welcomed" \/ (serverPhase = "listed" /\ EarlyChanges)
    /\ changes < MaxChanges
    /\ names # {}
    /\ changes' = changes + 1
    /\ \/ /\ names \cap offered = {}
          /\ offered' = offered \cup names
          /\ refused' \in {refused, refused \cup names}
          /\ toClient' = Append(toClient, Message("NEW", names, FALSE))
          /\ UNCHANGED enabled
       \/ /\ names \subseteq offered
          /\ offered' = offered \ names /\ refused' = refused \ names
          /\ enabled' = enabled \ names
          /\ toClient' = Append(toClient, Message("DEL", names, FALSE))
    /\ UNCHANGED <<userVars, clientVars, toServer, serverPhase, authenticating,
                   connections, saslDone, deniedVars>>

----------------------------------------------------------------------------
Init ==
    /\ useSasl \in BOOLEAN /\ mechanism \in BOOLEAN
    /\ caps = {} /\ capsEnabled = {}
    /\ individual = <<>> /\ bundled = <<>> /\ lastBundle = <<>>
    /\ active = FALSE /\ ended = FALSE
    /\ toServer = <<>> /\ toClient = <<>>
    /\ offered = {} /\ refused = {} /\ enabled = {}
    /\ serverPhase = "waiting" /\ authenticating = FALSE
    /\ changes = 0 /\ connections = 0
    /\ saslDone = FALSE /\ skipped = {} /\ unlisted = {}

Handle ==
    \/ HandleList \/ HandleAck \/ HandleNak \/ HandleDel
    \/ HandleAuthenticate \/ HandleSaslReply \/ HandleWelcome

Serve ==
    \/ ServerLists \/ ServerIgnoresCap
    \/ ServerAnswersRequest \/ ServerAuthenticates \/ ServerWelcomes

Next ==
    \/ ConnectToIrc
    \/ Handle
    \/ Serve
    \/ \E names \in SUBSET Caps : ServerChanges(names)

Spec == Init /\ [][Next]_vars

\* Lines arrive and are handled, on either side.
FairSpec == Spec /\ WF_vars(Handle) /\ WF_vars(Serve)

----------------------------------------------------------------------------
Quiet == toServer = <<>> /\ toClient = <<>>

TypeOK ==
    /\ useSasl \in BOOLEAN /\ mechanism \in BOOLEAN
    /\ caps \subseteq Caps /\ capsEnabled \subseteq Caps
    /\ individual \in Seq(Caps) /\ bundled \in Seq(Caps)
    /\ lastBundle \in Seq(Caps) /\ Len(lastBundle) < MaxBundle
    /\ active \in BOOLEAN /\ ended \in BOOLEAN
    /\ offered \subseteq Caps /\ refused \subseteq offered /\ enabled \subseteq offered
    /\ serverPhase \in Phases /\ authenticating \in BOOLEAN
    /\ changes \in 0 .. MaxChanges /\ connections \in 0 .. MaxConnections
    /\ saslDone \in BOOLEAN /\ skipped \subseteq Caps /\ unlisted \subseteq Caps

\* Until the server has been told the negotiation is over the core waits for one
\* answer at a time: to one request, or to one step of the authentication.
Among(lines, cmds) == {i \in DOMAIN lines : lines[i].cmd \in cmds}
OneAnswerAtATime ==
    ~ended =>
        Cardinality(Among(toServer, {"REQ", "AUTHENTICATE", "CREDENTIALS"}))
      + Cardinality(Among(toClient, {"ACK", "NAK", "AUTHENTICATE", "SASLREPLY"})) <= 1

\* A network that is to authenticate with SASL does not complete its
\* registration before it has: CAP END is sent only after the exchange has come
\* to an end, if the server offers SASL at all.
SaslBeforeEnd ==
    ended /\ useSasl /\ Sasl \in offered /\ serverPhase = "listed" => saslDone

\* When all lines have been handled and nothing is queued, the core takes for
\* enabled what the server has turned on for this connection; and after the
\* negotiation every capability the core knows that is offered and would be granted
\* is on, unless the server has announced changes.  That holds through denials,
\* of a bundle too, but for two kinds of capabilities: the one of a denied bundle
\* that is not asked for again, and those granted by themselves after the denial
\* took them off the list of what is available, of which a later CAP DEL is missed.
Settled == Quiet /\ individual = <<>> /\ bundled = <<>>
Grantable == (offered \ refused) \ (IF useSasl THEN {} ELSE {Sasl})
EnabledAgree ==
    Settled =>
        /\ enabled \ skipped \subseteq capsEnabled
        /\ capsEnabled \ unlisted \subseteq enabled
        /\ serverPhase = "welcomed" /\ ended /\ changes = 0 => Grantable \ skipped \subseteq capsEnabled

\* What the comments on a denied request promise of those two: to "individually retry
\* each capability from the failed bundle", so that all that would be granted is on,
\* and that removeCap() "should do nothing" for CAP NAK, so that the two sides agree.
DenialLosesNothing ==
    Settled =>
        /\ enabled = capsEnabled
        /\ serverPhase = "welcomed" /\ ended /\ changes = 0 => Grantable \subseteq capsEnabled

\* Whatever the server denies, refuses or announces, the negotiation comes to an
\* end and the registration is completed.
RegistrationCompletes ==
    toServer # <<>> ~> Quiet /\ serverPhase \in {"welcomed", "capless"}
============================================================================
