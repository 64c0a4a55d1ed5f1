------------------------- MODULE CoreNetworkProofs -------------------------
(***************************************************************************)
(* Proofs about CoreNetwork for every set of settings and every bound.     *)
(*                                                                         *)
(* The inductive invariant is the conjunction of the three invariants the  *)
(* runs check: the connection state of a connected network, the quit in    *)
(* progress and the types need one another (a retry timer that fires while *)
(* a quit is under way would break QuitInProgress, a connected network in  *)
(* the wrong state would be disconnected without losing "Initialized").    *)
(*                                                                         *)
(* The functions the slots share come first: each lemma says what one of   *)
(* them makes of the fields `now' it is called with.                       *)
(***************************************************************************)
EXTENDS CoreNetwork, TLAPS

NowType ==
    [socket : SocketStates, errorDue : BOOLEAN, state : ConnectionStates,
     overwritten : BOOLEAN, count : {c \in Int : c >= -2}, timer : BOOLEAN,
     failed : BOOLEAN, quit : BOOLEAN, ping : BOOLEAN,
     misses : 0 .. MaxPingCount, status : Statuses]

\* The types of what connectToIrc() and the end of socketDisconnected() assign.
AttemptTypeOK ==
    /\ socket \in SocketStates /\ pendingClose \in BOOLEAN /\ errorDue \in BOOLEAN
    /\ connectionState \in ConnectionStates
    /\ previousConnectionAttemptFailed \in BOOLEAN /\ lastUsedServerIndex \in Nat
    /\ autoReconnectCount \in Int /\ autoReconnectCount >= -2
    /\ autoReconnectTimer \in BOOLEAN
    /\ pingTimer \in BOOLEAN /\ pingCount \in 0 .. MaxPingCount

\* The types of what socketDisconnected() and disconnectFromIrc() assign.
HandlerTypeOK ==
    /\ AttemptTypeOK
    /\ connected \in BOOLEAN /\ status \in Statuses /\ persisted \in BOOLEAN
    /\ quitRequested \in BOOLEAN /\ disconnectExpected \in BOOLEAN
    /\ socketCloseTimer \in BOOLEAN /\ sendPings \in BOOLEAN

\* The variables a handler may leave alone keep their types.
RestTypeOK ==
    /\ greeted \in BOOLEAN /\ userQuit \in BOOLEAN
    /\ settings \in Settings /\ servers \in 0 .. MaxServers
    /\ identityValid \in BOOLEAN /\ pingTimeoutEnabled \in BOOLEAN
    /\ posted \in 0 .. MaxPosted /\ running \in 0 .. MaxPosted

\* What ConnectedMeansLive says, of the fields a handler is called with.
Consistent(now) ==
    /\ connected => /\ now.socket \in {"Connected", "Closing"}
                    /\ now.state \in {"Initialized", "Disconnecting"}
    /\ now.state = "Initialized" => connected

IInv == TypeOK /\ ConnectedMeansLive /\ QuitInProgress

----------------------------------------------------------------------------
(* The shared functions.                                                    *)

\* The fields a slot starts from have the types of the variables they copy.
LEMMA NowTypeOK == TypeOK => Now \in NowType
BY DEF TypeOK, Now, NowType

\* socketStateChanged(), case by case.
LEMMA StateForValues ==
    /\ StateFor("Connecting") = "Connecting"
    /\ StateFor("Connected") = "Initializing"
    /\ StateFor("Closing") = "Disconnecting"
BY DEF StateFor

\* The state derived from a socket state is never "Initialized".
LEMMA StateForType ==
    \A s \in SocketStates : StateFor(s) \in ConnectionStates \ {"Initialized"}
BY DEF SocketStates, StateFor, ConnectionStates

\* connectToIrc() leaves the retry timer alone, never makes a network count as
\* initialised, and does not touch a socket that is in use.
LEMMA ConnectToIrcStep ==
    ASSUME TypeOK, NEW reconnecting \in BOOLEAN, NEW now \in NowType,
           ConnectToIrc(reconnecting, now)
    PROVE  /\ AttemptTypeOK'
           /\ autoReconnectTimer' = now.timer
           /\ connectionState' = "Initialized" =>
                  now.state = "Initialized" /\ ~now.overwritten
           /\ now.socket = socket /\ socket # "Unconnected" /\ ~now.overwritten =>
                  socket' = socket /\ connectionState' = now.state
<1> USE BoundsAssumption, SettingsAssumption DEF NowType
<1>1. FullCount \in Int /\ FullCount >= -2
  BY DEF FullCount, TypeOK
<1>2. /\ autoReconnectCount' \in Int /\ autoReconnectCount' >= -2
      /\ autoReconnectTimer' = now.timer /\ autoReconnectTimer' \in BOOLEAN
  BY <1>1 DEF ConnectToIrc
<1>3. CASE CanConnect
  <2>1. PickServer(now.failed) /\ ConnectToHost(now) /\ pingCount' = 0
        /\ pingTimer' = (now.ping \/ pingTimeoutEnabled)
    BY <1>3 DEF ConnectToIrc
  <2>2. previousConnectionAttemptFailed' \in BOOLEAN /\ lastUsedServerIndex' \in Nat
    <3>1. now.failed \in BOOLEAN /\ lastUsedServerIndex \in Nat /\ servers \in Nat
      BY DEF TypeOK
    <3>2. CASE settings.randomServer
      BY <2>1, <3>1, <3>2 DEF PickServer
    <3>3. CASE ~settings.randomServer
      <4>1. previousConnectionAttemptFailed' \in BOOLEAN
        BY <2>1, <3>3 DEF PickServer
      <4>2. lastUsedServerIndex' \in {lastUsedServerIndex + 1, 0}
        BY <2>1, <3>3 DEF PickServer
      <4> QED BY <3>1, <4>1, <4>2
    <3> QED BY <3>2, <3>3
  <2>3. pingTimer' \in BOOLEAN /\ pingCount' \in 0 .. MaxPingCount
    BY <2>1 DEF TypeOK
  <2>4. CASE now.socket = "Unconnected"
    BY <1>2, <2>1, <2>2, <2>3, <2>4, StateForType
       DEF ConnectToHost, AttemptTypeOK, Shown, SocketStates, ConnectionStates, StateFor
  <2>5. CASE now.socket # "Unconnected"
    BY <1>2, <2>1, <2>2, <2>3, <2>5, StateForType
       DEF ConnectToHost, AttemptTypeOK, Shown, SocketStates, ConnectionStates, StateFor, TypeOK
  <2> QED BY <2>4, <2>5
<1>4. CASE ~CanConnect
  BY <1>2, <1>4, StateForType
     DEF ConnectToIrc, AttemptTypeOK, Shown, TypeOK, SocketStates, ConnectionStates, StateFor
<1> QED BY <1>3, <1>4

\* The same of doAutoReconnect(), which first counts the attempt.
LEMMA ReconnectStep ==
    ASSUME TypeOK, NEW now \in NowType, Reconnect(now)
    PROVE  /\ AttemptTypeOK'
           /\ autoReconnectTimer' = now.timer
           /\ connectionState' = "Initialized" =>
                  now.state = "Initialized" /\ ~now.overwritten
<1> DEFINE counted == IF now.count > 0 \/ now.count = -1
                      THEN [now EXCEPT !.count = @ - 1]
                      ELSE now
<1>1. /\ counted \in NowType
      /\ counted.timer = now.timer
      /\ counted.state = now.state
      /\ counted.overwritten = now.overwritten
  BY DEF NowType
<1>2. ConnectToIrc(TRUE, counted)
  BY DEF Reconnect
<1> HIDE DEF counted
<1> QED BY <1>1, <1>2, ConnectToIrcStep

\* Without an attempt everything is left as the caller has set it.
LEMMA StayDownStep ==
    ASSUME TypeOK, NEW now \in NowType, NEW state \in ConnectionStates,
           StayDown(now, state)
    PROVE  /\ AttemptTypeOK'
           /\ autoReconnectTimer' = now.timer
           /\ connectionState' = "Initialized" =>
                  state = "Initialized" /\ ~now.overwritten
BY StateForType DEF StayDown, Shown, NowType, AttemptTypeOK, TypeOK, SocketStates

\* The end of socketDisconnected() never shows a network as initialised that
\* was not before.
LEMMA AfterDisconnectStep ==
    ASSUME TypeOK, NEW now \in NowType, AfterDisconnect(now)
    PROVE  /\ AttemptTypeOK'
           /\ connectionState' = "Initialized" =>
                  now.state = "Initialized" /\ ~now.overwritten
<1>1. CASE StayDown(now, "Disconnected")
  BY <1>1, StayDownStep DEF ConnectionStates
<1>2. CASE StayDown(now, now.state)
  <2>1. now.state \in ConnectionStates
    BY DEF NowType
  <2> QED BY <1>2, <2>1, StayDownStep
<1>3. CASE Reconnect([now EXCEPT !.state = "Reconnecting"])
  <2>1. /\ [now EXCEPT !.state = "Reconnecting"] \in NowType
        /\ [now EXCEPT !.state = "Reconnecting"].state = "Reconnecting"
    BY DEF NowType, ConnectionStates
  <2> QED BY <1>3, <2>1, ReconnectStep
<1>4. CASE StayDown([now EXCEPT !.timer = TRUE], "Reconnecting")
  <2>1. [now EXCEPT !.timer = TRUE] \in NowType /\ "Reconnecting" \in ConnectionStates
    BY DEF NowType, ConnectionStates
  <2> QED BY <1>4, <2>1, StayDownStep
<1> QED BY <1>1, <1>2, <1>3, <1>4 DEF AfterDisconnect, NowType

\* After socketDisconnected() the network is not connected, no quit is in
\* progress, and "Initialized" is shown only if it was before the call.
LEMMA SocketDisconnectedStep ==
    ASSUME TypeOK, NEW now \in NowType, SocketDisconnected(now)
    PROVE  /\ AttemptTypeOK'
           /\ connected' = FALSE /\ quitRequested' = FALSE
           /\ disconnectExpected' = FALSE /\ socketCloseTimer' = FALSE
           /\ sendPings' = FALSE
           /\ status' \in Statuses /\ persisted' \in BOOLEAN
           /\ connectionState' = "Initialized" =>
                  now.state = "Initialized" /\ ~now.overwritten
<1> DEFINE quiet == [now EXCEPT !.ping = FALSE, !.misses = 0]
<1>1. /\ quiet \in NowType
      /\ quiet.state = now.state /\ quiet.overwritten = now.overwritten
  <2>1. 0 \in 0 .. MaxPingCount
    BY BoundsAssumption
  <2>2. [now EXCEPT !.ping = FALSE] \in NowType
    BY DEF NowType
  <2> QED BY <2>1, <2>2 DEF NowType
<1>2. AfterDisconnect(quiet)
  BY DEF SocketDisconnected
<1>3. /\ connected' = FALSE /\ quitRequested' = FALSE
      /\ disconnectExpected' = FALSE /\ socketCloseTimer' = FALSE
      /\ sendPings' = FALSE
      /\ status' \in Statuses /\ persisted' \in BOOLEAN
  BY DEF SocketDisconnected, NowType, Statuses, TypeOK
<1> HIDE DEF quiet
<1>4. /\ AttemptTypeOK'
      /\ connectionState' = "Initialized" =>
             quiet.state = "Initialized" /\ ~quiet.overwritten
  BY <1>1, <1>2, AfterDisconnectStep
<1> QED BY <1>1, <1>3, <1>4

LEMMA TypeParts == TypeOK <=> HandlerTypeOK /\ RestTypeOK
BY DEF TypeOK, HandlerTypeOK, AttemptTypeOK, RestTypeOK

LEMMA TypePartsNext == HandlerTypeOK' /\ RestTypeOK' => TypeOK'
BY DEF TypeOK, HandlerTypeOK, AttemptTypeOK, RestTypeOK

\* socketDisconnected() keeps the invariant when the network it is called for
\* does not count as initialised, or when its caller overwrites the state.
LEMMA SocketDisconnectedKeeps ==
    ASSUME TypeOK, NEW now \in NowType, SocketDisconnected(now),
           now.overwritten \/ now.state # "Initialized"
    PROVE  HandlerTypeOK' /\ ConnectedMeansLive' /\ QuitInProgress'
<1>1. /\ AttemptTypeOK'
      /\ connected' = FALSE /\ quitRequested' = FALSE
      /\ disconnectExpected' = FALSE /\ socketCloseTimer' = FALSE
      /\ sendPings' = FALSE
      /\ status' \in Statuses /\ persisted' \in BOOLEAN
      /\ connectionState' # "Initialized"
  BY SocketDisconnectedStep
<1> QED BY <1>1 DEF HandlerTypeOK, ConnectedMeansLive, QuitInProgress

\* disconnectFromIrc() keeps the invariant: it clears the retries and starts
\* the close timer in the call that marks the quit as requested.
LEMMA DisconnectFromIrcKeeps ==
    ASSUME IInv, NEW requested \in BOOLEAN, NEW withReconnect \in BOOLEAN,
           requested => ~withReconnect,
           NEW now \in NowType, Consistent(now),
           DisconnectFromIrc(requested, withReconnect, now)
    PROVE  HandlerTypeOK' /\ ConnectedMeansLive' /\ QuitInProgress'
<1> DEFINE then == QuitFields(requested, withReconnect, now)
<1>1. /\ then \in NowType
      /\ then.state = now.state
      /\ requested => then.timer = FALSE
  <2> DEFINE count == IF withReconnect THEN now.count ELSE 0
             timer == now.timer /\ withReconnect
  <2>1. count \in {c \in Int : c >= -2}
    BY DEF NowType
  <2>2. timer \in BOOLEAN /\ (requested => timer = FALSE)
    OBVIOUS
  <2>3. then = [now EXCEPT !.quit = requested, !.count = count, !.timer = timer]
    BY DEF QuitFields
  <2> HIDE DEF then, count, timer
  <2> QED BY <2>1, <2>2, <2>3 DEF NowType
<1>2. CASE now.socket = "Unconnected"
  <2>1. SocketDisconnected(then)
    BY <1>2 DEF DisconnectFromIrc
  <2>2. then.state # "Initialized"
    BY <1>1, <1>2 DEF Consistent
  <2> HIDE DEF then
  <2> QED BY <1>1, <2>1, <2>2, SocketDisconnectedKeeps DEF IInv
<1>3. CASE now.socket # "Unconnected"
  <2>1. /\ quitRequested' = requested /\ disconnectExpected' = TRUE
        /\ socketCloseTimer' = (socketCloseTimer \/ requested \/ withReconnect)
        /\ autoReconnectCount' = then.count /\ autoReconnectTimer' = then.timer
        /\ pingTimer' = FALSE /\ sendPings' = FALSE /\ pingCount' = 0
        /\ pendingClose' = (pendingClose \/ now.socket \in {"HostLookup", "Connecting"})
        /\ socket' = now.socket /\ connectionState' = now.state
        /\ status' = now.status
        /\ UNCHANGED <<errorDue, connected, serverVars, persisted>>
    BY <1>3 DEF DisconnectFromIrc, CloseTimerRuns
  <2> HIDE DEF then
  <2>2. then.count \in Int /\ then.count >= -2 /\ then.timer \in BOOLEAN
    BY <1>1 DEF NowType
  <2>3. pingCount' \in 0 .. MaxPingCount
    BY <2>1, BoundsAssumption
  <2>4. AttemptTypeOK'
    BY <2>1, <2>2, <2>3 DEF AttemptTypeOK, NowType, IInv, TypeOK, serverVars
  <2>5. HandlerTypeOK'
    BY <2>1, <2>4 DEF HandlerTypeOK, NowType, IInv, TypeOK
  <2>6. ConnectedMeansLive'
    BY <2>1 DEF Consistent, ConnectedMeansLive, IInv
  <2>7. QuitInProgress'
    BY <1>1, <1>3, <2>1 DEF QuitInProgress
  <2> QED BY <2>5, <2>6, <2>7
<1> QED BY <1>2, <1>3

\* The fields every slot starts from are consistent.
LEMMA NowConsistent ==
    IInv => /\ Now \in NowType /\ Consistent(Now)
            /\ [Now EXCEPT !.status = "removing"] \in NowType
            /\ Consistent([Now EXCEPT !.status = "removing"])
BY NowTypeOK DEF IInv, Consistent, ConnectedMeansLive, Now, NowType, Statuses

----------------------------------------------------------------------------
(* The actions.                                                             *)

\* What a handler assigns keeps the invariant, and so does the action if the
\* rest is unchanged.
LEMMA HandlerKeeps ==
    ASSUME IInv, HandlerTypeOK' /\ ConnectedMeansLive' /\ QuitInProgress', RestTypeOK'
    PROVE  IInv'
BY TypeParts DEF IInv, TypeOK, HandlerTypeOK, AttemptTypeOK, RestTypeOK

\* Every action of the clients keeps the invariant.
LEMMA ClientKeeps == IInv /\ Client => IInv'
<1> SUFFICES ASSUME IInv, Client PROVE IInv'
  OBVIOUS
<1> USE DEF IInv
<1>1. CASE RequestConnect
  <2>1. posted' \in 0 .. MaxPosted
    BY <1>1, BoundsAssumption DEF RequestConnect, TypeOK
  <2>2. TypeOK'
    <3>1. HandlerTypeOK /\ RestTypeOK
      BY TypeParts
    <3>2. AttemptTypeOK'
      BY <1>1, <3>1 DEF RequestConnect, HandlerTypeOK, AttemptTypeOK, socketVars,
                        serverVars, retryVars, pingVars
    <3>3. HandlerTypeOK'
      BY <1>1, <3>1, <3>2 DEF RequestConnect, HandlerTypeOK, lifeVars, quitVars, pingVars
    <3>4. RestTypeOK'
      BY <1>1, <2>1, <3>1 DEF RequestConnect, RestTypeOK, configVars
    <3> QED BY <3>3, <3>4, TypePartsNext
  <2>3. ConnectedMeansLive' /\ QuitInProgress'
    BY <1>1 DEF RequestConnect, ConnectedMeansLive, QuitInProgress, socketVars,
                lifeVars, quitVars, retryVars
  <2> QED BY <2>2, <2>3
<1>2. CASE HandleQuit
  <2>1. HandlerTypeOK' /\ ConnectedMeansLive' /\ QuitInProgress'
    BY <1>2, NowConsistent, DisconnectFromIrcKeeps DEF HandleQuit
  <2>2. RestTypeOK'
    BY <1>2, TypeParts DEF HandleQuit, RestTypeOK, configVars, queueVars
  <2> QED BY <2>1, <2>2, HandlerKeeps
<1>3. CASE RequestDisconnect
  BY <1>2, <1>3 DEF RequestDisconnect
<1>4. ASSUME NEW new \in Settings, NEW n \in 1 .. MaxServers,
             RequestSetNetworkInfo(new, n)
      PROVE  IInv'
  <2>1. servers' \in 0 .. MaxServers /\ lastUsedServerIndex' \in Nat
    BY <1>4, BoundsAssumption DEF RequestSetNetworkInfo
  <2>2. autoReconnectCount' \in Int /\ autoReconnectCount' >= -2
    BY <1>4, SettingsAssumption DEF RequestSetNetworkInfo, TypeOK
  <2>3. autoReconnectTimer' \in BOOLEAN /\ (~autoReconnectTimer => ~autoReconnectTimer')
    BY <1>4 DEF RequestSetNetworkInfo, TypeOK
  <2> QED BY <1>4, <2>1, <2>2, <2>3
    DEF RequestSetNetworkInfo, TypeOK, ConnectedMeansLive, QuitInProgress,
        socketVars, lifeVars, quitVars, pingVars, queueVars
<1>5. CASE SetIdentity
  BY <1>5 DEF SetIdentity, TypeOK, ConnectedMeansLive, QuitInProgress, socketVars,
              lifeVars, quitVars, serverVars, retryVars, pingVars, queueVars
<1>6. CASE SetPingTimeoutEnabled
  <2>1. pingCount' \in 0 .. MaxPingCount
    BY <1>6, BoundsAssumption DEF SetPingTimeoutEnabled
  <2>2. pingTimer' \in BOOLEAN /\ sendPings' \in BOOLEAN /\ pingTimeoutEnabled' \in BOOLEAN
    BY <1>6 DEF SetPingTimeoutEnabled, TypeOK
  <2> QED BY <1>6, <2>1, <2>2
    DEF SetPingTimeoutEnabled, TypeOK, ConnectedMeansLive, QuitInProgress,
        socketVars, lifeVars, quitVars, serverVars, retryVars, queueVars
<1>7. CASE RemoveNetwork
  <2>1. RestTypeOK'
    BY <1>7, TypeParts DEF RemoveNetwork, RestTypeOK, configVars, queueVars
  <2>2. CASE connectionState # "Disconnected"
    BY <1>7, <2>1, <2>2, NowConsistent, DisconnectFromIrcKeeps, HandlerKeeps
       DEF RemoveNetwork
  <2>3. CASE connectionState = "Disconnected"
    <3>1. /\ status' = "doomed" /\ persisted' = FALSE
          /\ UNCHANGED <<socketVars, connectionState, connected, quitVars,
                         serverVars, retryVars, pingVars>>
      BY <1>7, <2>3 DEF RemoveNetwork
    <3>2. HandlerTypeOK'
      BY <3>1, TypeParts DEF HandlerTypeOK, AttemptTypeOK, Statuses, socketVars,
                             quitVars, serverVars, retryVars, pingVars
    <3>3. ~connected
      BY <2>3 DEF ConnectedMeansLive
    <3>4. ConnectedMeansLive' /\ QuitInProgress'
      BY <2>3, <3>1, <3>3 DEF ConnectedMeansLive, QuitInProgress, socketVars,
                              quitVars, retryVars
    <3> QED BY <2>1, <3>2, <3>4, HandlerKeeps
  <2> QED BY <2>2, <2>3
<1> QED BY <1>1, <1>2, <1>3, <1>4, <1>5, <1>6, <1>7 DEF Client

\* A destroyed network is as good as new.
LEMMA ResetKeeps ==
    ASSUME IInv, Reset, running' \in 0 .. MaxPosted, status' \in Statuses
    PROVE  IInv'
<1>1. 0 \in 0 .. MaxPingCount /\ 0 \in 0 .. MaxPosted
  BY BoundsAssumption
<1>2. TypeOK'
  <2>1. RestTypeOK
    BY TypeParts DEF IInv
  <2>2. AttemptTypeOK'
    <3>1. pingCount' \in 0 .. MaxPingCount
      BY <1>1 DEF Reset
    <3>2. /\ autoReconnectCount' \in Int /\ autoReconnectCount' >= -2
          /\ lastUsedServerIndex' \in Nat
      BY DEF Reset
    <3> QED BY <3>1, <3>2 DEF Reset, AttemptTypeOK, SocketStates, ConnectionStates
  <2>3. persisted' \in BOOLEAN
    BY DEF Reset, IInv, TypeOK
  <2>4. HandlerTypeOK'
    BY <2>2, <2>3 DEF Reset, HandlerTypeOK
  <2>5. RestTypeOK'
    BY <1>1, <2>1 DEF Reset, RestTypeOK, configVars
  <2> QED BY <2>4, <2>5, TypePartsNext
<1>3. ConnectedMeansLive' /\ QuitInProgress'
  BY DEF Reset, ConnectedMeansLive, QuitInProgress
<1> QED BY <1>2, <1>3 DEF IInv

\* A socket that goes to its closing state keeps the invariant.
LEMMA CloseKeeps ==
    ASSUME IInv, socket # "Unconnected", socket' = "Closing", pendingClose' = FALSE,
           connectionState' = "Disconnecting",
           UNCHANGED <<errorDue, greeted, lifeVars, quitVars, serverVars, retryVars,
                       pingVars, configVars, queueVars, userQuit>>
    PROVE  IInv'
<1>1. TypeOK'
  <2>1. HandlerTypeOK /\ RestTypeOK
    BY TypeParts DEF IInv
  <2>2. AttemptTypeOK'
    BY <2>1 DEF HandlerTypeOK, AttemptTypeOK, SocketStates, ConnectionStates,
                serverVars, retryVars, pingVars
  <2>3. HandlerTypeOK'
    BY <2>1, <2>2 DEF HandlerTypeOK, lifeVars, quitVars, pingVars
  <2>4. RestTypeOK'
    BY <2>1 DEF RestTypeOK, configVars, queueVars
  <2> QED BY <2>3, <2>4, TypePartsNext
<1>2. ConnectedMeansLive' /\ QuitInProgress'
  BY DEF IInv, ConnectedMeansLive, QuitInProgress, lifeVars, quitVars, retryVars
<1> QED BY <1>1, <1>2 DEF IInv

\* Every action of the event loop keeps the invariant.
LEMMA LoopKeeps == IInv /\ Loop => IInv'
<1> SUFFICES ASSUME IInv, Loop PROVE IInv'
  OBVIOUS
<1> USE DEF IInv
<1>1. CASE RunPosted
  <2>1. running' \in 0 .. MaxPosted /\ posted' \in 0 .. MaxPosted
    BY <1>1, BoundsAssumption DEF RunPosted, TypeOK
  <2> QED BY <1>1, <2>1
    DEF RunPosted, TypeOK, ConnectedMeansLive, QuitInProgress, socketVars,
        lifeVars, quitVars, serverVars, retryVars, pingVars, configVars
<1>2. CASE ConnectPosted
  <2>1. running' \in 0 .. MaxPosted
    BY <1>2, BoundsAssumption DEF ConnectPosted, TypeOK
  <2>2. /\ Now \in NowType /\ Now.socket = socket /\ Now.timer = autoReconnectTimer
        /\ Now.state = connectionState /\ Now.overwritten = FALSE
    BY NowTypeOK DEF Now
  <2>3. /\ AttemptTypeOK'
        /\ autoReconnectTimer' = autoReconnectTimer
        /\ connectionState' = "Initialized" => connectionState = "Initialized"
        /\ socket # "Unconnected" =>
               socket' = socket /\ connectionState' = connectionState
    BY <1>2, <2>2, ConnectToIrcStep DEF ConnectPosted
  <2>4. /\ UNCHANGED <<greeted, connected, status, persisted, quitRequested,
                       disconnectExpected, socketCloseTimer, sendPings, settings,
                       servers, identityValid, pingTimeoutEnabled, posted>>
        /\ userQuit' = FALSE
    BY <1>2 DEF ConnectPosted, lifeVars, quitVars, configVars
  <2>5. ConnectedMeansLive' /\ QuitInProgress'
    BY <2>3, <2>4 DEF ConnectedMeansLive, QuitInProgress
  <2>6. HandlerTypeOK' /\ RestTypeOK'
    BY <2>1, <2>3, <2>4, TypeParts DEF HandlerTypeOK, RestTypeOK
  <2> QED BY <2>5, <2>6, HandlerKeeps
<1>3. CASE Delete
  BY <1>3, ResetKeeps DEF Delete, TypeOK, Statuses
<1>4. CASE SocketError
  <2> DEFINE now == [Now EXCEPT !.errorDue = FALSE, !.failed = TRUE]
  <2>1. /\ now \in NowType /\ now.socket = socket /\ now.state = connectionState
    BY NowTypeOK DEF Now, NowType
  <2>2. RestTypeOK'
    BY <1>4, TypeParts DEF SocketError, RestTypeOK, configVars, queueVars
  <2>3. CASE socket \in {"Unconnected", "HostLookup", "Connecting"}
    <3>1. SocketDisconnected(now)
      BY <1>4, <2>3 DEF SocketError
    <3>2. now.state # "Initialized"
      BY <2>1, <2>3 DEF ConnectedMeansLive
    <3> HIDE DEF now
    <3> QED BY <2>1, <2>2, <3>1, <3>2, SocketDisconnectedKeeps, HandlerKeeps
  <2>4. CASE socket \notin {"Unconnected", "HostLookup", "Connecting"}
    BY <1>4, <2>2, <2>4
       DEF SocketError, RestTypeOK, TypeOK, ConnectedMeansLive, QuitInProgress,
           lifeVars, quitVars, retryVars, pingVars
  <2> QED BY <2>3, <2>4
<1>5. CASE DeferredClose
  <2>1. /\ socket = "Connected" /\ socket' = "Closing" /\ pendingClose' = FALSE
        /\ connectionState' = "Disconnecting"
        /\ UNCHANGED <<errorDue, greeted, lifeVars, quitVars, serverVars, retryVars,
                       pingVars, configVars, queueVars, userQuit>>
    BY <1>5, StateForValues DEF DeferredClose
  <2> QED BY <2>1, CloseKeeps
<1> QED BY <1>1, <1>2, <1>3, <1>4, <1>5 DEF Loop

\* Every signal of the socket, timer and line from the server keeps the
\* invariant.
LEMMA EventKeeps ==
    ASSUME IInv,
           \/ SocketSignal
           \/ EncryptedSocket
           \/ \E closedByServer \in BOOLEAN : ConnectionLost(closedByServer)
           \/ AutoReconnectTimeout
           \/ \E late \in BOOLEAN : SendPing(late)
           \/ SocketCloseTimeout
           \/ LineReceived
           \/ Welcome
    PROVE  IInv'
<1> USE DEF IInv
<1>1. CASE HostFound
  BY <1>1, StateForValues
     DEF HostFound, TypeOK, ConnectedMeansLive, QuitInProgress, SocketStates,
         ConnectionStates, lifeVars, quitVars, serverVars, retryVars, pingVars,
         configVars, queueVars
<1>2. ASSUME NEW encrypts \in BOOLEAN, ConnectedSocket(encrypts) PROVE IInv'
  <2> DEFINE now == [Now EXCEPT !.socket = "Connected", !.state = StateFor("Connected")]
  <2>1. RestTypeOK'
    BY <1>2, TypeParts DEF ConnectedSocket, RestTypeOK, configVars, queueVars
  <2>2. socket = "Connecting" /\ ~connected
    BY <1>2 DEF ConnectedSocket, ConnectedMeansLive
  <2>3. CASE identityValid
    BY <1>2, <2>1, <2>2, <2>3, StateForValues
       DEF ConnectedSocket, RestTypeOK, TypeOK, ConnectedMeansLive, QuitInProgress,
           SocketStates, ConnectionStates, lifeVars, quitVars, serverVars,
           retryVars, pingVars
  <2>4. CASE ~identityValid
    <3>1. now \in NowType /\ Consistent(now)
      BY <2>2, NowTypeOK, StateForValues
         DEF Now, NowType, Consistent, SocketStates, ConnectionStates
    <3>2. DisconnectFromIrc(TRUE, FALSE, now)
      BY <1>2, <2>4 DEF ConnectedSocket
    <3> HIDE DEF now
    <3> QED BY <2>1, <3>1, <3>2, DisconnectFromIrcKeeps, HandlerKeeps
  <2> QED BY <2>3, <2>4
<1>3. CASE ConnectFails
  <2> DEFINE now == [Now EXCEPT !.socket = "Unconnected", !.errorDue = TRUE,
                                !.overwritten = TRUE]
  <2>1. now \in NowType /\ now.overwritten
    BY NowTypeOK DEF Now, NowType, SocketStates
  <2>2. SocketDisconnected(now)
    BY <1>3 DEF ConnectFails
  <2>3. RestTypeOK'
    BY <1>3, TypeParts DEF ConnectFails, RestTypeOK, configVars, queueVars
  <2> HIDE DEF now
  <2> QED BY <2>1, <2>2, <2>3, SocketDisconnectedKeeps, HandlerKeeps
<1>4. CASE ClosedSocket
  <2> DEFINE now == [Now EXCEPT !.socket = "Unconnected", !.overwritten = TRUE]
  <2>1. now \in NowType /\ now.overwritten
    BY NowTypeOK DEF Now, NowType, SocketStates
  <2>2. SocketDisconnected(now)
    BY <1>4 DEF ClosedSocket
  <2>3. RestTypeOK'
    BY <1>4, TypeParts DEF ClosedSocket, RestTypeOK, configVars, queueVars
  <2> HIDE DEF now
  <2> QED BY <2>1, <2>2, <2>3, SocketDisconnectedKeeps, HandlerKeeps
<1>5. CASE EncryptedSocket
  <2>1. RestTypeOK'
    BY <1>5, TypeParts DEF EncryptedSocket, RestTypeOK, configVars, queueVars
  <2>2. CASE identityValid
    BY <1>5, <2>1, <2>2
       DEF EncryptedSocket, RestTypeOK, TypeOK, ConnectedMeansLive, QuitInProgress,
           socketVars, lifeVars, quitVars, serverVars, retryVars, pingVars
  <2>3. CASE ~identityValid
    BY <1>5, <2>1, <2>3, NowConsistent, DisconnectFromIrcKeeps, HandlerKeeps
       DEF EncryptedSocket
  <2> QED BY <2>2, <2>3
<1>6. ASSUME NEW closedByServer \in BOOLEAN, ConnectionLost(closedByServer)
      PROVE  IInv'
  BY <1>6, StateForValues
     DEF ConnectionLost, TypeOK, ConnectedMeansLive, QuitInProgress, SocketStates,
         ConnectionStates, lifeVars, quitVars, retryVars, pingVars, configVars,
         queueVars
<1>7. CASE AutoReconnectTimeout
  <2> DEFINE now == [Now EXCEPT !.timer = FALSE]
  <2>1. now \in NowType /\ now.timer = FALSE /\ now.state = connectionState
    BY NowTypeOK DEF Now, NowType
  <2>2. ~quitRequested
    BY <1>7 DEF AutoReconnectTimeout, QuitInProgress
  <2>3. RestTypeOK' /\ UNCHANGED <<connected, status, persisted, quitRequested,
                     disconnectExpected, socketCloseTimer, sendPings>>
    BY <1>7, TypeParts DEF AutoReconnectTimeout, RestTypeOK, configVars, queueVars,
                           lifeVars, quitVars
  <2>4. CASE connectionState \in {"Disconnected", "Reconnecting"}
    <3>1. Reconnect(now)
      BY <1>7, <2>4 DEF AutoReconnectTimeout
    <3> HIDE DEF now
    <3>2. AttemptTypeOK' /\ connectionState' # "Initialized"
      BY <2>1, <2>4, <3>1, ReconnectStep
    <3>3. HandlerTypeOK'
      BY <2>3, <3>2, TypeParts DEF HandlerTypeOK
    <3>4. ConnectedMeansLive' /\ QuitInProgress'
      BY <2>2, <2>3, <2>4, <3>2 DEF ConnectedMeansLive, QuitInProgress
    <3> QED BY <2>3, <3>3, <3>4, HandlerKeeps
  <2>5. CASE connectionState \notin {"Disconnected", "Reconnecting"}
    BY <1>7, <2>3, <2>5
       DEF AutoReconnectTimeout, RestTypeOK, TypeOK, ConnectedMeansLive,
           QuitInProgress, socketVars, serverVars
  <2> QED BY <2>4, <2>5
<1>8. ASSUME NEW late \in BOOLEAN, SendPing(late) PROVE IInv'
  <2>1. RestTypeOK'
    BY <1>8, TypeParts DEF SendPing, RestTypeOK, configVars, queueVars
  <2>2. CASE pingCount >= MaxPingCount /\ ~late
    BY <1>8, <2>1, <2>2, NowConsistent, DisconnectFromIrcKeeps, HandlerKeeps
       DEF SendPing
  <2>3. CASE ~(pingCount >= MaxPingCount /\ ~late)
    <3>1. pingCount' \in 0 .. MaxPingCount
      <4> DEFINE more == IF pingCount < MaxPingCount THEN pingCount + 1 ELSE pingCount
      <4>1. pingCount' = more
        BY <1>8, <2>3 DEF SendPing
      <4>2. pingCount \in 0 .. MaxPingCount
        BY DEF TypeOK
      <4>3. more \in 0 .. MaxPingCount
        BY <4>2, BoundsAssumption
      <4> QED BY <4>1, <4>3
    <3> QED BY <1>8, <2>1, <2>3, <3>1
      DEF SendPing, RestTypeOK, TypeOK, ConnectedMeansLive, QuitInProgress,
          socketVars, lifeVars, quitVars, serverVars, retryVars
  <2> QED BY <2>2, <2>3
<1>9. CASE SocketCloseTimeout
  <2>1. /\ socket # "Unconnected" /\ socket' = "Closing" /\ pendingClose' = FALSE
        /\ connectionState' = "Disconnecting"
        /\ UNCHANGED <<errorDue, greeted, lifeVars, quitVars, serverVars, retryVars,
                       pingVars, configVars, queueVars, userQuit>>
    BY <1>9, StateForValues DEF SocketCloseTimeout, AbortSocket
  <2> QED BY <2>1, CloseKeeps
<1>10. CASE LineReceived
  BY <1>10, BoundsAssumption
     DEF LineReceived, TypeOK, ConnectedMeansLive, QuitInProgress, socketVars,
         lifeVars, quitVars, serverVars, retryVars, configVars, queueVars
<1>11. CASE Welcome
  <2>1. FullCount \in Int /\ FullCount >= -2
    BY SettingsAssumption DEF FullCount, TypeOK
  <2>2. /\ autoReconnectCount' \in Int /\ autoReconnectCount' >= -2
        /\ pingCount' \in 0 .. MaxPingCount
    BY <1>11, <2>1, BoundsAssumption DEF Welcome, TypeOK
  <2> QED BY <1>11, <2>2
    DEF Welcome, TypeOK, ConnectedMeansLive, QuitInProgress, ConnectionStates,
        socketVars, serverVars, configVars, queueVars
<1> QED BY <1>1, <1>2, <1>3, <1>4, <1>5, <1>6, <1>7, <1>8, <1>9, <1>10, <1>11
        DEF SocketSignal

----------------------------------------------------------------------------
(* The theorems.                                                            *)

\* The invariants hold of every new network and survive every step.
THEOREM Invariance == Spec => []IInv
<1>1. Init => IInv
  <2> SUFFICES ASSUME Init PROVE IInv
    OBVIOUS
  <2>1. 0 \in 0 .. MaxPingCount /\ 0 \in 0 .. MaxPosted
    BY BoundsAssumption
  <2>2. TypeOK
    <3>1. AttemptTypeOK
      <4>1. pingCount \in 0 .. MaxPingCount
        BY <2>1 DEF Init
      <4>2. /\ autoReconnectCount \in Int /\ autoReconnectCount >= -2
            /\ lastUsedServerIndex \in Nat
        BY DEF Init
      <4> QED BY <4>1, <4>2 DEF Init, AttemptTypeOK, SocketStates, ConnectionStates
    <3>2. HandlerTypeOK
      BY <3>1 DEF Init, HandlerTypeOK, Statuses
    <3>3. RestTypeOK
      BY <2>1 DEF Init, RestTypeOK
    <3> QED BY <3>2, <3>3, TypeParts
  <2>3. ConnectedMeansLive /\ QuitInProgress
    BY DEF Init, ConnectedMeansLive, QuitInProgress
  <2> QED BY <2>2, <2>3 DEF IInv
<1>2. IInv /\ [Next]_vars => IInv'
  <2> SUFFICES ASSUME IInv, [Next]_vars PROVE IInv'
    OBVIOUS
  <2>1. CASE Client
    BY <2>1, ClientKeeps
  <2>2. CASE Loop
    BY <2>2, LoopKeeps
  <2>3. CASE Restart
    <3>1. running' \in 0 .. MaxPosted /\ status' \in Statuses
      BY <2>3, BoundsAssumption DEF Restart, Statuses
    <3> QED BY <2>3, <3>1, ResetKeeps DEF Restart
  <2>4. CASE UNCHANGED vars
    BY <2>4 DEF vars, IInv, TypeOK, ConnectedMeansLive, QuitInProgress,
                socketVars, lifeVars, quitVars, serverVars, retryVars, pingVars,
                configVars, queueVars
  <2> QED BY <2>1, <2>2, <2>3, <2>4, EventKeeps DEF Next
<1> QED BY <1>1, <1>2, PTL DEF Spec

\* Every variable of a network keeps its type.
THEOREM TypesHold == Spec => []TypeOK
<1>1. IInv => TypeOK
  BY DEF IInv
<1> QED BY <1>1, Invariance, PTL

\* For every retry setting, server list and ping limit: a network that counts
\* as connected has a live socket, an "initialised" connection state or one
\* that is being closed, and will be connected again by a restarted core.
THEOREM ConnectedNetworksAreLive == Spec => []ConnectedMeansLive
<1>1. IInv => ConnectedMeansLive
  BY DEF IInv
<1> QED BY <1>1, Invariance, PTL

\* For the same: while a quit the user asked for is under way, no retry is
\* pending and the close timer bounds the wait.
THEOREM QuitsHoldOffRetries == Spec => []QuitInProgress
<1>1. IInv => QuitInProgress
  BY DEF IInv
<1> QED BY <1>1, Invariance, PTL

----------------------------------------------------------------------------
(* A connection that is lost with retries left is retried.  The retry timer *)
(* does nothing unless the network shows as Disconnected or Reconnecting,   *)
(* so this rests on an invariant of its own: an unconnected socket never    *)
(* has any other connection state, although the two are assigned by         *)
(* different functions and one assignment overwrites the other.             *)

Down == {"Disconnected", "Reconnecting"}

\* A network without a socket shows that it has none.
UnconnectedIsDown == socket = "Unconnected" => connectionState \in Down

\* The same of the fields a function is called with.
NowIsDown(now) ==
    /\ now.socket \in {"Unconnected", socket}
    /\ now.socket = "Unconnected" => now.state \in Down \/ now.overwritten

----------------------------------------------------------------------------
\* connectToIrc() makes an unconnected socket busy or leaves its state alone;
\* if it may connect at all, no unconnected socket is left.
LEMMA ConnectToIrcDown ==
    ASSUME NEW reconnecting, NEW now, NowIsDown(now), ConnectToIrc(reconnecting, now)
    PROVE  /\ UnconnectedIsDown'
           /\ CanConnect => socket' # "Unconnected"
<1>1. CASE CanConnect
  <2>1. ConnectToHost(now)
    BY <1>1 DEF ConnectToIrc
  <2>2. socket' # "Unconnected"
    BY <2>1 DEF ConnectToHost, NowIsDown
  <2> QED BY <2>2 DEF UnconnectedIsDown
<1>2. CASE ~CanConnect
  BY <1>2 DEF ConnectToIrc, UnconnectedIsDown, NowIsDown, Shown, StateFor, Down
<1> QED BY <1>1, <1>2

\* The same of doAutoReconnect().
LEMMA ReconnectDown ==
    ASSUME NEW now \in NowType, NowIsDown(now), Reconnect(now)
    PROVE  /\ UnconnectedIsDown'
           /\ CanConnect => socket' # "Unconnected"
<1> DEFINE counted == IF now.count > 0 \/ now.count = -1
                      THEN [now EXCEPT !.count = @ - 1]
                      ELSE now
<1>1. NowIsDown(counted)
  BY DEF NowIsDown, NowType
<1>2. ConnectToIrc(TRUE, counted)
  BY DEF Reconnect
<1> HIDE DEF counted
<1> QED BY <1>1, <1>2, ConnectToIrcDown

\* Staying down leaves the socket as the caller has set it.
LEMMA StayDownDown ==
    ASSUME NEW now, NEW state, now.socket = "Unconnected" => state \in Down \/ now.overwritten,
           StayDown(now, state)
    PROVE  UnconnectedIsDown' /\ autoReconnectCount' = now.count
                              /\ autoReconnectTimer' = now.timer
BY DEF StayDown, UnconnectedIsDown, Shown, StateFor, Down

\* socketDisconnected() leaves a socket unconnected, with retries left and a
\* server to try, only if the user has quit or the retry timer runs.
LEMMA AfterDisconnectDown ==
    ASSUME TypeOK, NEW now \in NowType, NowIsDown(now), AfterDisconnect(now)
    PROVE  /\ UnconnectedIsDown'
           /\ CanConnect /\ ~now.quit /\ socket' = "Unconnected" /\ autoReconnectCount' # 0
                  => autoReconnectTimer'
<1>1. CASE now.quit
  <2>1. StayDown(now, "Disconnected")
    BY <1>1 DEF AfterDisconnect
  <2> QED BY <1>1, <2>1, StayDownDown DEF Down
<1>2. CASE ~now.quit /\ now.count = 0
  <2>1. settings.retries # 0
    BY SettingsAssumption DEF TypeOK
  <2>2. StayDown(now, now.state)
    BY <1>2, <2>1 DEF AfterDisconnect
  <2> QED BY <1>2, <2>2, StayDownDown DEF NowIsDown
<1>3. CASE ~now.quit /\ now.count # 0 /\ now.count \in {-1, settings.retries}
  <2> DEFINE again == [now EXCEPT !.state = "Reconnecting"]
  <2>1. Reconnect(again)
    BY <1>3 DEF AfterDisconnect
  <2>2. again \in NowType /\ NowIsDown(again)
    BY DEF NowType, NowIsDown, Down, ConnectionStates
  <2> HIDE DEF again
  <2> QED BY <2>1, <2>2, ReconnectDown
<1>4. CASE ~now.quit /\ now.count # 0 /\ now.count \notin {-1, settings.retries}
  <2> DEFINE later == [now EXCEPT !.timer = TRUE]
  <2>1. StayDown(later, "Reconnecting")
    BY <1>4 DEF AfterDisconnect
  <2>2. later.timer = TRUE
    BY DEF NowType
  <2> HIDE DEF later
  <2> QED BY <2>1, <2>2, StayDownDown DEF Down
<1> QED BY <1>1, <1>2, <1>3, <1>4 DEF NowType

LEMMA SocketDisconnectedDown ==
    ASSUME TypeOK, NEW now \in NowType, NowIsDown(now), SocketDisconnected(now)
    PROVE  /\ UnconnectedIsDown'
           /\ CanConnect /\ ~now.quit /\ socket' = "Unconnected" /\ autoReconnectCount' # 0
                  => autoReconnectTimer'
<1> DEFINE quiet == [now EXCEPT !.ping = FALSE, !.misses = 0]
<1>1. AfterDisconnect(quiet)
  BY DEF SocketDisconnected
<1>2. /\ quiet \in NowType /\ quiet.quit = now.quit
      /\ NowIsDown(quiet)
  <2>1. 0 \in 0 .. MaxPingCount
    BY BoundsAssumption
  <2>2. [now EXCEPT !.ping = FALSE] \in NowType
    BY DEF NowType
  <2> QED BY <2>1, <2>2 DEF NowType, NowIsDown
<1> HIDE DEF quiet
<1> QED BY <1>1, <1>2, AfterDisconnectDown

\* disconnectFromIrc() runs socketDisconnected() itself on an unconnected socket.
LEMMA DisconnectFromIrcDown ==
    ASSUME TypeOK, NEW requested \in BOOLEAN, NEW withReconnect \in BOOLEAN,
           NEW now \in NowType, NowIsDown(now) \/ now.socket # "Unconnected",
           DisconnectFromIrc(requested, withReconnect, now)
    PROVE  UnconnectedIsDown'
<1>1. CASE now.socket = "Unconnected"
  <2> DEFINE then == QuitFields(requested, withReconnect, now)
             count == IF withReconnect THEN now.count ELSE 0
             timer == now.timer /\ withReconnect
  <2>1. SocketDisconnected(then)
    BY <1>1 DEF DisconnectFromIrc
  <2>2. then \in NowType /\ NowIsDown(then)
    <3>1. count \in {c \in Int : c >= -2} /\ timer \in BOOLEAN
      BY DEF NowType
    <3>2. then = [now EXCEPT !.quit = requested, !.count = count, !.timer = timer]
      BY DEF QuitFields
    <3> HIDE DEF then, count, timer
    <3> QED BY <1>1, <3>1, <3>2 DEF NowType, NowIsDown
  <2> HIDE DEF then
  <2> QED BY <2>1, <2>2, SocketDisconnectedDown
<1>2. CASE now.socket # "Unconnected"
  BY <1>2 DEF DisconnectFromIrc, UnconnectedIsDown
<1> QED BY <1>1, <1>2

----------------------------------------------------------------------------
\* Every step keeps the connection state of an unconnected socket.
LEMMA DownKept == IInv /\ UnconnectedIsDown /\ [Next]_vars => UnconnectedIsDown'
<1> SUFFICES ASSUME IInv, UnconnectedIsDown, [Next]_vars PROVE UnconnectedIsDown'
  OBVIOUS
<1>1. TypeOK /\ Now \in NowType /\ NowIsDown(Now)
  BY NowTypeOK DEF IInv, NowIsDown, UnconnectedIsDown, Now
<1>2. UNCHANGED <<socketVars, connectionState>> => UnconnectedIsDown'
  BY DEF UnconnectedIsDown, socketVars
<1>3. CASE Client
  <2>1. CASE HandleQuit \/ RequestDisconnect
    BY <1>1, <2>1, DisconnectFromIrcDown DEF HandleQuit, RequestDisconnect
  <2>2. CASE RemoveNetwork
    <3>1. /\ [Now EXCEPT !.status = "removing"] \in NowType
          /\ NowIsDown([Now EXCEPT !.status = "removing"])
      BY <1>1 DEF NowType, NowIsDown, Statuses
    <3> QED BY <1>1, <1>2, <2>2, <3>1, DisconnectFromIrcDown DEF RemoveNetwork
  <2>3. CASE \/ RequestConnect \/ SetIdentity \/ SetPingTimeoutEnabled
             \/ \E new \in Settings, n \in 1 .. MaxServers : RequestSetNetworkInfo(new, n)
    BY <1>2, <2>3 DEF RequestConnect, SetIdentity, SetPingTimeoutEnabled, RequestSetNetworkInfo
  <2> QED BY <1>3, <2>1, <2>2, <2>3 DEF Client
<1>4. CASE Loop
  <2>1. CASE SocketError
    <3> DEFINE now == [Now EXCEPT !.errorDue = FALSE, !.failed = TRUE]
    <3>1. now \in NowType /\ NowIsDown(now)
      BY <1>1 DEF NowType, NowIsDown
    <3>2. SocketDisconnected(now) \/ UNCHANGED <<socket, connectionState>>
      BY <2>1 DEF SocketError
    <3> HIDE DEF now
    <3> QED BY <1>1, <3>1, <3>2, SocketDisconnectedDown DEF UnconnectedIsDown
  <2>2. CASE ConnectPosted
    BY <1>1, <2>2, ConnectToIrcDown DEF ConnectPosted
  <2>3. CASE Delete
    BY <2>3 DEF Delete, Reset, UnconnectedIsDown, Down
  <2>4. CASE DeferredClose
    BY <2>4 DEF DeferredClose, UnconnectedIsDown
  <2>5. CASE RunPosted
    BY <1>2, <2>5 DEF RunPosted
  <2> QED BY <1>4, <2>1, <2>2, <2>3, <2>4, <2>5 DEF Loop
<1>5. CASE SocketSignal
  <2>1. CASE HostFound
    BY <2>1 DEF HostFound, UnconnectedIsDown
  <2>2. ASSUME NEW encrypts \in BOOLEAN, ConnectedSocket(encrypts) PROVE UnconnectedIsDown'
    <3> DEFINE now == [Now EXCEPT !.socket = "Connected", !.state = StateFor("Connected")]
    <3>1. now \in NowType /\ now.socket = "Connected"
      BY <1>1, StateForValues DEF NowType, SocketStates, ConnectionStates
    <3>2. socket' = "Connected" \/ DisconnectFromIrc(TRUE, FALSE, now)
      BY <2>2 DEF ConnectedSocket
    <3> HIDE DEF now
    <3> QED BY <1>1, <3>1, <3>2, DisconnectFromIrcDown DEF UnconnectedIsDown
  <2>3. CASE ConnectFails
    <3> DEFINE now == [Now EXCEPT !.socket = "Unconnected", !.errorDue = TRUE,
                                  !.overwritten = TRUE]
    <3>1. now \in NowType /\ NowIsDown(now) /\ SocketDisconnected(now)
      BY <1>1, <2>3 DEF ConnectFails, NowType, NowIsDown, SocketStates
    <3> HIDE DEF now
    <3> QED BY <1>1, <3>1, SocketDisconnectedDown
  <2>4. CASE ClosedSocket
    <3> DEFINE now == [Now EXCEPT !.socket = "Unconnected", !.overwritten = TRUE]
    <3>1. now \in NowType /\ NowIsDown(now) /\ SocketDisconnected(now)
      BY <1>1, <2>4 DEF ClosedSocket, NowType, NowIsDown, SocketStates
    <3> HIDE DEF now
    <3> QED BY <1>1, <3>1, SocketDisconnectedDown
  <2> QED BY <1>5, <2>1, <2>2, <2>3, <2>4 DEF SocketSignal
<1>6. CASE EncryptedSocket
  BY <1>1, <1>2, <1>6, DisconnectFromIrcDown DEF EncryptedSocket
<1>7. ASSUME NEW late \in BOOLEAN, SendPing(late) PROVE UnconnectedIsDown'
  BY <1>1, <1>2, <1>7, DisconnectFromIrcDown DEF SendPing
<1>8. CASE AutoReconnectTimeout
  <2> DEFINE now == [Now EXCEPT !.timer = FALSE]
  <2>1. now \in NowType /\ NowIsDown(now)
    BY <1>1 DEF NowType, NowIsDown
  <2>2. Reconnect(now) \/ UNCHANGED <<socketVars, connectionState>>
    BY <1>8 DEF AutoReconnectTimeout
  <2> HIDE DEF now
  <2> QED BY <1>2, <2>1, <2>2, ReconnectDown
<1>9. CASE \E closedByServer \in BOOLEAN : ConnectionLost(closedByServer)
  BY <1>9 DEF ConnectionLost, UnconnectedIsDown
<1>10. CASE SocketCloseTimeout
  BY <1>10 DEF SocketCloseTimeout, AbortSocket, UnconnectedIsDown
<1>11. CASE LineReceived
  BY <1>2, <1>11 DEF LineReceived
<1>12. CASE Welcome
  BY <1>12 DEF Welcome, UnconnectedIsDown, socketVars
<1>13. CASE Restart
  BY <1>13 DEF Restart, Reset, UnconnectedIsDown, Down
<1>14. CASE UNCHANGED vars
  BY <1>2, <1>14 DEF vars
<1> QED BY <1>3, <1>4, <1>5, <1>6, <1>7, <1>8, <1>9, <1>10, <1>11, <1>12, <1>13, <1>14
        DEF Next

\* An unconnected network always shows that it is, whatever overwrote what.
THEOREM UnconnectedShows == Spec => []UnconnectedIsDown
<1>1. Init => UnconnectedIsDown
  BY DEF Init, UnconnectedIsDown, Down
<1> QED BY <1>1, DownKept, Invariance, PTL DEF Spec

\* The step that ends a connection or an attempt leaves a timer, or a new
\* attempt, or no retries.
LEMMA RetryStep ==
    ASSUME IInv, UnconnectedIsDown,
           SocketSignal \/ SocketError \/ AutoReconnectTimeout,
           CanConnect, ~quitRequested,
           socket' = "Unconnected", autoReconnectCount' # 0
    PROVE  autoReconnectTimer'
<1>1. TypeOK /\ Now \in NowType /\ NowIsDown(Now)
  BY NowTypeOK DEF IInv, NowIsDown, UnconnectedIsDown, Now
<1>2. Now.quit = quitRequested
  BY DEF Now
<1>3. CASE ConnectFails
  <2> DEFINE now == [Now EXCEPT !.socket = "Unconnected", !.errorDue = TRUE,
                                !.overwritten = TRUE]
  <2>1. now \in NowType /\ NowIsDown(now) /\ SocketDisconnected(now) /\ ~now.quit
    BY <1>1, <1>2, <1>3 DEF ConnectFails, NowType, NowIsDown, SocketStates
  <2> HIDE DEF now
  <2> QED BY <1>1, <2>1, SocketDisconnectedDown
<1>4. CASE ClosedSocket
  <2> DEFINE now == [Now EXCEPT !.socket = "Unconnected", !.overwritten = TRUE]
  <2>1. now \in NowType /\ NowIsDown(now) /\ SocketDisconnected(now) /\ ~now.quit
    BY <1>1, <1>2, <1>4 DEF ClosedSocket, NowType, NowIsDown, SocketStates
  <2> HIDE DEF now
  <2> QED BY <1>1, <2>1, SocketDisconnectedDown
<1>5. CASE SocketError
  <2> DEFINE now == [Now EXCEPT !.errorDue = FALSE, !.failed = TRUE]
  <2>1. now \in NowType /\ NowIsDown(now) /\ ~now.quit
    BY <1>1, <1>2 DEF NowType, NowIsDown
  <2>2. SocketDisconnected(now)
    BY <1>5 DEF SocketError
  <2> HIDE DEF now
  <2> QED BY <1>1, <2>1, <2>2, SocketDisconnectedDown
<1>6. CASE AutoReconnectTimeout
  <2> DEFINE now == [Now EXCEPT !.timer = FALSE]
  <2>1. now \in NowType /\ NowIsDown(now)
    BY <1>1 DEF NowType, NowIsDown
  <2>2. CASE connectionState \in Down
    <3>1. Reconnect(now)
      BY <1>6, <2>2 DEF AutoReconnectTimeout, Down
    <3> HIDE DEF now
    <3> QED BY <2>1, <3>1, ReconnectDown
  <2>3. CASE connectionState \notin Down
    BY <1>6, <2>3 DEF AutoReconnectTimeout, Down, UnconnectedIsDown, socketVars
  <2> QED BY <2>2, <2>3
<1>7. CASE HostFound
  BY <1>7 DEF HostFound
<1>8. CASE \E encrypts \in BOOLEAN : ConnectedSocket(encrypts)
  BY <1>8 DEF ConnectedSocket, CanConnect
<1> QED BY <1>3, <1>4, <1>5, <1>6, <1>7, <1>8 DEF SocketSignal

\* For every retry setting and server list: a connection or an attempt that
\* ends with retries left, without the user having asked for it, is followed by
\* another attempt, at once or by the timer.
THEOREM LostConnectionsAreRetried == Spec => LostConnectionIsRetried
<1> DEFINE Retried ==
        (/\ SocketSignal \/ SocketError \/ AutoReconnectTimeout
         /\ CanConnect /\ ~quitRequested
         /\ socket' = "Unconnected" /\ ~errorDue' /\ autoReconnectCount' # 0)
        => autoReconnectTimer'
<1>1. IInv /\ UnconnectedIsDown => Retried
  BY RetryStep
<1>2. IInv /\ UnconnectedIsDown => [Retried]_vars
  BY <1>1
<1> QED BY <1>2, Invariance, UnconnectedShows, PTL DEF LostConnectionIsRetried
============================================================================
