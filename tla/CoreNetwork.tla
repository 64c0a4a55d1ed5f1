---------------------------- MODULE CoreNetwork ----------------------------
(***************************************************************************)
(* The life of one IRC connection of the core: CoreNetwork's connect,      *)
(* disconnect and automatic reconnect (src/src/core/corenetwork.cpp), the  *)
(* slots its socket's signals run, its timers, and what the session does   *)
(* to it (src/src/core/coresession.cpp: removal and restart).              *)
(*                                                                         *)
(* A core session is one thread with an event loop, so an action is one    *)
(* event with everything its slots call directly.  Three things outlast an *)
(* event and are kept as obligations that block every other action:        *)
(*   errorDue      a failed connect is reported in two signals, first      *)
(*                 stateChanged(Unconnected), whose slots may already have *)
(*                 started a new attempt, and then error();                *)
(*   running       posted calls of connectToIrc(), which the event loop    *)
(*                 runs one after the other;                               *)
(*   pendingClose  a socket closed while it was connecting is closed as    *)
(*                 soon as its connected() signal has been delivered.      *)
(* The socket itself is Qt's, modelled from how this code uses it.         *)
(***************************************************************************)
EXTENDS Integers

CONSTANTS
    Settings,       \* the network settings the clients may choose from
    MaxServers,     \* length of the longest server list
    MaxPingCount,   \* networkConfig()->maxPingCount()
    MaxPosted       \* bound: connectToIrc() calls waiting in the event queue

ASSUME SettingsAssumption ==
    Settings \subseteq [autoReconnect : BOOLEAN, unlimited : BOOLEAN,
                        retries : Nat \ {0}, randomServer : BOOLEAN]
ASSUME BoundsAssumption ==
    /\ MaxServers \in Nat \ {0}
    /\ MaxPingCount \in Nat \ {0}
    /\ MaxPosted \in Nat \ {0}

VARIABLES
    socket,             \* QAbstractSocket::state()
    pendingClose, errorDue,
    greeted,            \* socketInitialized() got as far as NICK and USER
    connectionState, connected,
    quitRequested, disconnectExpected, socketCloseTimer,
    previousConnectionAttemptFailed, lastUsedServerIndex,
    autoReconnectCount, autoReconnectTimer,
    pingTimer, sendPings, pingCount,
    settings, servers, identityValid, pingTimeoutEnabled,
    posted, running,
    status,             \* what the session has done with the network
    persisted,          \* Core::setNetworkConnected(): restored at start
    userQuit            \* history: the user's last effective word was to disconnect

socketVars == <<socket, pendingClose, errorDue>>
quitVars   == <<quitRequested, disconnectExpected, socketCloseTimer>>
serverVars == <<previousConnectionAttemptFailed, lastUsedServerIndex>>
retryVars  == <<autoReconnectCount, autoReconnectTimer>>
pingVars   == <<pingTimer, sendPings, pingCount>>
configVars == <<settings, servers, identityValid, pingTimeoutEnabled>>
queueVars  == <<posted, running>>
lifeVars   == <<connected, status, persisted>>
vars == <<socketVars, greeted, connectionState, lifeVars, quitVars, serverVars,
          retryVars, pingVars, configVars, queueVars, userQuit>>

SocketStates == {"Unconnected", "HostLookup", "Connecting", "Connected", "Closing"}
ConnectionStates == {"Disconnected", "Connecting", "Initializing",
                     "Initialized", "Reconnecting", "Disconnecting"}
\* "doomed": gone from session and database, its deleteLater() still pending.
Statuses == {"present", "removing", "doomed", "gone"}

\* What the retry counter is refilled with.  -1 is "unlimited, and the next
\* attempt is immediate", -2 is "unlimited, and the next one is delayed".
FullCount == IF settings.unlimited THEN -1 ELSE settings.retries

\* No event is half done, so the next one may start.
Idle ==
    /\ ~errorDue
    /\ running = 0
    /\ ~(pendingClose /\ socket = "Connected")
    /\ status \in {"present", "removing"}

----------------------------------------------------------------------------
(* The functions that slots share.  `now' holds the fields a caller has     *)
(* assigned before the call; the callee reads those.                        *)

Now == [socket |-> socket, errorDue |-> errorDue, state |-> connectionState,
        overwritten |-> FALSE, count |-> autoReconnectCount,
        timer |-> autoReconnectTimer, failed |-> previousConnectionAttemptFailed,
        quit |-> quitRequested, ping |-> pingTimer, misses |-> pingCount,
        status |-> status]

\* Mutant: a closing socket falls into the default case.
ClosingIsDefault(socketState) ==
    CASE socketState \in {"HostLookup", "Connecting"} -> "Connecting"
      [] socketState = "Connected" -> "Initializing"
      [] OTHER -> "Disconnected"

\* socketStateChanged(): the connection state a socket state stands for.
StateFor(socketState) ==
    CASE socketState = "Unconnected" -> "Disconnected"
      [] socketState \in {"HostLookup", "Connecting"} -> "Connecting"
      [] socketState = "Connected" -> "Initializing"
      [] socketState = "Closing" -> "Disconnecting"

\* It assigns that state after socketDisconnected() has returned, over whatever
\* that has set.
Shown(now, state) == IF now.overwritten THEN StateFor("Unconnected") ELSE state

\* connectToIrc(): the choice of the server.
PickServer(failed) ==
    IF settings.randomServer
    THEN /\ lastUsedServerIndex' \in 0 .. servers - 1
         /\ previousConnectionAttemptFailed' = failed
    ELSE /\ previousConnectionAttemptFailed' = FALSE
         /\ lastUsedServerIndex' =
                IF failed /\ lastUsedServerIndex + 1 < servers
                THEN lastUsedServerIndex + 1
                ELSE 0

\* QAbstractSocket::connectToHost(): an unconnected socket reports HostLookup
\* at once; on a busy one the call does nothing but report an error, and an
\* encrypted socket that is already connecting does not even that.
ConnectToHost(now) ==
    IF now.socket = "Unconnected"
    THEN /\ socket' = "HostLookup"
         /\ pendingClose' = FALSE
         /\ errorDue' = now.errorDue
         /\ connectionState' = Shown(now, StateFor("HostLookup"))
    ELSE /\ errorDue' \in BOOLEAN
         /\ connectionState' = Shown(now, now.state)
         /\ UNCHANGED <<socket, pendingClose>>

\* connectToIrc() gives up on an empty server list or a missing identity, but
\* only after it has refilled the retry counter.
CanConnect == servers > 0 /\ identityValid

ConnectToIrc(reconnecting, now) ==
    /\ autoReconnectTimer' = now.timer
    /\ autoReconnectCount' =
           IF ~reconnecting /\ settings.autoReconnect /\ now.count = 0
           THEN FullCount
           ELSE now.count
    /\ IF CanConnect
       THEN /\ PickServer(now.failed)
            /\ pingTimer' = (now.ping \/ pingTimeoutEnabled)
            /\ pingCount' = 0
            /\ ConnectToHost(now)
       ELSE /\ socket' = now.socket
            /\ errorDue' = now.errorDue
            /\ connectionState' = Shown(now, now.state)
            /\ previousConnectionAttemptFailed' = now.failed
            /\ pingTimer' = now.ping
            /\ pingCount' = now.misses
            /\ UNCHANGED <<pendingClose, lastUsedServerIndex>>

\* Mutant: the counter is decremented unconditionally.
ReconnectCountsDown(now) == ConnectToIrc(TRUE, [now EXCEPT !.count = @ - 1])

\* doAutoReconnect() past its guard.
Reconnect(now) ==
    ConnectToIrc(TRUE, IF now.count > 0 \/ now.count = -1
                       THEN [now EXCEPT !.count = @ - 1]
                       ELSE now)

\* socketDisconnected() when it does not reconnect on the spot.
StayDown(now, state) ==
    /\ socket' = now.socket
    /\ errorDue' = now.errorDue
    /\ connectionState' = Shown(now, state)
    /\ autoReconnectCount' = now.count
    /\ autoReconnectTimer' = now.timer
    /\ pingTimer' = now.ping
    /\ pingCount' = now.misses
    /\ previousConnectionAttemptFailed' = now.failed
    /\ UNCHANGED <<pendingClose, lastUsedServerIndex>>

\* Mutant: the timer is started for counted retries only.
OnlyCountedRetries(now) ==
    CASE now.quit -> StayDown(now, "Disconnected")
      [] ~now.quit /\ now.count \in {-1, settings.retries} ->
             Reconnect([now EXCEPT !.state = "Reconnecting"])
      [] ~now.quit /\ now.count > 0 /\ now.count # settings.retries ->
             StayDown([now EXCEPT !.timer = TRUE], "Reconnecting")
      [] OTHER -> StayDown(now, now.state)

\* Which of the branches at the end of socketDisconnected() is taken.
AfterDisconnect(now) ==
    CASE now.quit -> StayDown(now, "Disconnected")
      [] ~now.quit /\ now.count = 0 -> StayDown(now, now.state)
      [] ~now.quit /\ now.count \in {-1, settings.retries} ->
             Reconnect([now EXCEPT !.state = "Reconnecting"])
      [] OTHER -> StayDown([now EXCEPT !.timer = TRUE], "Reconnecting")

\* Its signal disconnected() runs the session's destroyNetwork() when the
\* network is being removed.
SocketDisconnected(now) ==
    /\ sendPings' = FALSE
    /\ connected' = FALSE
    /\ status' = IF now.status = "removing" THEN "doomed" ELSE now.status
    /\ persisted' = (persisted /\ ~now.quit /\ now.status = "present")
    /\ quitRequested' = FALSE
    /\ disconnectExpected' = FALSE
    /\ socketCloseTimer' = FALSE
    /\ AfterDisconnect([now EXCEPT !.ping = FALSE, !.misses = 0])

\* Mutant: the retry counter is cleared but the timer is left running.
KeepsTimer(requested, withReconnect, now) ==
    [now EXCEPT !.quit = requested, !.count = IF withReconnect THEN @ ELSE 0]

\* disconnectFromIrc() forgets the retries unless it is to reconnect ...
QuitFields(requested, withReconnect, now) ==
    [now EXCEPT !.quit = requested,
                !.count = IF withReconnect THEN @ ELSE 0,
                !.timer = @ /\ withReconnect]

\* Mutant: only a disconnect that reconnects is bounded.
CloseTimerOnReconnect(requested, withReconnect) == socketCloseTimer \/ withReconnect

\* ... and gives the server ten seconds, except when the core shuts down.
CloseTimerRuns(requested, withReconnect) ==
    socketCloseTimer \/ requested \/ withReconnect

\* Its QUIT only asks the server to close the socket; a
\* socket that is not connected yet is marked to close, a closing one is left.
DisconnectFromIrc(requested, withReconnect, now) ==
    LET then == QuitFields(requested, withReconnect, now)
    IN  IF now.socket = "Unconnected"
        THEN SocketDisconnected(then)
        ELSE /\ quitRequested' = requested
             /\ disconnectExpected' = TRUE
             /\ socketCloseTimer' = CloseTimerRuns(requested, withReconnect)
             /\ autoReconnectCount' = then.count
             /\ autoReconnectTimer' = then.timer
             /\ pingTimer' = FALSE
             /\ sendPings' = FALSE
             /\ pingCount' = 0
             /\ pendingClose' = (pendingClose \/ now.socket \in {"HostLookup", "Connecting"})
             /\ socket' = now.socket
             /\ connectionState' = now.state
             /\ status' = now.status
             /\ UNCHANGED <<errorDue, connected, serverVars, persisted>>

----------------------------------------------------------------------------
(* What the clients ask for.                                                *)

RequestConnect ==
    /\ Idle
    /\ connectionState = "Disconnected"
    /\ posted < MaxPosted
    /\ posted' = posted + 1
    /\ userQuit' = FALSE
    /\ UNCHANGED <<socketVars, greeted, connectionState, lifeVars, quitVars,
                   serverVars, retryVars, pingVars, configVars, running>>

\* The user's QUIT command is not checked against the connection state ...
HandleQuit ==
    /\ Idle
    /\ userQuit' = TRUE
    /\ DisconnectFromIrc(TRUE, FALSE, Now)
    /\ UNCHANGED <<greeted, configVars, queueVars>>

\* ... the client's disconnect request is.
RequestDisconnect ==
    /\ connectionState # "Disconnected"
    /\ HandleQuit

\* requestSetNetworkInfo(): the retry counter is refilled from the new number
\* of retries but from the old "unlimited" flag, which is assigned later.  An
\* empty server list is not taken over; the index follows the used server if
\* the new list still has it.
RequestSetNetworkInfo(new, n) ==
    /\ Idle
    /\ new # settings \/ n # servers
    /\ settings' = new
    /\ servers' = n
    /\ lastUsedServerIndex' \in 0 .. n - 1
    /\ autoReconnectTimer' =
           (autoReconnectTimer /\ (new.autoReconnect \/ ~settings.autoReconnect))
    /\ autoReconnectCount' =
           IF new.retries = settings.retries \/ autoReconnectCount = 0
           THEN autoReconnectCount
           ELSE IF settings.unlimited THEN -1 ELSE new.retries
    /\ UNCHANGED <<socketVars, greeted, connectionState, lifeVars, quitVars,
                   previousConnectionAttemptFailed, pingVars, identityValid,
                   pingTimeoutEnabled, queueVars, userQuit>>

\* The identity the network uses is created or removed.
SetIdentity ==
    /\ Idle
    /\ identityValid' = ~identityValid
    /\ UNCHANGED <<socketVars, greeted, connectionState, lifeVars, quitVars,
                   serverVars, retryVars, pingVars, settings, servers,
                   pingTimeoutEnabled, queueVars, userQuit>>

\* pingTimeoutEnabledSet(bool) reaches every network, connected or not.
SetPingTimeoutEnabled ==
    /\ Idle
    /\ pingTimeoutEnabled' = ~pingTimeoutEnabled
    /\ pingTimer' = pingTimeoutEnabled'
    /\ sendPings' = (sendPings /\ pingTimeoutEnabled')
    /\ pingCount' = 0
    /\ UNCHANGED <<socketVars, greeted, connectionState, lifeVars, quitVars,
                   serverVars, retryVars, settings, servers, identityValid,
                   queueVars, userQuit>>

\* CoreSession::removeNetwork(): disconnect first, or destroy at once.
RemoveNetwork ==
    /\ Idle
    /\ userQuit' = TRUE
    /\ \/ /\ connectionState # "Disconnected"
          /\ DisconnectFromIrc(TRUE, FALSE, [Now EXCEPT !.status = "removing"])
       \/ /\ connectionState = "Disconnected"
          /\ status' = "doomed"
          /\ persisted' = FALSE
          /\ UNCHANGED <<socketVars, connectionState, connected, quitVars,
                         serverVars, retryVars, pingVars>>
    /\ UNCHANGED <<greeted, configVars, queueVars>>

----------------------------------------------------------------------------
(* The event queue.                                                         *)

\* sendPostedEvents() runs everything that is queued when it starts.
RunPosted ==
    /\ ~errorDue
    /\ running = 0
    /\ ~(pendingClose /\ socket = "Connected")
    /\ status # "gone"
    /\ posted > 0
    /\ running' = posted
    /\ posted' = 0
    /\ UNCHANGED <<socketVars, greeted, connectionState, lifeVars, quitVars,
                   serverVars, retryVars, pingVars, configVars, userQuit>>

ConnectPosted ==
    /\ ~errorDue
    /\ running > 0
    /\ running' = running - 1
    /\ ConnectToIrc(FALSE, Now)
    /\ userQuit' = FALSE
    /\ UNCHANGED <<greeted, lifeVars, quitVars, sendPings, configVars, posted>>

\* A network object is destroyed, with its socket and its timers.
Reset ==
    /\ socket' = "Unconnected" /\ pendingClose' = FALSE /\ errorDue' = FALSE
    /\ greeted' = FALSE
    /\ connectionState' = "Disconnected" /\ connected' = FALSE
    /\ quitRequested' = FALSE /\ disconnectExpected' = FALSE
    /\ socketCloseTimer' = FALSE
    /\ previousConnectionAttemptFailed' = FALSE /\ lastUsedServerIndex' = 0
    /\ autoReconnectCount' = 0 /\ autoReconnectTimer' = FALSE
    /\ pingTimer' = FALSE /\ sendPings' = FALSE /\ pingCount' = 0
    /\ posted' = 0
    /\ userQuit' = FALSE
    /\ UNCHANGED <<configVars, persisted>>

\* The deferred deletion of a network the session has removed.
Delete ==
    /\ status = "doomed"
    /\ ~errorDue /\ running = 0 /\ posted = 0
    /\ Reset
    /\ status' = "gone"
    /\ UNCHANGED running

----------------------------------------------------------------------------
(* Timers.                                                                  *)

AutoReconnectTimeout ==
    /\ Idle
    /\ autoReconnectTimer
    /\ LET now == [Now EXCEPT !.timer = FALSE]
       IN  IF connectionState \in {"Disconnected", "Reconnecting"}
           THEN Reconnect(now)
           ELSE /\ autoReconnectTimer' = FALSE
                /\ UNCHANGED <<socketVars, connectionState, serverVars,
                               autoReconnectCount, pingTimer, pingCount>>
    /\ UNCHANGED <<greeted, lifeVars, quitVars, sendPings, configVars,
                   queueVars, userQuit>>

\* sendPing().  `late': the thread was blocked, so the misses do not count.
\* The counter is compared with MaxPingCount only and stops there.
SendPing(late) ==
    /\ Idle
    /\ pingTimer
    /\ IF pingCount >= MaxPingCount /\ ~late
       THEN DisconnectFromIrc(FALSE, TRUE, Now)
       ELSE /\ pingCount' = IF pingCount < MaxPingCount THEN pingCount + 1 ELSE pingCount
            /\ UNCHANGED <<socketVars, connectionState, lifeVars, quitVars,
                           serverVars, retryVars, pingTimer, sendPings>>
    /\ UNCHANGED <<greeted, configVars, queueVars, userQuit>>

\* QAbstractSocket::abort(): Closing now, Unconnected follows.
AbortSocket ==
    /\ socket \in {"HostLookup", "Connecting", "Connected"}
    /\ socket' = "Closing"
    /\ connectionState' = StateFor("Closing")
    /\ pendingClose' = FALSE
    /\ UNCHANGED <<errorDue, greeted, lifeVars, quitVars, serverVars,
                   retryVars, pingVars, configVars, queueVars, userQuit>>

\* Mutant: the timeout does nothing once the quit flag has been reset.
TimeoutIfQuit == Idle /\ socketCloseTimer /\ quitRequested /\ AbortSocket

SocketCloseTimeout ==
    /\ Idle
    /\ socketCloseTimer
    /\ AbortSocket

----------------------------------------------------------------------------
(* Signals of the socket.                                                   *)

HostFound ==
    /\ Idle
    /\ socket = "HostLookup"
    /\ socket' = "Connecting"
    /\ connectionState' = StateFor("Connecting")
    /\ UNCHANGED <<pendingClose, errorDue, greeted, lifeVars, quitVars,
                   serverVars, retryVars, pingVars, configVars, queueVars,
                   userQuit>>

\* stateChanged(Connected), then connected() and its slot socketInitialized().
\* An encrypted connection greets the server in a second call, EncryptedSocket.
ConnectedSocket(encrypts) ==
    /\ Idle
    /\ socket = "Connecting"
    /\ greeted' = (identityValid /\ ~encrypts)
    /\ IF identityValid
       THEN /\ socket' = "Connected"
            /\ connectionState' = StateFor("Connected")
            /\ UNCHANGED <<pendingClose, errorDue, lifeVars, quitVars,
                           serverVars, retryVars, pingVars>>
       ELSE DisconnectFromIrc(TRUE, FALSE, [Now EXCEPT !.socket = "Connected",
                                                       !.state = StateFor("Connected")])
    /\ UNCHANGED <<configVars, queueVars, userQuit>>

EncryptedSocket ==
    /\ Idle
    /\ socket = "Connected"
    /\ ~greeted
    /\ greeted' = identityValid
    /\ IF identityValid
       THEN UNCHANGED <<socketVars, connectionState, lifeVars, quitVars,
                        serverVars, retryVars, pingVars>>
       ELSE DisconnectFromIrc(TRUE, FALSE, Now)
    /\ UNCHANGED <<configVars, queueVars, userQuit>>

\* A connect attempt fails: stateChanged(Unconnected), error() still to come.
ConnectFails ==
    /\ Idle
    /\ socket \in {"HostLookup", "Connecting"}
    /\ SocketDisconnected([Now EXCEPT !.socket = "Unconnected",
                                      !.errorDue = TRUE,
                                      !.overwritten = TRUE])
    /\ UNCHANGED <<greeted, configVars, queueVars, userQuit>>

\* socketError() for the errors of connectToHost() and of a failed connect.
SocketError ==
    /\ errorDue
    /\ LET now == [Now EXCEPT !.errorDue = FALSE, !.failed = TRUE]
       IN  IF socket \in {"Unconnected", "HostLookup", "Connecting"}
           THEN SocketDisconnected(now)
           ELSE /\ errorDue' = FALSE
                /\ previousConnectionAttemptFailed' = TRUE
                /\ UNCHANGED <<socket, pendingClose, connectionState, lifeVars,
                               quitVars, lastUsedServerIndex, retryVars, pingVars>>
    /\ UNCHANGED <<greeted, configVars, queueVars, userQuit>>

\* An established connection breaks: error() while still connected, then
\* stateChanged(Closing).  A close by the server is no error if expected.
ConnectionLost(closedByServer) ==
    /\ Idle
    /\ socket = "Connected"
    /\ socket' = "Closing"
    /\ connectionState' = StateFor("Closing")
    /\ previousConnectionAttemptFailed' =
           (previousConnectionAttemptFailed \/ ~(closedByServer /\ disconnectExpected))
    /\ UNCHANGED <<pendingClose, errorDue, greeted, lifeVars, quitVars,
                   lastUsedServerIndex, retryVars, pingVars, configVars,
                   queueVars, userQuit>>

\* The close that disconnectFromHost() had put off until the connect was done.
DeferredClose ==
    /\ ~errorDue /\ running = 0
    /\ pendingClose
    /\ socket = "Connected"
    /\ pendingClose' = FALSE
    /\ socket' = "Closing"
    /\ connectionState' = StateFor("Closing")
    /\ UNCHANGED <<errorDue, greeted, lifeVars, quitVars, serverVars,
                   retryVars, pingVars, configVars, queueVars, userQuit>>

ClosedSocket ==
    /\ Idle
    /\ socket = "Closing"
    /\ greeted' = FALSE
    /\ SocketDisconnected([Now EXCEPT !.socket = "Unconnected",
                                      !.overwritten = TRUE])
    /\ UNCHANGED <<configVars, queueVars, userQuit>>

----------------------------------------------------------------------------
(* The IRC server.                                                          *)

\* Every line read from the server resets the ping counter.
LineReceived ==
    /\ Idle
    /\ socket = "Connected"
    /\ pingCount # 0
    /\ pingCount' = 0
    /\ UNCHANGED <<socketVars, greeted, connectionState, lifeVars, quitVars,
                   serverVars, retryVars, pingTimer, sendPings, configVars,
                   queueVars, userQuit>>

\* RPL_WELCOME: processIrcEvent001, setMyNick and networkInitialized().
Welcome ==
    /\ Idle
    /\ socket = "Connected"
    /\ greeted
    /\ connectionState = "Initializing"
    /\ connectionState' = "Initialized"
    /\ connected' = TRUE
    /\ disconnectExpected' = FALSE
    /\ quitRequested' = FALSE
    /\ autoReconnectCount' = IF settings.autoReconnect THEN FullCount ELSE autoReconnectCount
    /\ sendPings' = TRUE
    /\ pingCount' = 0
    /\ persisted' = TRUE
    /\ UNCHANGED <<socketVars, greeted, socketCloseTimer, serverVars,
                   autoReconnectTimer, pingTimer, configVars, queueVars,
                   status, userQuit>>

----------------------------------------------------------------------------
Init ==
    /\ socket = "Unconnected" /\ pendingClose = FALSE /\ errorDue = FALSE
    /\ greeted = FALSE
    /\ connectionState = "Disconnected" /\ connected = FALSE
    /\ quitRequested = FALSE /\ disconnectExpected = FALSE
    /\ socketCloseTimer = FALSE
    /\ previousConnectionAttemptFailed = FALSE /\ lastUsedServerIndex = 0
    /\ autoReconnectCount = 0 /\ autoReconnectTimer = FALSE
    /\ pingTimer = FALSE /\ sendPings = FALSE /\ pingCount = 0
    /\ settings \in Settings
    /\ servers \in 0 .. MaxServers
    /\ identityValid \in BOOLEAN
    /\ pingTimeoutEnabled \in BOOLEAN
    /\ posted = 0 /\ running = 0
    /\ status = "present"
    /\ persisted = FALSE
    /\ userQuit = FALSE

\* The core stops, cleanly or not, and starts again: a network that is in the
\* database is created anew and restoreSessionState() connects it if it was
\* connected when the core went down.
Restart ==
    /\ status \in {"present", "removing"}
    /\ Reset
    /\ running' = IF persisted THEN 1 ELSE 0
    /\ status' = "present"

Client ==
    \/ RequestConnect
    \/ HandleQuit
    \/ RequestDisconnect
    \/ \E new \in Settings, n \in 1 .. MaxServers : RequestSetNetworkInfo(new, n)
    \/ SetIdentity
    \/ SetPingTimeoutEnabled
    \/ RemoveNetwork

\* What the event loop, the operating system and the timers do by themselves.
Loop == RunPosted \/ ConnectPosted \/ Delete \/ SocketError \/ DeferredClose

SocketSignal ==
    \/ HostFound
    \/ \E encrypts \in BOOLEAN : ConnectedSocket(encrypts)
    \/ ConnectFails
    \/ ClosedSocket

Next ==
    \/ Client
    \/ Loop
    \/ SocketSignal
    \/ EncryptedSocket
    \/ \E closedByServer \in BOOLEAN : ConnectionLost(closedByServer)
    \/ AutoReconnectTimeout
    \/ \E late \in BOOLEAN : SendPing(late)
    \/ SocketCloseTimeout
    \/ LineReceived
    \/ Welcome
    \/ Restart

Spec == Init /\ [][Next]_vars

\* The event loop runs, a connect attempt or a close comes to an end in the
\* operating system, and the close timer fires.  What is pending stays pending
\* while the loop is busy with another event, hence strong fairness.  Nothing
\* is assumed of the IRC server; of the clients, that they do not restart the
\* close timer for ever by repeating the request.
Fairness ==
    /\ WF_vars(Loop)
    /\ SF_vars(SocketSignal)
    /\ SF_vars(SocketCloseTimeout)

FairSpec == Spec /\ Fairness

----------------------------------------------------------------------------
(* Properties.                                                              *)

TypeOK ==
    /\ socket \in SocketStates /\ pendingClose \in BOOLEAN
    /\ errorDue \in BOOLEAN /\ greeted \in BOOLEAN
    /\ connectionState \in ConnectionStates /\ connected \in BOOLEAN
    /\ quitRequested \in BOOLEAN /\ disconnectExpected \in BOOLEAN
    /\ socketCloseTimer \in BOOLEAN
    /\ previousConnectionAttemptFailed \in BOOLEAN /\ lastUsedServerIndex \in Nat
    /\ autoReconnectCount \in Int /\ autoReconnectCount >= -2
    /\ autoReconnectTimer \in BOOLEAN
    /\ pingTimer \in BOOLEAN /\ sendPings \in BOOLEAN
    /\ pingCount \in 0 .. MaxPingCount
    /\ settings \in Settings /\ servers \in 0 .. MaxServers
    /\ identityValid \in BOOLEAN /\ pingTimeoutEnabled \in BOOLEAN
    /\ posted \in 0 .. MaxPosted /\ running \in 0 .. MaxPosted
    /\ status \in Statuses /\ persisted \in BOOLEAN /\ userQuit \in BOOLEAN

\* A network counts as connected exactly from its welcome until its socket is
\* closed, and whenever it does, a restarted core will connect it again.  In
\* particular setConnected(false), which sets an empty nick, never finds the
\* network in the state in which setting a nick means initialising it.
ConnectedMeansLive ==
    /\ connected => /\ socket \in {"Connected", "Closing"}
                    /\ connectionState \in {"Initialized", "Disconnecting"}
                    /\ persisted
    /\ connectionState = "Initialized" => connected

\* While a disconnect the user asked for is under way no retry is pending and
\* the timer that bounds the wait for the server runs: whatever the socket was
\* doing, connecting, being initialised or being set up, when the user quit.
QuitInProgress ==
    quitRequested => /\ ~autoReconnectTimer
                     /\ socketCloseTimer
                     /\ socket # "Unconnected"

\* A connection that comes to an end with retries left is retried: at once, or
\* by the timer, unless the user asked for the end.  Turning
\* automatic reconnection off, and a network with no server or identity, are
\* the ways to be left with retries and no timer.
LostConnectionIsRetried ==
    [][ (/\ SocketSignal \/ SocketError \/ AutoReconnectTimeout
         /\ CanConnect /\ ~quitRequested
         /\ socket' = "Unconnected" /\ ~errorDue' /\ autoReconnectCount' # 0)
        => autoReconnectTimer' ]_vars

\* A disconnect the user asked for comes to an end whatever the server does:
\* if it does not close the connection, the close timer aborts it.
QuitEnds == quitRequested ~> ~quitRequested

\* A network being removed is finally destroyed, or a restart brings it back.
RemovalEnds == status = "removing" ~> status # "removing"

\* corenetwork.h on disconnectFromIrc(): "If true, user requested this
\* disconnect; don't try to reconnect".  After the user's last word was to
\* disconnect (and no earlier connect request is still queued), no connection
\* attempt starts.
QuitIsFinal ==
    [][ userQuit /\ userQuit' => ~(socket # "HostLookup" /\ socket' = "HostLookup") ]_vars
============================================================================
