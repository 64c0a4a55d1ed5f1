------------------------------ MODULE IdentServer ------------------------------
(***************************************************************************)
(* The ident server of the core.  An IRC server may ask whose connection a   *)
(* port belongs to before the core knows that the connection is made.  So    *)
(* each network takes a number before it connects, and a question about an   *)
(* unknown port waits until no connection with a lower number is under way.  *)
(*                                                                         *)
(* The numbers are taken in the threads of the networks, without a lock; the *)
(* rest runs in the core thread, which is told of sockets by posted events.  *)
(* Each network has a thread and a port of its own here, the same port for   *)
(* each of its connections.                                                  *)
(***************************************************************************)
EXTENDS Naturals, Sequences, FiniteSets, SequencesExt

CONSTANTS
    Networks,
    NoId,           \* not a number
    MaxSocketId,    \* bound: how many numbers are taken
    MaxRequests     \* bound: questions asked

ASSUME IdentAssumption == NoId \notin Nat /\ MaxSocketId \in Nat /\ MaxRequests \in Nat

VARIABLES
    socketId,       \* _socketId of IdentServer
    waiting,        \* _waiting: numbers of connections under way
    connections,    \* _connections: ports that are known
    requestQueue,   \* _requestQueue
    posted,         \* events for the core thread
    stage,          \* of a network: what it does about its connection
    mine,           \* _socketId of CoreNetwork
    failing,        \* networks whose socket is about to report the error of a failed attempt
    asked,          \* history: of each question, whose port, for which connection, and the answer
    spoiled,        \* history: numbers whose account the code has got wrong
    taken           \* history: how many numbers were taken

server == <<socketId, waiting, connections, requestQueue>>
vars == <<server, posted, stage, mine, failing, asked, spoiled, taken>>

\* A connection is there from the moment the server may have accepted it.
Alive(n) == stage[n] \in {"connecting", "reporting", "up"}
Goto(n, s) == stage' = [stage EXCEPT ![n] = s]

----------------------------------------------------------------------------
(* IdentServer::addWaitingSocket(), in the thread of a network.             *)

\* _socketId++ reads, then writes.  Another thread may do so in between.
ReadSocketId(n) ==
    /\ stage[n] = "idle"
    /\ taken < MaxSocketId
    /\ taken' = taken + 1
    /\ mine' = [mine EXCEPT ![n] = socketId]
    /\ Goto(n, "counting")
    /\ UNCHANGED <<server, posted, failing, asked, spoiled>>

\* The numbers the counter runs back under while it goes back to i + 1: one that is not yet
\* in the list, or stands there behind a higher one, is not looked for by lowestSocketId().
Overtaken(i) ==
    {mine[k] : k \in {k \in Networks : stage[k] = "pushing"}}
      \union {waiting[q] : q \in {q \in DOMAIN waiting : \E p \in 1 .. q - 1 : waiting[p] > i}}

\* A number that was written in between is taken again.
WriteSocketId(n) ==
    /\ stage[n] = "counting"
    /\ socketId' = mine[n] + 1
    /\ spoiled' = IF socketId = mine[n] THEN spoiled
                  ELSE spoiled \union mine[n] .. MaxSocketId \union Overtaken(mine[n])
    /\ Goto(n, "pushing")
    /\ UNCHANGED <<waiting, connections, requestQueue, posted, mine, failing, asked, taken>>

\* One of two nodes that are appended at once may get lost.  Then connectToIrc() goes
\* on, or returns for want of a server or of an identity.
PushWaiting(n) ==
    /\ stage[n] = "pushing"
    /\ \/ waiting' = Append(waiting, mine[n]) /\ UNCHANGED spoiled
       \/ /\ \E k \in Networks \ {n} : stage[k] = "pushing"
          /\ spoiled' = spoiled \union {mine[n]}
          /\ UNCHANGED waiting
    /\ Goto(n, "connecting") \/ Goto(n, "idle")
    /\ UNCHANGED <<socketId, connections, requestQueue, posted, mine, failing, asked, taken>>

----------------------------------------------------------------------------
(* CoreNetwork.                                                             *)

\* socketInitialized(): the thread waits until the core thread has the socket.
SocketInitialized(n) ==
    /\ stage[n] = "connecting" /\ n \notin failing
    /\ Goto(n, "reporting")
    /\ posted' = Append(posted, [kind |-> "add", port |-> n, id |-> mine[n]])
    /\ UNCHANGED <<server, mine, failing, asked, spoiled, taken>>

\* Mutant: the network forgets its number.
SocketDisconnectedForgets(n) ==
    /\ stage[n] \in {"connecting", "up"} /\ n \notin failing
    /\ Goto(n, "idle")
    /\ posted' = Append(posted, [kind |-> "remove", port |-> n, id |-> mine[n]])
    /\ mine' = [mine EXCEPT ![n] = NoId]
    /\ \/ UNCHANGED failing
       \/ stage[n] = "connecting" /\ failing' = failing \union {n}
    /\ UNCHANGED <<server, asked, spoiled, taken>>

\* socketDisconnected(), of a connection that was made, or of an attempt that was given up
\* or failed; then error() follows, perhaps after a retry.
SocketDisconnected(n) ==
    /\ stage[n] \in {"connecting", "up"} /\ n \notin failing
    /\ Goto(n, "idle")
    /\ posted' = Append(posted, [kind |-> "remove", port |-> n, id |-> mine[n]])
    /\ \/ UNCHANGED failing
       \/ stage[n] = "connecting" /\ failing' = failing \union {n}
    /\ UNCHANGED <<server, mine, asked, spoiled, taken>>

\* socketError(): socketDisconnected() again, with the number of the retry if there is one.
SocketError(n) ==
    /\ n \in failing /\ stage[n] \in {"idle", "connecting"}
    /\ failing' = failing \ {n}
    /\ posted' = Append(posted, [kind |-> "remove", port |-> n, id |-> mine[n]])
    /\ spoiled' = IF stage[n] = "connecting" THEN spoiled \union {mine[n]} ELSE spoiled
    /\ UNCHANGED <<server, stage, mine, asked, taken>>

----------------------------------------------------------------------------
(* The core thread.                                                         *)

LowestSocketId == IF waiting = <<>> THEN MaxSocketId + 1 ELSE Head(waiting)

Ask(n, answer) ==
    asked' = Append(asked, [port |-> n, about |-> IF Alive(n) THEN mine[n] ELSE NoId, answer |-> answer])

\* Mutant: a question about an unknown port does not wait.
RespondAtOnce(n) ==
    /\ Len(asked) < MaxRequests
    /\ Ask(n, IF n \in connections THEN "USERID" ELSE "NO-USER")
    /\ UNCHANGED <<server, posted, stage, mine, failing, spoiled, taken>>

\* incomingConnection() and respond(): somebody asks about the port of n.
Respond(n) ==
    /\ Len(asked) < MaxRequests
    /\ IF n \in connections
       THEN Ask(n, "USERID") /\ UNCHANGED requestQueue
       ELSE IF LowestSocketId < socketId
       THEN /\ Ask(n, "waits")
            /\ requestQueue' = requestQueue \union
                   {[port |-> n, transactionId |-> socketId, requestId |-> Len(asked) + 1]}
       ELSE Ask(n, "NO-USER") /\ UNCHANGED requestQueue
    /\ UNCHANGED <<socketId, waiting, connections, posted, stage, mine, failing, spoiled, taken>>

\* The numbers that are left of the list s without id, in their order.
Nth(places, k) == CHOOSE i \in places : Cardinality({j \in places : j <= i}) = k
Without(s, id) ==
    LET places == {i \in DOMAIN s : s[i] # id}
    IN  [k \in 1 .. Cardinality(places) |-> s[Nth(places, k)]]

Requested(a) == CHOOSE r \in requestQueue : r.requestId = a

\* What processWaiting(id) makes of a request once the ports ps are known and id is gone
\* from the list w; w is empty or its head is lowestSocketId().
Verdict(request, id, ps, w) ==
    IF id < request.transactionId /\ request.port \in ps THEN "USERID"
    ELSE IF w # <<>> /\ Head(w) < request.transactionId THEN "waits"
    ELSE "NO-USER"

\* Mutant: only the requests that can be answered are taken out.
ProcessFound(id, ps) ==
    LET Found(r) == id < r.transactionId /\ r.port \in ps
    IN  /\ waiting' = Without(waiting, id)
        /\ requestQueue' = {r \in requestQueue : ~Found(r)}
        /\ asked' = [a \in DOMAIN asked |->
              IF asked[a].answer = "waits" /\ Found(Requested(a))
              THEN [asked[a] EXCEPT !.answer = "USERID"] ELSE asked[a]]

\* removeWaitingSocket() and processWaiting().
ProcessWaiting(id, ps) ==
    LET w == Without(waiting, id)
    IN  /\ waiting' = w
        /\ requestQueue' = {r \in requestQueue : Verdict(r, id, ps, w) = "waits"}
        /\ asked' = [a \in DOMAIN asked |->
              IF asked[a].answer = "waits"
              THEN [asked[a] EXCEPT !.answer = Verdict(Requested(a), id, ps, w)] ELSE asked[a]]

\* addSocket(); the thread of the network goes on.
AddSocket(e) ==
    /\ e.kind = "add"
    /\ connections' = connections \union {e.port}
    /\ ProcessWaiting(e.id, connections \union {e.port})
    /\ Goto(e.port, "up")

\* removeSocket().
RemoveSocket(e) ==
    /\ e.kind = "remove"
    /\ connections' = connections \ {e.port}
    /\ ProcessWaiting(e.id, connections \ {e.port})
    /\ UNCHANGED stage

CoreEvent ==
    /\ posted # <<>>
    /\ posted' = Tail(posted)
    /\ AddSocket(Head(posted)) \/ RemoveSocket(Head(posted))
    /\ UNCHANGED <<socketId, mine, failing, spoiled, taken>>

----------------------------------------------------------------------------
Init ==
    /\ socketId = 0 /\ waiting = <<>>
    /\ connections = {} /\ requestQueue = {}
    /\ posted = <<>>
    /\ stage = [n \in Networks |-> "idle"]
    /\ mine = [n \in Networks |-> NoId]
    /\ asked = <<>>
    /\ failing = {}
    /\ spoiled = {}
    /\ taken = 0

Next ==
    \/ \E n \in Networks :
          \/ ReadSocketId(n) \/ WriteSocketId(n) \/ PushWaiting(n)
          \/ SocketInitialized(n) \/ SocketDisconnected(n) \/ SocketError(n) \/ Respond(n)
    \/ CoreEvent

\* The loops run, and the operating system makes or gives up each connection.
Fairness ==
    /\ WF_vars(CoreEvent)
    /\ \A n \in Networks :
          /\ WF_vars(WriteSocketId(n)) /\ WF_vars(PushWaiting(n)) /\ WF_vars(SocketError(n))
          /\ WF_vars(SocketInitialized(n) \/ (stage[n] = "connecting" /\ SocketDisconnected(n)))

Spec == Init /\ [][Next]_vars /\ Fairness

----------------------------------------------------------------------------
(* Properties.                                                              *)

\* Numbers, ports and requests are what they are said to be, and a request in the queue
\* is one that was not answered.
TypeOK ==
    /\ socketId \in 0 .. MaxSocketId
    /\ waiting \in Seq(0 .. MaxSocketId) /\ connections \subseteq Networks
    /\ requestQueue \subseteq [port : Networks, transactionId : 0 .. MaxSocketId, requestId : 1 .. MaxRequests]
    /\ posted \in Seq([kind : {"add", "remove"}, port : Networks, id : 0 .. MaxSocketId])
    /\ stage \in [Networks -> {"idle", "counting", "pushing", "connecting", "reporting", "up"}]
    /\ mine \in [Networks -> 0 .. MaxSocketId \union {NoId}]
    /\ asked \in Seq([port : Networks, about : 0 .. MaxSocketId \union {NoId},
                      answer : {"waits", "USERID", "NO-USER"}])
    /\ taken \in 0 .. MaxSocketId
    /\ failing \subseteq Networks /\ spoiled \subseteq 0 .. MaxSocketId

\* A server that asks about a connection is never told NO-USER while that connection
\* lasts, whenever it asks and however many others are made at the time, unless its number
\* was taken twice, lost, overtaken or reported by mistake (IdentServer::processWaiting()).
NoUserIsTrue ==
    \A i \in DOMAIN asked :
       LET a == asked[i] IN
       a.answer = "NO-USER" /\ a.about \notin spoiled \union {NoId} => ~(Alive(a.port) /\ mine[a.port] = a.about)

\* Numbers that nobody will give back: of connects that were ignored, or taken twice.
Leaked ==
    {i \in ToSet(waiting) :
        /\ ~\E n \in Networks : stage[n] \in {"connecting", "reporting"} /\ mine[n] = i
        /\ ~\E e \in ToSet(posted) : e.id = i}

\* Every question is answered in the end, unless a number has leaked.
QuestionsAreAnswered ==
    \A i \in 1 .. MaxRequests :
       (i \in DOMAIN asked /\ asked[i].answer = "waits") ~>
           (Leaked # {} \/ (i \in DOMAIN asked /\ asked[i].answer # "waits"))
==============================================================================
