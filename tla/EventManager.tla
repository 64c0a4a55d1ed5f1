--------------------------- MODULE EventManager ---------------------------
(***************************************************************************)
(* How the core's event manager gives the events of one session to the     *)
(* objects that registered for them.                                       *)
(*                                                                         *)
(* A handler may post events itself: the parser posts what it parsed, the  *)
(* stringifier posts messages for the clients.  postEvent() was meant to   *)
(* collect such events while one is dispatched: "dispatching the event     *)
(* might cause new events to be generated. we process those afterwards."   *)
(* (src/src/common/eventmanager.cpp:242).  This module has what it does.   *)
(* The calls nest, so the events in progress are a stack.                  *)
(***************************************************************************)
EXTENDS Naturals, Sequences, SequencesExt

CONSTANTS
    Types,      \* the types of events
    ClassesOf,  \* the types a type is looked up as, the most specific first
    Registered, \* the objects that registered for each type, in their order
    Filtering,  \* the objects that registered a filter
    Posts,      \* the types of the events that each object posts as a handler
    MaxPosts    \* the bound on the events posted

VARIABLES
    stack,      \* the events being dispatched, the innermost last
    eventQueue, \* EventManager::_eventQueue
    posts       \* the number of events posted

vars == <<stack, eventQueue, posts>>

Put(existing, object, checkDupes) ==
    IF checkDupes /\ object \in ToSet(existing) THEN existing ELSE Append(existing, object)

\* The objects that get an event of type t.  The priorities decide nothing:
\* a handler always comes after all that are there, and an object that has a
\* more specific one is left out (insertHandlers() looks for a place by priority
\* and then inserts at the end, whatever coresession.cpp:124-131 counts on).
Handlers(t) ==
    LET Add(existing, k) == FoldLeft(LAMBDA acc, object : Put(acc, object, k > 1), existing, Registered[ClassesOf[t][k]])
    IN  FoldLeft(Add, <<>>, [k \in DOMAIN ClassesOf[t] |-> k])

\* An event as dispatchEvent() starts with it, from the queue or not.
Dispatched(t, queued) == [handlers |-> Handlers(t), ignored |-> {}, calling |-> {}, stopped |-> FALSE, queued |-> queued]

Innermost == Last(stack)
Outer == Front(stack)

\* An event that is posted while the queue is empty is dispatched at once.
\* The one being dispatched is not in the queue.
PostEvent(t) ==
    /\ posts < MaxPosts
    /\ posts' = posts + 1
    /\ IF eventQueue = <<>>
       THEN stack' = Append(stack, Dispatched(t, FALSE)) /\ UNCHANGED eventQueue
       ELSE eventQueue' = Append(eventQueue, t) /\ UNCHANGED stack

\* Data from a socket, a timer or another thread.
Arrive(t) == stack = <<>> /\ PostEvent(t)

\* The next object is passed over: its filter refuses the event now, or did
\* so before.
PassOver ==
    /\ stack # <<>> /\ Innermost.calling = {} /\ ~Innermost.stopped
    /\ Innermost.handlers # <<>>
    /\ LET object == Head(Innermost.handlers)
       IN  /\ object \in Innermost.ignored \union Filtering
           /\ stack' = Append(Outer, [Innermost EXCEPT !.handlers = Tail(@), !.ignored = @ \union {object}])
    /\ UNCHANGED <<eventQueue, posts>>

\* The next object is called.
Call ==
    /\ stack # <<>> /\ Innermost.calling = {} /\ ~Innermost.stopped
    /\ Innermost.handlers # <<>>
    /\ Head(Innermost.handlers) \notin Innermost.ignored
    /\ stack' = Append(Outer, [Innermost EXCEPT !.handlers = Tail(@), !.calling = {Head(Innermost.handlers)}])
    /\ UNCHANGED <<eventQueue, posts>>

\* The object that was called posts an event, and returns, having stopped
\* its event or not.
HandlerPosts(t) == stack # <<>> /\ (\E object \in Innermost.calling : t \in Posts[object]) /\ PostEvent(t)

HandlerReturns ==
    /\ stack # <<>> /\ Innermost.calling # {}
    /\ \E stop \in BOOLEAN : stack' = Append(Outer, [Innermost EXCEPT !.calling = {}, !.stopped = stop])
    /\ UNCHANGED <<eventQueue, posts>>

\* An event is done; the next one of the queue follows, if there is one.
DispatchEnds ==
    /\ stack # <<>> /\ Innermost.calling = {}
    /\ Innermost.stopped \/ Innermost.handlers = <<>>
    /\ eventQueue' = IF eventQueue # <<>> /\ Innermost.queued THEN Tail(eventQueue) ELSE eventQueue
    /\ stack' = IF eventQueue' = <<>> THEN Outer ELSE Append(Outer, Dispatched(Head(eventQueue'), TRUE))
    /\ UNCHANGED posts

Init == stack = <<>> /\ eventQueue = <<>> /\ posts = 0

Next ==
    \/ \E t \in Types : Arrive(t) \/ HandlerPosts(t)
    \/ PassOver
    \/ Call
    \/ HandlerReturns
    \/ DispatchEnds

Spec == Init /\ [][Next]_vars
=============================================================================
