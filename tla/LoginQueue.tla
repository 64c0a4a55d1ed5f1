------------------------------ MODULE LoginQueue ------------------------------
(***************************************************************************)
(* What the hand-over of a client promises: a connection that logged in is   *)
(* under way to the session of its user, joins it in the order of the        *)
(* logins, and at most once; on its way and in the session it may get lost.  *)
(* CoreThreads is shown to implement this.                                   *)
(***************************************************************************)
EXTENDS Sequences

CONSTANTS Peers, Users

VARIABLES
    outside,    \* connections that did not log in yet
    underWay,   \* of each user: connections that logged in, the first to arrive first
    inside      \* of each user: connections in its session

vars == <<outside, underWay, inside>>

Init ==
    /\ outside = Peers
    /\ underWay = [u \in Users |-> <<>>]
    /\ inside = [u \in Users |-> {}]

Refuse(ps) ==
    /\ ps \subseteq outside
    /\ outside' = outside \ ps
    /\ UNCHANGED <<underWay, inside>>

Login(p, u) ==
    /\ p \in outside
    /\ outside' = outside \ {p}
    /\ underWay' = [underWay EXCEPT ![u] = Append(@, p)]
    /\ UNCHANGED inside

\* The first one arrives, if it did not hang up meanwhile.
Arrive(u) ==
    /\ underWay[u] # <<>>
    /\ underWay' = [underWay EXCEPT ![u] = Tail(@)]
    /\ \/ inside' = [inside EXCEPT ![u] = @ \union {Head(underWay[u])}]
       \/ UNCHANGED inside
    /\ UNCHANGED outside

Leave(p, u) ==
    /\ p \in inside[u]
    /\ inside' = [inside EXCEPT ![u] = @ \ {p}]
    /\ UNCHANGED <<outside, underWay>>

EndSession(u) ==
    /\ inside' = [inside EXCEPT ![u] = {}]
    /\ UNCHANGED <<outside, underWay>>

Next ==
    \/ \E ps \in SUBSET Peers : Refuse(ps)
    \/ \E p \in Peers, u \in Users : Login(p, u) \/ Leave(p, u)
    \/ \E u \in Users : Arrive(u) \/ EndSession(u)

Spec == Init /\ [][Next]_vars
==============================================================================
