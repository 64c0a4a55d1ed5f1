----------------------------- MODULE DelayedView -----------------------------
(***************************************************************************)
(* What the synchronisation of core and client promises, without its       *)
(* protocol: the core's table of users reaches a client late and in part,   *)
(* but what the client takes for settled was all true in the core at one    *)
(* moment, moments are never revisited, and nothing that is still true is   *)
(* forgotten.                                                               *)
(***************************************************************************)
EXTENDS Integers, Sequences

CONSTANTS
    Nicks,      \* the names users go by
    Values      \* what there is to know of a user; 0 stands for no user

VARIABLES
    table,      \* the core's users
    pending,    \* the tables of the moments the client has yet to hear of
    view        \* the users the client knows all about

vars == <<table, pending, view>>

NoUsers == [n \in Nicks |-> 0]
Tables == [Nicks -> Values]

Init ==
    /\ table = NoUsers
    /\ pending = <<>>
    /\ view = NoUsers

\* The core changes, or says again what holds; a client that is there is told.
Publish ==
    /\ table' \in Tables
    /\ pending' \in {pending, Append(pending, table')}
    /\ UNCHANGED view

\* The client hears of the next moment.
Deliver ==
    /\ pending # <<>>
    /\ pending' = Tail(pending)
    /\ view' \in Tables
    /\ \A n \in Nicks :
           /\ view'[n] # 0 => view'[n] = Head(pending)[n]
           /\ view[n] # 0 /\ view[n] = Head(pending)[n] => view'[n] = view[n]
    /\ UNCHANGED table

\* The client is cut off.
Forget ==
    /\ pending' = <<>>
    /\ view' = NoUsers
    /\ UNCHANGED table

Next == Publish \/ Deliver \/ Forget

Spec == Init /\ [][Next]_vars
==============================================================================
