------------------------------- MODULE IrcState -------------------------------
(***************************************************************************)
(* What the core believes of who is on which channel, while a server tells   *)
(* it: the handlers of JOIN, PART, KICK, QUIT, NICK, MODE and NAMES          *)
(* (src/src/core/coresessioneventprocessor.cpp), and the netsplit heuristic  *)
(* that holds back the quits and joins of a split to show them in bulk       *)
(* (src/src/core/netsplit.cpp).                                              *)
(*                                                                         *)
(* The server is external: it knows who is where, and sends the core an      *)
(* event of everything that happens on a channel the core's user is on.  The *)
(* core handles events in order; its timers fire between any two.  Quits of  *)
(* a split carry one quit message, so that there is one Netsplit at a time.  *)
(*                                                                         *)
(* A Netsplit keeps the masks of those who quit, nick!user@host; for some    *)
(* purposes it compares nicks, for others masks.  The mask of an IrcUser is  *)
(* that of its user's last message, and is taken to be the one the user has: *)
(* it is one's join that makes a Netsplit hold one back, and as long as it   *)
(* does user@host cannot change but by a new connection.  An early bulk join *)
(* gives the IrcUser the old mask back; nobody is held back any more then.   *)
(***************************************************************************)
EXTENDS IrcObjects, SequencesExt

CONSTANTS
    Hosts,      \* the user@host that people may have
    NoChannel,  \* no NAMES reply is on its way
    EarlyShare, \* part of the quits that must have joined for a split to be over: 3
    MaxQuits,   \* bound: quits a Netsplit counts
    MaxOps,     \* bound: modes that are set at a time
    MaxOdd      \* bound: events of a connection that are no part of a split by the book

ASSUME StateAssumption ==
    NoChannel \notin Channels /\ EarlyShare \in Nat \ {0} /\ MaxQuits \in Nat /\ MaxOdd \in Nat /\ MaxOps \in Nat

VARIABLES
    on, op,     \* the server: who is on a channel, and who of them has a mode
    me,         \* the server: the nick of the core's user
    host,       \* the server: the user@host of each nick
    names,      \* the channel whose NAMES reply follows the join just told
    net,        \* the core's objects, see IrcObjects
    split,      \* the core's Netsplit
    oddities    \* history: see Odd

serverVars == <<on, op, me, host, names>>
vars == <<serverVars, net, split, oddities>>

\* nick!user@host
Masks == [nick : Nicks, host : Hosts]
Mask(n) == [nick |-> n, host |-> host[n]]
MaskOf(entry) == [nick |-> entry.nick, host |-> entry.host]

NoLists == [c \in Channels |-> <<>>]
NoSplit ==
    [live |-> FALSE,
     quits |-> NoLists,                         \* _quits
     joins |-> NoLists,                         \* _joins: mask and mode
     sent |-> [c \in Channels |-> {}],          \* _quitsWithMessageSent
     sentQuit |-> FALSE,
     quitCounter |-> 0, joinCounter |-> 0,
     quitTimer |-> FALSE, joinTimer |-> FALSE]  \* whether they run

Pending(sp, c) == {sp.joins[c][k].nick : k \in DOMAIN sp.joins[c]}
Quitters(sp, c) == {m.nick : m \in ToSet(sp.quits[c])}
Unsent(sp, c) == {m.nick : m \in ToSet(sp.quits[c]) \ sp.sent[c]}

----------------------------------------------------------------------------
(* Netsplit.                                                                *)

\* Mutant: the quit timer is started with the Netsplit only.
QuitUntimed(sp, m, cs) ==
    [sp EXCEPT
      !.live = TRUE,
      !.quits = [c \in Channels |-> IF c \in cs THEN Append(@[c], m) ELSE @[c]],
      !.quitCounter = @ + 1,
      !.quitTimer = @ \/ ~sp.live]

\* Mutant: quits are counted as joins are, once for each channel.
QuitPerChannel(sp, m, cs) ==
    [sp EXCEPT
      !.live = TRUE,
      !.quits = [c \in Channels |-> IF c \in cs THEN Append(@[c], m) ELSE @[c]],
      !.quitCounter = @ + Cardinality(cs),
      !.quitTimer = TRUE]

\* Netsplit::userQuit(), in a Netsplit made for it if there is none.
UserQuit(sp, m, cs) ==
    [sp EXCEPT
      !.live = TRUE,
      !.quits = [c \in Channels |-> IF c \in cs THEN Append(@[c], m) ELSE @[c]],
      !.quitCounter = @ + 1,
      !.quitTimer = TRUE]

\* Netsplit::userJoined(): whether it takes care of the join, which it tells by the
\* nick, and what it does then: the mask it keeps is that of the quit.
TakesJoin(sp, n, c) == n \in Quitters(sp, c)
UserJoined(sp, n, c) ==
    LET first == CHOOSE k \in DOMAIN sp.quits[c] :
                    /\ sp.quits[c][k].nick = n
                    /\ \A j \in 1 .. k - 1 : sp.quits[c][j].nick # n
    IN  [sp EXCEPT
          !.quits[c] = RemoveAt(@, first),
          !.joins[c] = Append(@, [nick |-> n, host |-> sp.quits[c][first].host, mode |-> FALSE]),
          !.joinCounter = @ + 1,
          !.joinTimer = TRUE]

\* Netsplit::userAlreadyJoined(): it looks for the mask.
AlreadyJoined(sp, m, c) == \E k \in DOMAIN sp.joins[c] : MaskOf(sp.joins[c][k]) = m

\* Mutant: a mode that is set while the join is held back is lost.
ModeLost(sp, m, c) == sp

\* Netsplit::addMode(), for the first entry with the mask.
AddMode(sp, m, c) ==
    LET first == CHOOSE k \in DOMAIN sp.joins[c] :
                    /\ MaskOf(sp.joins[c][k]) = m
                    /\ \A j \in 1 .. k - 1 : MaskOf(sp.joins[c][j]) # m
    IN  [sp EXCEPT !.joins[c][first].mode = TRUE]

\* Netsplit::quitTimeout(): the quits not told yet are told.
QuitsTold(sp) ==
    [sp EXCEPT
      !.sent = [c \in Channels |-> @[c] \union ToSet(sp.quits[c])],
      !.sentQuit = TRUE,
      !.quitTimer = FALSE]

\* handleNetsplitQuit(), for every channel there is a quit to tell of.
HandleNetsplitQuit(s, sp) ==
    LET told(n) == \E c \in Channels : n \in Unsent(sp, c)
    IN  Quit(s, {s.users[n] : n \in {m \in Nicks : told(m) /\ Known(s, m)}})

\* handleNetsplitJoin(): a user who is unknown by now is dropped, and the mode at the
\* place the user's mask had in the list that came is dropped from the list that is left.
ModesLeft(s, joins) ==
    LET place(m) == CHOOSE k \in DOMAIN joins :
                        /\ MaskOf(joins[k]) = m
                        /\ \A j \in 1 .. k - 1 : MaskOf(joins[j]) # m
        kept(k, modes) == Known(s, joins[k].nick) \/ place(MaskOf(joins[k])) > Len(modes)
        left[k \in 0 .. Len(joins)] ==
            IF k = 0 THEN [h \in DOMAIN joins |-> joins[h].mode]
            ELSE IF kept(k, left[k - 1]) THEN left[k - 1]
            ELSE RemoveAt(left[k - 1], place(MaskOf(joins[k])))
    IN  left[Len(joins)]

\* joinIrcUsers() takes no lists of different lengths.
BulkJoin(s, sp) ==
    LET known(c) == {k \in DOMAIN sp.joins[c] : Known(s, sp.joins[c][k].nick)}
        place(c, k) == Cardinality({h \in known(c) : h <= k})
        modes(c) == ModesLeft(s, sp.joins[c])
        taken(c) == c \in s.chans /\ Cardinality(known(c)) = Len(modes(c))
        users(c, places) ==
            IF taken(c) THEN {s.users[sp.joins[c][k].nick] : k \in places} ELSE {}
    IN  JoinIrcUsers(s,
            [c \in Channels |-> users(c, known(c))],
            [c \in Channels |-> users(c, {k \in known(c) : modes(c)[place(c, k)]})])

\* handleNetsplitJoin() and handleEarlyNetsplitJoin(), for every channel with joins.
HandleNetsplitJoin(s, sp) == BulkJoin(s, sp)
HandleEarlyNetsplitJoin(s, sp) ==
    BulkJoin(WithUsers(s, UNION {Pending(sp, c) : c \in s.chans}), sp)

----------------------------------------------------------------------------
(* Who is told, and what a split is expected to look like.                  *)

Sees(n) == n = me \/ \E c \in Channels : {me, n} \subseteq on[c]

Involved(n) ==
    \E c \in Channels : n \in Quitters(split, c) \union Pending(split, c)
ToBeQuit(n) == \E c \in Channels : n \in Unsent(split, c)

\* A split by the book: its users quit, all quits are told, they join again, and
\* until it is over they do nothing else that changes who is where.  Nor is a mode
\* given to one who is held back and has come with another user@host: it is lost.
Odd(what) ==
    /\ oddities' = IF split.live /\ what THEN oddities + 1 ELSE oddities
    /\ oddities' <= MaxOdd

\* Bound: the core can create a user for each nick.
Room == \A n \in Nicks : Unborn(net, n) # {}
Event == names = NoChannel /\ Room

----------------------------------------------------------------------------
(* Events.                                                                  *)

\* processIrcEventJoin(), of n joining c.
HandleJoin(n, c) ==
    LET s == WithUsers(net, {n})
    IN  IF TakesJoin(split, n, c)
        THEN net' = s /\ split' = UserJoined(split, n, c)
        ELSE net' = Swept(JoinChannel(s, s.users[n], c)) /\ UNCHANGED split

\* Who comes back to the network may have another user@host than before.
Comes(n) ==
    \E h \in Hosts :
        /\ (n = me \/ \E c \in Channels : n \in on[c]) => h = host[n]
        /\ host' = [host EXCEPT ![n] = h]

Join(n, c) ==
    /\ Event
    /\ n \notin on[c]
    /\ Comes(n)
    /\ on' = [on EXCEPT ![c] = @ \union {n}]
    /\ names' = IF n = me THEN c ELSE names
    /\ Odd(ToBeQuit(n) \/ (n = me /\ TakesJoin(split, n, c)))
    /\ UNCHANGED <<op, me>>
    /\ IF n = me \/ me \in on[c] THEN HandleJoin(n, c) ELSE UNCHANGED <<net, split>>

\* processIrcEvent353(): the server's list of who is on the channel just joined.
Names ==
    /\ names # NoChannel
    /\ Room
    /\ names' = NoChannel
    /\ net' = IF names \notin net.chans THEN net
              ELSE LET s == WithUsers(net, on[names])
                   IN  JoinIrcUsers(s, Only(names, {s.users[n] : n \in on[names]}),
                                       Only(names, {s.users[n] : n \in op[names]}))
    /\ Odd(\E n \in on[names] : ToBeQuit(n))
    /\ UNCHANGED <<on, op, me, host, split>>

GoneFrom(n, c) ==
    /\ on' = [on EXCEPT ![c] = @ \ {n}]
    /\ op' = [op EXCEPT ![c] = @ \ {n}]

\* lateProcessIrcEventPart().
Part(n, c) ==
    /\ Event
    /\ n \in on[c]
    /\ GoneFrom(n, c)
    /\ Odd(n = me \/ Involved(n))
    /\ UNCHANGED <<me, host, names, split>>
    /\ IF me \in on[c]
       THEN LET s == WithUsers(net, {n})
            IN  net' = Swept(IF c \in s.chans THEN PartChannel(s, s.users[n], c) ELSE s)
       ELSE UNCHANGED net

\* lateProcessIrcEventKick(): by anybody, a service that is on no channel included.
Kick(by, n, c) ==
    /\ Event
    /\ me \in on[c]
    /\ n \in on[c]
    /\ GoneFrom(n, c)
    /\ Odd(n = me \/ Involved(n))
    /\ UNCHANGED <<me, host, names, split>>
    /\ LET s == WithUsers(net, {by})
       IN  net' = Swept(IF Known(s, n) /\ c \in s.chans
                        THEN PartChannel(s, s.users[n], c) ELSE s)

GoneFromAll(n) ==
    /\ on' = [c \in Channels |-> on[c] \ {n}]
    /\ op' = [c \in Channels |-> op[c] \ {n}]

\* lateProcessIrcEventQuit().
QuitAlone(n) ==
    /\ Event
    /\ n # me
    /\ \E c \in Channels : n \in on[c]
    /\ GoneFromAll(n)
    /\ Odd(Involved(n))
    /\ UNCHANGED <<me, host, names, split>>
    /\ IF Sees(n)
       THEN LET s == WithUsers(net, {n}) IN net' = Swept(Quit(s, {s.users[n]}))
       ELSE UNCHANGED net

\* processIrcEventQuit(), with the quit message of a netsplit.
QuitInSplit(n) ==
    /\ Event
    /\ n # me
    /\ Sees(n)
    /\ split.quitCounter < MaxQuits
    /\ GoneFromAll(n)
    /\ Odd(Involved(n) \/ \E c \in Channels : Mask(n) \in split.sent[c])
    /\ net' = WithUsers(net, {n})
    /\ split' = UserQuit(split, Mask(n), net'.channels[net'.users[n]])
    /\ UNCHANGED <<me, host, names>>

\* lateProcessIrcEventNick(): to a nick nobody uses on these channels.
Nick(n, new) ==
    /\ Event
    /\ n = me \/ \E c \in Channels : n \in on[c]
    /\ new # me
    /\ \A c \in Channels : new \notin on[c]
    /\ LET renamed(S) == IF n \in S THEN (S \ {n}) \union {new} ELSE S
       IN  /\ on' = [c \in Channels |-> renamed(on[c])]
           /\ op' = [c \in Channels |-> renamed(op[c])]
    /\ me' = IF n = me THEN new ELSE me
    /\ host' = [host EXCEPT ![new] = host[n]]
    /\ Odd(Involved(n) \/ Involved(new))
    /\ UNCHANGED <<names, split>>
    /\ IF Sees(n)
       THEN LET s == WithUsers(net, {n}) IN net' = Swept(SetNick(s, s.users[n], new))
       ELSE UNCHANGED net

\* processIrcEventMode(), "+o n": kept for later if the split has the join of n's mask.
GiveMode(n, c) ==
    /\ Event
    /\ n \in on[c] \ op[c]
    /\ Cardinality({p \in Nicks \X Channels : p[1] \in op[p[2]]}) < MaxOps
    /\ op' = [op EXCEPT ![c] = @ \union {n}]
    /\ Odd(n \in Pending(split, c) /\ ~AlreadyJoined(split, Mask(n), c))
    /\ UNCHANGED <<on, me, host, names>>
    /\ IF me \notin on[c] \/ c \notin net.chans \/ ~Known(net, n)
       THEN UNCHANGED <<net, split>>
       ELSE IF AlreadyJoined(split, Mask(n), c)
       THEN split' = AddMode(split, Mask(n), c) /\ UNCHANGED net
       ELSE net' = AddUserMode(net, net.users[n], c) /\ UNCHANGED split

\* processIrcEventMode(), "-o n".
TakeMode(n, c) ==
    /\ Event
    /\ n \in op[c]
    /\ op' = [op EXCEPT ![c] = @ \ {n}]
    /\ Odd(n \in Pending(split, c))
    /\ UNCHANGED <<on, me, host, names, split>>
    /\ net' = IF me \notin on[c] \/ c \notin net.chans \/ ~Known(net, n) THEN net
              ELSE RemoveUserMode(net, net.users[n], c)

\* IrcParser, of a message of somebody who may be on no channel.
Speak(n) ==
    /\ Event
    /\ n # me
    /\ ~Known(net, n)
    /\ net' = WithUsers(net, {n})
    /\ UNCHANGED <<serverVars, split, oddities>>

\* socketDisconnected(), setConnected(FALSE), destroyNetsplits(), and a new login.
Reconnect(nick) ==
    /\ \A c \in Channels : nick \notin on[c] \ {me}
    /\ on' = [c \in Channels |-> on[c] \ {me}]
    /\ op' = [c \in Channels |-> op[c] \ {me}]
    /\ me' = nick /\ UNCHANGED host
    /\ net' = WithUsers(NoObjects(nick), {nick})
    /\ split' = NoSplit
    /\ names' = NoChannel
    /\ oddities' = 0

----------------------------------------------------------------------------
(* The timers of a Netsplit.                                                *)

QuitTimeout ==
    /\ split.quitTimer
    /\ net' = Swept(HandleNetsplitQuit(net, split))
    /\ split' = QuitsTold(split)
    /\ UNCHANGED <<serverVars, oddities>>

\* Netsplit::joinTimeout(); a Netsplit that is finished is deleted.
JoinTimeout ==
    /\ split.joinTimer
    /\ Room
    /\ LET sp == IF split.sentQuit THEN split ELSE QuitsTold(split)
           s == IF split.sentQuit THEN net ELSE Swept(HandleNetsplitQuit(net, split))
       IN  IF sp.joinCounter < sp.quitCounter \div EarlyShare
           THEN /\ net' = Swept(HandleEarlyNetsplitJoin(s, sp))
                /\ split' = [sp EXCEPT !.joins = NoLists]
                /\ UNCHANGED oddities
           ELSE /\ net' = Swept(HandleNetsplitJoin(s, sp))
                /\ split' = NoSplit
                /\ Odd(sp.quitTimer)
    /\ UNCHANGED serverVars

\* _discardTimer, an hour after the first quit.
Discard ==
    /\ split.live
    /\ split' = NoSplit
    /\ Odd(split.quitTimer \/ split.joins # NoLists)
    /\ UNCHANGED <<serverVars, net>>

----------------------------------------------------------------------------
Init ==
    /\ me \in Nicks /\ host \in [Nicks -> Hosts]
    /\ on \in [Channels -> SUBSET (Nicks \ {me})]
    /\ op = [c \in Channels |-> {}]
    /\ names = NoChannel
    /\ net = WithUsers(NoObjects(me), {me})
    /\ split = NoSplit
    /\ oddities = 0

Next ==
    \/ \E n \in Nicks, c \in Channels :
          Join(n, c) \/ Part(n, c) \/ GiveMode(n, c) \/ TakeMode(n, c)
    \/ Names
    \/ \E by, n \in Nicks, c \in Channels : Kick(by, n, c)
    \/ \E n \in Nicks : QuitAlone(n) \/ QuitInSplit(n) \/ Speak(n) \/ Reconnect(n)
    \/ \E n, new \in Nicks : Nick(n, new)
    \/ QuitTimeout
    \/ JoinTimeout
    \/ Discard

Spec == Init /\ [][Next]_vars

----------------------------------------------------------------------------
(* Properties.                                                              *)

\* The state is of the right shape, and counters stay below their bounds.
Entries == [nick : Nicks, host : Hosts, mode : BOOLEAN]
Splits ==
    [live : BOOLEAN,
     quits : [Channels -> Seq(Masks)],
     joins : [Channels -> Seq(Entries)],
     sent : [Channels -> SUBSET Masks],
     sentQuit : BOOLEAN,
     quitCounter : 0 .. MaxQuits, joinCounter : Nat,
     quitTimer : BOOLEAN, joinTimer : BOOLEAN]
TypeOK ==
    /\ on \in [Channels -> SUBSET Nicks]
    /\ op \in [Channels -> SUBSET Nicks]
    /\ me \in Nicks /\ host \in [Nicks -> Hosts]
    /\ names \in Channels \union {NoChannel}
    /\ net \in Objects
    /\ split \in Splits
    /\ oddities \in 0 .. MaxOdd

\* Users and channels agree on who is where, whichever of quit(), part(), partChannel()
\* and joinIrcUsers() called which: nobody is a member of a channel it does not list,
\* or of one that is gone, and modes are those of members.
MembershipSymmetric == Symmetric(net)

\* No channel is left over: a channel the core has has members.
ChannelsAlive == \A c \in net.chans : net.members[c] # {}

\* A split never stalls: as long as it holds back a quit or a join, the timer that
\* will bring it forward runs.
HeldBackIsTimed ==
    /\ (\E c \in Channels : Unsent(split, c) # {}) => split.quitTimer
    /\ split.joins # NoLists => split.joinTimer

\* What the core shows is what the server knows, except for the quits and the joins a
\* split holds back: on each channel, taking the former from the members and adding
\* the latter gives those who are on it, and the core has the channels its user is on.
ViewMatches ==
    oddities = 0 =>
        /\ net.myNick = me
        /\ \A n \in Nicks : Known(net, n) => net.nick[net.users[n]] = n
        /\ net.chans = {c \in Channels : me \in on[c]}
        /\ \A c \in net.chans \ {names} :
              /\ on[c] = (MemberNicks(net, c) \ Unsent(split, c)) \union Pending(split, c)
              /\ op[c] = (OpNicks(net, c) \ Unsent(split, c)) \union
                         {j.nick : j \in {e \in ToSet(split.joins[c]) : e.mode}}
              /\ \A i, j \in net.members[c] : net.nick[i] = net.nick[j] => i = j
==============================================================================
