------------------------------ MODULE IrcObjects ------------------------------
(***************************************************************************)
(* The objects in which the core (and each client) keeps what it knows of an *)
(* IRC network: the IrcUsers and IrcChannels of a Network, which point to    *)
(* each other and clean up after each other (src/src/common/network.cpp,     *)
(* ircuser.cpp, ircchannel.cpp).                                             *)
(*                                                                         *)
(* IrcUser::quit(), IrcUser::partChannel() and IrcChannel::part() call each  *)
(* other, and part() may take the whole channel apart.  The operators give   *)
(* the objects once those calls have all returned.                           *)
(*                                                                         *)
(* All of it is one record, so that what a handler does to it composes:      *)
(*   myNick    Network::_myNick                                              *)
(*   users     Network::_ircUsers, by nick                                   *)
(*   chans     the keys of Network::_ircChannels                             *)
(*   nick      IrcUser::_nick, NoNick for an object that is not there        *)
(*   channels  IrcUser::_channels                                            *)
(*   members   the keys of IrcChannel::_userModes                            *)
(*   ops       those of them with a prefix mode: "o" stands for all modes    *)
(* Nicks are compared in lower case; user@host is left to IrcState, where it *)
(* tells who has come back after a netsplit.                                 *)
(***************************************************************************)
EXTENDS Naturals, FiniteSets, Sequences

CONSTANTS
    Nicks,      \* the nicks people use
    Channels,   \* the channels of the network
    NoNick,     \* the nick of no object
    NoUser,     \* no object
    MaxBorn     \* bound: objects alive at a time that were created for one nick

\* An IrcUser is told from others by the nick it was created for, and a number.
Ids == Nicks \X (1 .. MaxBorn)

ASSUME ObjectsAssumption ==
    /\ NoNick \notin Nicks
    /\ NoUser \notin Ids
    /\ MaxBorn \in Nat \ {0}

Objects ==
    [myNick : Nicks,
     users : [Nicks -> Ids \union {NoUser}],
     chans : SUBSET Channels,
     nick : [Ids -> Nicks \union {NoNick}],
     channels : [Ids -> SUBSET Channels],
     members : [Channels -> SUBSET Ids],
     ops : [Channels -> SUBSET Ids]]

NoObjects(me) ==
    [myNick |-> me,
     users |-> [n \in Nicks |-> NoUser],
     chans |-> {},
     nick |-> [i \in Ids |-> NoNick],
     channels |-> [i \in Ids |-> {}],
     members |-> [c \in Channels |-> {}],
     ops |-> [c \in Channels |-> {}]]

Known(s, n) == s.users[n] # NoUser
IsMe(s, i) == s.nick[i] = s.myNick

\* The numbers nobody created for nick n has.
Unborn(s, n) == {k \in 1 .. MaxBorn : s.nick[<<n, k>>] = NoNick}

\* An object no channel and no nick refers to: deleteLater(), or leaked.
Swept(s) ==
    [s EXCEPT !.nick = [i \in Ids |->
        IF s.channels[i] = {} /\ (\A n \in Nicks : s.users[n] # i)
        THEN NoNick ELSE s.nick[i]]]

\* Network::newIrcUser() and updateNickFromMask(), for each nick of a set.
WithUsers(s, ns) ==
    LET new == {n \in ns : ~Known(s, n)}
        born == [n \in new |-> <<n, CHOOSE k \in Unborn(s, n) : TRUE>>]
    IN  [s EXCEPT
          !.users = [n \in Nicks |-> IF n \in new THEN born[n] ELSE @[n]],
          !.nick = [i \in Ids |->
              IF i[1] \in new /\ born[i[1]] = i THEN i[1] ELSE @[i]]]

\* IrcChannel::joinIrcUsers(), in channels that are there: joined[c] are the users
\* and opped[c] those who come with a mode.
JoinIrcUsers(s, joined, opped) ==
    [s EXCEPT
      !.members = [c \in Channels |-> @[c] \union joined[c]],
      !.channels = [i \in Ids |-> @[i] \union {c \in Channels : i \in joined[c]}],
      !.ops = [c \in Channels |-> @[c] \union (opped[c] \intersect joined[c])]]

Only(c, S) == [d \in Channels |-> IF d = c THEN S ELSE {}]

\* IrcUser::joinChannel(name): Network::newIrcChannel(), then joinIrcUser().
JoinChannel(s, i, c) ==
    JoinIrcUsers([s EXCEPT !.chans = @ \union {c}], Only(c, {i}), Only(c, {}))

\* Network::removeIrcUser() of users no longer wanted.
Forget(s, is) ==
    [s EXCEPT !.users = [n \in Nicks |-> IF @[n] \in is THEN NoUser ELSE @[n]]]

\* Mutant: a channel taken apart forgets its users, who go on listing it.
LeaveSilently(s, is, cs) ==
    LET dead == {c \in cs : \E i \in is : i \in s.members[c] /\ IsMe(s, i)}
        stay == [c \in Channels |->
                   IF c \in dead THEN {}
                   ELSE IF c \in cs THEN s.members[c] \ is ELSE s.members[c]]
    IN  [s EXCEPT
          !.chans = @ \ dead,
          !.channels = [i \in Ids |-> IF i \in is THEN @[i] \ cs ELSE @[i]],
          !.members = stay,
          !.ops = [c \in Channels |-> @[c] \intersect stay[c]]]

\* Mutant: only my leaving removes a channel, not that it is empty.
LeaveEmpty(s, is, cs) ==
    LET dead == {c \in cs : \E i \in is : i \in s.members[c] /\ IsMe(s, i)}
        stay == [c \in Channels |->
                   IF c \in dead THEN {}
                   ELSE IF c \in cs THEN s.members[c] \ is ELSE s.members[c]]
        left == [i \in Ids |-> {c \in s.channels[i] : i \in stay[c]}]
    IN  Forget([s EXCEPT
                 !.chans = @ \ dead,
                 !.channels = left,
                 !.members = stay,
                 !.ops = [c \in Channels |-> @[c] \intersect stay[c]]],
               {i \in Ids \ is : s.channels[i] # left[i] /\ left[i] = {} /\ ~IsMe(s, i)})

\* IrcChannel::part() of users is in channels cs.  A channel I leave, or that gets
\* empty, parts everybody else and is removed; who has no channel left then quits.
Leave(s, is, cs) ==
    LET dead == {c \in cs : \E i \in is : /\ i \in s.members[c]
                                          /\ \/ IsMe(s, i)
                                             \/ s.members[c] \subseteq is}
        left == [i \in Ids |->
                   IF i \in is THEN s.channels[i] \ cs
                   ELSE s.channels[i] \ {c \in dead : i \in s.members[c]}]
        stay == [c \in Channels |->
                   IF c \in dead THEN {}
                   ELSE IF c \in cs THEN s.members[c] \ is ELSE s.members[c]]
        lost == {i \in Ids \ is : /\ s.channels[i] # left[i]
                                  /\ left[i] = {}
                                  /\ ~IsMe(s, i)}
    IN  Forget([s EXCEPT
                 !.chans = @ \ dead,
                 !.channels = left,
                 !.members = stay,
                 !.ops = [c \in Channels |-> @[c] \intersect stay[c]]], lost)

\* IrcUser::quit(), of each of a set of users.
Quit(s, is) == Forget(Leave(s, is, Channels), is)

\* IrcUser::partChannel().
PartChannel(s, i, c) ==
    IF c \notin s.channels[i] THEN s
    ELSE LET t == Leave(s, {i}, {c})
         IN  IF t.channels[i] = {} /\ ~IsMe(t, i) THEN Forget(t, {i}) ELSE t

\* IrcUser::setNick(), with Network::ircUserNickChanged(): the new nick is this
\* user's, whoever it belonged to.
SetNick(s, i, n) ==
    LET old == s.nick[i]
    IN  IF old = n THEN s
        ELSE [s EXCEPT !.nick[i] = n,
                       !.users = [@ EXCEPT ![old] = NoUser, ![n] = i],
                       !.myNick = IF @ = old THEN n ELSE @]

\* IrcChannel::addUserMode() and removeUserMode().
AddUserMode(s, i, c) ==
    IF i \in s.members[c] THEN [s EXCEPT !.ops[c] = @ \union {i}] ELSE s
RemoveUserMode(s, i, c) == [s EXCEPT !.ops[c] = @ \ {i}]

\* Users and channels list each other, modes are of members, and a channel that is not
\* there, or no longer, has no members.
Symmetric(s) ==
    /\ \A i \in Ids, c \in Channels : c \in s.channels[i] <=> i \in s.members[c]
    /\ \A c \in Channels : s.ops[c] \subseteq s.members[c]
    /\ \A c \in Channels \ s.chans : s.members[c] = {}

\* The nicks of the members of a channel, and of those with a mode.
MemberNicks(s, c) == {s.nick[i] : i \in s.members[c]}
OpNicks(s, c) == {s.nick[i] : i \in s.ops[c]}
==============================================================================
