# Quassel, specified in TLA+

Quassel is a distributed IRC client. A *core* stays connected to IRC networks; any
number of *clients* attach to it and get a synchronised copy of its state. This
directory holds TLA+ modules that model the core's own logic, translated from the
C++ under `src/src/`, TLC configurations that check them on small instances, and
proofs checked by TLAPS. Every definition that models code is listed in
`PROJECT.json` under `map` with the lines it stands for.

To check a module: `tlc -config CoreNetwork.cfg MCCoreNetwork.tla`; to check the
proofs: `tlapm CoreNetworkProofs.tla`.

## Inventory

### Threads and messages

The core process has one main thread (`Core`: listening sockets, handshakes, identd)
and one thread per logged-in user (`SessionThread`, `CoreSession`). Each is a Qt event
loop: one event (a socket signal, a timer, a posted call) runs to its end before the
next. Within a session nothing is preempted; what makes it hard is the order of the
events, signals that run slots of other objects in the middle of a function, and calls
that are posted for later. Between core and client messages are delivered in order on
one connection, and both sides change state while messages are under way.

### Components

| component | state | operations | what is hard | what makes it correct |
|---|---|---|---|---|
| **CoreNetwork: connection** (`corenetwork.cpp`) | socket state, connection state, quit and close flags, retry counter and timer, ping watchdog | connect, disconnect, socket signals, welcome, retry, settings, removal | signals that re-enter; a failed connect reported twice; quit against welcome; restart of the core | a quit is final and ends, a lost connection is retried, `isConnected()` agrees with the socket |
| **CoreNetwork: send queue** | queue of lines, token bucket, timer | `putRawLine`, tick, change of limits, connect, close | unsigned counter, limit switched while lines wait | no overrun, no line stuck, order kept |
| **Capabilities and SASL** (`corenetwork.cpp`, `coresessioneventprocessor.cpp`) | available, enabled, queued capabilities; negotiation flags | CAP LS/NEW/ACK/NAK/DEL, AUTHENTICATE, SASL numerics | a dialogue with a server that may deny, change its mind and interrupt | one request at a time, SASL before CAP END, registration completes, both sides agree on what is on |
| **SignalProxy** (`signalproxy.cpp`, `syncableobject.cpp`) | peers, registered objects | sync calls, RPC, init request and data, rename | init data crosses changes; names are keys and change | the client's copy is the core's past, then its present |
| **CoreSession** (`coresession.cpp`) | networks, message queue, managers | create and remove networks, add clients, process messages | removal in two steps; batch and single messages | a removed network is gone; messages stored at most once, in order |
| **CoreConnection** (`coreconnection.cpp`) | connection and sync state, networks awaited | handshake, sync, reconnect, probe | networks vanish while awaited | synchronisation completes |
| **Core and hand-over** (`core.cpp`, `coreauthhandler.cpp`, `sessionthread.cpp`, `remotepeer.cpp`) | connecting clients, configuration, session threads, clients queued for a session, heartbeats | accept, register, set up, login, hand-over to the session thread, heartbeat, shutdown | raw pointers through two event queues, sessions that are still starting, a blocking call against a blocking wait | a connection is in one place, arrives once and in order; the core stays reachable and ends |
| **IRC state** (`network.cpp`, `ircuser.cpp`, `ircchannel.cpp`, `netsplit.cpp`) | users, channels, modes, memberships, splits | JOIN, PART, QUIT, NICK, KICK, MODE, NAMES, netsplits | two-way membership, users that are shared by channels, delayed joins and quits | membership is symmetric, no user outlives its last reason to be known |
| **AutoWho** (`corenetwork.cpp`) | queue, pending replies, two timers | cycle, one-shot, reply, switch by away-notify | timers switched by four different events | the cycle goes on when it should and stops when it should |
| **Messages, BufferSyncer** (`coresession.cpp`, `corebuffersyncer.cpp`, `sqlitestorage.cpp`) | queue of messages; last seen, highlights, activity; their columns | receive, store, mark, merge, rename, remove, purge, save | messages that wait for a buffer, two ways to count, marks in memory and in the table, removal under way | what is shown as unseen is what is in the backlog; stored at most once, in order; nothing of a removed buffer stays |
| **EventManager** | event queue, handlers and filters | post, dispatch, register | events posted by handlers; order of handlers | events are handled one after the other |
| **IdentServer** | numbers of connections under way, known ports, waiting questions | add, remove, answer | numbers given in several threads | every question is answered, and truly |
| **Transfers** | state of a DCC transfer | offer, accept, connect, data, done | peer, core and client act on it | legal state changes only |
| **Aliases, ignore, highlight, input** | rules | expand, match, split | recursion, precedence | reference definitions |
| Storage, authenticators, ciphers, wire protocols, item models, user interface, build | | | | not part of the plan: SQL, I/O, encodings, presentation |

The hazards, one per line of code where it bites, are in `PROJECT.json`.

## What is modelled

**`CoreNetwork`** is one network with its socket. An action is one event with all it
calls. The functions that slots share (`connectToIrc`, `socketDisconnected`,
`disconnectFromIrc`, ...) are operators over a record `now` that holds what the caller
has assigned before the call, since they may be called with fields half changed. Three
things outlast an event and block all others until they are done: the `error()` that
follows a failed connect, posted `connectToIrc()` calls of one round of the event loop,
and the close of a socket that was closed while it was connecting. Qt's socket is
modelled from its use. `Restart` is a stop or crash of the core: only `persisted` and the
configuration survive.

**`SendQueue`** is the queue of outgoing lines and its token bucket. The counters wrap
at `Word` (2^32 in the code) and start with garbage, as the constructor leaves them.
The history variables `written` and `allowed` measure the rate.

**`CapNegotiation`** is the dialogue with the server, which is external and free within
the protocol: it offers any capabilities in one or two lines, denies any request, lacks
the SASL mechanism, knows no CAP at all, and announces changes. `RegistrationCompletes`
and the other properties are checked with changes after the welcome only
(`EarlyChanges = FALSE`); see *Known deviations*.

**`SessionSync`** is one client's copy of one network's users, from the login through
initial data, changes, renames, disconnects and removal. Clients share nothing but the
core's objects, so one stands for each. A rename is announced by an RPC call and a sync
call that leave the core together and arrive together; they are one message here.
Each message carries the core's table at the moment it was sent, as history.

**`DelayedView`** is the abstract specification of `SessionSync`: the client sees
moments of the core's table late, in order and never twice; what it takes for settled
was true at such a moment; nothing that is still true is forgotten. `SessionSync`
implements it with `table <- users`, `pending <-` the tables of the messages under way,
`view <-` the settled replicas (`ViewIsDelayed`).

**`IrcObjects`** is the graph of objects in which the core keeps a network: `IrcUser`s
filed by nick, `IrcChannel`s, and the pointers between them. All of it is one record, and
an operator gives what is left once `IrcUser::quit()`, `IrcUser::partChannel()` and
`IrcChannel::part()`, which call each other, have all returned. Objects have an identity
apart from their nick, since a nick may change hands while an object lives on without one.

**`IrcState`** composes these objects with the netsplit heuristic and with an IRC server,
which is external: it knows who is on which channel and tells the core of every event on
the channels its user is on. The action of an event is the server's change and the whole
handler, early and late part; the timers of a `Netsplit` fire between any two events. One
prefix mode stands for all, and one quit message for all splits.

A `Netsplit` keeps the masks of those who quit, `nick!user@host`. It tells a join by the nick
(`userJoined()`) and keeps the old mask, and tells a mode by the mask the user has now
(`userAlreadyJoined()`, `addMode()`). Who comes back to the network may have another user@host
(`Comes`), and the lists are of masks (`Mask`, `AlreadyJoined`). What an `IrcUser` has is taken to be
the user's current mask: a JOIN, and any message, brings it, and NAMES is taken to.

While a split is pending the core's view is wrong on purpose. `ViewMatches` says how wrong
it may be: the members the core shows, without those whose quit is held back and with those whose
join is held back, are the members the server has; and likewise for modes. It holds for splits
*by the book*: the users of a split quit, their quits are told, they join again, and do nothing else
in between. `Odd` counts in `oddities` the events that are not by the book, and
`ViewMatches` is about runs without any; what follows from them in the code is this:

* a split user who rejoins one of two channels before the quits are told is quit from both, and
  the join that is held back is dropped later, or put on a new object by an early join;
* a user who parts, is kicked or changes nick while the join is held back is joined afterwards
  as a ghost, or not at all;
* a user who splits twice within one `Netsplit` is quit only once
  (`_quitsWithMessageSent`), and quits still held back when the joins complete are dropped;
* of users who quit while their joins are held back, the modes are taken out of a list by the
  index in another (`handleNetsplitJoin()`);
* a user who comes back with another user@host and is given a mode while held back loses it: the
  mask is not in the list (`netsplit.cpp:93-107` against `:66-74`), and `IrcChannel::addUserMode()`
  finds no such member. `netsplit.h:70` has it otherwise: "Use this method to buffer
  userspecific channel modes until netsplitJoin is emitted";
* if somebody, or the core's user, takes the nick of a split user before the quits are told,
  that user is quit instead: `handleNetsplitQuit()` goes by the nick
  (`coresessioneventprocessor.cpp:1445`). `netsplit.h:110` says of the users in the signal: "A list
  of all users that quitted in that channel".

**`CoreThreads`** is the core process as a set of event loops. The core thread accepts
connections, has the handshake, sets the core up, starts sessions and posts each client
that logged in to itself (`events`); from there it goes to the queue of a session that is
still starting (`clientQueue`) or to the loop of one that runs (`arrivals`), and into the
peers of its `SignalProxy` (`attached`). A socket may be closed by either side at any
point of this way. Heartbeats find the clients that were cut off. A session thread whose
network opened a socket waits for the core thread (`blocked`), and the core thread waits for
each session at the end (`waiting`).

**`LoginQueue`** is what the hand-over promises: who logged in is under way, arrives in the
order of the logins and at most once, or gets lost. `CoreThreads` implements it with
`underWay <-` what has arrived, waits in the session's queue and is posted for that user, in
this order (`IsLoginQueue`).

**`IdentServer`** has a network in a thread of its own for each port. `addWaitingSocket()`
is three steps, since it runs in those threads without a lock; the rest is the core thread,
which is told of sockets by posted events. `spoiled` are the numbers of which the code has the
wrong account: taken twice, lost from the list, given back by the second report of a
failed attempt, or overtaken: when a late write sets the counter back, a number that stands in the
list behind a higher one, or is not in it yet, is not looked for any more (`Overtaken`; three
networks are needed for that). `Leaked` are those nobody will give back.

**`BufferMarks`** follows a message from the event loop's turn in which it is received into the
backlog, and what the core remembers of each buffer: in memory, in the lists of what has to
be stored, and in the buffer table. A step of `ProcessMessages` is the whole turn: it makes buffers for
the messages that may, lets the redirected ones that found none wait for the end and
for the status buffer, stores all or none, and counts. `lax` names the buffers
for which a client or a restart has made memory and backlog differ, until the next count
makes them agree; `orphans` the ids that were gone when the syncer was told of them: by
`destroyNetwork()`, or by a client. Their marks stay in memory; `NothingLeft` says that nothing else
does, and that no orphan ever is the id of another buffer. `storeDirtyIds()` writes each kind of mark in
transactions of its own and is one step here: a crash between them leaves some marks saved and
some not, as `lax` allows after any restart.

**`EventManager`** has the stack of events in progress, since a handler that posts an event
is still running while that is dispatched. No run checks it: what there is to say of it is proved
(`QueueIsNeverUsed`).

The modules do not share variables. `CoreNetwork` and `SendQueue` meet in
`connectToIrc`, `socketInitialized`, `networkInitialized`, `disconnectFromIrc` and
`socketDisconnected`, each of which models its own half of them; `CapNegotiation` runs
between `socketInitialized` and the welcome, when `SendQueue` has no limit. `SessionSync`
starts where a client of `CoreThreads` is `attached`. `CoreThreads` and `IdentServer` meet in the
blocking call of `socketInitialized()`: the first has what it blocks, the second what it is for.

## Runs

| run | module, bounds | question |
|---|---|---|
| `core_network` | `CoreNetwork`; two settings (counted and unlimited retries, ordered and random server, automatic reconnection on and off), up to two servers, ping count 1, two posted connects | Does `isConnected()` agree with the socket (`ConnectedMeansLive`)? Does a quit hold off retries (`QuitInProgress`) and end (`QuitEnds`)? Is a lost connection retried (`LostConnectionIsRetried`)? Does a removal end (`RemovalEnds`)? Yes. |
| `quit_is_final` | the same, one server | Does a network stay down after the user quit? No: a welcome that was under way resets the quit. |
| `send_queue` | `SendQueue`; burst sizes 1 and 3, default 2, words of 8, three lines | Does the bucket never wrap (`TokensWithinBurst`), does no line wait for ever (`QueueEmpties`), is the rate kept (`RateIsLimited`), is the order kept (`OrderIsKept`)? Yes. |
| `cap_negotiation` | `CapNegotiation`; SASL and three other capabilities, two per request, two changes, two connections | One answer at a time (`OneAnswerAtATime`), SASL before the end (`SaslBeforeEnd`), agreement with the server on what is on, all of it that is wanted and granted (`EnabledAgree`), does registration complete (`RegistrationCompletes`)? Yes, but for what a denied bundle leaves behind. |
| `denied_bundle` | the same | Does a denied bundle leave nothing behind (`DenialLosesNothing`)? No: its first capability is not asked for again, and what is granted on the second try is no longer listed. |
| `session_sync` | `SessionSync`; two nicks, six changes of the core, two logins | Does the client converge (`Converged`), see only the past of the core (`ViewIsDelayed`), become synchronised (`SyncCompletes`)? Yes. |
| `irc_state` | `IrcState`; three nicks, two channels, two quits, one mode at a time, one odd event per split, one user who comes back from elsewhere | Do users and channels agree on who is where (`MembershipSymmetric`), is no channel left over (`ChannelsAlive`), is what the core shows right but for what it holds back (`ViewMatches`), is nothing held back without a timer (`HeldBackIsTimed`)? Yes. |
| `core_threads` | `CoreThreads`; two connections, two users, heartbeat count 1, one socket per session | Is each connection in one place (`OnePlace`), does each login arrive (`LoginsArrive`) in order (`IsLoginQueue`), are dead peers removed (`DeadPeersAreRemoved`), is the core reachable (`CoreIsReachable`), does it end (`ShutdownEnds`)? Yes, the last unless a session waits for the core thread at that moment. |
| `shutdown_completes` | the same | Does a shutdown always end? No: the core thread waits for a session thread that waits for it. |
| `ident_server` | `IdentServer`; two networks, three numbers, one question | Is NO-USER never said of a connection that is there (`NoUserIsTrue`), is each question answered (`QuestionsAreAnswered`)? Yes, but for numbers that were spoiled or leaked. |
| `buffer_marks` | `BufferMarks`; the status buffer and two others, three messages, three buffer ids | Is what is shown as unseen what is in the backlog (`UnseenIsShown`), is it stored (`SavedUnlessDirty`), is nothing left of buffers that are gone other than orphans (`NothingLeft`), is each message stored at most once, in order (`StoredOnceInOrder`)? Yes. |
| `network_removed` | the same | Are the marks of a network's buffers removed with it (`NetworkLeavesNothing`)? No: `destroyNetwork()` deletes the buffers first, and the syncer finds none of them. |

The bounds: a retry needs a server list of two to move on, and two retries to be neither
the first nor the last. `MaxPosted = 2` is what it takes for two connects in one round of
the loop. Burst sizes below and above the default let both kinds of change happen, and
three lines are one more than the default, so that lines wait. With three ordinary
capabilities and bundles of two there is a full bundle and a rest, and a bundle has a
first and a last. Two connections are needed for what one leaves to the next. With two
nicks a nick is given up, taken by another user and returned to; six changes are enough for a
network that is created, connected, gets a user, renames it, gets another under the old
nick and loses one.

Three nicks are the core's user and two of a split, so that a list has a first and a
second entry and one may be back while the other is away; with two channels a user can be on
one, both or none. The threshold for the end of a split is a third of the quits; with
three users at most that would be always reached, so `EarlyShare` makes it all of them,
which a run both misses and reaches. `MaxBorn = 2` objects per nick are the one that has it
and one that outlived it; `Room` holds back events for which this is not enough.
Nicks and channels are symmetric. `InPlay` and `Cast` leave out the third nick where an odd event
has happened, so that `ViewMatches` has three nicks and the odd events two. One user at a time has
another user@host than the rest, and only while a split knows the user: of the others the hosts make
no difference. One mode is enough to see it given to the wrong user of a bulk join, and two quits are both of the
other users at once; a third would be odd or a second return. The quit, the return and the bulk join of the
one from elsewhere are reached alone and next to another user of the split (202,743 states).

For `CoreThreads`, two connections of one user meet in each queue, two users keep their
sessions apart, and one heartbeat is enough to be answered or not. In `IdentServer` three numbers
are two networks at once and a retry; one question is asked at any moment of these.
In `BufferMarks` three messages are one that makes a buffer, one that waits for it, and one
between; with three ids each target has had one, or one has had two. `ThirdByTheBook` lets the
third message come only while nothing is lax, nothing orphaned and the network there. The two
ordinary buffers are symmetric.

`Converged` excludes sessions in which a user changed nick or the network was
disconnected while messages were under way. That exclusion is not for convenience:
without it TLC finds a replica whose request for initial data carries the old name and
is never answered (`signalproxy.cpp:378-384` with `:712`), and users that stay after a
disconnect which the uninitialised network ignored (`network.cpp:592`).

### Known deviations

What the code does and the properties leave out by name. Where a text of the repository says
otherwise it is quoted; what a run or a theorem shows is named.

* At shutdown QUIT is put and the socket closed in one turn of the event loop: with an empty
  bucket QUIT waits in the queue (`corenetwork.cpp:336-343`), ahead of all others, and goes with it when
  `forceDisconnect()` closes the socket. `coresession.cpp:181-182`: "Force an
  immediate disconnect, jumping the command queue. Ensures the proper QUIT is shown even if other
  messages are queued", `:187-188`: "Without this, shutting down the core results in abrubtly closing
  the socket rather than sending the QUIT as expected", and `corenetwork.h:232`: "Immediately disconnect
  from network, skipping queue of other commands". In `SendQueue` this is `DisconnectFromIrc(TRUE)` with
  `tokens = 0` and then `ForceDisconnect`; no property there promises that a QUIT is written.
* The first capability of a denied bundle is never asked for on its own (`corenetwork.cpp:1181`
  leaves it out of the record; `skipped`), against `coresessioneventprocessor.cpp:285-288`,
  "individually retry each capability from the failed bundle", and `corenetwork.h:173`, "Retries the
  most recent bundle of capabilities one at a time". A NAK takes the capabilities off the list of
  what is available (`network.cpp:866-878`), so that one that is granted on the second try is on but not
  listed (`unlisted`) and its withdrawal is ignored, against `:277-278`: "removeCap() should do
  nothing". Run `denied_bundle`.
* The marks of a removed network stay in memory (`orphans`), against `coresession.cpp:692`: "remove
  buffers from syncer". Run `network_removed`.
* A mode for a user who is held back and came from elsewhere is lost, and a bulk quit is about whoever has
  the nick, against `netsplit.h:70` and `:110`; see `IrcState` above (`Odd`).
* A CAP NEW during the configuration of SASL makes the core send requests at once
  (`coresessioneventprocessor.cpp:203`), so that CAP END may come before SASL ends.
* If the first setup cannot save its settings, the core takes itself for configured and never
  listens again (`unsaved`; `core.cpp:330-365`).
* Numbers for the ident server are taken without a lock, and a `connectToIrc()` that returns
  early keeps its number for ever, so that later questions about unknown ports wait
  (`identserver.cpp:203`, `corenetwork.cpp:203-214`).
* Marking a buffer as read does not move the last message seen, and a merge counts nothing
  anew (`lax`).
* An event that a handler posts is dispatched inside the one it handles, against
  `eventmanager.cpp:242`: "dispatching the event might cause new events to be generated. we process
  those afterwards" (theorem `QueueIsNeverUsed`). Nor do the priorities of handlers decide anything:
  `insertHandlers()` looks for the place and then inserts at the end (`eventmanager.cpp:339`), against
  `coresession.cpp:125`, "needs to process events *before* the stringifier!", and `:129`, "some
  events need to be handled after msg generation". What decides is the order in which objects
  register and how specific their handlers are (`Handlers`).

Deadlock is not checked: in each module the clients, the server or the user may stop,
and counters of events are bounded.

### Fairness

* `CoreNetwork`: the event loop runs (`WF` of posted calls and pending errors); a connect
  attempt and a close come to an end in the operating system (`SF`: what is pending stays
  pending while other events run); the close timer fires (`SF`, since the clients could
  restart it by repeating the request, and are assumed not to do so for ever). Nothing is
  assumed of the server, nor of the welcome.
* `SendQueue`: a running timer fires (`WF`). A change of the limits restarts the timer in the code, so
  that a client that changed them again and again, faster than the timer runs, could hold it off for
  ever; `WF` takes it that nobody does.
* `CapNegotiation`: lines are handled (`WF`), and the server answers what it is sent.
* `IrcState` has no liveness property and no fairness: that a timer runs while something is
  held back is an invariant, `HeldBackIsTimed`.
* `CoreThreads`: each loop handles what is posted to it and its timers (`WF`), and a session
  thread leaves its loop when asked to. Nothing is assumed of clients.
* `IdentServer`: the core thread handles what is posted, the threads get on with a number they
  have taken, and the operating system makes or gives up each connection (`WF`).
* `BufferMarks` and `EventManager` have no liveness property and no fairness: when the core saves
  is not promised, and what is dirty is not lost while it runs.
* `SessionSync`: messages arrive and are handled, on both sides (`WF`); a connection that
  is lost ends the obligation.

## Proofs

`CoreNetworkProofs` proves for every set of settings, length of the server list, ping
limit and bound on posted calls: `TypeOK`, `ConnectedMeansLive` and `QuitInProgress` are
invariants of `Spec`. The inductive invariant is the conjunction of the three; none of
them is inductive alone. That a connected network is in the right state needs a handler
to start from consistent fields, and a retry timer that fired during a quit would break
both. The proof follows the code: a lemma for each shared function says what it makes of
the fields `now` it is called with, and each event is then one step.

It also proves `LostConnectionIsRetried` under the same conditions. That
rests on one more invariant, `UnconnectedIsDown`: a network without a socket shows
Disconnected or Reconnecting. The retry timer does nothing in any other state, so
without it a timer could fire and be lost; it holds although `socketStateChanged()`
overwrites what `socketDisconnected()` has set.

`SendQueueProofs` proves for every burst size, word size and initial garbage: `TypeOK`,
`TokensWithinBurst`, `WaitingLinesHaveTimer` and `RateIsLimited`. The inductive
invariant adds two facts the code relies on silently: a limit in force always has its
timer running (`LimitHasTimer`), and what was written since the last tick plus what is
left in the bucket stays within the largest burst size (`BudgetIsKept`). `OrderIsKept` is
proved of the lines written and the lines waiting taken as one sequence: a new line goes
ahead of a waiting one only when it was put first, or when the waiting ones do not
count for the order; that rests on a registered connection with tokens left having no
waiting line that counts (`OrderInv`).

`IrcStateProofs` proves `MembershipSymmetric` and `ChannelsAlive` for all nicks, channels
and bounds. The inductive invariant `Good` adds that users are filed under their nick
(`Filed`): `setNick()` takes the entry of the old nick, and without `Filed` could take
another's. Each operator of `IrcObjects` has a lemma that it preserves `Good`, and a step
is the chain of the lemmas of its handler. That the creation of a user does not reuse a live
object rests on the guard `Room`.

Its second half proves `HeldBackIsTimed` and `TypeOK`. That is about the lists of the split
alone (`Sound`); that an entry taken out of a list leaves no quit unannounced needs the first
occurrence of a nick, which `LeastNatural` provides by well-foundedness.

Its last part proves `ViewMatches` (`ViewIsTheServers`) for any nicks, channels, bounds and
histories of splits by the book. `ViewMatches` is not inductive: it says nothing of the channel
whose NAMES reply is on its way, of who a split may be about, or of users the core knows and shows
nowhere. The inductive invariant (`VInv`; `BooksAreRight`) has five parts besides: the core lists
the channels its user is on and files everybody who is on one (`Mine`); by nick, what it has written
down and what the split holds back make up what the server knows (`Shown`, which is `ViewMatches`);
a channel just joined has the core's user alone until its list comes (`Fresh`); a split is about others than
that user, on channels the core has, and whose join is held back is known (`Held`), without which
`handleNetsplitJoin()` would drop a join; and who is to quit is still to quit everywhere
(`Whole`), without which the quit of one channel would take a user off a channel it has joined again.
`AlreadyJoined`, which compares masks, agrees with `Pending`, which compares nicks, unless the user has
moved, and this is what `Odd` excludes of `GiveMode`; the lists of masks are brought to nicks by
`MaskIsMask` and `QuittersAreNicks`.
Two layers of lemmas prove it. Those named `...View` say what each operator does to who is on a channel,
by nick (`In`, `Has`), objects and numbers left aside; those named `...Book` take a change at the server
together with the handler that hears of it. `Odd` is where each uses that the split is by the book. That
a bulk join gives each user its own mode is `BulkJoinView`: when all users are known no mode is dropped
(`ModesLeftWhole`), and the rank of a place among all places is the place itself. TLC checked the
parts of `VInv` as invariants on the instance of `irc_state` before they were proved.

`CoreThreadsProofs` proves `TypeOK` and `CoreIsReachable` for all connections, users and
bounds. The invariant of the second, `Reachable`, adds that an unconfigured core listens
*exactly* when nobody is connecting: without it two clients could be connecting, and the one that
leaves would make the core listen while the other stays. `OnePlace` follows from a statement
about places as sets, `Placed`: no queue holds a connection twice, no two places hold the same
one, and one that exists is somewhere. Sequences that are cut and appended to keep it by
lemmas about the sets of their elements. That `CoreThreads` implements `LoginQueue`
(`IsLoginQueue`) is proved from the same invariants and one more, `NobodyLeftBehind`: a session
that was announced to the core thread has an empty queue of clients. Without it a client posted
to a running session would overtake those that waited for its start. The line of a session is
three sequences of two threads; what is posted for a session is picked out of the core's events
by rank (`Nth`), and the lemmas say what a posted or a handled event does to each part.

`SessionSyncProofs` proves for all nicks and bounds: `TypeOK`, `Converged`, and that
`SessionSync` implements `DelayedView` (`ViewIsDelayed`). The property alone speaks only of
the moment when nothing is under way; the inductive invariant, `SyncInv`, says what each message
under way means. The client stands where the next message expects it (`Heard`), each message
follows from the one before (`LinesOK`: `Linked`), and the last one leaves the client where the
core is (`UpToDate`). Users the client has not settled are asked about, answered or gone
(`AskedAbout`), and a network that is still fresh has no settled users and its data coming
(`FreshNet`). There is one lemma per handler of the client and one per event of the core, and
the refinement is read off the same invariant: a delivered message moves the client's view to
one the core had.

`CapNegotiationProofs` proves `TypeOK` and `EnabledAgree` for any capabilities, sizes of bundles and
numbers of changes and connections, and `OneAnswerAtATime` and `SaslBeforeEnd` for a server that
announces no change before its welcome. The invariant has two halves. `Views` follows what the
core knows through the lines under way to it, whatever they are: handling them one after
the other (`Seen`) leads from the core's record to what the server has turned on (`Agrees`).
It does not care which line answers which request, so that it holds with early changes too.
`Course` is the dialogue as it was meant: which line is under way, what is queued, and where
SASL has got to (`Talk`, `SaslOnce`, `SaslComes`, `WantedAsked`). It holds until the first change, and
`EarlyChanges = FALSE` means that this comes when the negotiation is over (`Late`). The assumption is one
about the server, not about the code: with early changes both properties are false, as listed
under the known deviations. The attempt to prove an earlier `EnabledAgree` failed for a good reason: after
DEL and NEW a request under way can put a capability that is on into a bundle that is denied, and the
core then takes it off its list. So the property is of sets. What the server has turned on and the core
does not know of has been `skipped`: it was in a denied bundle and no retry will have it. What the core
takes for on and the server does not is `unlisted`: it was granted when it was not on the list. All other
capabilities agree whenever the dialogue rests (`Settled`), denied bundles included, and without changes all that
are wanted and would be granted are on. `Views` carries the two sets along (`Sensible`), and `ToCome` says that a
capability that is on at the server and not in the core's view is still to be asked for or heard of;
`Course` has the rest (`AnswersFit`, `WantedAsked`).

`BufferMarksProofs` proves all safety properties of its module for any buffers, flags and bounds.
`NothingLeft` is about ids alone. That only orphans are left in memory: a buffer that exists keeps its id while a turn makes others
(`BuffersStay`), and each message of the turn is counted for a buffer that exists then (`PlacesExist`),
so that no step gives marks to an id without a buffer. That an orphan is never another buffer's id needs that
ids are given once, and that an orphan was given before. `TypeOK` needs that no mark goes beyond the
backlog and no id beyond the last one given (`Sound`); `StoredOnceInOrder` that the numbers in the
queue rise and are above those stored (`InLine`). `UnseenIsShown` and `SavedUnlessDirty` are one
invariant on top of these (`Agree`), since a restart shows what was saved: each buffer is shown what the
backlog has after its mark, and is saved as it is shown unless dirty, with a mark that is never ahead
of the one in memory. What a turn appends to the backlog is written as the message of each rank
(`Stored`, `Rows`) and not with `SelectSeq` and `\o`, whose definition is closed to the provers; that the ranks
are a permutation that keeps the order of each kind is `RowsAreOrdered`.

`CoreServicesProofs` is about two modules. Of `EventManager` it proves that
nothing is ever put into the event queue (`QueueIsNeverUsed`), whatever events, handlers and filters
there are: an event that a handler posts finds it empty and is dispatched at once. Of `IdentServer` it proves
`TypeOK` and `NoUserIsTrue` for any networks, numbers and questions. `lowestSocketId()` looks at the
head of the list alone, so the invariant says of each connection under way whose number is in order
that this number is in the list with nothing in front of it that is as high as the counter (`Waits`), and
the same of each request and the counter it was asked at (`Requests`). That
needs the numbers to rise until the counter is set back (`Below`, `Lower`), and afterwards that none
in order is still to be put into the list (`After`); that a number in order has one owner (`Single`), whose
posted events are the only ones to carry it, an `add` only as the last of its network and a `remove` only when
that connection has ended (`Owners`, `Adds`, `Removes`), so that no other event takes it out of the
list; and that a number is not asked about before it is in the list (`Questions`). The proof is what
showed that numbers get overtaken: with the two networks of the run they do not. What is left of a
list without a number is written with the ranks of its places (`Without`), for the definition of
`SelectSeq` is closed to the provers; the queue of requests is a set, since each is answered by itself.

The assumptions are those named in the modules: they say the constants have the types
the code gives them and that bursts are at least 1 and below the word.

Only model-checked: all liveness properties, which are outside the prover's reach.

## Not modelled

Within the modelled parts: the contents of lines and settings; the ping interval and
other durations (a timer that runs may fire at any time); SSL errors; the proxy; for
`CoreThreads` the probing of protocols, wrong passwords and the change of users; for `IdentServer`
ports shared by two connections and the file of oidentd; for `BufferMarks` several networks,
marker lines, which go the way of the last message seen, and requests for backlog; for
`IrcState` channel modes, topics, away, accounts and the change of a host without a new connection; for `SessionSync` channels, requests from the client to the core and
`restrictTargetPeers()`. Outside them: see the components with status `not_modelled` or
`partly` in `PROJECT.json`, each with its reason.

Components without a module, and why: the polling by WHO (`corenetwork.cpp:1295-1392`) and DCC
transfers are state machines of their own that would be the next to model; aliases, ignore and
highlight rules are functions over strings and regular expressions; ciphers, authenticators and
wire formats are encodings; the item models and the graphical client present what is
synchronised, and they are the larger part of the source.

## Plan

The modules in the order in which they were written, the most valuable first:

1. `CoreNetwork`, `SendQueue`, `IrcObjects` and `IrcState`, with their proofs; `CapNegotiation`;
   `DelayedView` and `SessionSync`.
2. `CoreThreads` and `LoginQueue`, with proofs.
3. `BufferMarks`, `IdentServer` and `EventManager`, with proofs.
4. `SessionSyncProofs`: that the client converges and that `SessionSync` implements `DelayedView`.

What is left: `AutoWho` with its two timers and the switch by away-notify; `Transfer`; the
expansion of aliases and the splitting of messages against reference definitions.
