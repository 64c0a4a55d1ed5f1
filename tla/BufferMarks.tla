---------------------------- MODULE BufferMarks ----------------------------
(***************************************************************************)
(* The messages of one user on their way into the backlog, and what the    *)
(* core remembers of each buffer for the clients: the last message seen,   *)
(* the number of highlights and whether there is activity since then.      *)
(*                                                                         *)
(* CoreSession collects the messages of one turn of its event loop and     *)
(* stores them together (processMessages); a stored message is told to     *)
(* CoreBufferSyncer, which counts it.  Clients move the last message seen, *)
(* mark buffers as read, remove and merge them.  The marks live in memory  *)
(* and are written to the buffer table every now and then (storeDirtyIds): *)
(* the core may stop before that, and reads them back when it starts.      *)
(*                                                                         *)
(* One network is modelled: a target is a name that messages go to, Status *)
(* the one of the network's own buffer.  The rows of the backlog are a     *)
(* sequence: the position is the message's id, and a deleted row keeps its *)
(* place.  Ids, of messages as of buffers, are given once (AUTOINCREMENT). *)
(***************************************************************************)
EXTENDS Naturals, Sequences, FiniteSets, FiniteSetsExt, SequencesExt

CONSTANTS
    Targets,     \* the names of the network's buffers
    Status,      \* the one of the status buffer
    Flags,       \* the sets of flags a message may have
    MaxMessages, \* the bound on the messages received
    MaxBuffers   \* the bound on the ids of buffers

ASSUME StatusIsATarget == Status \in Targets
ASSUME FlagsAreSets == Flags \subseteq SUBSET {"Highlight", "Self", "Redirected"}
ASSUME BoundsAreNumbers == MaxMessages \in Nat /\ MaxBuffers \in Nat

VARIABLES
    bufferOf, \* the buffer table: the id of each target's buffer, 0 if there is none
    lastId,   \* the id given last to a buffer
    backlog,  \* the backlog table
    open,     \* does the network exist
    queue,    \* CoreSession::_messageQueue
    posted,   \* CoreSession::_processMessages
    received, \* the number of messages received
    marks,    \* CoreBufferSyncer: lastSeen, highlights and active of each buffer id
    dirty,    \* the ids whose lastSeen, highlights, active have to be stored
    saved,    \* the same three columns of the buffer table
    lax,      \* history: buffers whose marks need not agree with the backlog
    orphans   \* history: ids without a buffer whose marks were not taken away

tables == <<bufferOf, lastId, backlog, saved>>
syncer == <<marks, dirty>>
vars == <<tables, syncer, open, queue, posted, received, lax, orphans>>

Ids == 1..MaxBuffers
Existing == {bufferOf[t] : t \in Targets} \ {0}
Message == [n : 1..MaxMessages, target : Targets, flags : Flags]
Row == [n : 1..MaxMessages, buffer : 0..MaxBuffers, flags : Flags]
Marks == [lastSeen : [Ids -> 0..MaxMessages], highlights : [Ids -> 0..MaxMessages], active : [Ids -> BOOLEAN]]
NoMarks == [lastSeen |-> [b \in Ids |-> 0], highlights |-> [b \in Ids |-> 0], active |-> [b \in Ids |-> FALSE]]
Clean == [lastSeen |-> {}, highlights |-> {}, active |-> {}]

\* The marks m with those of the buffers B as in r.
Replaced(m, B, r) == [lastSeen   |-> [b \in Ids |-> IF b \in B THEN r.lastSeen[b] ELSE m.lastSeen[b]],
                      highlights |-> [b \in Ids |-> IF b \in B THEN r.highlights[b] ELSE m.highlights[b]],
                      active     |-> [b \in Ids |-> IF b \in B THEN r.active[b] ELSE m.active[b]]]

\* Nothing is noted of buffer b.
Blank(m, b) == m.lastSeen[b] = 0 /\ m.highlights[b] = 0 /\ ~m.active[b]

Redirected(m) == "Redirected" \in m.flags
ByOthers(m) == "Self" \notin m.flags
IsHighlight(m) == "Highlight" \in m.flags /\ ByOthers(m)

\* The ids of the messages of buffer b that came after the message id.
After(log, b, id) == {i \in DOMAIN log : i > id /\ log[i].buffer = b}

-----------------------------------------------------------------------------
(***************************************************************************)
(* Receiving and storing messages                                          *)
(***************************************************************************)

\* A message arrives; the first one of a turn posts the event.
RecvMessage(t, f) ==
    /\ open
    /\ received < MaxMessages
    /\ received' = received + 1
    /\ queue' = Append(queue, [n |-> received + 1, target |-> t, flags |-> f])
    /\ posted' = TRUE
    /\ UNCHANGED <<tables, syncer, open, lax, orphans>>

\* The message at i of the queue does not make its buffer, and finds none:
\* none was there and no message before it made one.
Waits(i) == /\ Redirected(queue[i])
            /\ bufferOf[queue[i].target] = 0
            /\ \A j \in 1..(i - 1) : queue[j].target = queue[i].target => Redirected(queue[j])

\* The messages of the queue that make the buffer of their target, each
\* target once; the status buffer is made last, for those that found none.
Makers == {i \in DOMAIN queue :
              /\ ~Redirected(queue[i])
              /\ bufferOf[queue[i].target] = 0
              /\ \A j \in 1..(i - 1) : queue[j].target = queue[i].target => Redirected(queue[j])}
WithMade == [t \in Targets |->
                LET made == {i \in Makers : queue[i].target = t}
                IN  IF made = {} THEN bufferOf[t]
                    ELSE lastId + Cardinality({i \in Makers : \E j \in made : i <= j})]
Homeless == {i \in DOMAIN queue : WithMade[queue[i].target] = 0}
NeedsStatus == Homeless # {} /\ WithMade[Status] = 0
BuffersAfter == [WithMade EXCEPT ![Status] = IF NeedsStatus THEN lastId + Cardinality(Makers) + 1 ELSE @]

\* A mutant: the id of the status buffer is not counted.
StatusNotCounted == lastId + Cardinality(Makers)

LastIdAfter == lastId + Cardinality(Makers) + (IF NeedsStatus THEN 1 ELSE 0)

\* The buffer of message m: the one of its target, or else the status buffer.
PlaceOf(m) == BuffersAfter[IF WithMade[m.target] = 0 THEN Status ELSE m.target]
RowOf(m) == [n |-> m.n, flags |-> m.flags, buffer |-> PlaceOf(m)]

\* The message at j of the queue is stored before the one at i, or is that
\* one: in the order of the queue, but those that wait after all others.
UpTo(j, i) == IF Waits(j) <=> Waits(i) THEN j <= i ELSE Waits(i)

\* The rows of the queue: the k-th is of the message up to which there are k.
Stored(k) == CHOOSE i \in DOMAIN queue : Cardinality({j \in DOMAIN queue : UpTo(j, i)}) = k

\* A mutant: the messages that wait for a buffer come first.
WaitingFirst ==
    LET Before(j, i) == IF Waits(j) <=> Waits(i) THEN j <= i ELSE Waits(j)
        First(k) == CHOOSE i \in DOMAIN queue : Cardinality({j \in DOMAIN queue : Before(j, i)}) = k
    IN  [k \in DOMAIN queue |-> RowOf(queue[First(k)])]

Rows == [k \in DOMAIN queue |-> RowOf(queue[Stored(k)])]

\* The table with the rows added, in one transaction.
Logged(rows) == backlog \o rows

\* What the messages of the queue add to buffer b.
NewHighlights(b) == {i \in DOMAIN queue : PlaceOf(queue[i]) = b /\ IsHighlight(queue[i])}
Touched == {PlaceOf(queue[i]) : i \in DOMAIN queue}

\* A mutant: own messages count.
CountOwn ==
    /\ marks' = [lastSeen |-> marks.lastSeen,
                 active |-> [b \in Ids |-> marks.active[b] \/ b \in Touched],
                 highlights |-> [b \in Ids |-> marks.highlights[b]
                                                + Cardinality({i \in DOMAIN queue : PlaceOf(queue[i]) = b})]]
    /\ dirty' = [dirty EXCEPT !.active = @ \union Touched, !.highlights = @ \union Touched]

\* addBufferActivity() and addCoreHighlight(), for each stored message.
Count ==
    /\ marks' = [lastSeen |-> marks.lastSeen,
                 active |-> [b \in Ids |-> marks.active[b] \/ b \in Touched],
                 highlights |-> [b \in Ids |-> marks.highlights[b] + Cardinality(NewHighlights(b))]]
    /\ dirty' = [dirty EXCEPT
          !.active = @ \union {b \in Touched : ~marks.active[b]},
          !.highlights = @ \union {b \in Touched : NewHighlights(b) # {}}]

\* The turn's messages are stored, all or none of them; the buffers that
\* were made for them stay in either case.
ProcessMessages ==
    /\ posted
    /\ LastIdAfter <= MaxBuffers
    /\ bufferOf' = BuffersAfter
    /\ lastId' = LastIdAfter
    /\ \/ backlog' = Logged(Rows) /\ Count
       \/ queue # <<>> /\ UNCHANGED <<backlog, syncer>>
    /\ queue' = <<>>
    /\ posted' = FALSE
    /\ UNCHANGED <<saved, open, received, lax, orphans>>

-----------------------------------------------------------------------------
(***************************************************************************)
(* What the clients ask for                                                *)
(***************************************************************************)

HighlightCount(b, id) == Cardinality({i \in After(backlog, b, id) : IsHighlight(backlog[i])})
BufferActivity(b, id) == \E i \in After(backlog, b, id) : ByOthers(backlog[i])

\* The client has seen buffer b up to message id: the core counts anew what
\* came after it.  Nobody looks whether the buffer is still there.
RequestSetLastSeenMsg(b, id) ==
    /\ marks.lastSeen[b] < id
    /\ marks' = [lastSeen |-> [marks.lastSeen EXCEPT ![b] = id],
                 highlights |-> [marks.highlights EXCEPT ![b] = HighlightCount(b, id)],
                 active |-> [marks.active EXCEPT ![b] = BufferActivity(b, id)]]
    /\ dirty' = [lastSeen |-> dirty.lastSeen \union {b},
                 highlights |-> dirty.highlights \union {b},
                 active |-> dirty.active \union {b}]
    /\ lax' = lax \ {b}
    /\ orphans' = IF b \in Existing THEN orphans ELSE orphans \union {b}
    /\ UNCHANGED <<tables, open, queue, posted, received>>

\* The client marks the buffer as read: nothing is counted any more, but
\* the last message seen stays where it was.
RequestMarkBufferAsRead(b) ==
    /\ marks' = [marks EXCEPT !.highlights[b] = 0, !.active[b] = FALSE]
    /\ dirty' = [dirty EXCEPT !.highlights = @ \union {b}, !.active = @ \union {b}]
    /\ lax' = lax \union (Existing \intersect {b})
    /\ UNCHANGED <<tables, open, queue, posted, received, orphans>>

\* The table with the rows of buffer b moved to another one, or deleted.
Moved(b, to) == [i \in DOMAIN backlog |-> IF backlog[i].buffer = b THEN [backlog[i] EXCEPT !.buffer = to] ELSE backlog[i]]
WithoutBuffer(b) == Moved(b, 0)

\* A mutant: the marks are left behind.
RemoveRowsOnly(t) ==
    LET b == bufferOf[t]
    IN  /\ b # 0 /\ t # Status
        /\ bufferOf' = [bufferOf EXCEPT ![t] = 0]
        /\ backlog' = WithoutBuffer(b)
        /\ saved' = Replaced(saved, {b}, NoMarks)
        /\ lax' = lax \ {b}
        /\ UNCHANGED <<lastId, syncer, open, queue, posted, received, orphans>>

\* The client removes a buffer, which is not the status buffer nor that of a
\* channel the user is on.
RemoveBuffer(t) ==
    LET b == bufferOf[t]
    IN  /\ b # 0 /\ t # Status
        /\ bufferOf' = [bufferOf EXCEPT ![t] = 0]
        /\ backlog' = WithoutBuffer(b)
        /\ saved' = Replaced(saved, {b}, NoMarks)
        /\ marks' = Replaced(marks, {b}, NoMarks)
        /\ lax' = lax \ {b}
        /\ UNCHANGED <<lastId, dirty, open, queue, posted, received, orphans>>

\* The client merges the buffer of t2 into the one of t1, whose marks stay
\* as they were.
MergeBuffersPermanently(t1, t2) ==
    LET b1 == bufferOf[t1]
        b2 == bufferOf[t2]
    IN  /\ t1 # t2 /\ Status \notin {t1, t2}
        /\ b1 # 0 /\ b2 # 0
        /\ bufferOf' = [bufferOf EXCEPT ![t2] = 0]
        /\ backlog' = Moved(b2, b1)
        /\ saved' = Replaced(saved, {b2}, NoMarks)
        /\ marks' = Replaced(marks, {b2}, NoMarks)
        /\ lax' = (lax \ {b2}) \union {b1}
        /\ UNCHANGED <<lastId, dirty, open, queue, posted, received, orphans>>

\* The client renames a buffer, to a name that no other buffer has.
RenameBuffer(t, new) ==
    /\ bufferOf[t] # 0 /\ bufferOf[new] = 0
    /\ Status \notin {t, new}
    /\ bufferOf' = [bufferOf EXCEPT ![t] = 0, ![new] = bufferOf[t]]
    /\ UNCHANGED <<lastId, backlog, saved, syncer, open, queue, posted, received, lax, orphans>>

\* The client asks for the marks of buffers that are no more to be purged.
\* Only ids with a last message seen are looked at.
PurgeBufferIds ==
    LET gone == {b \in Ids \ Existing : marks.lastSeen[b] > 0}
    IN  /\ marks' = Replaced(marks, gone, NoMarks)
        /\ orphans' = orphans \ gone
        /\ UNCHANGED <<tables, dirty, open, queue, posted, received, lax>>

-----------------------------------------------------------------------------
(***************************************************************************)
(* The network is removed, the marks are stored, the core stops            *)
(***************************************************************************)

\* The network's buffers and their messages are deleted.
NetworkDeleted ==
    /\ bufferOf' = [t \in Targets |-> 0]
    /\ backlog' = [i \in DOMAIN backlog |-> [backlog[i] EXCEPT !.buffer = 0]]
    /\ saved' = NoMarks

\* The network's buffers are taken out of the tables, its messages out of
\* the queue.  Then the syncer is told, but it finds no buffer of that id
\* any more and leaves its marks as they are.
DestroyNetwork ==
    /\ open
    /\ open' = FALSE
    /\ NetworkDeleted
    /\ queue' = <<>>
    /\ lax' = {}
    /\ orphans' = orphans \union Existing
    /\ UNCHANGED <<lastId, syncer, posted, received>>

\* buffer.lastmsgid: the id of the buffer's newest row.
LastMsg(b) == LET rows == After(backlog, b, 0) IN IF rows = {} THEN 0 ELSE Max(rows)

\* The column never goes beyond the last message of the buffer.
LastSeenColumn(b) == IF b \in dirty.lastSeen \intersect Existing /\ marks.lastSeen[b] > 0
                     THEN Min({marks.lastSeen[b], LastMsg(b)}) ELSE saved.lastSeen[b]

\* A mutant: only the last messages seen are stored.
StoreLastSeenOnly ==
    /\ saved' = [saved EXCEPT !.lastSeen = [b \in Ids |-> LastSeenColumn(b)]]
    /\ dirty' = Clean
    /\ UNCHANGED <<bufferOf, lastId, backlog, marks, open, queue, posted, received, lax, orphans>>

\* What changed is written into the rows that are still there.
StoreDirtyIds ==
    /\ saved' = [
          lastSeen |-> [b \in Ids |-> LastSeenColumn(b)],
          highlights |-> [b \in Ids |-> IF b \in dirty.highlights \intersect Existing
                                        THEN marks.highlights[b] ELSE saved.highlights[b]],
          active |-> [b \in Ids |-> IF b \in dirty.active \intersect Existing THEN marks.active[b] ELSE saved.active[b]]]
    /\ dirty' = Clean
    /\ UNCHANGED <<bufferOf, lastId, backlog, marks, open, queue, posted, received, lax, orphans>>

\* The core stops and starts again: the messages of the queue are lost, the
\* marks are what the table says.
Restart ==
    /\ marks' = saved
    /\ dirty' = Clean
    /\ queue' = <<>>
    /\ posted' = FALSE
    /\ lax' = (lax \union dirty.lastSeen \union dirty.highlights \union dirty.active) \intersect Existing
    /\ orphans' = {}
    /\ UNCHANGED <<tables, open, received>>

Init ==
    /\ bufferOf = [t \in Targets |-> 0] /\ lastId = 0
    /\ backlog = <<>>
    /\ open = TRUE
    /\ queue = <<>> /\ posted = FALSE /\ received = 0
    /\ marks = NoMarks /\ dirty = Clean /\ saved = NoMarks
    /\ lax = {} /\ orphans = {}

Next ==
    \/ \E t \in Targets, f \in Flags : RecvMessage(t, f)
    \/ ProcessMessages
    \/ \E b \in 1..lastId, id \in DOMAIN backlog : RequestSetLastSeenMsg(b, id)
    \/ \E b \in 1..lastId : RequestMarkBufferAsRead(b)
    \/ \E t \in Targets : RemoveBuffer(t)
    \/ \E t1, t2 \in Targets : MergeBuffersPermanently(t1, t2)
    \/ \E t, new \in Targets : RenameBuffer(t, new)
    \/ PurgeBufferIds
    \/ DestroyNetwork
    \/ StoreDirtyIds
    \/ Restart

Spec == Init /\ [][Next]_vars

-----------------------------------------------------------------------------
(***************************************************************************)
(* Properties                                                              *)
(***************************************************************************)

\* The type of each variable; rows and messages in the bounds, and only ids
\* that were given.
TypeOK ==
    /\ bufferOf \in [Targets -> 0..lastId]
    /\ lastId \in 0..MaxBuffers
    /\ backlog \in Seq(Row)
    /\ open \in BOOLEAN
    /\ queue \in Seq(Message)
    /\ posted \in BOOLEAN
    /\ received \in 0..MaxMessages
    /\ marks \in Marks /\ saved \in Marks
    /\ dirty \in [lastSeen : SUBSET Ids, highlights : SUBSET Ids, active : SUBSET Ids]
    /\ lax \subseteq Ids /\ orphans \subseteq Ids

\* What clients are shown of a buffer is what is in the backlog after the
\* last message seen: the number of highlights by others, and activity if
\* there is anything by others at all.  Not so after the buffer was marked
\* as read, merged into, or the core stopped before the marks were stored:
\* then it is again as soon as a client moves the last message seen.
UnseenIsShown ==
    \A b \in Existing \ lax :
        LET unseen == After(backlog, b, marks.lastSeen[b])
        IN  /\ marks.highlights[b] = Cardinality({i \in unseen : IsHighlight(backlog[i])})
            /\ (\E i \in unseen : ByOthers(backlog[i])) => marks.active[b]

\* Everything that is not marked for storing is stored: a core that starts
\* anew shows of each buffer the highlights and the activity it showed
\* before, and no message is unseen that was seen.
SavedUnlessDirty ==
    \A b \in Existing :
        /\ b \notin dirty.highlights => saved.highlights[b] = marks.highlights[b]
        /\ b \notin dirty.active => saved.active[b] = marks.active[b]
        /\ b \notin dirty.lastSeen =>
              /\ saved.lastSeen[b] <= marks.lastSeen[b]
              /\ b \notin lax => After(backlog, b, saved.lastSeen[b]) = After(backlog, b, marks.lastSeen[b])

\* Of a buffer that is gone nothing is left in the table, nor in memory but for two
\* kinds of orphans: buffers whose network was removed with them, and ids that a
\* client spoke of when they were gone.  Those never come to stand for another
\* buffer: what is left of one is never shown as that of another.
OnlyOrphansAreLeft ==
    \A b \in Ids \ Existing :
        /\ Blank(saved, b)
        /\ b \notin orphans => Blank(marks, b)
NeverAnothers == orphans \intersect Existing = {}
NothingLeft == OnlyOrphansAreLeft /\ NeverAnothers

\* When a network is removed its buffers are removed from the syncer, as the
\* comment in destroyNetwork() has it ("remove buffers from syncer").
NetworkLeavesNothing == [][open /\ ~open' => \A b \in Existing : Blank(marks', b)]_vars

\* Each message is stored at most once, a turn that fails loses its messages; and
\* in the order of arrival but for those that were redirected and found no buffer.  No message waits
\* without the event that processes it.
StoredOnceInOrder ==
    /\ \A i, j \in DOMAIN backlog :
          i < j => /\ backlog[i].n # backlog[j].n
                   /\ backlog[i].n > backlog[j].n => Redirected(backlog[j])
    /\ \A i \in DOMAIN backlog, j \in DOMAIN queue : backlog[i].n < queue[j].n
    /\ queue # <<>> => posted
=============================================================================
