----------------------------- MODULE SendQueue -----------------------------
(***************************************************************************)
(* The lines one network sends to its IRC server: CoreNetwork's message    *)
(* queue and the token bucket that limits its rate                         *)
(* (src/src/core/corenetwork.cpp: putRawLine(), updateRateLimiting(),      *)
(* checkTokenBucket()), over the life of its connections.                  *)
(*                                                                         *)
(* A line is a number with a kind.  `wire' holds what has been handed to   *)
(* the socket of the current connection; a socket that is still connecting *)
(* keeps it and sends it first, a closed one refuses it.                   *)
(***************************************************************************)
EXTENDS Integers, Sequences

CONSTANTS
    Word,           \* _tokenBucket and _burstSize count modulo this (2^32 in the code)
    BurstSizes,     \* the custom burst sizes clients may set
    DefaultBurst,   \* burst size without custom rates (5 in the code)
    Garbage,        \* values the uninitialised token bucket may start with
    MaxLines        \* bound: lines put in one behaviour

ASSUME BurstAssumption ==
    /\ Word \in Nat
    /\ BurstSizes \subseteq 1 .. Word - 1
    /\ DefaultBurst \in 1 .. Word - 1
    /\ Garbage \subseteq 0 .. Word - 1
ASSUME MaxLinesAssumption == MaxLines \in Nat

VARIABLES
    config,     \* the custom rate settings of the network
    burst, tokens, skip,    \* _burstSize, _tokenBucket, _skipMessageRates
    timer,      \* _tokenBucketTimer is active
    queue,      \* _msgQueue
    stage,      \* of the connection: see Stages
    stopping,   \* the core is shutting down and has sent its QUIT
    wire, lines,            \* written to this connection; number of lines put
    written, allowed        \* history: written under the limit since the last
                            \* tick, and the largest burst size since then

limitVars == <<burst, tokens, skip, timer>>
windowVars == <<written, allowed>>
vars == <<config, limitVars, queue, stage, stopping, wire, lines, windowVars>>

\* No socket; connecting; socketInitialized() has greeted the server;
\* networkInitialized() has run.
Stages == {"closed", "opening", "greeted", "initialized"}
Registered == stage \in {"greeted", "initialized"}

Configs == [custom : BOOLEAN, burst : BurstSizes, unlimited : BOOLEAN]
Kinds == {"greeting", "plain", "urgent", "quit"}
Lines == [number : Nat, kind : Kinds, registered : BOOLEAN]

Smaller(a, b) == IF a < b THEN a ELSE b
Larger(a, b) == IF a < b THEN b ELSE a

Limits == [burst |-> burst, tokens |-> tokens, skip |-> skip, timer |-> timer]
SetLimits(limits) ==
    /\ burst' = limits.burst /\ tokens' = limits.tokens
    /\ skip' = limits.skip /\ timer' = limits.timer

----------------------------------------------------------------------------
\* Mutant: a shrinking burst size leaves the tokens alone.
KeepsTokens(limits, settings, force) ==
    LET size == IF settings.custom \/ force THEN settings.burst ELSE DefaultBurst
        free == force \/ (settings.custom /\ settings.unlimited)
    IN  [burst |-> size, tokens |-> limits.tokens, skip |-> free,
         timer |-> ~free \/ queue # <<>>]

\* updateRateLimiting().  Without a limit the timer runs only to empty the queue.
UpdateRateLimiting(limits, settings, force) ==
    LET size == IF settings.custom \/ force THEN settings.burst ELSE DefaultBurst
        free == force \/ (settings.custom /\ settings.unlimited)
    IN  [burst |-> size, tokens |-> Smaller(limits.tokens, size), skip |-> free,
         timer |-> ~free \/ queue # <<>>]

\* writeToSocket(), for the first n lines of s.
Write(s, n, held) ==
    /\ wire' = IF stage = "closed" THEN wire ELSE wire \o SubSeq(s, 1, n)
    /\ tokens' = IF skip THEN held ELSE (held - n) % Word
    /\ written' = IF skip THEN written ELSE written + n

NewLine(kind) == [number |-> lines + 1, kind |-> kind, registered |-> Registered]

\* Mutant: an urgent line does not wait for a token.
UrgentBypasses(line, waiting) ==
    /\ IF tokens > 0 \/ line.kind = "urgent" \/ (skip /\ waiting = <<>>)
       THEN Write(<<line>>, 1, tokens) /\ queue' = waiting
       ELSE queue' = Append(waiting, line) /\ UNCHANGED <<wire, tokens, written>>
    /\ lines' = lines + 1

\* Mutant: without a limit the line overtakes what is waiting.
NoLimitOvertakes(line, waiting) ==
    /\ IF tokens > 0 \/ skip
       THEN Write(<<line>>, 1, tokens) /\ queue' = waiting
       ELSE /\ queue' = IF line.kind = "urgent" THEN <<line>> \o waiting
                                                ELSE Append(waiting, line)
            /\ UNCHANGED <<wire, tokens, written>>
    /\ lines' = lines + 1

\* putRawLine(), with the lines that are waiting.
PutRawLine(line, waiting) ==
    /\ IF tokens > 0 \/ (skip /\ waiting = <<>>)
       THEN Write(<<line>>, 1, tokens) /\ queue' = waiting
       ELSE /\ queue' = IF line.kind = "urgent" THEN <<line>> \o waiting
                                                ELSE Append(waiting, line)
            /\ UNCHANGED <<wire, tokens, written>>
    /\ lines' = lines + 1

----------------------------------------------------------------------------
\* A line of the user or of the core itself.  Nothing asks whether the network
\* is connected.  PING and PONG are urgent.
Put(urgent) ==
    /\ ~stopping /\ lines < MaxLines
    /\ PutRawLine(NewLine(IF urgent THEN "urgent" ELSE "plain"), queue)
    /\ UNCHANGED <<config, burst, skip, timer, stage, stopping, allowed>>

\* Mutant: without a limit the timer just stops.
IdleWhenFree == skip

\* checkTokenBucket(): the timer that empties an unlimited queue is done.
Emptied == skip /\ queue = <<>>

\* Mutant: the bucket has no rim.
Overfilled == tokens + 1

\* fillBucketAndProcessQueue(): one more token.
Filled == IF tokens < burst THEN tokens + 1 ELSE tokens

CheckTokenBucket ==
    /\ timer
    /\ IF Emptied
       THEN /\ timer' = FALSE
            /\ UNCHANGED <<tokens, queue, wire, written, allowed>>
       ELSE LET n == IF skip THEN Len(queue) ELSE Smaller(Len(queue), Filled)
            IN  /\ wire' = IF stage = "closed" THEN wire
                           ELSE wire \o SubSeq(queue, 1, n)
                /\ tokens' = IF skip THEN Filled ELSE Filled - n
                /\ queue' = SubSeq(queue, n + 1, Len(queue))
                /\ written' = IF skip THEN 0 ELSE n
                /\ allowed' = burst
                /\ UNCHANGED timer
    /\ UNCHANGED <<config, burst, skip, stage, stopping, lines>>

\* setNetworkInfo() assigns the settings one by one, and each that changes
\* updates the limits with what is assigned by then.
Configure(new, delayChanged) ==
    LET step1 == [config EXCEPT !.custom = new.custom]
        step2 == [step1 EXCEPT !.burst = new.burst]
        limits1 == IF new.custom = config.custom THEN Limits
                   ELSE UpdateRateLimiting(Limits, step1, FALSE)
        limits2 == IF new.burst = config.burst /\ ~delayChanged THEN limits1
                   ELSE UpdateRateLimiting(limits1, step2, FALSE)
        limits3 == IF new.unlimited = config.unlimited THEN limits2
                   ELSE UpdateRateLimiting(limits2, new, FALSE)
    IN  /\ ~stopping
        /\ new # config \/ delayChanged
        /\ config' = new
        /\ SetLimits(limits3)
        /\ allowed' = Larger(Larger(allowed, limits1.burst),
                             Larger(limits2.burst, limits3.burst))
        /\ UNCHANGED <<queue, stage, stopping, wire, lines, written>>

\* connectToIrc(): the queue is left as it is.
ConnectToIrc ==
    /\ stage = "closed" /\ ~stopping
    /\ stage' = "opening"
    /\ wire' = <<>>
    /\ UNCHANGED <<config, limitVars, queue, stopping, lines, windowVars>>

\* socketInitialized(): no limit until the network is initialised, a full
\* bucket, and the first lines of the protocol (CAP LS, PASS, NICK and USER,
\* one line here) that both let through.
SocketInitialized ==
    LET free == UpdateRateLimiting(Limits, config, TRUE)
    IN  /\ stage = "opening"
        /\ stage' = "greeted"
        /\ SetLimits([free EXCEPT !.tokens = free.burst])
        /\ wire' = Append(wire, [number |-> 0, kind |-> "greeting", registered |-> TRUE])
        /\ written' = 0 /\ allowed' = free.burst
        /\ UNCHANGED <<config, queue, stopping, lines>>

NetworkInitialized ==
    /\ stage = "greeted"
    /\ stage' = "initialized"
    /\ SetLimits(UpdateRateLimiting(Limits, config, FALSE))
    /\ allowed' = Larger(allowed, burst')
    /\ UNCHANGED <<config, queue, stopping, wire, lines, written>>

\* disconnectFromIrc() on a connected socket drops what is waiting and puts
\* QUIT; when the core shuts down, with force, that is in front of nothing.
DisconnectFromIrc(shutdown) ==
    /\ Registered /\ ~stopping
    /\ shutdown \/ lines < MaxLines
    /\ PutRawLine(NewLine("quit"), <<>>)
    /\ stopping' = shutdown
    /\ UNCHANGED <<config, burst, skip, timer, stage, allowed>>

\* socketDisconnected(): the end of a connection or of an attempt.
Closed ==
    /\ stage # "closed"
    /\ stage' = "closed"
    /\ queue' = <<>>
    /\ timer' = FALSE
    /\ UNCHANGED <<config, burst, tokens, skip, stopping, wire, lines, windowVars>>

SocketDisconnected == ~stopping /\ Closed

\* forceDisconnect(): the core closes the socket at once and then waits.  What
\* the server or the network might do in this moment is left out.
ForceDisconnect == stopping /\ Closed

----------------------------------------------------------------------------
\* The constructor leaves _tokenBucket, _burstSize and _skipMessageRates
\* uninitialised.
Init ==
    /\ config \in Configs
    /\ burst \in Garbage /\ tokens \in Garbage /\ skip \in BOOLEAN
    /\ timer = FALSE
    /\ queue = <<>>
    /\ stage = "closed" /\ stopping = FALSE
    /\ wire = <<>> /\ lines = 0
    /\ written = 0 /\ allowed = 0

Next ==
    \/ \E urgent \in BOOLEAN : Put(urgent)
    \/ CheckTokenBucket
    \/ \E new \in Configs, delayChanged \in BOOLEAN : Configure(new, delayChanged)
    \/ ConnectToIrc
    \/ SocketInitialized
    \/ NetworkInitialized
    \/ \E shutdown \in BOOLEAN : DisconnectFromIrc(shutdown)
    \/ SocketDisconnected
    \/ ForceDisconnect

Spec == Init /\ [][Next]_vars

\* A running timer fires.
FairSpec == Spec /\ WF_vars(CheckTokenBucket)

----------------------------------------------------------------------------
TypeOK ==
    /\ config \in Configs
    /\ burst \in 0 .. Word - 1 /\ tokens \in 0 .. Word - 1
    /\ skip \in BOOLEAN /\ timer \in BOOLEAN
    /\ queue \in Seq(Lines) /\ wire \in Seq(Lines)
    /\ stage \in Stages /\ stopping \in BOOLEAN
    /\ lines \in Nat /\ written \in Nat /\ allowed \in Nat

\* The unsigned token counter never wraps below zero: on a connection that has
\* been greeted there are never more tokens than the burst size.
TokensWithinBurst == Registered => burst >= 1 /\ tokens <= burst

\* Lines that wait on such a connection have a running timer that will send
\* them, whichever way the limits have been switched meanwhile.
WaitingLinesHaveTimer == Registered /\ queue # <<>> => timer

\* Between two ticks of the timer no more lines leave under the limit than the
\* largest burst size that was in force, PING and PONG included.
RateIsLimited == Registered => written <= allowed

\* Of the lines put since the greeting, those that are not urgent reach the
\* server in the order they were put, however the limits change.
OrderIsKept ==
    Registered =>
      \A i, j \in DOMAIN wire :
        i < j /\ {wire[i].kind, wire[j].kind} \cap {"urgent"} = {}
              /\ wire[i].registered /\ wire[j].registered
          => wire[i].number < wire[j].number

\* What waits on a connection is sent as long as the connection lasts.
QueueEmpties == Registered /\ queue # <<>> ~> queue = <<>>
============================================================================
