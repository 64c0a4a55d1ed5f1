-------------------------- MODULE SendQueueProofs --------------------------
(***************************************************************************)
(* Proofs about SendQueue for every set of burst sizes, every width of the *)
(* counters and every garbage the constructor may leave in them.           *)
(*                                                                         *)
(* The invariants of the runs are not inductive by themselves: a line is   *)
(* put in the queue when there is no token, and that it will be sent rests *)
(* on the timer having been started when the limit was (LimitHasTimer);    *)
(* the rate rests on what is left in the bucket (BudgetIsKept).            *)
(***************************************************************************)
EXTENDS SendQueue, SequenceTheorems, TLAPS

\* With a limit in force the timer runs, lines waiting or not.
LimitHasTimer == Registered /\ ~skip => timer

\* What was written since the last tick and what may still be written before
\* the next stay within the largest burst size.
BudgetIsKept == Registered => written + tokens <= allowed

CountersOK ==
    /\ config \in Configs
    /\ burst \in 0 .. Word - 1 /\ tokens \in 0 .. Word - 1
    /\ skip \in BOOLEAN /\ timer \in BOOLEAN
    /\ stage \in Stages
    /\ written \in Nat /\ allowed \in Nat

\* The contents of the lines are of no interest here, only that there are lines.
ListsOK ==
    /\ queue \in Seq(Lines) /\ wire \in Seq(Lines)
    /\ lines \in Nat /\ stopping \in BOOLEAN

IInv ==
    /\ CountersOK
    /\ TokensWithinBurst
    /\ LimitHasTimer
    /\ WaitingLinesHaveTimer
    /\ BudgetIsKept

LimitsType == [burst : 1 .. Word - 1, tokens : 0 .. Word - 1, skip : BOOLEAN, timer : BOOLEAN]

----------------------------------------------------------------------------
\* updateRateLimiting() on any settings: no more tokens than before and than
\* the burst size, and a timer that suits the limit and the queue.
LEMMA UpdateStep ==
    ASSUME NEW settings \in Configs, NEW force \in BOOLEAN,
           NEW limits, limits.tokens \in 0 .. Word - 1
    PROVE  LET r == UpdateRateLimiting(limits, settings, force)
           IN  /\ r \in LimitsType
               /\ r.tokens <= r.burst /\ r.tokens <= limits.tokens
               /\ ~r.skip => r.timer
               /\ queue # <<>> => r.timer
<1> DEFINE size == IF settings.custom \/ force THEN settings.burst ELSE DefaultBurst
           free == force \/ (settings.custom /\ settings.unlimited)
           held == Smaller(limits.tokens, size)
           timed == ~free \/ queue # <<>>
<1>1. size \in 1 .. Word - 1
  BY BurstAssumption DEF Configs
<1>2. held \in 0 .. Word - 1 /\ held <= size /\ held <= limits.tokens
  BY <1>1, BurstAssumption DEF Smaller
<1>3. UpdateRateLimiting(limits, settings, force)
      = [burst |-> size, tokens |-> held, skip |-> free, timer |-> timed]
  BY DEF UpdateRateLimiting
<1>4. free \in BOOLEAN /\ timed \in BOOLEAN /\ (~free => timed) /\ (queue # <<>> => timed)
  OBVIOUS
<1> HIDE DEF size, free, held, timed
<1> QED BY <1>1, <1>2, <1>3, <1>4 DEF LimitsType

\* putRawLine() keeps the invariant: it takes a token if there is one, and a
\* line waits only where the timer runs.
LEMMA PutStep ==
    ASSUME IInv, NEW line, NEW waiting, waiting # <<>> => queue # <<>>,
           PutRawLine(line, waiting),
           UNCHANGED <<config, burst, skip, timer, stage, allowed>>
    PROVE  IInv'
<1>1. CASE tokens > 0 \/ (skip /\ waiting = <<>>)
  <2>1. /\ tokens' = IF skip THEN tokens ELSE (tokens - 1) % Word
        /\ written' = IF skip THEN written ELSE written + 1
        /\ queue' = waiting
    BY <1>1 DEF PutRawLine, Write
  <2>2. ~skip => tokens' = tokens - 1 /\ tokens' \in 0 .. Word - 1
    BY <1>1, <2>1, BurstAssumption DEF IInv, CountersOK
  <2>3. CountersOK'
    BY <2>1, <2>2 DEF IInv, CountersOK
  <2>4. TokensWithinBurst' /\ BudgetIsKept'
    BY <2>1, <2>2 DEF IInv, CountersOK, TokensWithinBurst, BudgetIsKept, Registered
  <2>5. LimitHasTimer' /\ WaitingLinesHaveTimer'
    BY <2>1 DEF IInv, LimitHasTimer, WaitingLinesHaveTimer, Registered
  <2> QED BY <2>3, <2>4, <2>5 DEF IInv
<1>2. CASE ~(tokens > 0 \/ (skip /\ waiting = <<>>))
  <2>1. UNCHANGED <<tokens, written>>
    BY <1>2 DEF PutRawLine
  <2>2. CountersOK' /\ TokensWithinBurst' /\ BudgetIsKept' /\ LimitHasTimer'
    BY <2>1 DEF IInv, CountersOK, TokensWithinBurst, BudgetIsKept, LimitHasTimer, Registered
  <2>3. WaitingLinesHaveTimer'
    BY <1>2 DEF IInv, LimitHasTimer, WaitingLinesHaveTimer, Registered
  <2> QED BY <2>2, <2>3 DEF IInv
<1> QED BY <1>1, <1>2

\* A tick keeps the invariant: it adds at most one token and begins a new
\* window, in which what it writes is paid from that bucket.
LEMMA TickStep ==
    ASSUME IInv, ListsOK, CheckTokenBucket
    PROVE  IInv'
<1>1. CASE Emptied
  <2>1. /\ UNCHANGED <<config, burst, tokens, skip, queue, stage, written, allowed>>
        /\ timer' = FALSE /\ skip /\ queue = <<>>
    BY <1>1 DEF CheckTokenBucket, Emptied
  <2>2. CountersOK' /\ TokensWithinBurst' /\ BudgetIsKept'
    BY <2>1 DEF IInv, CountersOK, TokensWithinBurst, BudgetIsKept, Registered
  <2>3. LimitHasTimer' /\ WaitingLinesHaveTimer'
    BY <2>1 DEF LimitHasTimer, WaitingLinesHaveTimer
  <2> QED BY <2>2, <2>3 DEF IInv
<1>2. CASE ~Emptied
  <2> DEFINE n == IF skip THEN Len(queue) ELSE Smaller(Len(queue), Filled)
  <2>1. /\ tokens' = IF skip THEN Filled ELSE Filled - n
        /\ written' = IF skip THEN 0 ELSE n
        /\ allowed' = burst
        /\ timer /\ timer' = timer
        /\ UNCHANGED <<config, burst, skip, stage>>
    BY <1>2 DEF CheckTokenBucket
  <2>2. Len(queue) \in Nat
    BY DEF ListsOK
  <2>3. /\ Filled \in 0 .. Word - 1
        /\ Registered => Filled <= burst
    BY BurstAssumption DEF Filled, IInv, CountersOK, TokensWithinBurst
  <2>4. n \in Nat /\ (~skip => n <= Filled)
    BY <2>2, <2>3 DEF Smaller
  <2> HIDE DEF n
  <2>5. ~skip => tokens' = Filled - n
    BY <2>1
  <2>6. tokens' \in 0 .. Word - 1 /\ written' \in Nat /\ allowed' \in Nat
    BY <2>1, <2>3, <2>4, <2>5, BurstAssumption DEF IInv, CountersOK
  <2>7. Registered => tokens' <= burst /\ written' + tokens' <= burst
    BY <2>1, <2>3, <2>4, <2>5 DEF IInv, CountersOK
  <2>8. CountersOK' /\ LimitHasTimer' /\ WaitingLinesHaveTimer'
    BY <2>1, <2>6 DEF IInv, CountersOK, LimitHasTimer, WaitingLinesHaveTimer
  <2>9. TokensWithinBurst' /\ BudgetIsKept'
    BY <2>1, <2>7 DEF IInv, TokensWithinBurst, BudgetIsKept, Registered
  <2> QED BY <2>8, <2>9 DEF IInv
<1> QED BY <1>1, <1>2

\* A change of the settings keeps the invariant, whatever the settings between
\* the old ones and the new ones would mean.
LEMMA ConfigureStep ==
    ASSUME IInv, NEW new \in Configs, NEW delayChanged \in BOOLEAN,
           Configure(new, delayChanged)
    PROVE  IInv' /\ tokens' <= tokens
<1> DEFINE step1 == [config EXCEPT !.custom = new.custom]
           step2 == [step1 EXCEPT !.burst = new.burst]
           limits1 == IF new.custom = config.custom THEN Limits
                      ELSE UpdateRateLimiting(Limits, step1, FALSE)
           limits2 == IF new.burst = config.burst /\ ~delayChanged THEN limits1
                      ELSE UpdateRateLimiting(limits1, step2, FALSE)
           limits3 == IF new.unlimited = config.unlimited THEN limits2
                      ELSE UpdateRateLimiting(limits2, new, FALSE)
           Good(r) == /\ r.burst \in 0 .. Word - 1 /\ r.tokens \in 0 .. Word - 1
                      /\ r.skip \in BOOLEAN /\ r.timer \in BOOLEAN
                      /\ r.tokens <= tokens
                      /\ Registered => /\ r.burst >= 1 /\ r.tokens <= r.burst
                                       /\ ~r.skip => r.timer
                                       /\ queue # <<>> => r.timer
<1>1. step1 \in Configs /\ step2 \in Configs
  BY DEF IInv, CountersOK, Configs
<1>2. ASSUME NEW r, NEW s \in Configs, Good(r)
      PROVE  Good(UpdateRateLimiting(r, s, FALSE))
  <2> DEFINE u == UpdateRateLimiting(r, s, FALSE)
  <2>1. /\ u \in LimitsType
        /\ u.tokens <= u.burst /\ u.tokens <= r.tokens
        /\ ~u.skip => u.timer
        /\ queue # <<>> => u.timer
    BY <1>2, UpdateStep
  <2> HIDE DEF u
  <2>2. Good(u)
    BY <1>2, <2>1, BurstAssumption DEF LimitsType, IInv, CountersOK
  <2> QED BY <2>2 DEF u
<1>3. Good(Limits)
  BY DEF Limits, IInv, CountersOK, TokensWithinBurst, LimitHasTimer, WaitingLinesHaveTimer
<1> HIDE DEF Good, step1, step2
<1>4. Good(limits1)
  BY <1>1, <1>2, <1>3
<1> HIDE DEF limits1
<1>5. Good(limits2)
  BY <1>1, <1>2, <1>4
<1> HIDE DEF limits2
<1>6. Good(limits3)
  BY <1>2, <1>5
<1>7. /\ config' = new
      /\ burst' = limits3.burst /\ tokens' = limits3.tokens
      /\ skip' = limits3.skip /\ timer' = limits3.timer
      /\ allowed' = Larger(Larger(allowed, limits1.burst),
                           Larger(limits2.burst, limits3.burst))
      /\ UNCHANGED <<queue, stage, written>>
  BY DEF Configure, SetLimits, limits1, limits2, step1, step2
<1> HIDE DEF limits3
<1>8. allowed' \in Nat /\ allowed' >= allowed
  BY <1>4, <1>5, <1>6, <1>7, BurstAssumption DEF Larger, Good, IInv, CountersOK
<1>9. CountersOK' /\ TokensWithinBurst'
  BY <1>6, <1>7, <1>8 DEF Good, IInv, CountersOK, TokensWithinBurst, Registered
<1>10. LimitHasTimer' /\ WaitingLinesHaveTimer'
  BY <1>6, <1>7 DEF Good, LimitHasTimer, WaitingLinesHaveTimer, Registered
<1>11. BudgetIsKept'
  BY <1>6, <1>7, <1>8 DEF Good, IInv, CountersOK, BudgetIsKept, Registered
<1>12. tokens' <= tokens
  BY <1>6, <1>7 DEF Good
<1> QED BY <1>9, <1>10, <1>11, <1>12 DEF IInv

\* The greeting of the server establishes the invariant's part about connections
\* from whatever the counters held before.
LEMMA GreetStep ==
    ASSUME IInv, SocketInitialized
    PROVE  IInv'
<1> DEFINE free == UpdateRateLimiting(Limits, config, TRUE)
<1>1. /\ free \in LimitsType
      /\ queue # <<>> => free.timer
      /\ free.skip = TRUE
  BY UpdateStep DEF UpdateRateLimiting, Limits, IInv, CountersOK
<1>2. /\ burst' = free.burst /\ tokens' = free.burst
      /\ skip' = TRUE /\ timer' = free.timer
      /\ stage' = "greeted" /\ written' = 0 /\ allowed' = free.burst
      /\ UNCHANGED <<config, queue>>
  BY <1>1 DEF SocketInitialized, SetLimits, LimitsType
<1> HIDE DEF free
<1>3. CountersOK' /\ TokensWithinBurst' /\ BudgetIsKept'
  BY <1>1, <1>2, BurstAssumption
     DEF LimitsType, IInv, CountersOK, TokensWithinBurst, BudgetIsKept, Stages
<1>4. LimitHasTimer' /\ WaitingLinesHaveTimer'
  BY <1>1, <1>2 DEF LimitHasTimer, WaitingLinesHaveTimer
<1> QED BY <1>3, <1>4 DEF IInv

\* So does the welcome, which puts the user's limits in force.
LEMMA WelcomeStep ==
    ASSUME IInv, NetworkInitialized
    PROVE  IInv' /\ tokens' <= tokens
<1> DEFINE set == UpdateRateLimiting(Limits, config, FALSE)
<1>1. /\ set \in LimitsType
      /\ set.tokens <= set.burst /\ set.tokens <= tokens
      /\ ~set.skip => set.timer
      /\ queue # <<>> => set.timer
  <2>1. Limits.tokens = tokens /\ tokens \in 0 .. Word - 1 /\ config \in Configs
    BY DEF Limits, IInv, CountersOK
  <2> QED BY <2>1, UpdateStep
<1>2. /\ burst' = set.burst /\ tokens' = set.tokens
      /\ skip' = set.skip /\ timer' = set.timer
      /\ stage = "greeted" /\ stage' = "initialized"
      /\ allowed' = Larger(allowed, burst')
      /\ UNCHANGED <<config, queue, written>>
  BY DEF NetworkInitialized, SetLimits
<1> HIDE DEF set
<1>3. CountersOK' /\ TokensWithinBurst' /\ BudgetIsKept'
  BY <1>1, <1>2, BurstAssumption
     DEF LimitsType, Larger, IInv, CountersOK, TokensWithinBurst, BudgetIsKept,
         Registered, Stages
<1>4. LimitHasTimer' /\ WaitingLinesHaveTimer'
  BY <1>1, <1>2 DEF LimitHasTimer, WaitingLinesHaveTimer
<1> QED BY <1>1, <1>2, <1>3, <1>4 DEF IInv

\* The lists stay lists; lines are only ever moved.
LEMMA ListsStep == ListsOK /\ IInv /\ [Next]_vars => ListsOK'
<1> SUFFICES ASSUME ListsOK, IInv, [Next]_vars PROVE ListsOK'
  OBVIOUS
<1>1. ASSUME NEW line \in Lines, NEW waiting \in Seq(Lines), PutRawLine(line, waiting)
      PROVE  queue' \in Seq(Lines) /\ wire' \in Seq(Lines) /\ lines' \in Nat
  <2>1. <<line>> \in Seq(Lines) /\ <<line>> \o waiting \in Seq(Lines)
        /\ Append(waiting, line) \in Seq(Lines)
    OBVIOUS
  <2>2. lines' \in Nat
    BY <1>1 DEF PutRawLine, ListsOK
  <2>3. CASE tokens > 0 \/ (skip /\ waiting = <<>>)
    <3>1. queue' = waiting /\ wire' = IF stage = "closed" THEN wire
                                      ELSE wire \o SubSeq(<<line>>, 1, 1)
      BY <1>1, <2>3 DEF PutRawLine, Write
    <3>2. SubSeq(<<line>>, 1, 1) \in Seq(Lines)
      BY <2>1
    <3> QED BY <2>2, <3>1, <3>2 DEF ListsOK
  <2>4. CASE ~(tokens > 0 \/ (skip /\ waiting = <<>>))
    <3>1. wire' = wire /\ queue' = IF line.kind = "urgent" THEN <<line>> \o waiting
                                                        ELSE Append(waiting, line)
      BY <1>1, <2>4 DEF PutRawLine
    <3> QED BY <2>1, <2>2, <3>1 DEF ListsOK
  <2> QED BY <2>3, <2>4
<1>2. ASSUME NEW kind \in Kinds PROVE NewLine(kind) \in Lines
  BY <1>2 DEF NewLine, Lines, ListsOK, Registered
<1>3. ASSUME NEW urgent \in BOOLEAN, Put(urgent) PROVE ListsOK'
  <2> DEFINE kind == IF urgent THEN "urgent" ELSE "plain"
  <2>1. kind \in Kinds
    BY DEF Kinds
  <2> HIDE DEF kind
  <2>2. PutRawLine(NewLine(kind), queue) /\ stopping' = stopping
    BY <1>3 DEF Put, kind
  <2> QED BY <1>1, <1>2, <2>1, <2>2 DEF ListsOK
<1>4. CASE CheckTokenBucket
  <2> DEFINE n == IF skip THEN Len(queue) ELSE Smaller(Len(queue), Filled)
  <2>1. Len(queue) \in Nat /\ UNCHANGED <<lines, stopping>>
    BY <1>4 DEF ListsOK, CheckTokenBucket
  <2>2. CASE Emptied
    BY <1>4, <2>2 DEF CheckTokenBucket, ListsOK
  <2>3. CASE ~Emptied
    <3>1. /\ wire' = IF stage = "closed" THEN wire ELSE wire \o SubSeq(queue, 1, n)
          /\ queue' = SubSeq(queue, n + 1, Len(queue))
      BY <1>4, <2>3 DEF CheckTokenBucket
    <3>2. n \in 0 .. Len(queue)
      BY <2>1, BurstAssumption DEF Smaller, Filled, IInv, CountersOK
    <3> HIDE DEF n
    <3>3. SubSeq(queue, 1, n) \in Seq(Lines)
      BY <3>2 DEF ListsOK
    <3>4. SubSeq(queue, n + 1, Len(queue)) \in Seq(Lines)
      BY <3>2 DEF ListsOK
    <3> QED BY <2>1, <3>1, <3>3, <3>4 DEF ListsOK
  <2> QED BY <2>2, <2>3
<1>5. ASSUME NEW shutdown \in BOOLEAN, DisconnectFromIrc(shutdown) PROVE ListsOK'
  <2>1. PutRawLine(NewLine("quit"), <<>>) /\ stopping' = shutdown
    BY <1>5 DEF DisconnectFromIrc
  <2>2. NewLine("quit") \in Lines /\ <<>> \in Seq(Lines)
    BY <1>2 DEF Kinds
  <2> QED BY <1>1, <2>1, <2>2 DEF ListsOK
<1>6. CASE SocketInitialized
  <2>1. [number |-> 0, kind |-> "greeting", registered |-> TRUE] \in Lines
    BY DEF Lines, Kinds
  <2> QED BY <1>6, <2>1 DEF SocketInitialized, ListsOK
<1>7. CASE ConnectToIrc \/ SocketDisconnected \/ ForceDisconnect \/ NetworkInitialized
  <2>1. <<>> \in Seq(Lines)
    OBVIOUS
  <2>2. /\ queue' = queue \/ queue' = <<>>
        /\ wire' = wire \/ wire' = <<>>
        /\ UNCHANGED <<lines, stopping>>
    BY <1>7 DEF ConnectToIrc, SocketDisconnected, ForceDisconnect, Closed,
                NetworkInitialized
  <2> QED BY <2>1, <2>2 DEF ListsOK
<1>8. ASSUME NEW new \in Configs, NEW delayChanged \in BOOLEAN,
             Configure(new, delayChanged)
      PROVE  ListsOK'
  <2>1. UNCHANGED <<queue, wire, lines, stopping>>
    BY <1>8 DEF Configure
  <2> QED BY <2>1 DEF ListsOK
<1>9. CASE UNCHANGED vars
  BY <1>9 DEF vars, ListsOK
<1> QED BY <1>3, <1>4, <1>5, <1>6, <1>7, <1>8, <1>9 DEF Next

----------------------------------------------------------------------------
\* The invariant holds of every new network, whatever garbage its counters hold,
\* and survives every step.
THEOREM QueueInvariance == Spec => [](IInv /\ ListsOK)
<1>1. Init => IInv /\ ListsOK
  <2> SUFFICES ASSUME Init PROVE IInv /\ ListsOK
    OBVIOUS
  <2>1. CountersOK
    BY BurstAssumption DEF Init, CountersOK, Stages
  <2>2. ListsOK
    <3>1. <<>> \in Seq(Lines)
      OBVIOUS
    <3> QED BY <3>1 DEF Init, ListsOK
  <2>3. ~Registered
    BY DEF Init, Registered
  <2> QED BY <2>1, <2>2, <2>3
        DEF IInv, TokensWithinBurst, LimitHasTimer, WaitingLinesHaveTimer, BudgetIsKept
<1>2. IInv /\ ListsOK /\ [Next]_vars => (IInv /\ ListsOK)'
  <2> SUFFICES ASSUME IInv, ListsOK, [Next]_vars PROVE IInv'
    BY ListsStep
  <2>1. ASSUME NEW urgent \in BOOLEAN, Put(urgent) PROVE IInv'
    BY <2>1, PutStep DEF Put
  <2>2. CASE CheckTokenBucket
    BY <2>2, TickStep
  <2>3. ASSUME NEW new \in Configs, NEW delayChanged \in BOOLEAN,
               Configure(new, delayChanged)
        PROVE  IInv'
    BY <2>3, ConfigureStep
  <2>4. CASE SocketInitialized
    BY <2>4, GreetStep
  <2>5. CASE NetworkInitialized
    BY <2>5, WelcomeStep
  <2>6. ASSUME NEW shutdown \in BOOLEAN, DisconnectFromIrc(shutdown) PROVE IInv'
    BY <2>6, PutStep DEF DisconnectFromIrc
  <2>7. CASE ConnectToIrc
    <3>1. ~Registered'
      BY <2>7 DEF ConnectToIrc, Registered
    <3>2. CountersOK'
      BY <2>7 DEF ConnectToIrc, IInv, CountersOK, Stages, limitVars, windowVars
    <3> QED BY <3>1, <3>2
          DEF IInv, TokensWithinBurst, LimitHasTimer, WaitingLinesHaveTimer, BudgetIsKept
  <2>8. CASE SocketDisconnected \/ ForceDisconnect
    <3>1. ~Registered'
      BY <2>8 DEF SocketDisconnected, ForceDisconnect, Closed, Registered
    <3>2. CountersOK'
      BY <2>8 DEF SocketDisconnected, ForceDisconnect, Closed, IInv, CountersOK,
                  Stages, windowVars
    <3> QED BY <3>1, <3>2
          DEF IInv, TokensWithinBurst, LimitHasTimer, WaitingLinesHaveTimer, BudgetIsKept
  <2>9. CASE UNCHANGED vars
    BY <2>9 DEF vars, limitVars, windowVars, IInv, CountersOK, TokensWithinBurst,
                LimitHasTimer, WaitingLinesHaveTimer, BudgetIsKept, Registered
  <2> QED BY <2>1, <2>2, <2>3, <2>4, <2>5, <2>6, <2>7, <2>8, <2>9 DEF Next
<1> QED BY <1>1, <1>2, PTL DEF Spec

\* On every greeted connection, for every burst size and counter width: the
\* unsigned counter has not wrapped, there are no more tokens than allowed.
THEOREM NoTokenWraps == Spec => []TokensWithinBurst
<1>1. IInv => TokensWithinBurst
  BY DEF IInv
<1> QED BY <1>1, QueueInvariance, PTL

\* However the limits have been switched, lines that wait have a running timer.
THEOREM NothingWaitsForEver == Spec => []WaitingLinesHaveTimer
<1>1. IInv => WaitingLinesHaveTimer
  BY DEF IInv
<1> QED BY <1>1, QueueInvariance, PTL

\* No window between two ticks carries more lines than the largest burst size.
THEOREM RateHolds == Spec => []RateIsLimited
<1>1. IInv => RateIsLimited
  BY DEF IInv, CountersOK, BudgetIsKept, RateIsLimited
<1> QED BY <1>1, QueueInvariance, PTL

\* Every variable keeps its type.
THEOREM QueueTypes == Spec => []TypeOK
<1>1. IInv /\ ListsOK => TypeOK
  BY DEF IInv, CountersOK, ListsOK, TypeOK
<1> QED BY <1>1, QueueInvariance, PTL

----------------------------------------------------------------------------
(* The order of the lines.  What was written and what waits are taken as   *)
(* one sequence, which a tick leaves as it is.  A line is written past the *)
(* queue only where no line waits that counts: none of this connection, or *)
(* urgent ones, and that rests on the bucket being empty otherwise.        *)

Counts(line) == line.kind # "urgent" /\ line.registered

Ordered(s) ==
    \A i, j \in DOMAIN s : i < j /\ Counts(s[i]) /\ Counts(s[j]) => s[i].number < s[j].number

Precedes(s, t) ==
    \A i \in DOMAIN s, j \in DOMAIN t : Counts(s[i]) /\ Counts(t[j]) => s[i].number < t[j].number

NoneCounts(s) == \A i \in DOMAIN s : ~Counts(s[i])
NumbersUpTo(s, n) == \A i \in DOMAIN s : s[i].number <= n

OrderInv ==
    /\ NumbersUpTo(wire, lines) /\ NumbersUpTo(queue, lines)
    /\ ~Registered => NoneCounts(queue)
    /\ stage = "opening" => NoneCounts(wire)
    /\ Registered /\ tokens > 0 => NoneCounts(queue)
    /\ Registered => Ordered(wire \o queue)

LEMMA NumbersOfLines ==
    ASSUME NEW s \in Seq(Lines), NEW n \in Nat
    PROVE  /\ \A i \in DOMAIN s : s[i].number \in Nat
           /\ NumbersUpTo(s, n) => NumbersUpTo(s, n + 1)
<1>1. \A i \in DOMAIN s : s[i].number \in Nat
  <2>1. ASSUME NEW i \in DOMAIN s PROVE s[i] \in Lines
    BY ElementOfSeq
  <2> QED BY <2>1 DEF Lines
<1> QED BY <1>1 DEF NumbersUpTo

LEMMA OrderedInParts ==
    ASSUME NEW s \in Seq(Lines), NEW t \in Seq(Lines)
    PROVE  Ordered(s \o t) <=> Ordered(s) /\ Ordered(t) /\ Precedes(s, t)
<1>1. /\ DOMAIN s = 1 .. Len(s) /\ Len(s) \in Nat
      /\ DOMAIN t = 1 .. Len(t) /\ Len(t) \in Nat
      /\ DOMAIN (s \o t) = 1 .. Len(s) + Len(t)
      /\ \A i \in 1 .. Len(s) : (s \o t)[i] = s[i]
      /\ \A j \in 1 .. Len(t) : (s \o t)[Len(s) + j] = t[j]
  OBVIOUS
<1>2. ASSUME Ordered(s \o t) PROVE Ordered(s) /\ Ordered(t) /\ Precedes(s, t)
  <2>1. Ordered(s)
    BY <1>1, <1>2 DEF Ordered
  <2>2. Ordered(t)
    <3> SUFFICES ASSUME NEW i \in DOMAIN t, NEW j \in DOMAIN t, i < j, Counts(t[i]), Counts(t[j])
                 PROVE  t[i].number < t[j].number
      BY DEF Ordered
    <3>1. /\ Len(s) + i \in DOMAIN (s \o t) /\ Len(s) + j \in DOMAIN (s \o t)
          /\ Len(s) + i < Len(s) + j
      BY <1>1
    <3>2. (s \o t)[Len(s) + i] = t[i] /\ (s \o t)[Len(s) + j] = t[j]
      BY <1>1
    <3> QED BY <1>2, <3>1, <3>2 DEF Ordered
  <2>3. Precedes(s, t)
    <3> SUFFICES ASSUME NEW i \in DOMAIN s, NEW j \in DOMAIN t, Counts(s[i]), Counts(t[j])
                 PROVE  s[i].number < t[j].number
      BY DEF Precedes
    <3>1. /\ i \in DOMAIN (s \o t) /\ Len(s) + j \in DOMAIN (s \o t)
          /\ i < Len(s) + j
      BY <1>1
    <3>2. (s \o t)[i] = s[i] /\ (s \o t)[Len(s) + j] = t[j]
      BY <1>1
    <3> QED BY <1>2, <3>1, <3>2 DEF Ordered
  <2> QED BY <2>1, <2>2, <2>3
<1>3. ASSUME Ordered(s), Ordered(t), Precedes(s, t) PROVE Ordered(s \o t)
  <2> SUFFICES ASSUME NEW i \in DOMAIN (s \o t), NEW j \in DOMAIN (s \o t), i < j,
                      Counts((s \o t)[i]), Counts((s \o t)[j])
               PROVE  (s \o t)[i].number < (s \o t)[j].number
    BY DEF Ordered
  <2>1. CASE j <= Len(s)
    <3>1. i \in DOMAIN s /\ j \in DOMAIN s /\ (s \o t)[i] = s[i] /\ (s \o t)[j] = s[j]
      BY <1>1, <2>1
    <3> QED BY <1>3, <3>1 DEF Ordered
  <2>2. CASE i <= Len(s) /\ ~(j <= Len(s))
    <3>1. i \in DOMAIN s /\ j - Len(s) \in DOMAIN t /\ (s \o t)[i] = s[i] /\ (s \o t)[j] = t[j - Len(s)]
      BY <1>1, <2>2
    <3> QED BY <1>3, <3>1 DEF Precedes
  <2>3. CASE ~(i <= Len(s))
    <3>1. /\ i - Len(s) \in DOMAIN t /\ j - Len(s) \in DOMAIN t /\ i - Len(s) < j - Len(s)
          /\ (s \o t)[i] = t[i - Len(s)] /\ (s \o t)[j] = t[j - Len(s)]
      BY <1>1, <2>3
    <3> QED BY <1>3, <3>1 DEF Ordered
  <2> QED BY <1>1, <2>1, <2>2, <2>3
<1> QED BY <1>2, <1>3

\* A line with a number above all others may come last.
LEMMA OrderedWithLast ==
    ASSUME NEW s \in Seq(Lines), NEW line \in Lines, NEW n \in Nat,
           NumbersUpTo(s, n), line.number = n + 1
    PROVE  /\ NumbersUpTo(Append(s, line), n + 1)
           /\ Ordered(s) => Ordered(Append(s, line))
           /\ ~Counts(line) /\ NoneCounts(s) => NoneCounts(Append(s, line))
<1>1. /\ DOMAIN s = 1 .. Len(s) /\ Len(s) \in Nat
      /\ DOMAIN Append(s, line) = 1 .. Len(s) + 1
      /\ \A i \in 1 .. Len(s) : Append(s, line)[i] = s[i]
      /\ Append(s, line)[Len(s) + 1] = line
      /\ \A i \in 1 .. Len(s) : s[i].number \in Nat
  BY NumbersOfLines
<1>2. \A i \in 1 .. Len(s) + 1 : i \in 1 .. Len(s) \/ i = Len(s) + 1
  BY <1>1
<1>3. NumbersUpTo(Append(s, line), n + 1)
  BY <1>1, <1>2 DEF NumbersUpTo
<1>4. Ordered(s) => Ordered(Append(s, line))
  BY <1>1, <1>2 DEF NumbersUpTo, Ordered
<1>5. ~Counts(line) /\ NoneCounts(s) => NoneCounts(Append(s, line))
  BY <1>1, <1>2 DEF NoneCounts
<1> QED BY <1>3, <1>4, <1>5

\* putRawLine() keeps the order.
LEMMA PutKeepsOrder ==
    ASSUME IInv, ListsOK, OrderInv, NEW kind \in Kinds, NEW waiting \in Seq(Lines),
           waiting = queue \/ (waiting = <<>> /\ kind # "urgent"),
           PutRawLine(NewLine(kind), waiting), stage' = stage
    PROVE  OrderInv'
<1> DEFINE line == NewLine(kind)
<1>1. /\ line \in Lines /\ line.number = lines + 1 /\ line.kind = kind
      /\ line.registered = Registered /\ lines' = lines + 1
  BY DEF NewLine, Lines, ListsOK, Registered, PutRawLine
<1>2. wire \in Seq(Lines) /\ queue \in Seq(Lines) /\ lines \in Nat
  BY DEF ListsOK
<1>3. Registered' <=> Registered
  BY DEF Registered
<1>4. /\ NumbersUpTo(waiting, lines)
      /\ ~Registered => NoneCounts(waiting)
      /\ Registered /\ tokens > 0 => NoneCounts(waiting)
      /\ Registered => Ordered(wire) /\ Ordered(waiting) /\ Precedes(wire, waiting)
  <2>1. CASE waiting = queue
    BY <1>2, <2>1, OrderedInParts DEF OrderInv
  <2>2. CASE waiting = <<>>
    <3>1. Registered => Ordered(wire)
      BY <1>2, OrderedInParts DEF OrderInv
    <3> QED BY <2>2, <3>1 DEF NumbersUpTo, NoneCounts, Ordered, Precedes
  <2> QED BY <2>1, <2>2
<1>5. PutRawLine(line, waiting)
  OBVIOUS
<1> HIDE DEF line
<1>6. CASE tokens > 0 \/ (skip /\ waiting = <<>>)
  <2>1. queue' = waiting /\ wire' = IF stage = "closed" THEN wire ELSE Append(wire, line)
    <3>1. SubSeq(<<line>>, 1, 1) = <<line>>
      <4>1. <<line>> \in Seq(Lines) /\ Len(<<line>>) = 1
        BY <1>1
      <4> QED BY <4>1, SubSeqFull
    <3>2. wire \o <<line>> = Append(wire, line)
      BY <1>1, <1>2, AppendIsConcat
    <3> QED BY <1>5, <1>6, <3>1, <3>2 DEF PutRawLine, Write
  <2>2. NumbersUpTo(waiting, lines + 1) /\ NumbersUpTo(wire, lines + 1)
    BY <1>2, <1>4, NumbersOfLines DEF OrderInv
  <2>3. NumbersUpTo(wire', lines + 1)
    BY <1>1, <1>2, <2>1, <2>2, OrderedWithLast DEF OrderInv
  <2>4. stage = "opening" => NoneCounts(wire')
    BY <1>1, <1>2, <2>1, OrderedWithLast DEF OrderInv, Counts, Registered
  <2>5. Registered => NoneCounts(waiting)
    BY <1>4, <1>6 DEF NoneCounts
  <2>6. Registered => Ordered(wire' \o waiting)
    <3> SUFFICES ASSUME Registered PROVE Ordered(wire' \o waiting)
      OBVIOUS
    <3>1. wire' = Append(wire, line) /\ wire' \in Seq(Lines)
      BY <1>1, <1>2, <2>1 DEF Registered
    <3>2. Ordered(Append(wire, line))
      BY <1>1, <1>2, <1>4, OrderedWithLast DEF OrderInv
    <3>3. Precedes(wire', waiting)
      BY <2>5 DEF NoneCounts, Precedes
    <3> QED BY <1>4, <3>1, <3>2, <3>3, OrderedInParts
  <2> QED BY <1>1, <1>3, <1>4, <2>1, <2>2, <2>3, <2>4, <2>5, <2>6 DEF OrderInv
<1>7. CASE ~(tokens > 0 \/ (skip /\ waiting = <<>>))
  <2>1. /\ wire' = wire /\ tokens' = tokens
        /\ queue' = IF kind = "urgent" THEN <<line>> \o waiting ELSE Append(waiting, line)
    BY <1>1, <1>5, <1>7 DEF PutRawLine
  <2>2. NumbersUpTo(wire, lines + 1)
    BY <1>2, NumbersOfLines DEF OrderInv
  <2>3. CASE kind = "urgent"
    <3>1. ~Counts(line)
      BY <1>1, <2>3 DEF Counts
    <3>2. /\ <<line>> \o waiting \in Seq(Lines)
          /\ DOMAIN waiting = 1 .. Len(waiting) /\ Len(waiting) \in Nat
          /\ DOMAIN (<<line>> \o waiting) = 1 .. Len(waiting) + 1
          /\ (<<line>> \o waiting)[1] = line
          /\ \A i \in 2 .. Len(waiting) + 1 : (<<line>> \o waiting)[i] = waiting[i - 1]
      BY <1>1
    <3>3. \A i \in DOMAIN (<<line>> \o waiting) :
             \/ i = 1 /\ (<<line>> \o waiting)[i] = line
             \/ i - 1 \in DOMAIN waiting /\ (<<line>> \o waiting)[i] = waiting[i - 1]
      BY <3>2
    <3>4. NumbersUpTo(<<line>> \o waiting, lines + 1)
      <4>1. NumbersUpTo(waiting, lines + 1)
        BY <1>2, <1>4, NumbersOfLines
      <4> QED BY <1>1, <1>2, <3>3, <4>1 DEF NumbersUpTo
    <3>5. NoneCounts(waiting) => NoneCounts(<<line>> \o waiting)
      BY <3>1, <3>3 DEF NoneCounts
    <3>6. Ordered(waiting) => Ordered(<<line>> \o waiting)
      <4> SUFFICES ASSUME Ordered(waiting), NEW i \in DOMAIN (<<line>> \o waiting),
                          NEW j \in DOMAIN (<<line>> \o waiting), i < j,
                          Counts((<<line>> \o waiting)[i]), Counts((<<line>> \o waiting)[j])
                   PROVE  (<<line>> \o waiting)[i].number < (<<line>> \o waiting)[j].number
        BY DEF Ordered
      <4>1. /\ i - 1 \in DOMAIN waiting /\ (<<line>> \o waiting)[i] = waiting[i - 1]
            /\ j - 1 \in DOMAIN waiting /\ (<<line>> \o waiting)[j] = waiting[j - 1]
        BY <3>1, <3>3
      <4>2. i - 1 < j - 1
        BY <3>2
      <4> QED BY <4>1, <4>2 DEF Ordered
    <3>7. Precedes(wire, waiting) => Precedes(wire, <<line>> \o waiting)
      BY <3>1, <3>3 DEF Precedes
    <3>8. Registered => Ordered(wire \o (<<line>> \o waiting))
      BY <1>2, <1>4, <3>2, <3>6, <3>7, OrderedInParts
    <3> QED BY <1>1, <1>3, <1>4, <1>7, <2>1, <2>2, <2>3, <3>4, <3>5, <3>8 DEF OrderInv
  <2>4. CASE kind # "urgent"
    <3>1. Append(waiting, line) \in Seq(Lines)
      BY <1>1
    <3>2. NumbersUpTo(Append(waiting, line), lines + 1)
      BY <1>1, <1>2, <1>4, OrderedWithLast
    <3>3. ~Registered => NoneCounts(Append(waiting, line))
      BY <1>1, <1>2, <1>4, OrderedWithLast DEF Counts
    <3>4. Registered => Ordered(Append(waiting, line))
      BY <1>1, <1>2, <1>4, OrderedWithLast
    <3>5. Registered => Precedes(wire, Append(waiting, line))
      <4> SUFFICES ASSUME Registered, NEW i \in DOMAIN wire, NEW j \in DOMAIN Append(waiting, line),
                          Counts(wire[i]), Counts(Append(waiting, line)[j])
                   PROVE  wire[i].number < Append(waiting, line)[j].number
        BY DEF Precedes
      <4>1. wire[i].number <= lines /\ wire[i].number \in Nat
        BY <1>2, NumbersOfLines DEF OrderInv, NumbersUpTo
      <4>2. \/ j \in DOMAIN waiting /\ Append(waiting, line)[j] = waiting[j]
            \/ Append(waiting, line)[j] = line
        BY <1>1
      <4> QED BY <1>1, <1>2, <1>4, <4>1, <4>2 DEF Precedes
    <3>6. Registered => Ordered(wire \o Append(waiting, line))
      BY <1>2, <1>4, <3>1, <3>4, <3>5, OrderedInParts
    <3> QED BY <1>1, <1>3, <1>7, <2>1, <2>2, <2>4, <3>2, <3>3, <3>6 DEF OrderInv
  <2> QED BY <2>3, <2>4
<1> QED BY <1>6, <1>7

\* A tick moves the front of the queue to the end of what was written; lines are
\* left only in front of an empty bucket.
LEMMA TickKeepsOrder ==
    ASSUME IInv, ListsOK, OrderInv, CheckTokenBucket
    PROVE  OrderInv'
<1>1. CASE Emptied
  BY <1>1 DEF CheckTokenBucket, OrderInv, Registered
<1>2. CASE ~Emptied
  <2> DEFINE n == IF skip THEN Len(queue) ELSE Smaller(Len(queue), Filled)
  <2>1. /\ tokens' = IF skip THEN Filled ELSE Filled - n
        /\ wire' = IF stage = "closed" THEN wire ELSE wire \o SubSeq(queue, 1, n)
        /\ queue' = SubSeq(queue, n + 1, Len(queue))
        /\ stage' = stage /\ lines' = lines
    BY <1>2 DEF CheckTokenBucket
  <2>2. wire \in Seq(Lines) /\ queue \in Seq(Lines) /\ Len(queue) \in Nat
    BY DEF ListsOK
  <2>3. n \in 0 .. Len(queue) /\ (n = Len(queue) \/ ~(tokens' > 0))
    <3>1. Filled \in Nat
      BY BurstAssumption DEF Filled, IInv, CountersOK
    <3>2. CASE skip
      BY <2>2, <3>2
    <3>3. CASE ~skip
      BY <2>1, <2>2, <3>1, <3>3 DEF Smaller
    <3> QED BY <3>2, <3>3
  <2> HIDE DEF n
  <2>4. /\ SubSeq(queue, 1, n) \in Seq(Lines) /\ SubSeq(queue, n + 1, Len(queue)) \in Seq(Lines)
        /\ Len(SubSeq(queue, 1, n)) = n /\ Len(SubSeq(queue, n + 1, Len(queue))) = Len(queue) - n
        /\ DOMAIN SubSeq(queue, 1, n) = 1 .. n
        /\ DOMAIN SubSeq(queue, n + 1, Len(queue)) = 1 .. Len(queue) - n
        /\ \A i \in 1 .. n : SubSeq(queue, 1, n)[i] = queue[i]
        /\ \A i \in 1 .. Len(queue) - n : SubSeq(queue, n + 1, Len(queue))[i] = queue[n + i]
        /\ DOMAIN queue = 1 .. Len(queue)
    BY <2>2, <2>3
  <2>5. /\ \A i \in DOMAIN SubSeq(queue, 1, n) :
              \E j \in DOMAIN queue : SubSeq(queue, 1, n)[i] = queue[j]
        /\ \A i \in DOMAIN SubSeq(queue, n + 1, Len(queue)) :
              \E j \in DOMAIN queue : SubSeq(queue, n + 1, Len(queue))[i] = queue[j]
    <3>1. \A i \in 1 .. n : i \in DOMAIN queue
      BY <2>2, <2>3, <2>4
    <3>2. \A i \in 1 .. Len(queue) - n : n + i \in DOMAIN queue
      <4>1. n \in Nat /\ Len(queue) \in Nat
        BY <2>2, <2>3
      <4>2. DOMAIN queue = 1 .. Len(queue)
        BY <2>2
      <4>3. \A i \in 1 .. Len(queue) - n : n + i \in 1 .. Len(queue)
        BY <4>1
      <4> QED BY <4>2, <4>3
    <3> QED BY <2>4, <3>1, <3>2
  <2>6. NumbersUpTo(queue', lines) /\ NumbersUpTo(SubSeq(queue, 1, n), lines)
    BY <2>1, <2>5 DEF NumbersUpTo, OrderInv
  <2>7. NoneCounts(queue) => NoneCounts(queue') /\ NoneCounts(SubSeq(queue, 1, n))
    BY <2>1, <2>5 DEF NoneCounts
  <2>8. \A i \in DOMAIN (wire \o SubSeq(queue, 1, n)) :
           \/ i \in DOMAIN wire /\ (wire \o SubSeq(queue, 1, n))[i] = wire[i]
           \/ /\ i - Len(wire) \in DOMAIN SubSeq(queue, 1, n)
              /\ (wire \o SubSeq(queue, 1, n))[i] = SubSeq(queue, 1, n)[i - Len(wire)]
    <3> DEFINE front == SubSeq(queue, 1, n)
    <3>1. front \in Seq(Lines)
      BY <2>4
    <3> HIDE DEF front
    <3>2. \A i \in DOMAIN (wire \o front) :
             \/ i \in DOMAIN wire /\ (wire \o front)[i] = wire[i]
             \/ i - Len(wire) \in DOMAIN front /\ (wire \o front)[i] = front[i - Len(wire)]
      BY <2>2, <3>1
    <3> QED BY <3>2 DEF front
  <2>9. NumbersUpTo(wire', lines)
    BY <2>1, <2>6, <2>8 DEF NumbersUpTo, OrderInv
  <2>10. stage = "opening" => NoneCounts(wire')
    <3> SUFFICES ASSUME stage = "opening" PROVE NoneCounts(wire')
      OBVIOUS
    <3>1. NoneCounts(wire) /\ NoneCounts(queue)
      BY DEF OrderInv, Registered
    <3> QED BY <2>1, <2>7, <2>8, <3>1 DEF NoneCounts
  <2>11. tokens' > 0 => NoneCounts(queue')
    <3> SUFFICES ASSUME tokens' > 0 PROVE NoneCounts(queue')
      OBVIOUS
    <3>1. Len(queue) - n = 0
      BY <2>2, <2>3
    <3>2. DOMAIN queue' = {}
      BY <2>1, <2>4, <3>1
    <3> QED BY <3>2 DEF NoneCounts
  <2>12. Registered => wire' \o queue' = wire \o queue
    <3> SUFFICES ASSUME Registered PROVE wire' \o queue' = wire \o queue
      OBVIOUS
    <3> DEFINE front == SubSeq(queue, 1, n)
               back == SubSeq(queue, n + 1, Len(queue))
    <3>1. front \o back = queue
      <4>1. 1 \in 1 .. Len(queue) + 1 /\ n \in (1 - 1) .. Len(queue) /\ Len(queue) \in n .. Len(queue)
        BY <2>2, <2>3
      <4>2. front \o back = SubSeq(queue, 1, Len(queue))
        BY <2>2, <4>1, ConcatAdjacentSubSeq
      <4> QED BY <2>2, <4>2, SubSeqFull
    <3>2. front \in Seq(Lines) /\ back \in Seq(Lines)
      BY <2>4
    <3>3. wire' = wire \o front /\ queue' = back
      BY <2>1 DEF Registered
    <3> HIDE DEF front, back
    <3>4. (wire \o front) \o back = wire \o (front \o back)
      BY <2>2, <3>2
    <3> QED BY <3>1, <3>3, <3>4
  <2> QED BY <2>1, <2>6, <2>7, <2>9, <2>10, <2>11, <2>12 DEF OrderInv, Registered
<1> QED BY <1>1, <1>2

LEMMA OrderStep == IInv /\ ListsOK /\ OrderInv /\ [Next]_vars => OrderInv'
<1> SUFFICES ASSUME IInv, ListsOK, OrderInv, [Next]_vars PROVE OrderInv'
  OBVIOUS
<1>1. ASSUME NEW urgent \in BOOLEAN, Put(urgent) PROVE OrderInv'
  <2> DEFINE kind == IF urgent THEN "urgent" ELSE "plain"
  <2>1. kind \in Kinds
    BY DEF Kinds
  <2> HIDE DEF kind
  <2>2. PutRawLine(NewLine(kind), queue) /\ stage' = stage
    BY <1>1 DEF Put, kind
  <2> QED BY <2>1, <2>2, PutKeepsOrder DEF ListsOK
<1>2. ASSUME NEW shutdown \in BOOLEAN, DisconnectFromIrc(shutdown) PROVE OrderInv'
  <2>1. PutRawLine(NewLine("quit"), <<>>) /\ stage' = stage
    BY <1>2 DEF DisconnectFromIrc
  <2>2. "quit" \in Kinds /\ "quit" # "urgent" /\ <<>> \in Seq(Lines)
    BY DEF Kinds
  <2> QED BY <2>1, <2>2, PutKeepsOrder
<1>3. CASE CheckTokenBucket
  BY <1>3, TickKeepsOrder
<1>4. ASSUME NEW new \in Configs, NEW delayChanged \in BOOLEAN, Configure(new, delayChanged)
      PROVE  OrderInv'
  <2>1. UNCHANGED <<queue, wire, lines, stage>>
    BY <1>4 DEF Configure
  <2>2. tokens' <= tokens
    BY <1>4, ConfigureStep
  <2>3. tokens' \in Nat /\ tokens \in Nat
    BY <1>4, ConfigureStep, BurstAssumption DEF IInv, CountersOK
  <2> QED BY <2>1, <2>2, <2>3 DEF OrderInv, Registered
<1>5. CASE NetworkInitialized
  <2>1. UNCHANGED <<queue, wire, lines>> /\ Registered /\ stage' = "initialized"
    BY <1>5 DEF NetworkInitialized, Registered
  <2>2. tokens' <= tokens
    BY <1>5, WelcomeStep
  <2>3. tokens' \in Nat /\ tokens \in Nat
    BY <1>5, WelcomeStep, BurstAssumption DEF IInv, CountersOK
  <2> QED BY <2>1, <2>2, <2>3 DEF OrderInv, Registered
<1>6. CASE ConnectToIrc
  <2>1. wire' = <<>> /\ stage' = "opening" /\ stage = "closed" /\ UNCHANGED <<queue, lines>>
    BY <1>6 DEF ConnectToIrc
  <2>2. NumbersUpTo(<<>>, lines) /\ NoneCounts(<<>>)
    BY DEF NumbersUpTo, NoneCounts
  <2> QED BY <2>1, <2>2 DEF OrderInv, Registered
<1>7. CASE SocketInitialized
  <2> DEFINE greeting == [number |-> 0, kind |-> "greeting", registered |-> TRUE]
  <2>1. /\ stage = "opening" /\ stage' = "greeted" /\ wire' = Append(wire, greeting)
        /\ UNCHANGED <<queue, lines>>
    BY <1>7 DEF SocketInitialized
  <2>2. NoneCounts(queue) /\ NoneCounts(wire) /\ wire \in Seq(Lines) /\ queue \in Seq(Lines) /\ lines \in Nat
    BY <2>1 DEF OrderInv, Registered, ListsOK
  <2>3. greeting \in Lines /\ greeting.number = 0
    BY DEF Lines, Kinds
  <2> HIDE DEF greeting
  <2>4. Append(wire, greeting) \in Seq(Lines)
    BY <2>2, <2>3
  <2>5. \A i \in DOMAIN Append(wire, greeting) :
           \/ i \in DOMAIN wire /\ Append(wire, greeting)[i] = wire[i]
           \/ i = Len(wire) + 1 /\ Append(wire, greeting)[i] = greeting
    BY <2>2, <2>3
  <2>6. NumbersUpTo(wire', lines)
    BY <2>1, <2>2, <2>3, <2>5 DEF OrderInv, NumbersUpTo
  <2>7. Ordered(Append(wire, greeting))
    BY <2>2, <2>5 DEF NoneCounts, Ordered
  <2>8. Ordered(queue) /\ Precedes(Append(wire, greeting), queue)
    BY <2>2 DEF NoneCounts, Ordered, Precedes
  <2>9. Ordered(wire' \o queue')
    BY <2>1, <2>2, <2>4, <2>7, <2>8, OrderedInParts
  <2> QED BY <2>1, <2>2, <2>6, <2>9 DEF OrderInv, Registered
<1>8. CASE SocketDisconnected \/ ForceDisconnect
  <2>1. queue' = <<>> /\ stage' = "closed" /\ UNCHANGED <<wire, lines>>
    BY <1>8 DEF SocketDisconnected, ForceDisconnect, Closed
  <2>2. NumbersUpTo(<<>>, lines) /\ NoneCounts(<<>>)
    BY DEF NumbersUpTo, NoneCounts
  <2> QED BY <2>1, <2>2 DEF OrderInv, Registered
<1>9. CASE UNCHANGED vars
  BY <1>9 DEF vars, limitVars, OrderInv, Registered
<1> QED BY <1>1, <1>2, <1>3, <1>4, <1>5, <1>6, <1>7, <1>8, <1>9 DEF Next

\* For every burst size, counter width and change of the limits: what was put since
\* the greeting and is not urgent is written in the order in which it was put.
THEOREM LinesKeepTheirOrder == Spec => []OrderIsKept
<1>1. Init => OrderInv
  <2> SUFFICES ASSUME Init PROVE OrderInv
    OBVIOUS
  <2>1. wire = <<>> /\ queue = <<>> /\ stage = "closed"
    BY DEF Init
  <2>2. NumbersUpTo(<<>>, lines) /\ NoneCounts(<<>>)
    BY DEF NumbersUpTo, NoneCounts
  <2> QED BY <2>1, <2>2 DEF OrderInv, Registered
<1>2. ListsOK /\ OrderInv => OrderIsKept
  <2> SUFFICES ASSUME ListsOK, OrderInv, Registered PROVE Ordered(wire) /\ OrderIsKept
    BY DEF OrderIsKept
  <2>1. Ordered(wire)
    BY OrderedInParts DEF OrderInv, ListsOK
  <2> QED BY <2>1 DEF Ordered, Counts, OrderIsKept
<1>3. Spec => []OrderInv
  BY <1>1, QueueInvariance, OrderStep, PTL DEF Spec
<1> QED BY <1>2, <1>3, QueueInvariance, PTL
============================================================================
