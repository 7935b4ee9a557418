------------------------- MODULE CommandQueue_proofs -------------------------
(* The safety of the command queue, for any number of commands, priorities *)
(* and attempts.                                                           *)
EXTENDS CommandQueue, FiniteSetTheorems, SequenceTheorems, TLAPS

\* What the worker has in its hands at each place.
Hands ==
    /\ worker = "getting" => cur = None
    /\ worker \notin {"getting", "stopped"} => cur \in Cmds
    /\ cur = None => attempt = 0
    /\ cur # None => attempt = runs[cur] /\ attempt <= Limit(cur)
    /\ worker \in {"limiting", "starting"} => attempt = 0
    /\ worker = "backoff" => attempt < Limit(cur)

\* How often each command has run.
Counted ==
    \A c \in Cmds :
        /\ runs[c] <= Limit(c)
        /\ c \in heap \/ client[c] = "new" => runs[c] = 0

\* A waiting command ranks before the one that the worker holds only if it came later, and
\* then none has overtaken it yet.
Ranked ==
    /\ \A c \in Cmds :
          /\ queuedAt[c] <= metrics.queued
          /\ client[c] = "new" => bypass[c] = {}
          /\ bypass[c] = {} \/ \E d \in Cmds : bypass[c] = {d}
          /\ \A d \in bypass[c] :
                /\ client[d] # "new"
                /\ queuedAt[d] < queuedAt[c]
                /\ priority[d] < priority[c]
    /\ cur # None =>
          \A c \in heap : Before(c, cur) =>
              /\ queuedAt[cur] < queuedAt[c]
              /\ worker = "limiting" => bypass[c] = {}

IInv == TypeOK /\ OnePlace /\ Hands /\ Counted /\ Ranked

-----------------------------------------------------------------------------
(* Sequences.                                                              *)

LEMMA SetOfAppend ==
    ASSUME NEW s \in Seq(Cmds), NEW c \in Cmds
    PROVE  /\ SetOf(Append(s, c)) = SetOf(s) \cup {c}
           /\ Append(s, c) \in Seq(Cmds) /\ Len(Append(s, c)) = Len(s) + 1
<1> DEFINE t == Append(s, c)
<1>1. /\ t \in Seq(Cmds) /\ Len(t) = Len(s) + 1 /\ Len(s) \in Nat
      /\ \A i \in 1..Len(s) : t[i] = s[i]
      /\ t[Len(s) + 1] = c
  BY AppendProperties, LenProperties
<1>2. DOMAIN s = 1..Len(s) /\ DOMAIN t = 1..Len(s) + 1
  BY <1>1, LenProperties
<1> HIDE DEF t
<1>3. SetOf(t) = SetOf(s) \cup {c}
  BY <1>1, <1>2 DEF SetOf
<1> QED BY <1>1, <1>3 DEF t

\* One element at most.
LEMMA AtMostOne == ASSUME NEW S, NEW x, S = {} \/ S = {x} PROVE Cardinality(S) <= 1
<1>1. CASE S = {}
  <2>1. Cardinality(S) = 0
    BY <1>1, FS_EmptySet, Zenon
  <2> QED BY <2>1
<1>2. CASE S = {x}
  <2>1. Cardinality(S) = 1
    BY <1>2, FS_Singleton, Zenon
  <2> QED BY <2>1
<1> QED BY <1>1, <1>2

LEMMA SetOfFinite ==
    ASSUME NEW s \in Seq(Cmds) PROVE SetOf(s) \subseteq Cmds /\ IsFiniteSet(SetOf(s))
<1>1. SetOf(s) \subseteq Cmds
  BY DEF SetOf
<1> QED BY <1>1, QueueAssumption, FS_Subset

\* cleanup_old_results keeps a part of the results.
LEMMA TrimTyped == ASSUME NEW s \in Seq(Cmds) PROVE Trim(s) \in Seq(Cmds)
<1>1. MaxResults \div 2 \in Nat /\ MaxResults \div 2 <= MaxResults
  BY QueueAssumption
<1>2. ASSUME Len(s) > MaxResults
      PROVE  SubSeq(s, Len(s) - (MaxResults \div 2) + 1, Len(s)) \in Seq(Cmds)
  <2>1. Len(s) - (MaxResults \div 2) + 1 \in 1..Len(s) + 1
    BY <1>1, <1>2, QueueAssumption, LenProperties
  <2> QED BY <2>1, LenProperties, SubSeqProperties
<1> QED BY <1>2 DEF Trim

-----------------------------------------------------------------------------
LEMMA LimitTyped == TypeOK => \A c \in Cmds : Limit(c) \in 1..MaxAttempts
BY QueueAssumption DEF TypeOK, Limit, Critical

LEMMA InitGood == Init => IInv
<1> SUFFICES ASSUME Init PROVE IInv
  OBVIOUS
<1> USE QueueAssumption DEF Init
<1>1. TypeOK
  BY DEF TypeOK, Critical
<1>2. SetOf(log) = {} /\ Cardinality(SetOf(log)) = 0
  <2>1. DOMAIN log = {}
    BY DEF SetOf
  <2>2. SetOf(log) = {}
    BY <2>1 DEF SetOf
  <2>3. Cardinality({}) = 0
    BY FS_EmptySet
  <2> QED BY <2>2, <2>3, Zenon
<1>3. OnePlace
  BY <1>2 DEF OnePlace, Accepted
<1>4. Hands /\ Counted
  BY <1>1, LimitTyped DEF Hands, Counted
<1>5. Ranked
  BY DEF Ranked
<1> QED BY <1>1, <1>3, <1>4, <1>5 DEF IInv

\* Steps that move nothing between the heap, the worker's hands and the log.
LEMMA Quiet ==
    ASSUME IInv,
           \/ \E c \in Cmds : Refuse(c) \/ Poll(c)
           \/ Cleanup \/ RunOk \/ RunFails \/ StopBegin \/ StopEnd
    PROVE  IInv'
<1>0. TypeOK /\ OnePlace /\ Hands /\ Counted /\ Ranked
  BY DEF IInv
<1>1. UNCHANGED <<priority, queuedAt, heap, cur, attempt, executing, log, metrics, runs, bypass>>
  BY DEF Refuse, Poll, Cleanup, RunOk, RunFails, StopBegin, StopEnd,
         cmdVars, workerVars, resultVars
<1>2. /\ client' \in [Cmds -> {"new", "polling", "refused", "answered"}]
      /\ \A c \in Cmds : /\ client'[c] = "new" => client[c] = "new"
                         /\ client[c] # "new" => client'[c] # "new"
                         /\ client[c] \in {"polling", "answered"}
                               <=> client'[c] \in {"polling", "answered"}
  BY <1>0 DEF Refuse, Poll, Cleanup, RunOk, RunFails, StopBegin, StopEnd,
              cmdVars, workerVars, resultVars, TypeOK
<1>3. \/ UNCHANGED worker
      \/ worker = "running" /\ worker' \in {"succeeded", "raised"}
      \/ worker = "running" /\ worker' = "backoff" /\ attempt < Limit(cur)
  BY DEF Refuse, Poll, Cleanup, RunOk, RunFails, StopBegin, StopEnd,
         cmdVars, workerVars, resultVars
<1>4. completed' \in Seq(Cmds) /\ failed' \in Seq(Cmds) /\ stop' \in {"run", "cancelling", "done"}
  BY <1>0, TrimTyped DEF Refuse, Poll, Cleanup, RunOk, RunFails, StopBegin, StopEnd,
                         cmdVars, workerVars, resultVars, TypeOK
<1>5. TypeOK'
  BY <1>0, <1>1, <1>2, <1>3, <1>4 DEF TypeOK
<1>6. OnePlace'
  <2>1. Accepted' = Accepted
    BY <1>2 DEF Accepted
  <2> QED BY <1>0, <1>1, <2>1 DEF OnePlace, SetOf
<1>7. Hands' /\ Counted'
  BY <1>0, <1>1, <1>2, <1>3 DEF Hands, Counted, Limit
<1>8. Ranked'
  BY <1>0, <1>1, <1>2, <1>3 DEF Ranked, Before, TypeOK
<1> QED BY <1>5, <1>6, <1>7, <1>8 DEF IInv

\* A new command is in no place yet, and its time is the latest.
LEMMA Enqueued ==
    ASSUME IInv, NEW c \in Cmds, NEW p \in Priorities, Enqueue(c, p) PROVE IInv'
<1>0. TypeOK /\ OnePlace /\ Hands /\ Counted /\ Ranked
  BY DEF IInv
<1>1. /\ client[c] = "new" /\ client' = [client EXCEPT ![c] = "polling"]
      /\ priority' = [priority EXCEPT ![c] = p]
      /\ queuedAt' = [queuedAt EXCEPT ![c] = metrics.queued + 1]
      /\ heap' = heap \cup {c}
      /\ metrics' = [metrics EXCEPT !.queued = @ + 1]
      /\ UNCHANGED <<worker, cur, attempt, executing, completed, failed, log, stop, runs, bypass>>
  BY DEF Enqueue, workerVars, resultVars
<1>2. c \notin heap /\ c # cur /\ c \notin SetOf(log)
  <2>1. c \notin Accepted
    BY <1>1 DEF Accepted
  <2> QED BY <1>0, <2>1, QueueAssumption DEF OnePlace
<1>3. TypeOK' /\ metrics'.queued = metrics.queued + 1 /\ metrics.queued \in Nat
  <2>1. /\ metrics' \in [queued : Nat, executed : Nat, failed : Nat]
        /\ metrics'.queued = metrics.queued + 1 /\ metrics.queued \in Nat
    <3>1. metrics \in [queued : Nat, executed : Nat, failed : Nat]
      BY <1>0 DEF TypeOK
    <3>2. metrics' = [metrics EXCEPT !.queued = metrics.queued + 1]
      BY <1>1
    <3> QED BY <3>1, <3>2
  <2>2. p \in 0..Critical
    BY QueueAssumption DEF Critical
  <2>3. /\ client' \in [Cmds -> {"new", "polling", "refused", "answered"}]
        /\ priority' \in [Cmds -> 0..Critical] /\ queuedAt' \in [Cmds -> Nat]
    BY <1>0, <1>1, <2>1, <2>2 DEF TypeOK
  <2> QED BY <1>0, <1>1, <2>1, <2>3 DEF TypeOK
<1>4. \A d \in Cmds : /\ d # c => /\ client'[d] = client[d] /\ priority'[d] = priority[d]
                                  /\ queuedAt'[d] = queuedAt[d]
                      /\ d = c => /\ client'[d] = "polling" /\ priority'[d] = p
                                  /\ queuedAt'[d] = metrics.queued + 1
  BY <1>0, <1>1 DEF TypeOK
<1>5. OnePlace'
  <2>1. Accepted' = Accepted \cup {c}
    BY <1>4 DEF Accepted
  <2> QED BY <1>0, <1>1, <1>2, <2>1 DEF OnePlace, SetOf
<1>6. Hands'
  <2>1. cur # None => cur \in Cmds /\ Limit(cur)' = Limit(cur)
    BY <1>0, <1>1, <1>2, <1>4 DEF Limit, TypeOK
  <2>2. Limit(cur)' = IF priority'[cur] = Critical THEN 1 ELSE MaxAttempts
    BY <1>1 DEF Limit
  <2>3. cur # None => cur \in Cmds /\ Limit(cur)' = Limit(cur) /\ cur' = cur
    BY <1>1, <2>1
  <2> QED BY <1>0, <1>1, <2>3, QueueAssumption DEF Hands
<1>7. Counted'
  <2>1. \A d \in Cmds : d # c => Limit(d)' = Limit(d)
    BY <1>4 DEF Limit
  <2>2. runs[c] = 0 /\ Limit(c)' \in 1..MaxAttempts
    BY <1>0, <1>1, <1>3, QueueAssumption DEF Counted, Limit
  <2> QED BY <1>0, <1>1, <1>4, <2>1, <2>2, QueueAssumption DEF Counted
<1>8. Ranked'
  <2>1. \A d \in Cmds : queuedAt[d] <= metrics.queued /\ queuedAt[d] \in Nat
    BY <1>0 DEF Ranked, TypeOK
  <2>2. bypass[c] = {} /\ \A d \in Cmds : c \notin bypass[d] /\ bypass[d] \subseteq Cmds
    BY <1>0, <1>1 DEF Ranked, TypeOK
  <2>3. ASSUME NEW d \in Cmds
        PROVE  /\ queuedAt'[d] <= metrics'.queued
               /\ client'[d] = "new" => bypass[d] = {}
               /\ bypass[d] = {} \/ \E e \in Cmds : bypass[d] = {e}
               /\ \A e \in bypass[d] :
                     /\ client'[e] # "new"
                     /\ queuedAt'[e] < queuedAt'[d]
                     /\ priority'[e] < priority'[d]
    BY <1>0, <1>3, <1>4, <2>1, <2>2 DEF Ranked
  <2>4. ASSUME cur # None, NEW d \in heap', Before(d, cur)'
        PROVE  /\ queuedAt'[cur] < queuedAt'[d]
               /\ worker = "limiting" => bypass[d] = {}
    <3>1. cur \in Cmds /\ d \in Cmds
      BY <1>0, <1>1, <2>4 DEF TypeOK
    <3>2. CASE d = c
      BY <1>2, <1>3, <1>4, <2>1, <2>2, <3>1, <3>2
    <3>3. CASE d # c
      <4>1. Before(d, cur)
        BY <1>1, <1>2, <1>4, <2>4, <3>1, <3>3 DEF Before
      <4> QED BY <1>0, <1>1, <1>2, <1>4, <2>4, <3>1, <3>3, <4>1 DEF Ranked
    <3> QED BY <3>2, <3>3
  <2> QED BY <1>1, <2>3, <2>4 DEF Ranked
<1> QED BY <1>3, <1>5, <1>6, <1>7, <1>8 DEF IInv

-----------------------------------------------------------------------------
(* The worker.                                                             *)

\* It takes the first of the heap: none that waits ranks before it.
LEMMA Taken == ASSUME IInv, NEW c \in Cmds, Take(c) PROVE IInv'
<1>0. TypeOK /\ OnePlace /\ Hands /\ Counted /\ Ranked
  BY DEF IInv
<1>1. /\ worker = "getting" /\ c \in heap /\ \A d \in heap \ {c} : Before(c, d)
      /\ heap' = heap \ {c} /\ cur' = c /\ worker' = "limiting"
      /\ UNCHANGED <<client, priority, queuedAt, attempt, executing, completed, failed, log,
                     metrics, stop, runs, bypass>>
  BY DEF Take, cmdVars, resultVars
<1>2. TypeOK'
  BY <1>0, <1>1 DEF TypeOK
<1>3. cur = None /\ executing = {} /\ attempt = 0 /\ runs[c] = 0 /\ c # None
  BY <1>0, <1>1, QueueAssumption DEF Hands, OnePlace, Counted, TypeOK
<1>4. OnePlace'
  BY <1>0, <1>1, <1>3 DEF OnePlace, Accepted, SetOf
<1>5. Hands' /\ Counted'
  BY <1>0, <1>1, <1>3, LimitTyped, QueueAssumption DEF Hands, Counted, Limit
<1>6. Ranked'
  <2>1. ASSUME NEW d \in heap' PROVE ~Before(d, c)
    <3>1. Before(c, d) /\ d \in Cmds
      BY <1>0, <1>1, <2>1 DEF TypeOK
    <3>2. /\ priority[c] \in Int /\ priority[d] \in Int
          /\ queuedAt[c] \in Int /\ queuedAt[d] \in Int
      <4>1. priority \in [Cmds -> 0..Critical] /\ queuedAt \in [Cmds -> Nat]
        BY <1>0 DEF TypeOK
      <4> QED BY <3>1, <4>1 DEF Critical
    <3> QED BY <3>1, <3>2 DEF Before
  <2>2. \A d \in heap' : ~Before(d, cur)'
    BY <1>1, <2>1 DEF Before
  <2> QED BY <1>0, <1>1, <2>2 DEF Ranked
<1> QED BY <1>2, <1>4, <1>5, <1>6 DEF IInv

\* It overtakes only those that came while the rate limiter held the worker.
LEMMA Executed == ASSUME IInv, Execute PROVE IInv'
<1>0. TypeOK /\ OnePlace /\ Hands /\ Counted /\ Ranked
  BY DEF IInv
<1>1. /\ worker = "limiting" /\ executing' = executing \cup {cur} /\ worker' = "starting"
      /\ bypass' = [c \in Cmds |-> IF c \in heap /\ Before(c, cur)
                                   THEN bypass[c] \cup {cur} ELSE bypass[c]]
      /\ UNCHANGED <<client, priority, queuedAt, cur, attempt, heap, completed, failed, log,
                     metrics, stop, runs>>
  BY DEF Execute, cmdVars, resultVars
<1>2. cur \in Cmds /\ cur # None
  BY <1>0, <1>1, QueueAssumption DEF Hands
<1>3. TypeOK'
  BY <1>0, <1>1, <1>2 DEF TypeOK
<1>4. OnePlace'
  BY <1>0, <1>1 DEF OnePlace, Accepted, SetOf
<1>5. Hands' /\ Counted'
  BY <1>0, <1>1 DEF Hands, Counted, Limit
<1>6. client[cur] # "new"
  BY <1>0, <1>2 DEF OnePlace, Accepted
<1>7. ASSUME NEW c \in Cmds
      PROVE  /\ client[c] = "new" => bypass'[c] = {}
             /\ bypass'[c] = {} \/ \E d \in Cmds : bypass'[c] = {d}
             /\ \A d \in bypass'[c] :
                   client[d] # "new" /\ queuedAt[d] < queuedAt[c] /\ priority[d] < priority[c]
  <2>1. CASE c \in heap /\ Before(c, cur)
    <3>1. bypass'[c] = {cur} /\ queuedAt[cur] < queuedAt[c]
      BY <1>0, <1>1, <1>2, <2>1 DEF Ranked
    <3>2. client[c] # "new"
      BY <1>0, <2>1 DEF OnePlace, Accepted
    <3>3. priority[cur] < priority[c]
      BY <1>0, <1>2, <2>1, <3>1 DEF Before, TypeOK
    <3> QED BY <1>2, <1>6, <3>1, <3>2, <3>3
  <2>2. CASE ~(c \in heap /\ Before(c, cur))
    BY <1>0, <1>1, <2>2 DEF Ranked
  <2> QED BY <2>1, <2>2
<1>8. Ranked'
  <2>1. \A c \in heap : Before(c, cur)' => queuedAt[cur] < queuedAt[c]
    BY <1>0, <1>1, <1>2 DEF Ranked, Before
  <2> QED BY <1>0, <1>1, <1>7, <2>1 DEF Ranked
<1> QED BY <1>3, <1>4, <1>5, <1>8 DEF IInv

LEMMA Attempted == ASSUME IInv, Attempt PROVE IInv'
<1>0. TypeOK /\ OnePlace /\ Hands /\ Counted /\ Ranked
  BY DEF IInv
<1>1. /\ worker \in {"starting", "backoff"} /\ worker' = "running"
      /\ attempt' = attempt + 1 /\ runs' = [runs EXCEPT ![cur] = @ + 1]
      /\ UNCHANGED <<client, priority, queuedAt, cur, executing, heap, completed, failed, log,
                     metrics, stop, bypass>>
  BY DEF Attempt, cmdVars, resultVars
<1>2. /\ cur \in Cmds /\ cur # None /\ attempt = runs[cur] /\ attempt < Limit(cur)
      /\ Limit(cur) \in 1..MaxAttempts /\ attempt \in Nat
  BY <1>0, <1>1, LimitTyped, QueueAssumption DEF Hands, TypeOK
<1>3. runs'[cur] = runs[cur] + 1 /\ \A c \in Cmds : c # cur => runs'[c] = runs[c]
  BY <1>0, <1>1, <1>2 DEF TypeOK
<1>4. TypeOK'
  <2>1. runs' \in [Cmds -> 0..MaxAttempts] /\ attempt' \in 0..MaxAttempts
    BY <1>0, <1>1, <1>2, QueueAssumption DEF TypeOK
  <2> QED BY <1>0, <1>1, <2>1 DEF TypeOK
<1>5. OnePlace'
  BY <1>0, <1>1 DEF OnePlace, Accepted, SetOf
<1>6. Hands'
  BY <1>0, <1>1, <1>2, <1>3 DEF Hands, Limit
<1>7. Counted'
  <2>1. cur \notin heap /\ client[cur] # "new"
    BY <1>0, <1>2 DEF OnePlace, Accepted
  <2> QED BY <1>0, <1>1, <1>2, <1>3, <2>1 DEF Counted, Limit
<1>8. Ranked'
  BY <1>0, <1>1 DEF Ranked, Before
<1> QED BY <1>4, <1>5, <1>6, <1>7, <1>8 DEF IInv

\* The command goes from the worker's hands to the log.
LEMMA Recorded == ASSUME IInv, Record PROVE IInv'
<1>0. TypeOK /\ OnePlace /\ Hands /\ Counted /\ Ranked
  BY DEF IInv
<1>1. /\ worker \in {"succeeded", "raised"} /\ worker' = "getting" /\ cur' = None /\ attempt' = 0
      /\ log' = Append(log, cur) /\ executing' = executing \ {cur}
      /\ UNCHANGED <<client, priority, queuedAt, heap, stop, runs, bypass>>
  BY DEF Record, cmdVars
<1>2. cur \in Cmds /\ cur # None
  BY <1>0, <1>1, QueueAssumption DEF Hands
<1>3. /\ completed' \in Seq(Cmds) /\ failed' \in Seq(Cmds)
      /\ metrics' \in [queued : Nat, executed : Nat, failed : Nat]
      /\ metrics'.queued = metrics.queued
  <2>1. Append(completed, cur) \in Seq(Cmds) /\ Append(failed, cur) \in Seq(Cmds)
    BY <1>0, <1>2, SetOfAppend DEF TypeOK
  <2>2. \/ metrics' = [metrics EXCEPT !.executed = @ + 1]
        \/ metrics' = [metrics EXCEPT !.failed = @ + 1]
    BY DEF Record
  <2>3. /\ metrics' \in [queued : Nat, executed : Nat, failed : Nat]
        /\ metrics'.queued = metrics.queued
    <3>1. metrics \in [queued : Nat, executed : Nat, failed : Nat]
      BY <1>0 DEF TypeOK
    <3> QED BY <2>2, <3>1
  <2>4. completed' \in {completed, Append(completed, cur)} /\ failed' \in {failed, Append(failed, cur)}
    BY DEF Record
  <2>5. completed \in Seq(Cmds) /\ failed \in Seq(Cmds)
    BY <1>0 DEF TypeOK
  <2> QED BY <2>1, <2>3, <2>4, <2>5
<1>4. /\ log' \in Seq(Cmds) /\ SetOf(log') = SetOf(log) \cup {cur} /\ Len(log') = Len(log) + 1
  BY <1>0, <1>1, <1>2, SetOfAppend DEF TypeOK
<1>5. TypeOK'
  BY <1>0, <1>1, <1>3, <1>4, QueueAssumption DEF TypeOK
<1>6. OnePlace'
  <2>1. cur \notin SetOf(log) /\ IsFiniteSet(SetOf(log))
    BY <1>0, <1>2, SetOfFinite DEF OnePlace, TypeOK
  <2>2. Cardinality(SetOf(log')) = Cardinality(SetOf(log)) + 1
    BY <1>4, <2>1, FS_AddElement
  <2>3. SetOf(log)' = SetOf(log')
    BY DEF SetOf
  <2>4. Accepted' = Accepted
    BY <1>1 DEF Accepted
  <2> HIDE DEF SetOf
  <2> QED BY <1>0, <1>1, <1>2, <1>4, <2>2, <2>3, <2>4 DEF OnePlace
<1>7. Hands' /\ Counted'
  BY <1>0, <1>1 DEF Hands, Counted, Limit
<1>8. Ranked'
  BY <1>0, <1>1, <1>3 DEF Ranked
<1> QED BY <1>5, <1>6, <1>7, <1>8 DEF IInv

LEMMA WorkerCancelled == ASSUME IInv, Cancelled PROVE IInv'
<1>0. TypeOK /\ OnePlace /\ Hands /\ Counted /\ Ranked
  BY DEF IInv
<1>1. /\ worker' = "stopped" /\ executing' = executing \ {cur}
      /\ UNCHANGED <<client, priority, queuedAt, cur, attempt, heap, completed, failed, log,
                     metrics, stop, runs, bypass>>
  BY DEF Cancelled, cmdVars, resultVars
<1>2. TypeOK' /\ Hands' /\ Counted'
  BY <1>0, <1>1 DEF TypeOK, Hands, Counted, Limit
<1>3. OnePlace'
  BY <1>0, <1>1 DEF OnePlace, Accepted, SetOf
<1>4. Ranked'
  BY <1>0, <1>1 DEF Ranked, Before
<1> QED BY <1>2, <1>3, <1>4 DEF IInv

-----------------------------------------------------------------------------
LEMMA StepGood == IInv /\ [Next]_vars => IInv'
<1> SUFFICES ASSUME IInv, [Next]_vars PROVE IInv'
  OBVIOUS
<1>1. CASE UNCHANGED vars
  <2> USE <1>1 DEF vars, cmdVars, workerVars, resultVars
  <2>1. TypeOK' /\ OnePlace'
    BY DEF IInv, TypeOK, OnePlace, Accepted, SetOf
  <2>2. Hands' /\ Counted'
    BY DEF IInv, Hands, Counted, Limit
  <2>3. Ranked'
    BY DEF IInv, Ranked, Before
  <2> QED BY <2>1, <2>2, <2>3 DEF IInv
<1>2. CASE Next
  BY <1>2, Quiet, Enqueued, Taken, Executed, Attempted, Recorded, WorkerCancelled
     DEF Next, ClientNext, WorkerNext, WorkerStep
<1> QED BY <1>1, <1>2

THEOREM Inductive == Spec => []IInv
BY InitGood, StepGood, PTL DEF Spec

\* Every variable keeps its type; no command is attempted more than max_attempts times.
THEOREM TypeCorrect == Spec => []TypeOK
BY Inductive, PTL DEF IInv

\* Through retries, cancellation and cleanup a command is in the heap, with the worker or in
\* the log, and gets one result.
THEOREM CommandsInOnePlace == Spec => []OnePlace
BY Inductive, PTL DEF IInv

\* A waiting command is overtaken at most once.
THEOREM OvertakenOnce == Spec => []Overtaken
<1>1. IInv => Overtaken
  <2> SUFFICES ASSUME IInv, NEW c \in Cmds
               PROVE  /\ Cardinality(bypass[c]) <= 1
                      /\ \A d \in bypass[c] :
                            queuedAt[d] < queuedAt[c] /\ priority[d] < priority[c]
    BY DEF Overtaken
  <2>1. bypass[c] = {} \/ \E d \in Cmds : bypass[c] = {d}
    BY DEF IInv, Ranked
  <2>2. Cardinality(bypass[c]) <= 1
    BY <2>1, AtMostOne
  <2> QED BY <2>2 DEF IInv, Ranked
<1> QED BY Inductive, <1>1, PTL

\* A command runs no more often than it may.
THEOREM RunsLimited == Spec => []RunsBounded
<1>1. IInv => RunsBounded
  <2> SUFFICES ASSUME IInv PROVE RunsBounded
    OBVIOUS
  <2>1. executing = {} \/ executing = {cur}
    BY DEF IInv, OnePlace
  <2>2. Cardinality(executing) <= 1
    BY <2>1, AtMostOne
  <2> QED BY <2>2 DEF IInv, Counted, RunsBounded
<1> QED BY Inductive, <1>1, PTL

-----------------------------------------------------------------------------
(* The command queue implements TaskQueue.                                 *)

\* A command has run when its task is over, has failed only when it may not run again, and
\* the worker stops only with the queue.
Tried ==
    /\ worker \in {"running", "succeeded", "raised"} => attempt >= 1
    /\ worker = "raised" => attempt = Limit(cur)
    /\ worker = "stopped" => stop # "run"

LEMMA TriedStep == IInv /\ Tried /\ [Next]_vars => Tried'
<1> SUFFICES ASSUME IInv, Tried, [Next]_vars PROVE Tried'
  OBVIOUS
<1>0. attempt \in Nat
  BY QueueAssumption DEF IInv, TypeOK
<1>1. ASSUME NEW c \in Cmds, ClientNext(c) PROVE Tried'
  <2>1. UNCHANGED <<worker, attempt, stop, cur>> /\ (cur \in Cmds => priority'[cur] = priority[cur])
    <3>1. UNCHANGED <<worker, attempt, stop, cur>>
      BY <1>1 DEF ClientNext, Refuse, Poll, Enqueue, workerVars
    <3>2. priority' = priority \/ (client[c] = "new" /\ \E p \in Priorities : priority' = [priority EXCEPT ![c] = p])
      BY <1>1 DEF ClientNext, Refuse, Poll, Enqueue
    <3>3. cur \in Cmds => client[cur] # "new"
      BY QueueAssumption DEF IInv, OnePlace, Accepted
    <3>4. priority \in [Cmds -> 0..Critical]
      BY DEF IInv, TypeOK
    <3> QED BY <3>1, <3>2, <3>3, <3>4
  <2>2. worker = "raised" => cur \in Cmds
    BY DEF IInv, Hands
  <2> QED BY <2>1, <2>2 DEF Tried, Limit
<1>2. CASE \E c \in Cmds : Take(c)
  BY <1>2 DEF Take, Tried
<1>3. CASE Execute \/ Cancelled \/ Record
  BY <1>3 DEF Execute, Cancelled, Record, Tried
<1>4. CASE Attempt
  BY <1>0, <1>4 DEF Attempt, Tried
<1>5. CASE RunOk
  BY <1>5 DEF RunOk, Tried
<1>6. CASE RunFails
  <2>1. cur # None /\ attempt <= Limit(cur) /\ attempt >= 1
    BY <1>6, QueueAssumption DEF RunFails, IInv, Hands, Tried
  <2>2. Limit(cur) \in Nat
    BY <1>6, LimitTyped DEF RunFails, IInv, Hands
  <2>3. UNCHANGED <<attempt, cur, stop, priority>>
    BY <1>6 DEF RunFails, cmdVars
  <2> QED BY <1>0, <1>6, <2>1, <2>2, <2>3 DEF RunFails, Tried, Limit
<1>7. CASE Cleanup \/ StopBegin \/ StopEnd \/ UNCHANGED vars
  BY <1>7 DEF Cleanup, StopBegin, StopEnd, Tried, Limit, vars, workerVars, cmdVars
<1> QED BY <1>1, <1>2, <1>3, <1>4, <1>5, <1>6, <1>7 DEF Next, WorkerNext, WorkerStep

LEMMA TriedAlways == Spec => []Tried
<1>1. Init => Tried
  BY DEF Init, Tried
<1> QED BY <1>1, TriedStep, Inductive, PTL DEF Spec

\* The phase of a command is told by the place it is in.
PhasesFit ==
    \A c \in Cmds :
        /\ c \in heap => Phase(c) = "waiting"
        /\ c \in SetOf(log) => Phase(c) = "done"
        /\ c = cur => Phase(c) = IF worker = "stopped" THEN "aborted" ELSE "active"
        /\ c \notin heap \cup SetOf(log) \cup {cur} =>
              client[c] \in {"new", "refused"} /\ Phase(c) = client[c]

LEMMA PhasesRight == IInv => PhasesFit
<1> SUFFICES ASSUME IInv, NEW c \in Cmds
             PROVE  /\ c \in heap => Phase(c) = "waiting"
                    /\ c \in SetOf(log) => Phase(c) = "done"
                    /\ c = cur => Phase(c) = IF worker = "stopped" THEN "aborted" ELSE "active"
                    /\ c \notin heap \cup SetOf(log) \cup {cur} =>
                          client[c] \in {"new", "refused"} /\ Phase(c) = client[c]
  BY DEF PhasesFit
<1>1. /\ heap \cap SetOf(log) = {}
      /\ cur # None => cur \notin heap \cup SetOf(log)
      /\ Accepted = heap \cup SetOf(log) \cup ({cur} \ {None})
      /\ client[c] \in {"new", "polling", "refused", "answered"}
      /\ c # None
  BY QueueAssumption DEF IInv, OnePlace, TypeOK
<1>2. c \in Accepted <=> client[c] \in {"polling", "answered"}
  BY DEF Accepted
<1> QED BY <1>1, <1>2 DEF Phase

LEMMA PhasesRightNext == IInv' => PhasesFit'
BY PhasesRight, PTL

\* The step of one task, and a step of none.
LEMMA OneMoves ==
    ASSUME NEW c \in Cmds, NEW to,
           Phase(c)' = to, \A d \in Cmds \ {c} : Phase(d)' = Phase(d)
    PROVE  [d \in Cmds |-> Phase(d)]' = [[d \in Cmds |-> Phase(d)] EXCEPT ![c] = to]
OBVIOUS

LEMMA NoneMoves ==
    ASSUME \A d \in Cmds : Phase(d)' = Phase(d)
    PROVE  [d \in Cmds |-> Phase(d)]' = [d \in Cmds |-> Phase(d)]
OBVIOUS

\* Where the heap, the worker's hands, the log and the clients stay, phases do.
LEMMA PhasesKept ==
    ASSUME UNCHANGED <<heap, log, Accepted>>, worker = "stopped" <=> worker' = "stopped",
           \A c \in Cmds : c \notin Accepted => client'[c] = client[c]
    PROVE  \A c \in Cmds : Phase(c)' = Phase(c)
BY DEF Phase, SetOf

LEMMA TrimSubset == ASSUME NEW s \in Seq(Cmds) PROVE SetOf(Trim(s)) \subseteq SetOf(s)
<1>1. MaxResults \div 2 \in Nat /\ MaxResults \div 2 <= MaxResults
  BY QueueAssumption
<1>2. ASSUME Len(s) > MaxResults PROVE SetOf(Trim(s)) \subseteq SetOf(s)
  <2> DEFINE m == Len(s) - (MaxResults \div 2) + 1
             t == SubSeq(s, m, Len(s))
  <2>1. m \in 1..Len(s) + 1 /\ Len(s) \in Nat /\ DOMAIN s = 1..Len(s)
    BY <1>1, <1>2, QueueAssumption, LenProperties
  <2>2. /\ Len(t) = (IF m <= Len(s) THEN Len(s) - m + 1 ELSE 0)
        /\ t \in Seq(Cmds)
        /\ \A i \in 1..Len(s) - m + 1 : t[i] = s[m + i - 1]
    BY <2>1, SubSeqProperties
  <2>3. DOMAIN t = 1..Len(t)
    BY <2>2, LenProperties
  <2> HIDE DEF m, t
  <2>4. \A i \in DOMAIN t : t[i] \in SetOf(s)
    <3> TAKE i \in DOMAIN t
    <3>1. i \in 1..Len(s) - m + 1
      BY <2>1, <2>2, <2>3
    <3>2. m + i - 1 \in DOMAIN s /\ t[i] = s[m + i - 1]
      BY <2>1, <2>2, <3>1
    <3> QED BY <3>2 DEF SetOf
  <2>5. Trim(s) = t
    BY <1>2 DEF Trim, t, m
  <2> QED BY <2>4, <2>5 DEF SetOf
<1> QED BY <1>2 DEF Trim

-----------------------------------------------------------------------------
\* What a client, cleanup and stop_worker do.
LEMMA ClientTasks ==
    ASSUME IInv, IInv', NEW c \in Cmds, ClientNext(c)
    PROVE  Tasks!Next
<1>0. TypeOK /\ OnePlace /\ PhasesFit /\ PhasesFit'
  BY PhasesRight, PhasesRightNext DEF IInv
<1>1. CASE Refuse(c)
  <2>1. client[c] = "new" /\ client' = [client EXCEPT ![c] = "refused"] /\ stop # "run"
        /\ UNCHANGED <<priority, queuedAt, heap, worker, cur, log, completed, failed,
                       metrics, runs, stop>>
    BY <1>1 DEF Refuse, workerVars, resultVars
  <2>2. c \notin heap \cup SetOf(log) \cup {cur}
    BY <1>0, <2>1, QueueAssumption DEF OnePlace, Accepted
  <2>3. /\ \A d \in Cmds \ {c} : client'[d] = client[d]
        /\ client'[c] = "refused"
        /\ Accepted' = Accepted
    BY <1>0, <2>1 DEF TypeOK, Accepted
  <2>4. Phase(c) = "new" /\ Phase(c)' = "refused"
    BY <1>0, <2>1, <2>2, <2>3 DEF PhasesFit, SetOf
  <2>5. \A d \in Cmds \ {c} : Phase(d)' = Phase(d)
    BY <2>1, <2>3 DEF Phase, SetOf
  <2>6. {d \in Cmds : client'[d] = "answered"} = {d \in Cmds : client[d] = "answered"}
    BY <2>1, <2>3
  <2>7. Tasks!Reject(c)
    BY <2>1, <2>4, <2>5, <2>6, OneMoves DEF Tasks!Reject, Tasks!Move, Tasks!verdicts, SetOf
  <2> QED BY <2>7 DEF Tasks!Next
<1>2. CASE Poll(c)
  <2>1. client[c] = "polling" /\ client' = [client EXCEPT ![c] = "answered"] /\ c \in Answered
        /\ UNCHANGED <<priority, queuedAt, heap, worker, cur, log, completed, failed,
                       metrics, runs, stop>>
    BY <1>2 DEF Poll, workerVars, resultVars
  <2>2. /\ Accepted' = Accepted
        /\ \A d \in Cmds : d \notin Accepted => client'[d] = client[d]
        /\ {d \in Cmds : client'[d] = "answered"} = {d \in Cmds : client[d] = "answered"} \cup {c}
    BY <1>0, <2>1 DEF TypeOK, Accepted
  <2>3. \A d \in Cmds : Phase(d)' = Phase(d)
    BY <2>1, <2>2, PhasesKept
  <2>4. Tasks!Tell(c)
    BY <2>1, <2>2, <2>3, NoneMoves DEF Tasks!Tell, SetOf, Answered
  <2> QED BY <2>4 DEF Tasks!Next
<1>3. ASSUME NEW p \in Priorities, Enqueue(c, p) PROVE Tasks!Next
  <2>1. /\ client[c] = "new" /\ client' = [client EXCEPT ![c] = "polling"] /\ stop = "run"
        /\ heap' = heap \cup {c}
        /\ priority' = [priority EXCEPT ![c] = p]
        /\ queuedAt' = [queuedAt EXCEPT ![c] = metrics.queued + 1]
        /\ UNCHANGED <<worker, cur, log, completed, failed, runs, stop>>
    BY <1>3 DEF Enqueue, workerVars, resultVars
  <2>2. metrics'.queued = metrics.queued + 1
    <3>1. metrics \in [queued : Nat, executed : Nat, failed : Nat]
      BY <1>0 DEF TypeOK
    <3>2. metrics' = [metrics EXCEPT !.queued = metrics.queued + 1]
      BY <1>3 DEF Enqueue
    <3> QED BY <3>1, <3>2
  <2>3. c \notin heap \cup SetOf(log) \cup {cur}
    BY <1>0, <2>1, QueueAssumption DEF OnePlace, Accepted
  <2>4. /\ \A d \in Cmds \ {c} : client'[d] = client[d]
        /\ client'[c] = "polling"
        /\ Accepted' = Accepted \cup {c}
    BY <1>0, <2>1 DEF TypeOK, Accepted
  <2>5. Phase(c) = "new" /\ Phase(c)' = "waiting"
    BY <1>0, <2>1, <2>3, <2>4 DEF PhasesFit, SetOf
  <2>6. \A d \in Cmds \ {c} : Phase(d)' = Phase(d)
    BY <2>1, <2>4 DEF Phase, SetOf
  <2>7. {d \in Cmds : client'[d] = "answered"} = {d \in Cmds : client[d] = "answered"}
    BY <2>1, <2>4
  <2>8. Tasks!Submit(c, p)
    BY <2>1, <2>2, <2>5, <2>6, <2>7, OneMoves DEF Tasks!Submit, Tasks!Move, Tasks!verdicts, SetOf
  <2> QED BY <2>8 DEF Tasks!Next
<1> QED BY <1>1, <1>2, <1>3 DEF ClientNext

LEMMA OtherTasks ==
    ASSUME IInv, IInv', Tried, Cleanup \/ StopBegin \/ StopEnd
    PROVE  Tasks!Next
<1>1. UNCHANGED <<client, priority, queuedAt, heap, worker, cur, log, metrics, runs>>
  BY DEF Cleanup, StopBegin, StopEnd, cmdVars, workerVars, resultVars
<1>2. \A d \in Cmds : Phase(d)' = Phase(d)
  BY <1>1 DEF Phase, Accepted, SetOf
<1>3. CASE Cleanup
  <2>1. completed' = Trim(completed) /\ failed' = Trim(failed) /\ stop' = stop
    BY <1>3 DEF Cleanup
  <2>2. completed \in Seq(Cmds) /\ failed \in Seq(Cmds)
    BY DEF IInv, TypeOK
  <2>3. SetOf(Trim(completed)) \subseteq SetOf(completed) /\ SetOf(Trim(failed)) \subseteq SetOf(failed)
    BY <2>2, TrimSubset
  <2>4. SetOf(completed)' \subseteq SetOf(completed) /\ SetOf(failed)' \subseteq SetOf(failed)
    BY <2>1, <2>3 DEF SetOf
  <2>5. Tasks!Forget
    BY <1>1, <1>2, <2>1, <2>4, NoneMoves DEF Tasks!Forget
  <2> QED BY <2>5 DEF Tasks!Next
<1>4. CASE StopBegin
  <2>1. Tasks!Close
    BY <1>1, <1>2, <1>4, NoneMoves DEF StopBegin, resultVars, Tasks!Close, Tasks!verdicts, SetOf
  <2> QED BY <2>1 DEF Tasks!Next
<1>5. CASE StopEnd
  <2>1. \A d \in Cmds : Phase(d) # "active"
    BY <1>5, PhasesRight DEF StopEnd, PhasesFit
  <2>2. \A d \in Cmds : [e \in Cmds |-> Phase(e)][d] # "active"
    BY <2>1
  <2>3. Tasks!Closed
    BY <1>1, <1>2, <1>5, <2>2, NoneMoves DEF StopEnd, resultVars, Tasks!Closed, Tasks!verdicts, SetOf
  <2> QED BY <2>3 DEF Tasks!Next
<1> QED BY <1>3, <1>4, <1>5

\* What the worker does, seen from the tools.
LEMMA WorkerTasks ==
    ASSUME IInv, IInv', Tried, WorkerNext
    PROVE  [Tasks!Next]_(Tasks!queueVars)
<1>0. TypeOK /\ OnePlace /\ Hands /\ Counted /\ PhasesFit /\ PhasesFit'
  BY PhasesRight, PhasesRightNext DEF IInv
<1>1. UNCHANGED <<client, priority, queuedAt, stop>> /\ metrics'.queued = metrics.queued
  <2>1. UNCHANGED <<client, priority, queuedAt, stop>>
    BY DEF WorkerNext, WorkerStep, Take, Execute, Attempt, RunOk, RunFails, Record, Cancelled, cmdVars
  <2>2. metrics \in [queued : Nat, executed : Nat, failed : Nat]
    BY <1>0 DEF TypeOK
  <2>3. metrics'.queued = metrics.queued
    BY <2>2 DEF WorkerNext, WorkerStep, Take, Execute, Attempt, RunOk, RunFails, Record, Cancelled
  <2> QED BY <2>1, <2>3
<1>2. Accepted' = Accepted
  BY <1>1 DEF Accepted
<1>3. ASSUME NEW c \in Cmds, Take(c) PROVE Tasks!Next
  <2>1. /\ stop = "run" /\ worker = "getting" /\ c \in heap
        /\ \A d \in heap \ {c} : Before(c, d)
        /\ heap' = heap \ {c} /\ cur' = c /\ worker' = "limiting"
        /\ UNCHANGED <<log, completed, failed, runs>>
    BY <1>3 DEF Take, resultVars
  <2>2. cur = None /\ c \notin SetOf(log)
    BY <1>0, <2>1 DEF Hands, OnePlace
  <2>3. Phase(c) = "waiting" /\ Phase(c)' = "active"
    BY <1>0, <2>1 DEF PhasesFit
  <2>4. \A d \in Cmds \ {c} : Phase(d)' = Phase(d)
    <3> TAKE d \in Cmds \ {c}
    <3>1. Accepted = heap \cup SetOf(log)
      BY <1>0, <2>2 DEF OnePlace
    <3> QED BY <1>1, <1>2, <2>1, <3>1 DEF Phase, SetOf
  <2>5. \A d \in Cmds : Phase(d) # "active"
    BY <1>0, <2>1, <2>2, QueueAssumption DEF PhasesFit
  <2>6. \A d \in Cmds : Phase(d) = "waiting" => ~Before(d, c)
    <3> SUFFICES ASSUME NEW d \in Cmds, Phase(d) = "waiting" PROVE ~Before(d, c)
      OBVIOUS
    <3>1. d \in heap
      BY <1>0, <2>2, QueueAssumption DEF PhasesFit
    <3>2. /\ priority[c] \in Int /\ priority[d] \in Int
          /\ queuedAt[c] \in Int /\ queuedAt[d] \in Int
      <4>1. priority \in [Cmds -> 0..Critical] /\ queuedAt \in [Cmds -> Nat]
        BY <1>0 DEF TypeOK
      <4> QED BY <4>1 DEF Critical
    <3> QED BY <2>1, <3>1, <3>2 DEF Before
  <2>7. \A d \in Cmds : /\ [e \in Cmds |-> Phase(e)][d] # "active"
                        /\ [e \in Cmds |-> Phase(e)][d] = "waiting" => ~Tasks!Outranks(d, c)
    BY <2>5, <2>6 DEF Tasks!Outranks, Before
  <2>8. Tasks!Serve(c)
    BY <1>1, <2>1, <2>3, <2>4, <2>7, OneMoves DEF Tasks!Serve, Tasks!Move, Tasks!verdicts, SetOf
  <2> QED BY <2>8 DEF Tasks!Next
<1>4. CASE Execute \/ RunOk \/ RunFails
  <2>1. UNCHANGED <<heap, cur, log, completed, failed, runs>>
        /\ worker # "stopped" /\ worker' # "stopped"
    BY <1>4 DEF Execute, RunOk, RunFails, resultVars
  <2>2. \A d \in Cmds : Phase(d)' = Phase(d)
    BY <1>1, <1>2, <2>1, PhasesKept
  <2> QED BY <1>1, <2>1, <2>2, NoneMoves DEF Tasks!queueVars, Tasks!verdicts, SetOf
<1>5. CASE Attempt
  <2>1. /\ stop = "run" /\ worker \in {"starting", "backoff"} /\ worker' = "running"
        /\ runs' = [runs EXCEPT ![cur] = @ + 1]
        /\ UNCHANGED <<heap, cur, log, completed, failed>>
    BY <1>5 DEF Attempt, resultVars
  <2>2. cur \in Cmds /\ runs[cur] < Limit(cur)
    <3>1. cur \in Cmds /\ cur # None
      BY <1>0, <2>1, QueueAssumption DEF Hands
    <3>2. Limit(cur) \in 1..MaxAttempts
      BY <1>0, <3>1, LimitTyped
    <3> QED BY <1>0, <2>1, <3>1, <3>2, QueueAssumption DEF Hands
  <2>3. \A d \in Cmds : Phase(d)' = Phase(d)
    BY <1>1, <1>2, <2>1, PhasesKept
  <2>4. Phase(cur) = "active"
    BY <1>0, <2>1, <2>2 DEF PhasesFit
  <2>5. Tasks!Run(cur)
    BY <1>1, <2>1, <2>2, <2>3, <2>4, NoneMoves
       DEF Tasks!Run, Tasks!Limit, Tasks!Critical, Limit, Critical, Tasks!verdicts, SetOf
  <2> QED BY <2>2, <2>5 DEF Tasks!Next
<1>6. CASE Record
  <2>1. /\ stop = "run" /\ worker \in {"succeeded", "raised"} /\ worker' = "getting"
        /\ cur' = None /\ log' = Append(log, cur)
        /\ UNCHANGED <<heap, runs>>
        /\ \/ worker = "succeeded" /\ completed' = Append(completed, cur) /\ UNCHANGED failed
           \/ worker = "raised" /\ failed' = Append(failed, cur) /\ UNCHANGED completed
    BY <1>6 DEF Record
  <2>2. cur \in Cmds /\ cur # None
    BY <1>0, <2>1, QueueAssumption DEF Hands
  <2>3. /\ completed \in Seq(Cmds) /\ failed \in Seq(Cmds) /\ log \in Seq(Cmds)
        /\ runs[cur] \in Nat /\ attempt \in Nat
    BY <1>0, <2>2 DEF TypeOK
  <2>4. SetOf(log)' = SetOf(log) \cup {cur}
    <3>1. SetOf(log)' = SetOf(log')
      BY DEF SetOf
    <3> QED BY <2>1, <2>2, <2>3, <3>1, SetOfAppend
  <2>5. Phase(cur) = "active"
    BY <1>0, <2>1, <2>2 DEF PhasesFit
  <2>6. ASSUME NEW d \in Cmds, d = cur PROVE Phase(d)' = "done"
    BY <1>0, <2>4, <2>6 DEF PhasesFit
  <2>7. \A d \in Cmds \ {cur} : Phase(d)' = Phase(d)
    <3> TAKE d \in Cmds \ {cur}
    <3>1. d \in SetOf(log)' <=> d \in SetOf(log)
      BY <2>4
    <3>2. d \in Accepted => d \in heap \cup SetOf(log)
      BY <1>0 DEF OnePlace
    <3> QED BY <1>1, <1>2, <2>1, <3>1, <3>2 DEF Phase
  <2>8. [d \in Cmds |-> Phase(d)]' = [[d \in Cmds |-> Phase(d)] EXCEPT ![cur] = "done"]
    BY <2>2, <2>6, <2>7
  <2>9. CASE worker = "succeeded"
    <3>1. SetOf(completed)' = SetOf(completed) \cup {cur} /\ SetOf(failed)' = SetOf(failed)
      <4>1. SetOf(completed)' = SetOf(completed') /\ SetOf(failed)' = SetOf(failed')
        BY DEF SetOf
      <4> QED BY <2>1, <2>2, <2>3, <2>9, <4>1, SetOfAppend
    <3>2. runs[cur] > 0
      BY <1>0, <2>2, <2>3, <2>9 DEF Tried, Hands
    <3>3. Tasks!Succeed(cur)
      BY <1>1, <2>1, <2>2, <2>5, <2>8, <3>1, <3>2 DEF Tasks!Succeed, Tasks!Move
    <3> QED BY <2>2, <3>3 DEF Tasks!Next
  <2>10. CASE worker = "raised"
    <3>1. SetOf(failed)' = SetOf(failed) \cup {cur} /\ SetOf(completed)' = SetOf(completed)
      <4>1. SetOf(completed)' = SetOf(completed') /\ SetOf(failed)' = SetOf(failed')
        BY DEF SetOf
      <4> QED BY <2>1, <2>2, <2>3, <2>10, <4>1, SetOfAppend
    <3>2. runs[cur] = Limit(cur)
      BY <1>0, <2>2, <2>10 DEF Tried, Hands
    <3>3. Tasks!Fail(cur)
      BY <1>1, <2>1, <2>2, <2>5, <2>8, <3>1, <3>2
         DEF Tasks!Fail, Tasks!Move, Tasks!Limit, Tasks!Critical, Limit, Critical
    <3> QED BY <2>2, <3>3 DEF Tasks!Next
  <2> QED BY <2>1, <2>9, <2>10
<1>7. CASE Cancelled
  <2>1. /\ stop = "cancelling" /\ worker # "stopped" /\ worker' = "stopped"
        /\ UNCHANGED <<heap, cur, log, completed, failed, runs>>
    BY <1>7 DEF Cancelled, resultVars
  <2>2. \A d \in Cmds \ {cur} : Phase(d)' = Phase(d)
    <3> TAKE d \in Cmds \ {cur}
    <3>1. d \in Accepted => d \in heap \cup SetOf(log)
      BY <1>0 DEF OnePlace
    <3> QED BY <1>1, <1>2, <2>1, <3>1 DEF Phase, SetOf
  <2>3. CASE cur = None
    <3>1. \A d \in Cmds : Phase(d)' = Phase(d)
      BY <2>2, <2>3, QueueAssumption
    <3> QED BY <1>1, <2>1, <3>1, NoneMoves DEF Tasks!queueVars, Tasks!verdicts, SetOf
  <2>4. CASE cur \in Cmds
    <3>1. Phase(cur) = "active"
      BY <1>0, <2>1, <2>4 DEF PhasesFit
    <3>2. ASSUME NEW d \in Cmds, d = cur PROVE Phase(d)' = "aborted"
      BY <1>0, <2>1, <3>2 DEF PhasesFit
    <3>3. [d \in Cmds |-> Phase(d)]' = [[d \in Cmds |-> Phase(d)] EXCEPT ![cur] = "aborted"]
      BY <2>2, <2>4, <3>2
    <3>4. Tasks!Abort(cur)
      BY <1>1, <2>1, <2>4, <3>1, <3>3 DEF Tasks!Abort, Tasks!Move, Tasks!verdicts, SetOf
    <3> QED BY <2>4, <3>4 DEF Tasks!Next
  <2> QED BY <1>0, <2>3, <2>4 DEF TypeOK
<1> QED BY <1>3, <1>4, <1>5, <1>6, <1>7 DEF WorkerNext, WorkerStep

LEMMA TaskStep ==
    IInv /\ IInv' /\ Tried /\ [Next]_vars => [Tasks!Next]_(Tasks!queueVars)
<1> SUFFICES ASSUME IInv, IInv', Tried, [Next]_vars PROVE [Tasks!Next]_(Tasks!queueVars)
  OBVIOUS
<1>1. CASE UNCHANGED vars
  <2>1. \A d \in Cmds : Phase(d)' = Phase(d)
    BY <1>1 DEF vars, cmdVars, workerVars, resultVars, Phase, Accepted, SetOf
  <2> QED BY <1>1, <2>1, NoneMoves
          DEF vars, cmdVars, workerVars, resultVars, Tasks!queueVars, Tasks!verdicts, SetOf
<1> QED BY <1>1, ClientTasks, OtherTasks, WorkerTasks DEF Next

\* The command queue implements TaskQueue: no interleaving of worker, clients, cleanup and
\* stop_worker serves a command out of turn, twice at once, too often or after the end, or
\* gives it a verdict its attempts do not bear out.
THEOREM Implements == Spec => ImplementsQueue
<1>1. Init => Tasks!Init
  <2> SUFFICES ASSUME Init PROVE Tasks!Init
    OBVIOUS
  <2>1. SetOf(completed) = {} /\ SetOf(failed) = {}
    BY DEF Init, SetOf
  <2>2. \A c \in Cmds : Phase(c) = "new"
    BY DEF Init, Phase, Accepted
  <2> QED BY <2>1, <2>2 DEF Init, Tasks!Init
<1> QED BY <1>1, TaskStep, TriedAlways, Inductive, PTL DEF Spec, ImplementsQueue, Tasks!Spec
=============================================================================
