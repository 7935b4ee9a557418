-------------------------- MODULE CommandExec_proofs --------------------------
(* What holds of CommandExec for any number of calls, connections and      *)
(* attempts.  One inductive invariant, Good, says of each call what the    *)
(* place it is at implies; a step changes the state of one call only.      *)
EXTENDS CommandExec, TLAPS

\* How many processes the call may start.
Allowed(u) == IF cmd[u] = "stream" THEN 2 * attempt[u] ELSE attempt[u]

\* How many this attempt may still start.
Left(u) ==
    IF pc[u] \in {"getting", "opening"}
    THEN IF way[u] = "stream" THEN 2 ELSE 1
    ELSE IF pc[u] \in {"streaming", "waiting"} THEN 1 ELSE 0

Holding == {"opening", "running", "streaming", "waiting", "releasing", "kept"}

Good(u) ==
    /\ lease[u] # NoConn <=> pc[u] \in Holding
    /\ pc[u] \in {"new", "queued"} => attempt[u] = 0 /\ way[u] = "regular"
    /\ pc[u] = "queued" => kind[u] = "queued"
    /\ pc[u] = "kept" => last[u] = "cancelled"
    /\ pc[u] = "backoff" => kind[u] = "queued" /\ attempt[u] < MaxAttempts
    /\ kind[u] # "queued" => attempt[u] <= 1
    /\ way[u] = "stream" => cmd[u] = "stream"
    /\ pc[u] \in {"streaming", "waiting"} => way[u] = "stream"
    /\ starts[u] + Left(u) <= Allowed(u)
    /\ cmd[u] = "refused" => starts[u] = 0 /\ pc[u] \in {"new", "queued", "getting", "backoff", "over"}
    /\ last[u] = "ok" => pc[u] \in {"releasing", "over"}

\* JobTruth of one call, and that a cancelled job has its status by now.
JobGood(u) ==
    /\ status[u] = "running" => pc[u] \notin Over
    /\ status[u] = "completed" => pc[u] = "over" /\ last[u] = "ok"
    /\ status[u] = "failed" => pc[u] = "over" /\ last[u] = "error"
    /\ status[u] \in {"cancelled", "removed"} => pc[u] \in {"releasing"} \cup Over
    /\ status[u] \in {"cancelled", "removed"} /\ pc[u] = "releasing" => last[u] = "cancelled"
    /\ last[u] = "cancelled" => status[u] \in {"cancelled", "removed"}

\* What is true of a job, and that a call of another kind has no status.
Job(u) ==
    /\ pc[u] = "new" => kind[u] = "none"
    /\ pc[u] = "releasing" => last[u] # "none"
    /\ kind[u] # "job" => status[u] = "none"
    /\ kind[u] = "job" => status[u] # "none" /\ JobGood(u)

IInv == TypeOK /\ \A u \in Calls : Good(u) /\ Job(u)

\* A step that leaves the state of a call alone keeps what is true of it.
LEMMA Frame ==
    ASSUME NEW v \in Calls, Good(v), Job(v),
           lease'[v] = lease[v], kind'[v] = kind[v], cmd'[v] = cmd[v], pc'[v] = pc[v],
           way'[v] = way[v], last'[v] = last[v], attempt'[v] = attempt[v],
           starts'[v] = starts[v], status'[v] = status[v]
    PROVE  Good(v)' /\ Job(v)'
BY DEF Good, Left, Allowed, Holding, Job, JobGood

LEMMA InitGood == Init => IInv
<1> SUFFICES ASSUME Init PROVE IInv
  OBVIOUS
<1> USE ExecAssumption DEF Init, Pool!Init
<1>0. stopped \in BOOLEAN
  OBVIOUS
<1>1. TypeOK
  <2>1. pc \in [Calls -> {"new"}]
    OBVIOUS
  <2>2. status \in [Calls -> {"none"}]
    OBVIOUS
  <2> QED BY <1>0, <2>1, <2>2 DEF TypeOK
<1>2. ASSUME NEW u \in Calls PROVE Good(u) /\ Job(u)
  BY DEF Good, Left, Allowed, Holding, Job, JobGood, Over
<1> QED BY <1>1, <1>2 DEF IInv

\* The steps that begin a call, and those that start an attempt.
LEMMA Starting ==
    ASSUME IInv, NEW u \in Calls, NEW k \in {"direct", "job"},
           NEW c \in {"plain", "stream", "refused"},
           \/ Call(u, k, c)
           \/ Enqueue(u, c)
           \/ Dequeue(u)
           \/ Retry(u)
    PROVE  IInv'
<1> USE ExecAssumption DEF IInv, TypeOK, poolVars, callVars, Over
<1>1. CASE Call(u, k, c)
  <2>0. Good(u) /\ Job(u)
    OBVIOUS
  <2>1. TypeOK'
    BY <1>1, <2>0 DEF Call, BeginAttempt, Good, Job, Holding, Final
  <2>2. Good(u)'
    BY <1>1, <2>0 DEF Call, BeginAttempt, Good, Left, Allowed, Holding
  <2>3. Job(u)'
    BY <1>1, <2>0 DEF Call, BeginAttempt, Good, Holding, Job, JobGood, Final
  <2>4. ASSUME NEW v \in Calls, v # u PROVE Good(v)' /\ Job(v)'
    BY <1>1, <2>4, Frame DEF Call, BeginAttempt
  <2> QED BY <2>1, <2>2, <2>3, <2>4
<1>2. CASE Enqueue(u, c)
  <2>0. Good(u) /\ Job(u)
    OBVIOUS
  <2>1. TypeOK'
    BY <1>2, <2>0 DEF Enqueue, Good, Job, Holding, Final
  <2>2. Good(u)'
    BY <1>2, <2>0 DEF Enqueue, Good, Left, Allowed, Holding
  <2>3. Job(u)'
    BY <1>2, <2>0 DEF Enqueue, Good, Holding, Job, JobGood, Final
  <2>4. ASSUME NEW v \in Calls, v # u PROVE Good(v)' /\ Job(v)'
    BY <1>2, <2>4, Frame DEF Enqueue
  <2> QED BY <2>1, <2>2, <2>3, <2>4
<1>3. CASE Dequeue(u)
  <2>0. Good(u) /\ Job(u)
    OBVIOUS
  <2>1. TypeOK'
    BY <1>3, <2>0 DEF Dequeue, BeginAttempt, Good, Job, Holding, Final
  <2>2. Good(u)'
    BY <1>3, <2>0 DEF Dequeue, BeginAttempt, Good, Left, Allowed, Holding
  <2>3. Job(u)'
    BY <1>3, <2>0 DEF Dequeue, BeginAttempt, Good, Holding, Job, JobGood, Final
  <2>4. ASSUME NEW v \in Calls, v # u PROVE Good(v)' /\ Job(v)'
    BY <1>3, <2>4, Frame DEF Dequeue, BeginAttempt
  <2> QED BY <2>1, <2>2, <2>3, <2>4
<1>4. CASE Retry(u)
  <2>0. Good(u) /\ Job(u)
    OBVIOUS
  <2>1. TypeOK'
    BY <1>4, <2>0 DEF Retry, BeginAttempt, Good, Job, Holding, Final
  <2>2. Good(u)'
    BY <1>4, <2>0 DEF Retry, BeginAttempt, Good, Left, Allowed, Holding
  <2>3. Job(u)'
    BY <1>4, <2>0 DEF Retry, BeginAttempt, Good, Holding, Job, JobGood, Final
  <2>4. ASSUME NEW v \in Calls, v # u PROVE Good(v)' /\ Job(v)'
    BY <1>4, <2>4, Frame DEF Retry, BeginAttempt
  <2> QED BY <2>1, <2>2, <2>3, <2>4
<1> QED BY <1>1, <1>2, <1>3, <1>4

\* The steps that get a connection or fail to.
LEMMA Connecting ==
    ASSUME IInv, NEW u \in Calls,
           \/ Refuse(u)
           \/ Get(u)
           \/ GetNone(u)
           \/ Open(u)
    PROVE  IInv'
<1> USE ExecAssumption DEF IInv, TypeOK, poolVars, callVars, Over
<1>1. CASE Refuse(u)
  <2>0. Good(u) /\ Job(u)
    OBVIOUS
  <2>1. TypeOK'
    BY <1>1, <2>0 DEF Refuse, AttemptOver, Good, Job, Holding, Final
  <2>2. Good(u)'
    BY <1>1, <2>0 DEF Refuse, AttemptOver, Good, Left, Allowed, Holding
  <2>3. Job(u)'
    BY <1>1, <2>0 DEF Refuse, AttemptOver, Good, Holding, Job, JobGood, Final
  <2>4. ASSUME NEW v \in Calls, v # u PROVE Good(v)' /\ Job(v)'
    BY <1>1, <2>4, Frame DEF Refuse, AttemptOver
  <2> QED BY <2>1, <2>2, <2>3, <2>4
<1>2. CASE Get(u)
  <2>0. Good(u) /\ Job(u)
    OBVIOUS
  <2>1. TypeOK'
    BY <1>2, <2>0 DEF Get, Pool!Grant, Good, Job, Holding, Final
  <2>2. Good(u)'
    BY <1>2, <2>0 DEF Get, Pool!Grant, Good, Left, Allowed, Holding
  <2>3. Job(u)'
    BY <1>2, <2>0 DEF Get, Pool!Grant, Good, Holding, Job, JobGood, Final
  <2>4. ASSUME NEW v \in Calls, v # u PROVE Good(v)' /\ Job(v)'
    BY <1>2, <2>4, Frame DEF Get, Pool!Grant
  <2> QED BY <2>1, <2>2, <2>3, <2>4
<1>3. CASE GetNone(u)
  <2>0. Good(u) /\ Job(u)
    OBVIOUS
  <2>1. TypeOK'
    BY <1>3, <2>0 DEF GetNone, AttemptOver, Good, Job, Holding, Final
  <2>2. Good(u)'
    BY <1>3, <2>0 DEF GetNone, AttemptOver, Good, Left, Allowed, Holding
  <2>3. Job(u)'
    BY <1>3, <2>0 DEF GetNone, AttemptOver, Good, Holding, Job, JobGood, Final
  <2>4. ASSUME NEW v \in Calls, v # u PROVE Good(v)' /\ Job(v)'
    BY <1>3, <2>4, Frame DEF GetNone, AttemptOver
  <2> QED BY <2>1, <2>2, <2>3, <2>4
<1>4. CASE Open(u)
  <2>0. Good(u) /\ Job(u)
    OBVIOUS
  <2>1. TypeOK'
    BY <1>4, <2>0 DEF Open, Good, Job, Holding, Final
  <2>2. Good(u)'
    BY <1>4, <2>0 DEF Open, Good, Left, Allowed, Holding
  <2>3. Job(u)'
    BY <1>4, <2>0 DEF Open, Good, Holding, Job, JobGood, Final
  <2>4. ASSUME NEW v \in Calls, v # u PROVE Good(v)' /\ Job(v)'
    BY <1>4, <2>4, Frame DEF Open
  <2> QED BY <2>1, <2>2, <2>3, <2>4
<1> QED BY <1>1, <1>2, <1>3, <1>4

\* The steps of the plain execution.
LEMMA Running ==
    ASSUME IInv, NEW u \in Calls,
           \/ RunEnds(u)
           \/ RunTimesOut(u)
           \/ RunFails(u)
           \/ Release(u)
    PROVE  IInv'
<1> USE ExecAssumption DEF IInv, TypeOK, poolVars, callVars, Over
<1>1. CASE RunEnds(u)
  <2>0. Good(u) /\ Job(u)
    OBVIOUS
  <2>1. TypeOK'
    BY <1>1, <2>0 DEF RunEnds, Outcome, Good, Job, Holding, Final
  <2>2. Good(u)'
    BY <1>1, <2>0 DEF RunEnds, Outcome, Good, Left, Allowed, Holding
  <2>3. Job(u)'
    BY <1>1, <2>0 DEF RunEnds, Outcome, Good, Holding, Job, JobGood, Final
  <2>4. ASSUME NEW v \in Calls, v # u PROVE Good(v)' /\ Job(v)'
    BY <1>1, <2>4, Frame DEF RunEnds, Outcome
  <2> QED BY <2>1, <2>2, <2>3, <2>4
<1>2. CASE RunTimesOut(u)
  <2>0. Good(u) /\ Job(u)
    OBVIOUS
  <2>1. TypeOK'
    BY <1>2, <2>0 DEF RunTimesOut, Outcome, Good, Job, Holding, Final
  <2>2. Good(u)'
    BY <1>2, <2>0 DEF RunTimesOut, Outcome, Good, Left, Allowed, Holding
  <2>3. Job(u)'
    BY <1>2, <2>0 DEF RunTimesOut, Outcome, Good, Holding, Job, JobGood, Final
  <2>4. ASSUME NEW v \in Calls, v # u PROVE Good(v)' /\ Job(v)'
    BY <1>2, <2>4, Frame DEF RunTimesOut, Outcome
  <2> QED BY <2>1, <2>2, <2>3, <2>4
<1>3. CASE RunFails(u)
  <2>0. Good(u) /\ Job(u)
    OBVIOUS
  <2>1. TypeOK'
    BY <1>3, <2>0 DEF RunFails, Outcome, Good, Job, Holding, Final
  <2>2. Good(u)'
    BY <1>3, <2>0 DEF RunFails, Outcome, Good, Left, Allowed, Holding
  <2>3. Job(u)'
    BY <1>3, <2>0 DEF RunFails, Outcome, Good, Holding, Job, JobGood, Final
  <2>4. ASSUME NEW v \in Calls, v # u PROVE Good(v)' /\ Job(v)'
    BY <1>3, <2>4, Frame DEF RunFails, Outcome
  <2> QED BY <2>1, <2>2, <2>3, <2>4
<1>4. CASE Release(u)
  <2>0. Good(u) /\ Job(u)
    OBVIOUS
  <2>1. TypeOK'
    BY <1>4, <2>0 DEF Release, Pool!Return, AttemptOver, Good, Job, Holding, Final
  <2>2. Good(u)'
    BY <1>4, <2>0 DEF Release, Pool!Return, AttemptOver, Good, Left, Allowed, Holding
  <2>3. Job(u)'
    BY <1>4, <2>0 DEF Release, Pool!Return, AttemptOver, Good, Holding, Job, JobGood, Final
  <2>4. ASSUME NEW v \in Calls, v # u PROVE Good(v)' /\ Job(v)'
    BY <1>4, <2>4, Frame DEF Release, Pool!Return, AttemptOver
  <2> QED BY <2>1, <2>2, <2>3, <2>4
<1> QED BY <1>1, <1>2, <1>3, <1>4

\* The steps of the streaming execution.
LEMMA Streaming ==
    ASSUME IInv, NEW u \in Calls,
           \/ StreamFails(u)
           \/ StreamTimesOut(u)
           \/ StreamEnds(u)
    PROVE  IInv'
<1> USE ExecAssumption DEF IInv, TypeOK, poolVars, callVars, Over
<1>1. CASE StreamFails(u)
  <2>0. Good(u) /\ Job(u)
    OBVIOUS
  <2>1. TypeOK'
    BY <1>1, <2>0 DEF StreamFails, Fallback, Good, Job, Holding, Final
  <2>2. Good(u)'
    BY <1>1, <2>0 DEF StreamFails, Fallback, Good, Left, Allowed, Holding
  <2>3. Job(u)'
    BY <1>1, <2>0 DEF StreamFails, Fallback, Good, Holding, Job, JobGood, Final
  <2>4. ASSUME NEW v \in Calls, v # u PROVE Good(v)' /\ Job(v)'
    BY <1>1, <2>4, Frame DEF StreamFails, Fallback
  <2> QED BY <2>1, <2>2, <2>3, <2>4
<1>2. CASE StreamTimesOut(u)
  <2>0. Good(u) /\ Job(u)
    OBVIOUS
  <2>1. TypeOK'
    BY <1>2, <2>0 DEF StreamTimesOut, Fallback, Good, Job, Holding, Final
  <2>2. Good(u)'
    BY <1>2, <2>0 DEF StreamTimesOut, Fallback, Good, Left, Allowed, Holding
  <2>3. Job(u)'
    BY <1>2, <2>0 DEF StreamTimesOut, Fallback, Good, Holding, Job, JobGood, Final
  <2>4. ASSUME NEW v \in Calls, v # u PROVE Good(v)' /\ Job(v)'
    BY <1>2, <2>4, Frame DEF StreamTimesOut, Fallback
  <2> QED BY <2>1, <2>2, <2>3, <2>4
<1>3. CASE StreamEnds(u)
  <2>0. Good(u) /\ Job(u)
    OBVIOUS
  <2>1. TypeOK'
    BY <1>3, <2>0 DEF StreamEnds, Good, Job, Holding, Final
  <2>2. Good(u)'
    BY <1>3, <2>0 DEF StreamEnds, Good, Left, Allowed, Holding
  <2>3. Job(u)'
    BY <1>3, <2>0 DEF StreamEnds, Good, Holding, Job, JobGood, Final
  <2>4. ASSUME NEW v \in Calls, v # u PROVE Good(v)' /\ Job(v)'
    BY <1>3, <2>4, Frame DEF StreamEnds
  <2> QED BY <2>1, <2>2, <2>3, <2>4
<1> QED BY <1>1, <1>2, <1>3

\* Cancellations, and the end of a job's record.
LEMMA Ending ==
    ASSUME IInv, NEW u \in Calls, stopped' \in BOOLEAN,
           \/ CancelIdle(u)
           \/ CancelRunning(u)
           \/ CancelReleasing(u)
           \/ Forget(u)
    PROVE  IInv'
<1> USE ExecAssumption DEF IInv, TypeOK, poolVars, callVars, Over
<1>1. CASE CancelIdle(u)
  <2>0. Good(u) /\ Job(u)
    OBVIOUS
  <2>1. TypeOK'
    BY <1>1, <2>0 DEF CancelIdle, Cancelling, Good, Job, Holding, Final
  <2>2. Good(u)'
    BY <1>1, <2>0 DEF CancelIdle, Cancelling, Good, Left, Allowed, Holding
  <2>3. Job(u)'
    BY <1>1, <2>0 DEF CancelIdle, Cancelling, Good, Holding, Job, JobGood, Final
  <2>4. ASSUME NEW v \in Calls, v # u PROVE Good(v)' /\ Job(v)'
    BY <1>1, <2>4, Frame DEF CancelIdle, Cancelling
  <2> QED BY <2>1, <2>2, <2>3, <2>4
<1>2. CASE CancelRunning(u)
  <2>0. Good(u) /\ Job(u)
    OBVIOUS
  <2>1. TypeOK'
    BY <1>2, <2>0 DEF CancelRunning, Cancelling, Outcome, Good, Job, Holding, Final
  <2>2. Good(u)'
    BY <1>2, <2>0 DEF CancelRunning, Cancelling, Outcome, Good, Left, Allowed, Holding
  <2>3. Job(u)'
    BY <1>2, <2>0 DEF CancelRunning, Cancelling, Outcome, Good, Holding, Job, JobGood, Final
  <2>4. ASSUME NEW v \in Calls, v # u PROVE Good(v)' /\ Job(v)'
    BY <1>2, <2>4, Frame DEF CancelRunning, Cancelling, Outcome
  <2> QED BY <2>1, <2>2, <2>3, <2>4
<1>3. CASE CancelReleasing(u)
  <2>0. Good(u) /\ Job(u)
    OBVIOUS
  <2>1. TypeOK'
    BY <1>3, <2>0 DEF CancelReleasing, Cancelling, Good, Job, Holding, Final
  <2>2. Good(u)'
    BY <1>3, <2>0 DEF CancelReleasing, Cancelling, Good, Left, Allowed, Holding
  <2>3. Job(u)'
    BY <1>3, <2>0 DEF CancelReleasing, Cancelling, Good, Holding, Job, JobGood, Final
  <2>4. ASSUME NEW v \in Calls, v # u PROVE Good(v)' /\ Job(v)'
    BY <1>3, <2>4, Frame DEF CancelReleasing, Cancelling
  <2> QED BY <2>1, <2>2, <2>3, <2>4
<1>4. CASE Forget(u)
  <2>0. Good(u) /\ Job(u)
    OBVIOUS
  <2>1. TypeOK'
    BY <1>4, <2>0 DEF Forget, Good, Job, Holding, Final
  <2>2. Good(u)'
    BY <1>4, <2>0 DEF Forget, Good, Left, Allowed, Holding
  <2>3. Job(u)'
    BY <1>4, <2>0 DEF Forget, Good, Holding, Job, JobGood, Final
  <2>4. ASSUME NEW v \in Calls, v # u PROVE Good(v)' /\ Job(v)'
    BY <1>4, <2>4, Frame DEF Forget
  <2> QED BY <2>1, <2>2, <2>3, <2>4
<1> QED BY <1>1, <1>2, <1>3, <1>4

\* What the server and the pool do on their own, and a stop that meets no call at
\* work.
LEMMA Elsewhere ==
    ASSUME IInv,
           \/ StopQueue /\ \A u \in Calls : ~AtWork(u)
           \/ \E u \in Calls : \E w \in live[u] : ProcEnds(u, w)
           \/ PoolNext
           \/ UNCHANGED vars
    PROVE  IInv'
<1> USE DEF IInv, TypeOK, poolVars, callVars, Over
<1>1. TypeOK'
  <2>1. CASE StopQueue /\ \A u \in Calls : ~AtWork(u)
    <3>1. stopped' = TRUE
      BY <2>1 DEF StopQueue
    <3>2. stopped' \in BOOLEAN
      BY <3>1
    <3> QED BY <2>1, <3>2 DEF StopQueue
  <2> QED BY <2>1 DEF ProcEnds, PoolNext, Pool!Repair, Pool!Lose, vars
<1>2. ASSUME NEW v \in Calls PROVE Good(v)' /\ Job(v)'
  BY <1>2, Frame DEF StopQueue, ProcEnds, PoolNext, Pool!Repair, Pool!Lose, vars
<1> QED BY <1>1, <1>2

LEMMA NextGood == IInv /\ [Next]_vars => IInv'
<1> SUFFICES ASSUME IInv, [Next]_vars PROVE IInv'
  OBVIOUS
<1>1. ASSUME NEW u \in Calls, NEW c \in {"plain", "stream", "refused"},
             Enqueue(u, c) \/ \E k \in {"direct", "job"} : Call(u, k, c)
      PROVE  IInv'
  BY <1>1, Starting
<1>2. ASSUME NEW u \in Calls, Step(u) PROVE IInv'
  BY <1>2, Starting, Connecting, Running, Streaming DEF Step
<1>3. ASSUME NEW u \in Calls, RunFails(u) \/ StreamFails(u) \/ StreamEnds(u) PROVE IInv'
  BY <1>3, Running, Streaming
<1>4. ASSUME NEW u \in Calls, Cancel(u) \/ Forget(u) PROVE IInv'
  <2>1. stopped' \in BOOLEAN
    BY <1>4 DEF Cancel, Forget, callVars, IInv, TypeOK
  <2> QED BY <1>4, <2>1, Ending DEF Cancel, Cancelled
<1>5. CASE StopQueue
  <2>1. stopped' \in BOOLEAN
    BY <1>5 DEF StopQueue
  <2> QED BY <1>5, <2>1, Ending, Elsewhere DEF StopQueue, Cancelled
<1> QED BY <1>1, <1>2, <1>3, <1>4, <1>5, Elsewhere DEF Next

THEOREM Invariance == Spec => []IInv
BY InitGood, NextGood, PTL DEF Spec

\* Every variable keeps its type; attempts stay within max_attempts.
THEOREM TypeCorrect == Spec => []TypeOK
<1>1. IInv => TypeOK
  BY DEF IInv
<1> QED BY <1>1, Invariance, PTL

\* No process is started without a connection, and whatever ends a call, it has given
\* its connection back, unless it was cancelled in release_connection itself.
THEOREM LeasesHeld == Spec => []LeaseWhileRunning
<1>1. IInv => LeaseWhileRunning
  BY DEF IInv, Good, Holding, LeaseWhileRunning
<1> QED BY <1>1, Invariance, PTL

\* The server is told to run a command once or, for a stream, twice in each
\* attempt, and only the queue makes more than one.
THEOREM StartsLimited == Spec => []StartsBounded
<1>1. ASSUME IInv PROVE StartsBounded
  <2>1. ASSUME NEW u \in Calls
        PROVE  starts[u] <= attempt[u] * (IF cmd[u] = "stream" THEN 2 ELSE 1)
    <3>1. Good(u) /\ starts[u] \in Nat /\ attempt[u] \in Nat
      BY <1>1, ExecAssumption DEF IInv, TypeOK
    <3>2. starts[u] <= Allowed(u)
      BY <3>1 DEF Good, Left, Allowed
    <3> QED BY <3>1, <3>2 DEF Allowed
  <2> QED BY <1>1, <2>1 DEF IInv, Good, StartsBounded
<1> QED BY <1>1, Invariance, PTL

\* A job that is over says what became of it.
THEOREM JobsTrue == Spec => []JobTruth
<1>1. IInv => JobTruth
  BY DEF IInv, Job, JobGood, JobTruth, TypeOK, Over
<1> QED BY <1>1, Invariance, PTL

\* What a job ended as, or was cancelled as, never changes.
THEOREM JobsFinal == Spec => JobStatusFinal
<1> DEFINE Keep == \A u \in Calls : status[u] \in Final => status'[u] \in {status[u], "removed"}
<1>1. ASSUME IInv, [Next]_vars PROVE Keep
  <2> SUFFICES ASSUME NEW v \in Calls, status[v] \in Final
               PROVE  status'[v] \in {status[v], "removed"}
    OBVIOUS
  <2>0. Good(v) /\ Job(v) /\ TypeOK
    BY <1>1 DEF IInv
  <2>1. pc[v] \in {"releasing"} \cup Over /\ kind[v] = "job"
    BY <2>0 DEF Job, JobGood, Final, Over
  <2>2. pc[v] = "releasing" => status[v] = "cancelled" /\ last[v] = "cancelled"
    BY <2>0, <2>1 DEF Job, JobGood, Final
  <2> USE <2>0, <2>1, <2>2 DEF TypeOK, Over
  <2>3. ASSUME NEW u \in Calls, NEW c \in {"plain", "stream", "refused"},
               Enqueue(u, c) \/ \E k \in {"direct", "job"} : Call(u, k, c)
        PROVE  status'[v] = status[v]
    BY <2>3 DEF Enqueue, Call
  <2>4. ASSUME NEW u \in Calls, Step(u) \/ RunFails(u) \/ StreamFails(u) \/ StreamEnds(u)
        PROVE  status'[v] = status[v]
    BY <2>4 DEF Step, Dequeue, Retry, Refuse, Get, GetNone, Open, RunEnds, RunTimesOut, RunFails,
                StreamFails, StreamTimesOut, StreamEnds, Release, AttemptOver
  <2>5. ASSUME NEW u \in Calls, Cancelled(u) \/ Forget(u)
        PROVE  status'[v] \in {status[v], "removed"}
    BY <2>5 DEF Cancelled, CancelIdle, CancelRunning, CancelReleasing, Cancelling, Forget
  <2>6. ASSUME \/ \E u \in Calls : \E w \in live[u] : ProcEnds(u, w)
               \/ PoolNext
               \/ UNCHANGED vars
        PROVE  status'[v] = status[v]
    BY <2>6 DEF ProcEnds, PoolNext, vars
  <2>7. CASE StopQueue
    BY <2>5, <2>7 DEF StopQueue
  <2> QED BY <1>1, <2>3, <2>4, <2>5, <2>6, <2>7 DEF Next, Cancel
<1>2. IInv /\ [Next]_vars => [Keep]_vars
  BY <1>1
<1> QED BY <1>2, Invariance, PTL DEF Spec, JobStatusFinal

-----------------------------------------------------------------------------
(* The calls and the pool: what a call does to a connection, it does as a  *)
(* user of the LeasePool, which ConnectionPool implements                  *)
(* (ConnectionPool_proofs, Implements).                                    *)

\* What a call does with the pool, if anything.
LEMMA CallUsesPool ==
    ASSUME NEW u \in Calls,
           \/ \E c \in {"plain", "stream", "refused"} :
                 Enqueue(u, c) \/ \E k \in {"direct", "job"} : Call(u, k, c)
           \/ Step(u) \/ RunFails(u) \/ StreamFails(u) \/ StreamEnds(u)
           \/ \E w \in live[u] : ProcEnds(u, w)
           \/ Cancelled(u) \/ Forget(u)
    PROVE  \/ \E c \in Conns : Pool!Grant(u, c)
           \/ Pool!Return(u)
           \/ UNCHANGED poolVars
<1>1. CASE Get(u)
  BY <1>1 DEF Get
<1>2. CASE Release(u)
  BY <1>2 DEF Release
<1>3. CASE \/ Dequeue(u) \/ Retry(u) \/ Refuse(u) \/ GetNone(u) \/ Open(u) \/ RunEnds(u)
           \/ RunTimesOut(u) \/ StreamTimesOut(u)
  BY <1>3 DEF Dequeue, Retry, Refuse, GetNone, Open, RunEnds, RunTimesOut, StreamTimesOut
<1>4. CASE Cancelled(u)
  BY <1>4 DEF Cancelled, CancelIdle, CancelRunning, CancelReleasing
<1>5. CASE \/ \E c \in {"plain", "stream", "refused"} :
                 Enqueue(u, c) \/ \E k \in {"direct", "job"} : Call(u, k, c)
           \/ RunFails(u) \/ StreamFails(u) \/ StreamEnds(u) \/ Forget(u)
           \/ \E w \in live[u] : ProcEnds(u, w)
  BY <1>5 DEF Enqueue, Call, RunFails, StreamFails, StreamEnds, Forget, ProcEnds
<1> QED BY <1>1, <1>2, <1>3, <1>4, <1>5 DEF Step

LEMMA StepUsesPool == TypeOK /\ [Next]_vars => [Pool!Next]_(Pool!leaseVars)
<1> SUFFICES ASSUME TypeOK, [Next]_vars PROVE [Pool!Next]_(Pool!leaseVars)
  OBVIOUS
<1> USE DEF Pool!Next, Pool!leaseVars, poolVars
<1>1. ASSUME NEW u \in Calls,
             \/ \E c \in Conns : Pool!Grant(u, c)
             \/ Pool!Return(u)
             \/ UNCHANGED poolVars
      PROVE  [Pool!Next]_(Pool!leaseVars)
  BY <1>1
<1>2. CASE PoolNext
  <2>1. SUBSET avail \subseteq SUBSET Conns
    BY DEF TypeOK
  <2> QED BY <1>2, <2>1 DEF PoolNext
<1>3. CASE UNCHANGED vars
  BY <1>3 DEF vars
<1>4. CASE StopQueue
  BY <1>1, <1>4, CallUsesPool DEF StopQueue
<1> QED BY <1>1, <1>2, <1>3, <1>4, CallUsesPool DEF Next, Cancel

\* However commands end, are cancelled, time out or fall back, they take connections,
\* and give back what they do give back, only as users of the pool may (get_connection and
\* release_connection in _execute_sync).
THEOREM UsesPool == Spec => Pool!Spec
<1>1. Init => Pool!Init
  BY DEF Init
<1> QED BY <1>1, StepUsesPool, TypeCorrect, PTL DEF Spec, Pool!Spec

\* A lent connection is not available, and has one user.
Apart ==
    \A u \in Calls : lease[u] # NoConn =>
        /\ lease[u] \notin avail
        /\ \A v \in Calls : v # u => lease[v] # lease[u]

LEMMA ApartStep == TypeOK /\ Apart /\ [Pool!Next]_(Pool!leaseVars) => Apart'
<1> SUFFICES ASSUME TypeOK, Apart, [Pool!Next]_(Pool!leaseVars) PROVE Apart'
  OBVIOUS
<1>0. avail \subseteq Conns /\ lease \in [Calls -> Conns \cup {NoConn}] /\ NoConn \notin Conns
  BY ExecAssumption DEF TypeOK
<1> USE <1>0 DEF Apart
<1>1. ASSUME NEW u \in Calls, NEW c \in Conns, Pool!Grant(u, c) PROVE Apart'
  BY <1>1 DEF Pool!Grant
<1>2. ASSUME NEW u \in Calls, Pool!Return(u) PROVE Apart'
  BY <1>2 DEF Pool!Return
<1>3. ASSUME NEW c \in Conns, Pool!Repair(c) PROVE Apart'
  BY <1>3 DEF Pool!Repair
<1>4. ASSUME NEW C \in SUBSET Conns, Pool!Lose(C) PROVE Apart'
  BY <1>4 DEF Pool!Lose
<1>5. CASE UNCHANGED Pool!leaseVars
  BY <1>5 DEF Pool!leaseVars
<1> QED BY <1>1, <1>2, <1>3, <1>4, <1>5 DEF Pool!Next

\* No two commands are ever run on one connection, nor one on a connection that the
\* pool may hand out: a call uses a connection only while it has the lease.  A
\* connection that a call has kept is lost to all others for good.
THEOREM NeverShared ==
    Spec => [](\A u \in Calls : pc[u] \in Holding =>
                  /\ lease[u] \in Conns \ avail
                  /\ \A v \in Calls : v # u => lease[v] # lease[u])
<1> DEFINE Alone == \A u \in Calls : pc[u] \in Holding =>
                        /\ lease[u] \in Conns \ avail
                        /\ \A v \in Calls : v # u => lease[v] # lease[u]
<1>1. Init => Apart
  BY DEF Init, Pool!Init, Apart
<1>2. IInv /\ Apart => Alone
  BY DEF IInv, TypeOK, Good, Apart
<1>3. Spec => []Apart
  BY <1>1, ApartStep, StepUsesPool, TypeCorrect, PTL DEF Spec
<1> QED BY <1>2, <1>3, Invariance, PTL
=============================================================================
