----------------------------- MODULE CommandExec -----------------------------
(* Carrying out commands on one server (tools/command.py): direct calls,   *)
(* queued calls, which wait for the queue's one worker to make and repeat  *)
(* them, and background jobs, with plain and streaming execution, on the   *)
(* connections of a LeasePool.  The order in which the worker takes calls, *)
(* and how their clients are told, is CommandQueue's business.             *)
(*                                                                         *)
(* A process is what the server runs for a command; it goes on until it    *)
(* ends or is killed, whatever becomes of the call that started it.  A     *)
(* command with sudo goes through secure_sudo.py, which is not in the      *)
(* repository, and is taken to behave like a plain one.                    *)
(*                                                                         *)
(* asyncssh decodes the output of a process, so a chunk of it is a str and *)
(* read_stdout's chunk.decode raises AttributeError.                       *)
EXTENDS Naturals

CONSTANTS
    Calls,       \* the calls of exec_command, each made once
    Conns,       \* the connections of the pool
    NoConn,      \* None
    MaxAttempts  \* max_attempts of a queued command

ASSUME ExecAssumption ==
    /\ NoConn \notin Conns
    /\ MaxAttempts \in Nat \ {0}

VARIABLES
    avail, lease, \* the pool
    stopped, \* the queue: stop_worker was called
    kind,    \* how the call is made: "direct", "queued" or "job"
    cmd,     \* "plain", "stream" (stream_output) or "refused" (by validation)
    pc,      \* where the call is; "kept": over, but it never gave its connection back
    way,     \* how this attempt runs the command: "regular" or "stream"
    last,    \* what came out of this attempt: "none", "ok", "error", "cancelled"
    attempt, \* the number of this attempt
    starts,  \* how many processes the call has started
    live,    \* processes of this attempt that run on the server, by their way
    status   \* job.status, "removed" when the job is forgotten; "none" for the
             \* other calls

vars == <<avail, lease, stopped, kind, cmd, pc, way, last, attempt, starts, live, status>>
callVars == <<stopped, kind, cmd>>
poolVars == <<avail, lease>>

Pool == INSTANCE LeasePool WITH Users <- Calls

Over == {"over", "kept"}

\* The queue's worker has the call in its hands.
AtWork(u) == kind[u] = "queued" /\ pc[u] \notin {"new", "queued"} \cup Over

Init ==
    /\ Pool!Init
    /\ stopped = FALSE
    /\ kind = [u \in Calls |-> "none"]
    /\ cmd = [u \in Calls |-> "plain"]
    /\ pc = [u \in Calls |-> "new"]
    /\ way = [u \in Calls |-> "regular"]
    /\ last = [u \in Calls |-> "none"]
    /\ attempt = [u \in Calls |-> 0]
    /\ starts = [u \in Calls |-> 0]
    /\ live = [u \in Calls |-> {}]
    /\ status = [u \in Calls |-> "none"]

\* An attempt begins: the next thing is to get a connection.
BeginAttempt(u, c) ==
    /\ pc' = [pc EXCEPT ![u] = "getting"]
    /\ way' = [way EXCEPT ![u] = IF c = "stream" THEN "stream" ELSE "regular"]
    /\ last' = [last EXCEPT ![u] = "none"]
    /\ attempt' = [attempt EXCEPT ![u] = @ + 1]
    /\ live' = [live EXCEPT ![u] = {}]

\* exec_command without the queue.  A job goes to _execute_sync, without
\* _execute_direct's validation, and never streams.
Call(u, k, c) ==
    /\ pc[u] = "new"
    /\ k \in {"direct", "job"}
    /\ k = "job" => c = "plain"
    /\ kind' = [kind EXCEPT ![u] = k]
    /\ cmd' = [cmd EXCEPT ![u] = c]
    /\ BeginAttempt(u, c)
    /\ status' = [status EXCEPT ![u] = IF k = "job" THEN "running" ELSE "none"]
    /\ UNCHANGED <<poolVars, stopped, starts>>

\* exec_command puts the command into the queue, or enqueue_command raises since the
\* queue is shutting down.
Enqueue(u, c) ==
    /\ pc[u] = "new"
    /\ kind' = [kind EXCEPT ![u] = "queued"]
    /\ cmd' = [cmd EXCEPT ![u] = c]
    /\ \/ ~stopped /\ pc' = [pc EXCEPT ![u] = "queued"] /\ UNCHANGED last
       \/ stopped /\ pc' = [pc EXCEPT ![u] = "over"] /\ last' = [last EXCEPT ![u] = "error"]
    /\ UNCHANGED <<poolVars, stopped, way, attempt, starts, live, status>>

\* The worker, which awaits one command before it takes the next, comes to this one.
Dequeue(u) ==
    /\ pc[u] = "queued"
    /\ ~stopped
    /\ \A v \in Calls : ~AtWork(v)
    /\ BeginAttempt(u, cmd[u])
    /\ UNCHANGED <<poolVars, callVars, starts, status>>

\* Mutant: a cancelled job ends like a failed one.
AttemptOverFails(u, l) ==
    /\ pc' = [pc EXCEPT ![u] =
                IF kind[u] = "queued" /\ l = "error" /\ attempt[u] < MaxAttempts
                THEN "backoff" ELSE "over"]
    /\ last' = [last EXCEPT ![u] = l]
    /\ status' = [status EXCEPT ![u] =
                    IF kind[u] # "job" THEN @
                    ELSE IF l = "ok" THEN "completed" ELSE "failed"]

\* The attempt is over with l.  The queue repeats what failed; a job notes how it
\* ended, unless CancelledError, which is no Exception, ended it.
AttemptOver(u, l) ==
    /\ pc' = [pc EXCEPT ![u] =
                IF kind[u] = "queued" /\ l = "error" /\ attempt[u] < MaxAttempts
                THEN "backoff" ELSE "over"]
    /\ last' = [last EXCEPT ![u] = l]
    /\ status' = [status EXCEPT ![u] =
                    IF kind[u] # "job" \/ l = "cancelled" THEN @
                    ELSE IF l = "ok" THEN "completed" ELSE "failed"]

\* The queue's worker has slept and calls the command again.
Retry(u) ==
    /\ pc[u] = "backoff"
    /\ BeginAttempt(u, cmd[u])
    /\ UNCHANGED <<poolVars, callVars, starts, status>>

\* validate_command says no.
Refuse(u) ==
    /\ pc[u] = "getting"
    /\ cmd[u] = "refused"
    /\ AttemptOver(u, "error")
    /\ UNCHANGED <<poolVars, callVars, way, attempt, starts, live>>

Get(u) ==
    /\ pc[u] = "getting"
    /\ cmd[u] # "refused"
    /\ \E c \in Conns : Pool!Grant(u, c)
    /\ pc' = [pc EXCEPT ![u] = "opening"]
    /\ UNCHANGED <<callVars, way, last, attempt, starts, live, status>>

\* "No available connections".
GetNone(u) ==
    /\ pc[u] = "getting"
    /\ cmd[u] # "refused"
    /\ avail = {}
    /\ AttemptOver(u, "error")
    /\ UNCHANGED <<poolVars, callVars, way, attempt, starts, live>>

\* The server starts the process.
Open(u) ==
    /\ pc[u] = "opening"
    /\ pc' = [pc EXCEPT ![u] = IF way[u] = "stream" THEN "streaming" ELSE "running"]
    /\ starts' = [starts EXCEPT ![u] = @ + 1]
    /\ live' = [live EXCEPT ![u] = @ \cup {way[u]}]
    /\ UNCHANGED <<poolVars, callVars, way, last, attempt, status>>

\* A process ends by itself.
ProcEnds(u, w) ==
    /\ w \in live[u]
    /\ live' = [live EXCEPT ![u] = @ \ {w}]
    /\ UNCHANGED <<poolVars, callVars, pc, way, last, attempt, starts, status>>

\* _execute_sync has the outcome of the attempt and goes to its finally clause.
Outcome(u, l) ==
    /\ pc' = [pc EXCEPT ![u] = "releasing"]
    /\ last' = [last EXCEPT ![u] = l]

\* The process has ended, with exit code 0 or another.
RunEnds(u) ==
    /\ \/ pc[u] = "running" /\ "regular" \notin live[u]
       \/ pc[u] = "waiting" /\ "stream" \notin live[u]
    /\ \E l \in {"ok", "error"} : Outcome(u, l)
    /\ UNCHANGED <<poolVars, callVars, way, attempt, starts, live, status>>

\* Mutant: the timeout is over the start of the process only.
RunTimesOutEarly(u) ==
    /\ way[u] = "regular"
    /\ pc[u] = "opening"
    /\ Outcome(u, "error")
    /\ UNCHANGED <<poolVars, callVars, way, attempt, starts, live, status>>

\* wait_for gives up on connection.run; nobody kills the process.
RunTimesOut(u) ==
    /\ way[u] = "regular"
    /\ pc[u] \in {"opening", "running"}
    /\ Outcome(u, "error")
    /\ UNCHANGED <<poolVars, callVars, way, attempt, starts, live, status>>

\* The connection fails under a plain command.
RunFails(u) ==
    /\ way[u] = "regular"
    /\ pc[u] \in {"opening", "running"}
    /\ Outcome(u, "error")
    /\ UNCHANGED <<poolVars, callVars, way, attempt, starts, live, status>>

\* Mutant: it streams again.
FallbackStreams(u) ==
    /\ pc' = [pc EXCEPT ![u] = "opening"]
    /\ UNCHANGED way

\* _execute_with_streaming: after any exception, a timeout included, the command
\* is run again, without streaming.
Fallback(u) ==
    /\ pc' = [pc EXCEPT ![u] = "opening"]
    /\ way' = [way EXCEPT ![u] = "regular"]

\* The connection fails, or the readers meet a chunk of output.
StreamFails(u) ==
    /\ way[u] = "stream"
    /\ pc[u] \in {"opening", "streaming", "waiting"}
    /\ Fallback(u)
    /\ UNCHANGED <<poolVars, callVars, last, attempt, starts, live, status>>

\* The readers take longer than the timeout: the process is killed.
StreamTimesOut(u) ==
    /\ pc[u] = "streaming"
    /\ Fallback(u)
    /\ live' = [live EXCEPT ![u] = @ \ {"stream"}]
    /\ UNCHANGED <<poolVars, callVars, last, attempt, starts, status>>

\* Both outputs are at their end and there was none; process.wait() follows,
\* without a timeout.
StreamEnds(u) ==
    /\ pc[u] = "streaming"
    /\ pc' = [pc EXCEPT ![u] = "waiting"]
    /\ UNCHANGED <<poolVars, callVars, way, last, attempt, starts, live, status>>

\* Mutant: the connection is kept.
ReleaseKeeps(u) ==
    /\ pc[u] = "releasing"
    /\ AttemptOver(u, last[u])
    /\ UNCHANGED <<poolVars, callVars, way, attempt, starts, live>>

\* release_connection, once it has the pool's lock.
Release(u) ==
    /\ pc[u] = "releasing"
    /\ Pool!Return(u)
    /\ AttemptOver(u, last[u])
    /\ UNCHANGED <<callVars, way, attempt, starts, live>>

-----------------------------------------------------------------------------
(* Cancellation: of a job by cancel_job, of the queued command at work by  *)
(* stop_worker, of a direct call by the MCP session that made it (a queued *)
(* one's session only ceases to ask for the result).  The call's task      *)
(* meets CancelledError where it awaits (wait_for as of Python 3.12, which *)
(* never swallows it).                                                     *)

\* Mutant: cancel_job does not ask whether the task is done.
CancellingAny(u) ==
    /\ pc[u] # "new"
    /\ status' = [status EXCEPT ![u] = IF kind[u] = "job" THEN "cancelled" ELSE @]

\* A task that is not done is cancelled; a job says so at once.
Cancelling(u) ==
    /\ pc[u] \notin {"new"} \cup Over
    /\ status[u] # "removed"
    /\ status' = [status EXCEPT ![u] = IF kind[u] = "job" THEN "cancelled" ELSE @]

\* The call holds no connection, and ends.
CancelIdle(u) ==
    /\ Cancelling(u)
    /\ lease[u] = NoConn
    /\ pc' = [pc EXCEPT ![u] = "over"]
    /\ last' = [last EXCEPT ![u] = "cancelled"]
    /\ UNCHANGED <<poolVars, kind, cmd, way, attempt, starts, live>>

\* The call runs its command, which nobody kills; CancelledError is no
\* Exception, so that there is no fallback from streaming.
CancelRunning(u) ==
    /\ Cancelling(u)
    /\ pc[u] \in {"opening", "running", "streaming", "waiting"}
    /\ Outcome(u, "cancelled")
    /\ UNCHANGED <<poolVars, kind, cmd, way, attempt, starts, live>>

\* The call waits for the lock in release_connection: the connection is never
\* released and stays BUSY (ConnectionPool, ReleaseCancelled); the call is over and
\* has kept it.
CancelReleasing(u) ==
    /\ Cancelling(u)
    /\ pc[u] = "releasing"
    /\ pc' = [pc EXCEPT ![u] = "kept"]
    /\ last' = [last EXCEPT ![u] = "cancelled"]
    /\ UNCHANGED <<poolVars, kind, cmd, way, attempt, starts, live>>

Cancelled(u) == CancelIdle(u) \/ CancelRunning(u) \/ CancelReleasing(u)

Cancel(u) == kind[u] # "queued" /\ Cancelled(u) /\ UNCHANGED stopped

\* stop_worker: the worker is cancelled, and with it the call at work; what is queued
\* stays queued.
StopQueue ==
    /\ ~stopped
    /\ stopped' = TRUE
    /\ \/ \E u \in Calls : AtWork(u) /\ Cancelled(u)
       \/ /\ \A u \in Calls : ~AtWork(u)
          /\ UNCHANGED <<poolVars, kind, cmd, pc, way, last, attempt, starts, live, status>>

Final == {"completed", "failed", "cancelled"}

\* cleanup_completed_jobs, of one old job; the task of a cancelled one may still
\* be releasing its connection.
Forget(u) ==
    /\ status[u] \in Final
    /\ status' = [status EXCEPT ![u] = "removed"]
    /\ UNCHANGED <<poolVars, callVars, pc, way, last, attempt, starts, live>>

-----------------------------------------------------------------------------
\* What the pool does on its own: repair and lose connections.
PoolNext ==
    /\ \/ \E c \in Conns : Pool!Repair(c)
       \/ \E C \in SUBSET avail : Pool!Lose(C)
    /\ UNCHANGED <<callVars, pc, way, last, attempt, starts, live, status>>

\* The steps a call takes in its own time.
Step(u) ==
    \/ Dequeue(u) \/ Retry(u) \/ Refuse(u) \/ Get(u) \/ GetNone(u) \/ Open(u)
    \/ RunEnds(u) \/ RunTimesOut(u) \/ StreamTimesOut(u) \/ Release(u)

Next ==
    \/ \E u \in Calls :
          \/ \E c \in {"plain", "stream", "refused"} :
                Enqueue(u, c) \/ \E k \in {"direct", "job"} : Call(u, k, c)
          \/ Step(u)
          \/ RunFails(u) \/ StreamFails(u) \/ StreamEnds(u)
          \/ \E w \in live[u] : ProcEnds(u, w)
          \/ Cancel(u) \/ Forget(u)
    \/ StopQueue
    \/ PoolNext

Spec == Init /\ [][Next]_vars

\* A call goes on: the worker takes the next one when it is free, get_connection
\* answers (ConnectionPool, GetAnswered) and timeouts expire.  Nothing makes a process end, a connection fail, a command
\* print or close its output.
Fairness == \A u \in Calls : WF_vars(Step(u))

FairSpec == Spec /\ Fairness

-----------------------------------------------------------------------------
TypeOK ==
    /\ avail \subseteq Conns
    /\ lease \in [Calls -> Conns \cup {NoConn}]
    /\ stopped \in BOOLEAN
    /\ kind \in [Calls -> {"none", "direct", "queued", "job"}]
    /\ cmd \in [Calls -> {"plain", "stream", "refused"}]
    /\ pc \in [Calls -> {"new", "queued", "getting", "opening", "running", "streaming",
                         "waiting", "releasing", "backoff"} \cup Over]
    /\ way \in [Calls -> {"regular", "stream"}]
    /\ last \in [Calls -> {"none", "ok", "error", "cancelled"}]
    /\ attempt \in [Calls -> 0..MaxAttempts]
    /\ starts \in [Calls -> Nat]
    /\ live \in [Calls -> SUBSET {"regular", "stream"}]
    /\ status \in [Calls -> {"none", "running", "removed"} \cup Final]

\* No process is started without a connection, and every way out of _execute_sync, by
\* a result, an error, a timeout, a fallback that fails or a cancellation, gives it
\* back, with one exception: a call that is cancelled once more, or for the first time,
\* while it waits for the pool's lock in release_connection keeps it for good.
LeaseWhileRunning ==
    \A u \in Calls :
        /\ lease[u] # NoConn <=>
              pc[u] \in {"opening", "running", "streaming", "waiting", "releasing", "kept"}
        /\ pc[u] = "kept" => last[u] = "cancelled"

\* How often the server may be told to run a command: once, or twice when it is
\* to be streamed (the fallback), for each attempt; only the queue repeats, and
\* never a command that succeeded or was refused each time.
StartsBounded ==
    \A u \in Calls :
        /\ starts[u] <= attempt[u] * (IF cmd[u] = "stream" THEN 2 ELSE 1)
        /\ kind[u] # "queued" => attempt[u] <= 1
        /\ last[u] = "ok" => pc[u] \in {"releasing", "over"}
        /\ cmd[u] = "refused" => starts[u] = 0

\* A job that is over says what became of it: completed when its command exited
\* with 0, failed when it did not or could not run; a job that was cancelled has
\* neither.  No job is forgotten that still has its command to run.
JobTruth ==
    \A u \in Calls : kind[u] = "job" =>
        /\ status[u] = "running" => pc[u] \notin Over
        /\ status[u] = "completed" => pc[u] = "over" /\ last[u] = "ok"
        /\ status[u] = "failed" => pc[u] = "over" /\ last[u] = "error"
        /\ pc[u] \in Over /\ last[u] = "cancelled" => status[u] \in {"cancelled", "removed"}
        /\ status[u] \in {"cancelled", "removed"} => pc[u] \in {"releasing"} \cup Over

\* A job's status, once it is not running, never changes until it is forgotten: what cancel_job
\* answered stays true while the job's task goes on to release its connection.
JobStatusFinal ==
    [][\A u \in Calls :
          status[u] \in Final => status'[u] \in {status[u], "removed"}]_vars

\* A call that does not stream ends, even if its command never does, unless it waits
\* in the queue behind one that streams, or in a queue that was stopped.
TimeoutsHold ==
    \A u \in Calls :
        <>[](\/ pc[u] \in {"new"} \cup Over
             \/ cmd[u] = "stream"
             \/ /\ pc[u] = "queued"
                /\ stopped \/ \E v \in Calls : AtWork(v) /\ cmd[v] = "stream")

\* "Failed streams are cleaned up immediately" (SECURITY.md:194): when a command
\* is run again without streaming, the process that was streamed is gone.
FailedStreamsCleaned ==
    \A u \in Calls : "stream" \in live[u] => way[u] = "stream"

=============================================================================
