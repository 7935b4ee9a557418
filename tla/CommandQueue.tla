---------------------------- MODULE CommandQueue ----------------------------
(* The command queue of one server (queue.py, class CommandQueue) with the *)
(* clients that enqueue a command and poll for its result                  *)
(* (tools/command.py, exec_command).                                       *)
(*                                                                         *)
(* One worker coroutine takes a command from the heap, waits for the       *)
(* semaphore and the rate limiter, runs the command in a task of its own   *)
(* and waits for that task.  So at most one command runs, the semaphore is *)
(* always free (it is left out), and how long the rate limiter holds the   *)
(* worker is left open (module RateLimiter).                               *)
(*                                                                         *)
(* Commands are told apart by their identifier; queued_at stands for the   *)
(* time.time() that breaks ties of priority, and two commands never have   *)
(* the same one (if they did, comparing the commands themselves would      *)
(* raise TypeError).                                                       *)
EXTENDS Naturals, Sequences, FiniteSets

CONSTANTS
    Cmds,        \* the commands clients may enqueue, each once
    Priorities,  \* the priorities they use, of 1 (LOW) .. 4 (CRITICAL)
    MaxAttempts, \* max_attempts of a command that is not critical
    MaxResults,  \* max_results of cleanup_old_results
    None

Critical == 4

ASSUME QueueAssumption ==
    /\ None \notin Cmds
    /\ IsFiniteSet(Cmds)
    /\ Priorities \subseteq 1..Critical
    /\ MaxAttempts \in Nat \ {0}
    /\ MaxResults \in Nat \ {0}

VARIABLES
    client,     \* where the client of each command is
    priority,   \* the command's priority
    queuedAt,   \* the time it was put into the heap; 0 before
    heap,       \* self.queue
    worker,     \* where the worker is
    cur,        \* the command it has taken from the heap
    attempt,    \* queued_cmd.attempts of cur
    executing,  \* keys of self.executing
    completed, failed,  \* keys of the two dicts, oldest first
    metrics,    \* total_queued, total_executed, total_failed
    stop,       \* "run" until stop_worker; _shutdown is true from then on
    \* history
    runs,       \* how often command_func was called for each command
    log,        \* commands in the order in which they got a result
    bypass      \* commands that began to execute while this one, which ranks
                \* before them, was in the heap

cmdVars    == <<client, priority, queuedAt>>
workerVars == <<worker, cur, attempt, executing>>
resultVars == <<completed, failed, log>>
vars == <<cmdVars, workerVars, resultVars, heap, metrics, stop, runs, bypass>>

SetOf(s) == {s[i] : i \in DOMAIN s}

Answered == SetOf(completed) \cup SetOf(failed)

\* exec_command gives critical commands one attempt.
Limit(c) == IF priority[c] = Critical THEN 1 ELSE MaxAttempts

\* Mutant: the heap compares priorities the wrong way round.
BeforeInverted(c, d) ==
    \/ priority[c] < priority[d]
    \/ priority[c] = priority[d] /\ queuedAt[c] < queuedAt[d]

\* The order of the tuples (-priority, time, command).
Before(c, d) ==
    \/ priority[c] > priority[d]
    \/ priority[c] = priority[d] /\ queuedAt[c] < queuedAt[d]

\* cleanup_old_results: once there are more than MaxResults, half of that stay.
Trim(s) ==
    IF Len(s) > MaxResults
    THEN SubSeq(s, Len(s) - (MaxResults \div 2) + 1, Len(s))
    ELSE s

Init ==
    /\ client = [c \in Cmds |-> "new"]
    /\ priority = [c \in Cmds |-> 0]
    /\ queuedAt = [c \in Cmds |-> 0]
    /\ heap = {}
    /\ worker = "getting"
    /\ cur = None
    /\ attempt = 0
    /\ executing = {}
    /\ completed = <<>>
    /\ failed = <<>>
    /\ metrics = [queued |-> 0, executed |-> 0, failed |-> 0]
    /\ stop = "run"
    /\ runs = [c \in Cmds |-> 0]
    /\ log = <<>>
    /\ bypass = [c \in Cmds |-> {}]

-----------------------------------------------------------------------------
(* Clients.                                                                *)

\* Mutant: a queue that is shutting down still takes commands.
EnqueueAlways(c, p) ==
    /\ client[c] = "new"
    /\ client' = [client EXCEPT ![c] = "polling"]
    /\ priority' = [priority EXCEPT ![c] = p]
    /\ queuedAt' = [queuedAt EXCEPT ![c] = metrics.queued + 1]
    /\ heap' = heap \cup {c}
    /\ metrics' = [metrics EXCEPT !.queued = @ + 1]
    /\ UNCHANGED <<workerVars, resultVars, stop, runs, bypass>>

Enqueue(c, p) ==
    /\ stop = "run"
    /\ client[c] = "new"
    /\ client' = [client EXCEPT ![c] = "polling"]
    /\ priority' = [priority EXCEPT ![c] = p]
    /\ queuedAt' = [queuedAt EXCEPT ![c] = metrics.queued + 1]
    /\ heap' = heap \cup {c}
    /\ metrics' = [metrics EXCEPT !.queued = @ + 1]
    /\ UNCHANGED <<workerVars, resultVars, stop, runs, bypass>>

\* enqueue_command raises: the queue is shutting down.
Refuse(c) ==
    /\ stop # "run"
    /\ client[c] = "new"
    /\ client' = [client EXCEPT ![c] = "refused"]
    /\ UNCHANGED <<priority, queuedAt, workerVars, resultVars, heap, metrics,
                   stop, runs, bypass>>

\* get_command_status has a result; in every other case the client sleeps 0.1 s
\* and asks again.
Poll(c) ==
    /\ client[c] = "polling"
    /\ c \notin executing
    /\ c \in Answered
    /\ client' = [client EXCEPT ![c] = "answered"]
    /\ UNCHANGED <<priority, queuedAt, workerVars, resultVars, heap, metrics,
                   stop, runs, bypass>>

\* cleanup_old_results, at the request of an operator.
Cleanup ==
    /\ Len(completed) > MaxResults \/ Len(failed) > MaxResults
    /\ completed' = Trim(completed)
    /\ failed' = Trim(failed)
    /\ UNCHANGED <<cmdVars, workerVars, log, heap, metrics, stop, runs, bypass>>

-----------------------------------------------------------------------------
(* The worker.  "getting": waits for the heap; "limiting": waits in        *)
(* _execute_command for the rate limiter; "starting": has created the task *)
(* of the command; "running": the command runs; "backoff": it failed and   *)
(* sleeps before the next attempt; "succeeded", "raised": its task is over *)
(* and the worker has yet to be resumed.                                   *)

\* Mutant: the command stays in the heap.
TakePeeks(c) ==
    /\ stop = "run"
    /\ worker = "getting"
    /\ c \in heap
    /\ \A d \in heap \ {c} : Before(c, d)
    /\ cur' = c
    /\ worker' = "limiting"
    /\ UNCHANGED <<cmdVars, attempt, executing, resultVars, heap, metrics, stop,
                   runs, bypass>>

Take(c) ==
    /\ stop = "run"
    /\ worker = "getting"
    /\ c \in heap
    /\ \A d \in heap \ {c} : Before(c, d)
    /\ heap' = heap \ {c}
    /\ cur' = c
    /\ worker' = "limiting"
    /\ UNCHANGED <<cmdVars, attempt, executing, resultVars, metrics, stop, runs,
                   bypass>>

\* The rate limiter lets the worker pass: it creates the command's task.
Execute ==
    /\ stop = "run"
    /\ worker = "limiting"
    /\ executing' = executing \cup {cur}
    /\ worker' = "starting"
    /\ bypass' = [c \in Cmds |-> IF c \in heap /\ Before(c, cur)
                                 THEN bypass[c] \cup {cur} ELSE bypass[c]]
    /\ UNCHANGED <<cmdVars, cur, attempt, resultVars, heap, metrics, stop, runs>>

\* _run_command_with_retry calls the command, for the first time or again.
Attempt ==
    /\ stop = "run"
    /\ worker \in {"starting", "backoff"}
    /\ worker' = "running"
    /\ attempt' = attempt + 1
    /\ runs' = [runs EXCEPT ![cur] = @ + 1]
    /\ UNCHANGED <<cmdVars, cur, executing, resultVars, heap, metrics, stop,
                   bypass>>

RunOk ==
    /\ stop = "run"
    /\ worker = "running"
    /\ worker' = "succeeded"
    /\ UNCHANGED <<cmdVars, cur, attempt, executing, resultVars, heap, metrics,
                   stop, runs, bypass>>

\* Mutant: one attempt too many.
RunFailsLate ==
    /\ stop = "run"
    /\ worker = "running"
    /\ worker' = IF attempt <= Limit(cur) THEN "backoff" ELSE "raised"
    /\ UNCHANGED <<cmdVars, cur, attempt, executing, resultVars, heap, metrics,
                   stop, runs, bypass>>

\* Any exception counts, a command refused by security validation included.
RunFails ==
    /\ stop = "run"
    /\ worker = "running"
    /\ worker' = IF attempt < Limit(cur) THEN "backoff" ELSE "raised"
    /\ UNCHANGED <<cmdVars, cur, attempt, executing, resultVars, heap, metrics,
                   stop, runs, bypass>>

\* Mutant: a failed command stays among the executing ones.
RecordKeepsFailed ==
    /\ stop = "run"
    /\ \/ /\ worker = "succeeded"
          /\ completed' = Append(completed, cur)
          /\ metrics' = [metrics EXCEPT !.executed = @ + 1]
          /\ executing' = executing \ {cur}
          /\ UNCHANGED failed
       \/ /\ worker = "raised"
          /\ failed' = Append(failed, cur)
          /\ metrics' = [metrics EXCEPT !.failed = @ + 1]
          /\ UNCHANGED <<completed, executing>>
    /\ log' = Append(log, cur)
    /\ worker' = "getting"
    /\ cur' = None
    /\ attempt' = 0
    /\ UNCHANGED <<cmdVars, heap, stop, runs, bypass>>

\* The worker is resumed, records the result and goes back to the heap.
Record ==
    /\ stop = "run"
    /\ \/ /\ worker = "succeeded"
          /\ completed' = Append(completed, cur)
          /\ metrics' = [metrics EXCEPT !.executed = @ + 1]
          /\ UNCHANGED failed
       \/ /\ worker = "raised"
          /\ failed' = Append(failed, cur)
          /\ metrics' = [metrics EXCEPT !.failed = @ + 1]
          /\ UNCHANGED completed
    /\ log' = Append(log, cur)
    /\ executing' = executing \ {cur}
    /\ worker' = "getting"
    /\ cur' = None
    /\ attempt' = 0
    /\ UNCHANGED <<cmdVars, heap, stop, runs, bypass>>

-----------------------------------------------------------------------------
(* stop_worker.                                                            *)

StopBegin ==
    /\ stop = "run"
    /\ stop' = "cancelling"
    /\ UNCHANGED <<cmdVars, workerVars, resultVars, heap, metrics, runs, bypass>>

\* CancelledError reaches the worker at its await, and through it the task it
\* waits for.  It is not an Exception: only the finally clause runs.
Cancelled ==
    /\ stop = "cancelling"
    /\ worker # "stopped"
    /\ worker' = "stopped"
    /\ executing' = executing \ {cur}
    /\ UNCHANGED <<cmdVars, cur, attempt, resultVars, heap, metrics, stop, runs,
                   bypass>>

\* stop_worker has awaited the worker; what it would gather then, the tasks left
\* in executing, are done.
StopEnd ==
    /\ stop = "cancelling"
    /\ worker = "stopped"
    /\ stop' = "done"
    /\ UNCHANGED <<cmdVars, workerVars, resultVars, heap, metrics, runs, bypass>>

-----------------------------------------------------------------------------
\* What the worker does in its own time.
WorkerStep == (\E c \in Cmds : Take(c)) \/ Execute \/ Attempt \/ Record

WorkerNext == WorkerStep \/ RunOk \/ RunFails \/ Cancelled

ClientNext(c) == Refuse(c) \/ Poll(c) \/ \E p \in Priorities : Enqueue(c, p)

Next ==
    \/ \E c \in Cmds : ClientNext(c)
    \/ WorkerNext
    \/ Cleanup
    \/ StopBegin
    \/ StopEnd

Spec == Init /\ [][Next]_vars

\* The worker goes on as long as it does not wait for a command, and clients that
\* poll keep polling.  A command need not end (a streamed one may wait for its
\* process without a timeout, command.py:432), let alone succeed; nobody has to
\* enqueue, clean up or stop.
Fairness == WF_vars(WorkerStep) /\ \A c \in Cmds : WF_vars(Poll(c))

FairSpec == Spec /\ Fairness

-----------------------------------------------------------------------------
Accepted == {c \in Cmds : client[c] \in {"polling", "answered"}}

TypeOK ==
    /\ client \in [Cmds -> {"new", "polling", "refused", "answered"}]
    /\ priority \in [Cmds -> 0..Critical]
    /\ queuedAt \in [Cmds -> Nat]
    /\ heap \subseteq Cmds
    /\ worker \in {"getting", "limiting", "starting", "running", "backoff",
                   "succeeded", "raised", "stopped"}
    /\ cur \in Cmds \cup {None}
    /\ attempt \in 0..MaxAttempts
    /\ executing \subseteq Cmds
    /\ completed \in Seq(Cmds)
    /\ failed \in Seq(Cmds)
    /\ log \in Seq(Cmds)
    /\ metrics \in [queued : Nat, executed : Nat, failed : Nat]
    /\ stop \in {"run", "cancelling", "done"}
    /\ runs \in [Cmds -> 0..MaxAttempts]
    /\ bypass \in [Cmds -> SUBSET Cmds]

\* Every accepted command is in one place: the heap, the worker's hands, or the
\* log of results, and it gets one result only (a retried or cancelled command
\* is neither recorded twice nor put back).
OnePlace ==
    /\ heap \cap SetOf(log) = {}
    /\ cur # None => cur \notin heap \cup SetOf(log)
    /\ Len(log) = Cardinality(SetOf(log))
    /\ Accepted = heap \cup SetOf(log) \cup ({cur} \ {None})
    /\ executing \subseteq {cur}

\* A waiting command is overtaken at most once: by one the worker had already
\* taken when it came, held by the rate limiter.  In particular commands of
\* equal priority start in the order in which they came.
Overtaken ==
    \A c \in Cmds :
        /\ Cardinality(bypass[c]) <= 1
        /\ \A d \in bypass[c] :
              queuedAt[d] < queuedAt[c] /\ priority[d] < priority[c]

\* A command runs at most as often as it may, a critical one once; one that has
\* a result does not run again, and never more than one command is running.
RunsBounded ==
    /\ \A c \in Cmds : runs[c] <= Limit(c)
    /\ \A c \in Cmds : c \in heap => runs[c] = 0
    /\ Cardinality(executing) <= 1

\* Unless some command never ends, which holds up the worker and everybody behind
\* it, a client whose command was accepted is answered, or the queue is stopped or
\* the result cleaned away under it: no command is lost on its way, and no client
\* asks at the wrong place.
ClientsAnswered ==
    \/ <>[](worker = "running")
    \/ \A c \in Cmds :
          client[c] = "polling" ~>
              client[c] = "answered" \/ stop # "run" \/ c \in SetOf(log) \ Answered

-----------------------------------------------------------------------------
(* Refinement: seen from the tools this is a TaskQueue.                    *)

Phase(c) ==
    CASE c \in Accepted \cap heap -> "waiting"
      [] c \in Accepted \cap SetOf(log) -> "done"
      [] c \in Accepted \ (heap \cup SetOf(log)) ->
            IF worker = "stopped" THEN "aborted" ELSE "active"
      [] OTHER -> client[c]

Tasks == INSTANCE TaskQueue WITH
    phase <- [c \in Cmds |-> Phase(c)],
    arrival <- queuedAt,
    count <- metrics.queued,
    good <- SetOf(completed),
    bad <- SetOf(failed),
    told <- {c \in Cmds : client[c] = "answered"}

\* Whatever the worker, the task of the command, polling clients, an operator who
\* cleans up and stop_worker do in between: commands are served in their order, one
\* at a time, fail only when all attempts have, get one verdict, the one their client is
\* told, and nothing begins or gets a verdict once stop_worker has begun.
ImplementsQueue == Tasks!Spec

=============================================================================
