------------------------------- MODULE Server -------------------------------
(* The whole program (server.py) with the managers of its pools            *)
(* (connection_pool.py) and queues (queue.py): start-up, the dispatch of   *)
(* tool calls, the end of the MCP session, signals and shutdown.           *)
(*                                                                         *)
(* Servers are numbered in the order of the configuration, which refuses   *)
(* two of one name; the dicts of pools and queues keep that order.  What a *)
(* pool, a queue and a command do inside is that of ConnectionPool,        *)
(* CommandQueue and CommandExec.  A signal is taken to arrive while the    *)
(* event loop waits.                                                       *)
EXTENDS Naturals, FiniteSetsExt

CONSTANTS
    N,           \* how many servers are configured
    Calls,       \* the tool calls, each made once
    MaxAttempts  \* max_attempts of a queued command

ASSUME ServerAssumption == N \in Nat \ {0} /\ MaxAttempts \in Nat \ {0}

Servers == 1..N

\* The empty string as a server's name.
Unnamed == N + 1

Names == 1..N + 1

VARIABLES
    phase,   \* where MCPVPSServer.run is
    next,    \* the server initialize adds next
    at,      \* what shutdown waits for: "worker", "health" or "conns" of the first queue
             \* or pool; "none"
    struck,  \* where it was when a signal came, "no" or "twice"
    pools,   \* keys of ConnectionManager.pools
    queues,  \* keys of QueueManager.queues
    worker,  \* the worker of each queue
    kind,    \* how each call does its work: "direct", "queued" or "job"; "none" before
    name,    \* the server it is for
    handler, \* handle_call_tool: "new", "open", "answered" or "cancelled"
    work,    \* where the work is
    tries,   \* attempts begun
    result   \* how the work ended, or is ending: "ok", "error", "cancelled"; "none"

mainVars == <<phase, next, at, struck>>
managerVars == <<pools, queues>>
callVars == <<kind, name, handler, work, tries, result>>
vars == <<mainVars, managerVars, worker, callVars>>

Init ==
    /\ phase = "adding"
    /\ next = 1
    /\ at = "none"
    /\ struck = "no"
    /\ pools = {}
    /\ queues = {}
    /\ worker = [n \in Names |-> "none"]
    /\ kind = [u \in Calls |-> "none"]
    /\ name = [u \in Calls |-> Unnamed]
    /\ handler = [u \in Calls |-> "new"]
    /\ work = [u \in Calls |-> "none"]
    /\ tries = [u \in Calls |-> 0]
    /\ result = [u \in Calls |-> "none"]

Active(u) == work[u] \in {"getting", "running", "releasing"}

\* The commands the worker of n has in its hands.
InHand(n) == {u \in Calls : kind[u] = "queued" /\ name[u] = n /\ Active(u)}

-----------------------------------------------------------------------------
(* Start-up.                                                               *)

\* add_server publishes the pool once it is initialized; what it raises is logged.
AddServer ==
    /\ phase = "adding"
    /\ next \in Servers
    /\ next' = next + 1
    /\ pools' \in {pools, pools \cup {next}}
    /\ UNCHANGED <<phase, at, struck, queues, worker, callVars>>

\* create_queue for each of N, with its worker.
Created(Q) ==
    /\ queues' = queues \cup Q
    /\ worker' = [n \in Names |-> IF n \in Q THEN "alive" ELSE worker[n]]

\* Every server that was added gets its queue; then run begins to serve.
InitQueues ==
    /\ phase = "adding"
    /\ next = N + 1
    /\ Created(pools)
    /\ phase' = "serving"
    /\ UNCHANGED <<next, at, struck, pools, callVars>>

-----------------------------------------------------------------------------
(* Tool calls.                                                             *)

\* A call whose tool, parameters or server are refused, or that only reads or trims
\* what is there (get_queue_status, cleanup_queue_results), is answered at once.
AnswerAtOnce(u) ==
    /\ phase = "serving"
    /\ handler[u] = "new"
    /\ handler' = [handler EXCEPT ![u] = "answered"]
    /\ UNCHANGED <<mainVars, managerVars, worker, kind, name, work, tries, result>>

\* The servers a call may be for: one that was added, by its name or, without one, the
\* first; or "", which "if server_name:" takes for no name and lets pass.
Targets == pools \cup {Unnamed}

\* exec_command or another tool has passed validation.  A queue is created for a name
\* that has none (ensure_queue_for_server); the handler of a job is over at once.
Call(u, k, n) ==
    /\ phase = "serving"
    /\ handler[u] = "new"
    /\ n \in Targets
    /\ kind' = [kind EXCEPT ![u] = k]
    /\ name' = [name EXCEPT ![u] = n]
    /\ handler' = [handler EXCEPT ![u] = IF k = "job" THEN "answered" ELSE "open"]
    /\ work' = [work EXCEPT ![u] = IF k = "queued" THEN "queued" ELSE "getting"]
    /\ tries' = [tries EXCEPT ![u] = IF k = "queued" THEN 0 ELSE 1]
    /\ IF k = "queued" THEN Created({n} \ queues) ELSE UNCHANGED <<queues, worker>>
    /\ UNCHANGED <<mainVars, pools, result>>

\* The worker takes a command; which one is the business of CommandQueue.
Take(u) ==
    /\ work[u] = "queued"
    /\ worker[name[u]] = "alive"
    /\ InHand(name[u]) = {}
    /\ work' = [work EXCEPT ![u] = "getting"]
    /\ tries' = [tries EXCEPT ![u] = 1]
    /\ UNCHANGED <<mainVars, managerVars, worker, kind, name, handler, result>>

\* An attempt is over with r.  The worker repeats what failed; the handler of a direct
\* call answers, with the result or the error.
AttemptOver(u, r) ==
    /\ IF kind[u] = "queued" /\ r = "error" /\ tries[u] < MaxAttempts
       THEN /\ work' = [work EXCEPT ![u] = "getting"]
            /\ tries' = [tries EXCEPT ![u] = @ + 1]
            /\ result' = [result EXCEPT ![u] = "none"]
            /\ UNCHANGED handler
       ELSE /\ work' = [work EXCEPT ![u] = "over"]
            /\ result' = [result EXCEPT ![u] = r]
            /\ handler' = [handler EXCEPT ![u] =
                  IF kind[u] # "direct" THEN @
                  ELSE IF r = "cancelled" THEN "cancelled" ELSE "answered"]
            /\ UNCHANGED tries
    /\ UNCHANGED <<mainVars, managerVars, worker, kind, name>>

\* shutdown has the lock of pool n and closes its connections.
Locked(n) == phase = "pools" /\ at = "conns" /\ pools # {} /\ n = Min(pools)

Get(u) ==
    /\ work[u] = "getting"
    /\ name[u] \in pools
    /\ ~Locked(name[u])
    /\ work' = [work EXCEPT ![u] = "running"]
    /\ UNCHANGED <<mainVars, managerVars, worker, kind, name, handler, tries, result>>

\* "Server not found", or no connection is ready.
GetNone(u) ==
    /\ work[u] = "getting"
    /\ AttemptOver(u, "error")

\* The command ends, times out, or its connection is closed under it.
RunEnds(u) ==
    /\ work[u] = "running"
    /\ work' = [work EXCEPT ![u] = "releasing"]
    /\ \E r \in {"ok", "error"} : result' = [result EXCEPT ![u] = r]
    /\ UNCHANGED <<mainVars, managerVars, worker, kind, name, handler, tries>>

\* release_connection: the pool takes it back under its lock, or is no longer there.
Release(u) ==
    /\ work[u] = "releasing"
    /\ ~Locked(name[u])
    /\ AttemptOver(u, result[u])

\* The handler of a queued command finds its result.
Poll(u) ==
    /\ kind[u] = "queued"
    /\ handler[u] = "open"
    /\ work[u] = "over"
    /\ result[u] \in {"ok", "error"}
    /\ handler' = [handler EXCEPT ![u] = "answered"]
    /\ UNCHANGED <<mainVars, managerVars, worker, kind, name, work, tries, result>>

-----------------------------------------------------------------------------
(* Cancellation.                                                           *)

\* CancelledError reaches the work of each of W: what runs goes to its finally clause, what
\* waits for a connection, for the next attempt or for the lock to give one back ends.  (A
\* service or status call may swallow one, ServiceTool and Monitoring, and end at the next:
\* the MCP library cancels again what is left of the session.)
Cancelled(W) ==
    /\ work' = [u \in Calls |->
          IF u \notin W \/ ~Active(u) THEN work[u]
          ELSE IF work[u] = "running" THEN "releasing" ELSE "over"]
    /\ result' = [u \in Calls |-> IF u \in W /\ Active(u) THEN "cancelled" ELSE result[u]]

\* It reaches the handlers of H: that of a direct call is where its work is.
HandlersCancelled(H) ==
    handler' = [u \in Calls |->
        IF u \in H /\ handler[u] = "open" /\ (kind[u] = "direct" => work[u] # "running")
        THEN "cancelled" ELSE handler[u]]

\* A cancelled worker ends when the command in its hands has.
WorkerEnds(n) ==
    /\ worker[n] = "cancelling"
    /\ InHand(n) = {}
    /\ worker' = [worker EXCEPT ![n] = "dead"]
    /\ UNCHANGED <<mainVars, managerVars, callVars>>

-----------------------------------------------------------------------------
(* The end.                                                                *)

\* The client closes stdin.  The MCP library waits for the handlers or, in later versions,
\* cancels them.
SessionEnds ==
    /\ phase = "serving"
    /\ phase' = "draining"
    /\ \/ UNCHANGED <<handler, work, result>>
       \/ /\ HandlersCancelled(Calls)
          /\ Cancelled({u \in Calls : kind[u] = "direct"})
    /\ UNCHANGED <<next, at, struck, managerVars, worker, kind, name, tries>>

\* Mutant: shutdown does not wait for the session's handlers.
DrainedEarly ==
    /\ phase = "draining"
    /\ phase' = "queues"
    /\ UNCHANGED <<next, at, struck, managerVars, worker, callVars>>

\* server.run returns and shutdown begins.  It forgets jobs that have ended long ago;
\* the others stay as they are.
Drained ==
    /\ phase = "draining"
    /\ \A u \in Calls : handler[u] # "open"
    /\ phase' = "queues"
    /\ UNCHANGED <<next, at, struck, managerVars, worker, callVars>>

\* stop_worker of the first queue: its worker is cancelled, and with it its command.
StopQueue ==
    /\ phase = "queues"
    /\ at = "none"
    /\ queues # {}
    /\ LET n == Min(queues) IN
          /\ worker' = [worker EXCEPT ![n] = IF @ = "alive" THEN "cancelling" ELSE @]
          /\ Cancelled(InHand(n))
    /\ at' = "worker"
    /\ UNCHANGED <<phase, next, struck, managerVars, kind, name, handler, tries>>

\* Mutant: the worker is not waited for.
QueueGoneEarly ==
    /\ phase = "queues"
    /\ at = "worker"
    /\ queues' = queues \ {Min(queues)}
    /\ at' = "none"
    /\ UNCHANGED <<phase, next, struck, pools, worker, callVars>>

\* The worker is over; remove_queue deletes the queue.
QueueGone ==
    /\ phase = "queues"
    /\ at = "worker"
    /\ worker[Min(queues)] = "dead"
    /\ queues' = queues \ {Min(queues)}
    /\ at' = "none"
    /\ UNCHANGED <<phase, next, struck, pools, worker, callVars>>

\* Mutant: only the queues of known servers are removed.
QueuesGoneKnown ==
    /\ phase = "queues"
    /\ at = "none"
    /\ queues \cap pools = {}
    /\ phase' = "pools"
    /\ UNCHANGED <<next, at, struck, managerVars, worker, callVars>>

QueuesGone ==
    /\ phase = "queues"
    /\ at = "none"
    /\ queues = {}
    /\ phase' = "pools"
    /\ UNCHANGED <<next, at, struck, managerVars, worker, callVars>>

\* ConnectionPool.shutdown of the first pool: it waits for the health check to end ...
StopPool ==
    /\ phase = "pools"
    /\ at = "none"
    /\ pools # {}
    /\ at' = "health"
    /\ UNCHANGED <<phase, next, struck, managerVars, worker, callVars>>

\* ... then for the lock and for the connections to close ...
ClosePool ==
    /\ phase = "pools"
    /\ at = "health"
    /\ at' = "conns"
    /\ UNCHANGED <<phase, next, struck, managerVars, worker, callVars>>

\* ... and remove_server deletes the pool.
PoolGone ==
    /\ phase = "pools"
    /\ at = "conns"
    /\ pools' = pools \ {Min(pools)}
    /\ at' = "none"
    /\ UNCHANGED <<phase, next, struck, queues, worker, callVars>>

\* run returns; asyncio.run cancels what is left, which is jobs.
PoolsGone ==
    /\ phase = "pools"
    /\ at = "none"
    /\ pools = {}
    /\ phase' = "down"
    /\ Cancelled(Calls)
    /\ UNCHANGED <<next, at, struck, managerVars, worker, kind, name, handler, tries>>

\* Before the handlers are set a signal ends the program: run is cancelled in
\* initialize, outside of its try.
EarlySignal ==
    /\ phase = "adding"
    /\ phase' = "killed"
    /\ struck' = "adding"
    /\ UNCHANGED <<next, at, managerVars, worker, callVars>>

\* Mutant: ConnectionPool.shutdown lets the cancellation of its health check through.
SignalLetThrough ==
    /\ struck = "no"
    /\ \/ phase \in {"serving", "draining"} /\ phase' = "draining" /\ struck' = "session"
       \/ phase = "queues" /\ at = "worker" /\ UNCHANGED phase /\ struck' = at
       \/ phase = "pools" /\ at \in {"health", "conns"} /\ phase' = "killed" /\ struck' = at
    /\ HandlersCancelled(Calls)
    /\ Cancelled(Calls)
    /\ worker' = [n \in Names |-> IF worker[n] = "alive" THEN "cancelling" ELSE worker[n]]
    /\ UNCHANGED <<next, at, managerVars, kind, name, tries>>

\* sys.exit leaves the event loop, and asyncio.run cancels every task and waits for all.  The
\* shutdown that signal_handler created is cancelled before it begins; that of run's finally
\* clause is what closes the server.  Of its awaits those for a worker and for a
\* health check swallow the cancellation, those for the lock and for a connection do not.
Signal ==
    /\ struck = "no"
    /\ \/ phase \in {"serving", "draining"} /\ phase' = "draining" /\ struck' = "session"
       \/ phase \in {"queues", "pools"} /\ at \in {"worker", "health"}
          /\ UNCHANGED phase /\ struck' = at
       \/ phase = "pools" /\ at = "conns" /\ phase' = "killed" /\ struck' = at
    /\ HandlersCancelled(Calls)
    /\ Cancelled(Calls)
    /\ worker' = [n \in Names |-> IF worker[n] = "alive" THEN "cancelling" ELSE worker[n]]
    /\ UNCHANGED <<next, at, managerVars, kind, name, tries>>

\* Another one interrupts asyncio.run itself.
SecondSignal ==
    /\ struck \notin {"no", "twice"}
    /\ phase \in {"draining", "queues", "pools"}
    /\ phase' = "killed"
    /\ struck' = "twice"
    /\ UNCHANGED <<next, at, managerVars, worker, callVars>>

-----------------------------------------------------------------------------
\* The steps of the program itself.
MainStep ==
    \/ AddServer \/ InitQueues \/ Drained \/ StopQueue \/ QueueGone \/ QueuesGone
    \/ StopPool \/ ClosePool \/ PoolGone \/ PoolsGone

\* The steps a call takes in its own time.
Step(u) == Take(u) \/ Get(u) \/ GetNone(u) \/ RunEnds(u) \/ Release(u) \/ Poll(u)

Next ==
    /\ phase # "killed"
    /\ \/ MainStep
       \/ \E u \in Calls :
             \/ AnswerAtOnce(u) \/ Step(u)
             \/ \E k \in {"direct", "queued", "job"}, n \in Names : Call(u, k, n)
       \/ \E n \in Names : WorkerEnds(n)
       \/ SessionEnds \/ EarlySignal \/ Signal \/ SecondSignal

Spec == Init /\ [][Next]_vars

\* The event loop runs what can run, and commands end.
FairSpec ==
    /\ Spec
    /\ WF_vars(phase # "killed" /\ MainStep)
    /\ \A u \in Calls : WF_vars(phase # "killed" /\ Step(u))
    /\ \A n \in Names : WF_vars(phase # "killed" /\ WorkerEnds(n))

-----------------------------------------------------------------------------
TypeOK ==
    /\ phase \in {"adding", "serving", "draining", "queues", "pools", "down", "killed"}
    /\ next \in 1..N + 1
    /\ at \in {"none", "worker", "health", "conns"}
    /\ struck \in {"no", "adding", "session", "worker", "health", "conns", "twice"}
    /\ pools \subseteq Servers
    /\ queues \subseteq Names
    /\ worker \in [Names -> {"none", "alive", "cancelling", "dead"}]
    /\ kind \in [Calls -> {"none", "direct", "queued", "job"}]
    /\ name \in [Calls -> Names]
    /\ handler \in [Calls -> {"new", "open", "answered", "cancelled"}]
    /\ work \in [Calls -> {"none", "queued", "getting", "running", "releasing", "over"}]
    /\ tries \in [Calls -> 0..MaxAttempts]
    /\ result \in [Calls -> {"none", "ok", "error", "cancelled"}]

\* The queues are gone before the first pool is closed: no queue's command ever loses its
\* connection to a shutdown, fails, and is repeated on a pool that is going away.
QueuesFirst ==
    \A u \in Calls : kind[u] = "queued" /\ Active(u) =>
        /\ phase \notin {"pools", "down"}
        /\ name[u] \in pools \/ work[u] = "getting"

\* A worker always has a queue in the manager that leads to it, also the worker of the
\* queue that a call with an empty server name creates, so that shutdown finds it.
NoWorkerLost ==
    \A n \in Names : worker[n] \in {"alive", "cancelling"} => n \in queues

\* When the program has come to its end in order, no pool, queue, worker or handler is
\* left, and no work but that of background jobs was still under way.
CleanEnd ==
    phase = "down" =>
        /\ pools = {}
        /\ queues = {}
        /\ \A n \in Names : worker[n] \in {"none", "dead"}
        /\ \A u \in Calls : handler[u] # "open" /\ (Active(u) => kind[u] = "job")

\* "Set up signal handlers for graceful shutdown" (server.py:736): once the server
\* serves, it comes to an end in order, although a signal cancels all tasks, the one that
\* shuts down included, unless the signal meets the closing of a pool or is repeated.
GracefulStop ==
    phase \in {"draining", "queues", "pools"} ~> phase = "down" \/ struck \in {"conns", "twice"}

\* Every call is answered, or cancelled with the session: no handler is left polling a
\* queue that was stopped.
CallsAnswered ==
    \A u \in Calls :
        handler[u] = "open" ~> handler[u] \in {"answered", "cancelled"} \/ phase = "killed"

=============================================================================
