---------------------------- MODULE Server_proofs ----------------------------
(* That queues end before pools, that no worker is lost and that the       *)
(* program ends cleanly, for any number of servers and calls.              *)
EXTENDS Server, TLAPS

Busy == {"alive", "cancelling"}

\* What is under way has what it needs: a direct call its handler, a queued one a worker
\* and, once it has a connection, the pool.
Good(u) ==
    /\ work[u] = "queued" => kind[u] = "queued"
    /\ Active(u) =>
          /\ kind[u] # "none"
          /\ kind[u] = "direct" => handler[u] = "open"
          /\ kind[u] = "queued" =>
                /\ worker[name[u]] \in Busy
                /\ name[u] \in pools \/ work[u] = "getting"

\* What the stages of the end have left behind them.
Ended ==
    /\ phase \in {"queues", "pools", "down"} => \A u \in Calls : handler[u] # "open"
    /\ phase \in {"pools", "down"} => queues = {}
    /\ phase = "down" => pools = {}

IInv == TypeOK /\ NoWorkerLost /\ Ended /\ \A u \in Calls : Good(u)

-----------------------------------------------------------------------------
LEMMA InitGood == Init => IInv
BY ServerAssumption
   DEF Init, IInv, TypeOK, NoWorkerLost, Ended, Good, Active, Names, Unnamed, Servers

\* A step of one call leaves the others alone, and they stay as they are.
LEMMA Frame ==
    ASSUME IInv, NEW u \in Calls,
           work'[u] = work[u], kind'[u] = kind[u], name'[u] = name[u],
           Active(u) => handler'[u] = handler[u],
           worker'[name[u]] = worker[name[u]] \/ ~(Active(u) /\ kind[u] = "queued")
              \/ worker'[name[u]] \in Busy,
           pools \subseteq pools' \/ queues = {}
    PROVE  Good(u)'
<1>1. Good(u) /\ NoWorkerLost /\ TypeOK
  BY DEF IInv
<1>2. queues = {} => ~(Active(u) /\ kind[u] = "queued")
  BY <1>1 DEF Good, NoWorkerLost, TypeOK, Busy
<1> QED BY <1>1, <1>2 DEF Good, Active

-----------------------------------------------------------------------------
(* The program's own steps.                                                *)

LEMMA Starting == ASSUME IInv, AddServer \/ InitQueues PROVE IInv'
<1>1. TypeOK /\ NoWorkerLost /\ Ended
  BY DEF IInv
<1>2. CASE AddServer
  <2>1. pools' \subseteq Servers /\ pools \subseteq pools' /\ next' \in 1..N + 1
    BY <1>1, <1>2, ServerAssumption DEF AddServer, TypeOK, Servers
  <2>2. UNCHANGED <<phase, at, struck, queues, worker, callVars>> /\ phase = "adding"
    BY <1>2 DEF AddServer
  <2> USE DEF callVars
  <2>3. \A u \in Calls : Good(u)'
    BY <2>1, <2>2, Frame
  <2>4. TypeOK' /\ NoWorkerLost' /\ Ended'
    BY <1>1, <2>1, <2>2 DEF TypeOK, NoWorkerLost, Ended
  <2> QED BY <2>3, <2>4 DEF IInv
<1>3. CASE InitQueues
  <2>1. /\ phase' = "serving" /\ UNCHANGED <<next, at, struck, pools, callVars>>
        /\ queues' = queues \cup pools
        /\ worker' = [n \in Names |-> IF n \in pools THEN "alive" ELSE worker[n]]
    BY <1>3 DEF InitQueues, Created
  <2>2. pools \subseteq Names
    BY <1>1, ServerAssumption DEF TypeOK, Names, Servers
  <2>3. TypeOK' /\ NoWorkerLost' /\ Ended'
    BY <1>1, <2>1, <2>2 DEF TypeOK, NoWorkerLost, Ended, callVars
  <2>4. ASSUME NEW u \in Calls PROVE Good(u)'
    BY <1>1, <2>1, Frame DEF TypeOK, callVars, Busy
  <2> QED BY <2>3, <2>4 DEF IInv
<1> QED BY <1>2, <1>3

\* A phase ends and the next begins, or a single word of the state changes.
LEMMA Passing ==
    ASSUME IInv, Drained \/ QueuesGone \/ StopPool \/ ClosePool \/ EarlySignal \/ SecondSignal
    PROVE  IInv'
<1>1. TypeOK /\ NoWorkerLost /\ Ended
  BY DEF IInv
<1>2. UNCHANGED <<next, managerVars, worker, callVars>>
  BY DEF Drained, QueuesGone, StopPool, ClosePool, EarlySignal, SecondSignal
<1>3. \A u \in Calls : Good(u)'
  BY <1>2, Frame DEF managerVars, callVars
<1>4. TypeOK'
  BY <1>1, <1>2 DEF Drained, QueuesGone, StopPool, ClosePool, EarlySignal, SecondSignal,
                    TypeOK, managerVars, callVars
<1>5. NoWorkerLost'
  BY <1>1, <1>2 DEF NoWorkerLost, managerVars
<1>6. Ended'
  BY <1>1, <1>2 DEF Drained, QueuesGone, StopPool, ClosePool, EarlySignal, SecondSignal,
                    Ended, TypeOK, managerVars, callVars
<1> QED BY <1>3, <1>4, <1>5, <1>6 DEF IInv

\* A queue or a pool is removed.
LEMMA Removing == ASSUME IInv, QueueGone \/ PoolGone PROVE IInv'
<1>1. TypeOK /\ NoWorkerLost /\ Ended
  BY DEF IInv
<1>2. UNCHANGED <<phase, next, struck, worker, callVars>> /\ at' = "none"
  BY DEF QueueGone, PoolGone
<1>3. \/ UNCHANGED pools /\ phase = "queues" /\ worker[Min(queues)] = "dead"
         /\ queues' = queues \ {Min(queues)}
      \/ UNCHANGED queues /\ phase = "pools" /\ pools' \subseteq pools
  BY DEF QueueGone, PoolGone
<1>4. \A u \in Calls : Good(u)'
  BY <1>1, <1>2, <1>3, Frame DEF callVars, Ended
<1>5. TypeOK' /\ NoWorkerLost' /\ Ended'
  BY <1>1, <1>2, <1>3 DEF TypeOK, NoWorkerLost, Ended, callVars
<1> QED BY <1>4, <1>5 DEF IInv

\* A worker ends, which has nothing in its hands.
LEMMA WorkersEnd == ASSUME IInv, NEW n \in Names, WorkerEnds(n) PROVE IInv'
<1>1. TypeOK /\ NoWorkerLost /\ Ended
  BY DEF IInv
<1>2. /\ worker' = [worker EXCEPT ![n] = "dead"] /\ InHand(n) = {}
      /\ UNCHANGED <<mainVars, managerVars, callVars>>
  BY DEF WorkerEnds
<1> USE DEF mainVars, managerVars, callVars
<1>3. ASSUME NEW u \in Calls PROVE Good(u)'
  <2>1. ~(Active(u) /\ kind[u] = "queued") \/ name[u] # n
    BY <1>2 DEF InHand
  <2> QED BY <1>1, <1>2, <2>1, Frame DEF TypeOK
<1>4. TypeOK' /\ NoWorkerLost' /\ Ended'
  BY <1>1, <1>2 DEF TypeOK, NoWorkerLost, Ended
<1> QED BY <1>3, <1>4 DEF IInv

-----------------------------------------------------------------------------
(* Calls.                                                                  *)

LEMMA Calling ==
    ASSUME IInv, NEW u \in Calls, NEW k \in {"direct", "queued", "job"}, NEW n \in Names,
           AnswerAtOnce(u) \/ Call(u, k, n)
    PROVE  IInv'
<1>1. TypeOK /\ NoWorkerLost /\ Ended /\ phase = "serving" /\ handler[u] = "new"
  BY DEF IInv, AnswerAtOnce, Call
<1>2. CASE AnswerAtOnce(u)
  <2>1. /\ handler' = [handler EXCEPT ![u] = "answered"]
        /\ UNCHANGED <<mainVars, managerVars, worker, kind, name, work, tries, result>>
    BY <1>2 DEF AnswerAtOnce
  <2> USE DEF mainVars, managerVars
  <2>2. Good(u)'
    BY <1>1, <2>1 DEF IInv, Good, Active
  <2>3. \A v \in Calls : v # u => Good(v)'
    BY <1>1, <2>1, Frame DEF TypeOK
  <2>4. TypeOK' /\ NoWorkerLost' /\ Ended'
    BY <1>1, <2>1 DEF TypeOK, NoWorkerLost, Ended
  <2> QED BY <2>2, <2>3, <2>4 DEF IInv
<1>3. CASE Call(u, k, n)
  <2> DEFINE Q == IF k = "queued" THEN {n} \ queues ELSE {}
  <2>1. /\ kind' = [kind EXCEPT ![u] = k]
        /\ name' = [name EXCEPT ![u] = n]
        /\ handler' = [handler EXCEPT ![u] = IF k = "job" THEN "answered" ELSE "open"]
        /\ work' = [work EXCEPT ![u] = IF k = "queued" THEN "queued" ELSE "getting"]
        /\ tries' = [tries EXCEPT ![u] = IF k = "queued" THEN 0 ELSE 1]
        /\ UNCHANGED <<mainVars, pools, result>>
    BY <1>3 DEF Call
  <2>2. /\ queues' = queues \cup Q /\ Q \subseteq Names
        /\ worker' = [m \in Names |-> IF m \in Q THEN "alive" ELSE worker[m]]
    BY <1>1, <1>3 DEF Call, Created, TypeOK
  <2> HIDE DEF Q
  <2> USE DEF mainVars
  <2>3. Good(u)'
    BY <1>1, <2>1 DEF Good, Active, TypeOK
  <2>4. ASSUME NEW v \in Calls, v # u PROVE Good(v)'
    <3>1. /\ work'[v] = work[v] /\ kind'[v] = kind[v] /\ name'[v] = name[v]
          /\ handler'[v] = handler[v] /\ name[v] \in Names
      BY <1>1, <2>1, <2>4 DEF TypeOK
    <3> QED BY <2>1, <2>2, <3>1, Frame DEF Busy
  <2>5. TypeOK'
    BY <1>1, <2>1, <2>2, ServerAssumption DEF TypeOK
  <2>6. NoWorkerLost' /\ Ended'
    BY <1>1, <2>1, <2>2 DEF NoWorkerLost, Ended, TypeOK
  <2> QED BY <2>3, <2>4, <2>5, <2>6 DEF IInv
<1> QED BY <1>2, <1>3

\* The steps of a call's work: it is still with its worker and its pool, or over.
LEMMA Stepping == ASSUME IInv, NEW u \in Calls, Step(u) PROVE IInv'
<1>1. TypeOK /\ NoWorkerLost /\ Ended /\ Good(u)
  BY DEF IInv
<1>2. UNCHANGED <<mainVars, managerVars, worker, kind, name>>
  BY DEF Step, Take, Get, GetNone, RunEnds, Release, Poll, AttemptOver
<1> USE DEF mainVars, managerVars
<1>3. NoWorkerLost'
  BY <1>1, <1>2 DEF NoWorkerLost
<1>4. SUFFICES /\ TypeOK' /\ Good(u)' /\ handler'[u] \in {handler[u], "answered", "cancelled"}
               /\ \A v \in Calls : v # u => /\ work'[v] = work[v]
                                            /\ handler'[v] = handler[v]
  <2>1. \A v \in Calls : v # u => Good(v)'
    BY <1>2, <1>4, Frame
  <2>2. Ended'
    BY <1>1, <1>2, <1>4 DEF Ended
  <2> QED BY <1>3, <1>4, <2>1, <2>2 DEF IInv
<1>5. CASE Take(u)
  <2>1. /\ work[u] = "queued" /\ worker[name[u]] = "alive"
        /\ work' = [work EXCEPT ![u] = "getting"]
        /\ tries' = [tries EXCEPT ![u] = 1]
        /\ UNCHANGED <<handler, result>>
    BY <1>5 DEF Take
  <2>2. TypeOK'
    BY <1>1, <1>2, <2>1, ServerAssumption DEF TypeOK
  <2>3. kind[u] = "queued"
    BY <2>1 DEF IInv, Good
  <2> QED BY <1>1, <1>2, <2>1, <2>2, <2>3 DEF Good, Active, Busy, TypeOK
<1>6. CASE Get(u)
  BY <1>1, <1>2, <1>6 DEF Get, TypeOK, Good, Active
<1>7. ASSUME NEW r \in {"none", "ok", "error", "cancelled"}, AttemptOver(u, r), Active(u)
      PROVE  /\ TypeOK' /\ Good(u)' /\ handler'[u] \in {handler[u], "answered", "cancelled"}
             /\ \A v \in Calls : v # u => /\ work'[v] = work[v]
                                          /\ handler'[v] = handler[v]
  <2>1. CASE kind[u] = "queued" /\ r = "error" /\ tries[u] < MaxAttempts
    <3>1. /\ work' = [work EXCEPT ![u] = "getting"]
          /\ tries' = [tries EXCEPT ![u] = @ + 1]
          /\ result' = [result EXCEPT ![u] = "none"]
          /\ UNCHANGED handler
      BY <1>7, <2>1 DEF AttemptOver
    <3>2. TypeOK'
      BY <1>1, <1>2, <2>1, <3>1, ServerAssumption DEF TypeOK
    <3> QED BY <1>1, <1>2, <1>7, <2>1, <3>1, <3>2 DEF Good, Active, TypeOK
  <2>2. CASE ~(kind[u] = "queued" /\ r = "error" /\ tries[u] < MaxAttempts)
    <3>1. /\ work' = [work EXCEPT ![u] = "over"]
          /\ result' = [result EXCEPT ![u] = r]
          /\ handler' = [handler EXCEPT ![u] =
                IF kind[u] # "direct" THEN @
                ELSE IF r = "cancelled" THEN "cancelled" ELSE "answered"]
          /\ UNCHANGED tries
      BY <1>7, <2>2 DEF AttemptOver
    <3>2. TypeOK'
      BY <1>1, <1>2, <3>1 DEF TypeOK
    <3> QED BY <1>1, <3>1, <3>2 DEF Good, Active, TypeOK
  <2> QED BY <2>1, <2>2
<1>8. CASE GetNone(u)
  BY <1>7, <1>8 DEF GetNone, Active
<1>9. CASE RunEnds(u)
  <2>1. \E r \in {"ok", "error"} : result' = [result EXCEPT ![u] = r]
    BY <1>9 DEF RunEnds
  <2>2. /\ work[u] = "running" /\ work' = [work EXCEPT ![u] = "releasing"]
        /\ UNCHANGED <<handler, tries>>
    BY <1>9 DEF RunEnds
  <2> QED BY <1>1, <1>2, <2>1, <2>2 DEF TypeOK, Good, Active
<1>10. CASE Release(u)
  <2>1. result[u] \in {"none", "ok", "error", "cancelled"}
    BY <1>1 DEF TypeOK
  <2> QED BY <1>7, <1>10, <2>1 DEF Release, Active
<1>11. CASE Poll(u)
  BY <1>1, <1>2, <1>11 DEF Poll, TypeOK, Good, Active
<1> QED BY <1>5, <1>6, <1>8, <1>9, <1>10, <1>11 DEF Step

-----------------------------------------------------------------------------
(* Cancellation.                                                           *)

\* CancelledError reaches the work of W and, of the direct calls among them, the
\* handlers; other handlers may be cancelled as they like, and workers begin to end.
LEMMA Cancelling ==
    ASSUME IInv, NEW W \in SUBSET Calls, Cancelled(W),
           UNCHANGED <<next, managerVars, kind, name, tries>>,
           at' \in {"none", "worker", "health", "conns"},
           struck' \in {"no", "adding", "session", "worker", "health", "conns", "twice"},
           handler' \in [Calls -> {"new", "open", "answered", "cancelled"}],
           \A u \in Calls : \/ handler'[u] = handler[u]
                            \/ /\ handler[u] = "open" /\ handler'[u] = "cancelled"
                               /\ kind[u] = "direct" => u \in W /\ work[u] # "running",
           worker' \in [Names -> {"none", "alive", "cancelling", "dead"}],
           \A n \in Names : worker'[n] = worker[n]
                               \/ (worker[n] = "alive" /\ worker'[n] = "cancelling"),
           \/ phase' = phase \/ phase' \in {"draining", "killed"}
           \/ phase = "pools" /\ phase' = "down" /\ pools = {}
    PROVE  IInv'
<1> USE DEF managerVars
<1>1. TypeOK /\ NoWorkerLost /\ Ended
  BY DEF IInv
<1>2. /\ work' = [u \in Calls |->
            IF u \notin W \/ ~Active(u) THEN work[u]
            ELSE IF work[u] = "running" THEN "releasing" ELSE "over"]
      /\ result' = [u \in Calls |-> IF u \in W /\ Active(u) THEN "cancelled" ELSE result[u]]
  BY DEF Cancelled
<1>3. TypeOK'
  BY <1>1, <1>2 DEF TypeOK
<1>4. NoWorkerLost'
  BY <1>1 DEF NoWorkerLost
<1>5. Ended'
  BY <1>1 DEF Ended
<1>6. ASSUME NEW u \in Calls PROVE Good(u)'
  <2>0. work'[u] = IF u \notin W \/ ~Active(u) THEN work[u]
                   ELSE IF work[u] = "running" THEN "releasing" ELSE "over"
    BY <1>2
  <2>4. work'[u] = "queued" => work[u] = "queued"
    BY <2>0
  <2>1. SUFFICES ASSUME Active(u)' PROVE Good(u)'
    BY <1>6, <2>4 DEF Good, IInv
  <2>2. /\ Active(u)
        /\ \/ work'[u] = work[u] /\ u \notin W
           \/ work[u] = "running" /\ work'[u] = "releasing"
    BY <2>0, <2>1 DEF Active
  <2>3. Good(u) /\ name[u] \in Names
    BY <1>1 DEF IInv, TypeOK
  <2> QED BY <2>2, <2>3 DEF Good, Busy
<1> QED BY <1>3, <1>4, <1>5, <1>6 DEF IInv

LEMMA HandlersOver ==
    ASSUME TypeOK, HandlersCancelled(Calls)
    PROVE  /\ handler' \in [Calls -> {"new", "open", "answered", "cancelled"}]
           /\ \A u \in Calls : \/ handler'[u] = handler[u]
                               \/ /\ handler[u] = "open" /\ handler'[u] = "cancelled"
                                  /\ kind[u] = "direct" => work[u] # "running"
BY DEF HandlersCancelled, TypeOK

LEMMA Ending ==
    ASSUME IInv, SessionEnds \/ StopQueue \/ PoolsGone \/ Signal PROVE IInv'
<1>1. TypeOK
  BY DEF IInv
<1>2. CASE SessionEnds
  <2>1. CASE UNCHANGED <<handler, work, result>>
    <3>1. \A u \in Calls : Good(u)'
      BY <1>2, <2>1, Frame DEF SessionEnds, managerVars
    <3> QED BY <1>2, <2>1, <3>1
            DEF SessionEnds, managerVars, IInv, TypeOK, NoWorkerLost, Ended
  <2>2. CASE HandlersCancelled(Calls) /\ Cancelled({u \in Calls : kind[u] = "direct"})
    <3> DEFINE W == {u \in Calls : kind[u] = "direct"}
    <3>1. W \in SUBSET Calls /\ Cancelled(W) /\ \A u \in Calls : kind[u] = "direct" => u \in W
      BY <2>2
    <3> HIDE DEF W
    <3>2. /\ UNCHANGED <<next, at, struck, managerVars, worker, kind, name, tries>>
          /\ phase' = "draining"
      BY <1>2 DEF SessionEnds
    <3> QED BY <1>1, <2>2, <3>1, <3>2, HandlersOver, Cancelling DEF TypeOK
  <2> QED BY <1>2, <2>1, <2>2 DEF SessionEnds
<1>3. CASE StopQueue
  <2>1. InHand(Min(queues)) \in SUBSET Calls /\ Cancelled(InHand(Min(queues)))
    BY <1>3 DEF StopQueue, InHand
  <2>2. /\ worker' = [worker EXCEPT ![Min(queues)] = IF @ = "alive" THEN "cancelling" ELSE @]
        /\ at' = "worker"
        /\ UNCHANGED <<phase, next, struck, managerVars, kind, name, handler, tries>>
    BY <1>3 DEF StopQueue
  <2>3. /\ worker' \in [Names -> {"none", "alive", "cancelling", "dead"}]
        /\ \A n \in Names : worker'[n] = worker[n]
                               \/ (worker[n] = "alive" /\ worker'[n] = "cancelling")
    BY <1>1, <2>2 DEF TypeOK
  <2> QED BY <1>1, <2>1, <2>2, <2>3, Cancelling DEF TypeOK
<1>4. CASE PoolsGone
  <2>1. /\ Cancelled(Calls) /\ phase = "pools" /\ pools = {} /\ phase' = "down"
        /\ UNCHANGED <<next, at, struck, managerVars, worker, kind, name, handler, tries>>
    BY <1>4 DEF PoolsGone
  <2> QED BY <1>1, <2>1, Cancelling DEF TypeOK
<1>5. CASE Signal
  <2>1. /\ Cancelled(Calls) /\ HandlersCancelled(Calls)
        /\ UNCHANGED <<next, at, managerVars, kind, name, tries>>
        /\ phase' = phase \/ phase' \in {"draining", "killed"}
        /\ struck' \in {"no", "adding", "session", "worker", "health", "conns", "twice"}
    BY <1>1, <1>5 DEF Signal, TypeOK
  <2>2. worker' = [n \in Names |-> IF worker[n] = "alive" THEN "cancelling" ELSE worker[n]]
    BY <1>5 DEF Signal
  <2>3. /\ worker' \in [Names -> {"none", "alive", "cancelling", "dead"}]
        /\ \A n \in Names : worker'[n] = worker[n]
                               \/ (worker[n] = "alive" /\ worker'[n] = "cancelling")
    BY <1>1, <2>2 DEF TypeOK
  <2> QED BY <1>1, <2>1, <2>3, HandlersOver, Cancelling DEF TypeOK
<1> QED BY <1>2, <1>3, <1>4, <1>5

-----------------------------------------------------------------------------
LEMMA StepGood == IInv /\ [Next]_vars => IInv'
<1> SUFFICES ASSUME IInv, [Next]_vars PROVE IInv'
  OBVIOUS
<1>1. CASE UNCHANGED vars
  <2>1. \A u \in Calls : Good(u)'
    BY <1>1, Frame DEF vars, mainVars, managerVars, callVars
  <2> QED BY <1>1, <2>1 DEF vars, mainVars, managerVars, callVars,
                            IInv, TypeOK, NoWorkerLost, Ended
<1>2. CASE Next
  <2>1. CASE MainStep
    BY <2>1, Starting, Passing, Removing, Ending DEF MainStep
  <2>2. CASE SessionEnds \/ EarlySignal \/ Signal \/ SecondSignal
    BY <2>2, Passing, Ending
  <2>3. CASE \E n \in Names : WorkerEnds(n)
    BY <2>3, WorkersEnd
  <2>4. ASSUME NEW u \in Calls,
               \/ AnswerAtOnce(u) \/ Step(u)
               \/ \E k \in {"direct", "queued", "job"}, n \in Names : Call(u, k, n)
        PROVE  IInv'
    <3>1. CASE AnswerAtOnce(u)
      <4>1. N + 1 \in Names
        BY ServerAssumption DEF Names
      <4> QED BY <3>1, <4>1, Calling
    <3> QED BY <2>4, <3>1, Stepping, Calling
  <2> QED BY <1>2, <2>1, <2>2, <2>3, <2>4 DEF Next
<1> QED BY <1>1, <1>2

THEOREM Inductive == Spec => []IInv
BY InitGood, StepGood, PTL DEF Spec

\* Every variable keeps its type; no attempt is begun after the last.
THEOREM TypeCorrect == Spec => []TypeOK
BY Inductive, PTL DEF IInv

\* No queue's command is under way when pools are closed, so shutdown_all of the queues
\* before the pools never makes a worker repeat a command.
THEOREM QueuesEndFirst == Spec => []QueuesFirst
<1>1. IInv => QueuesFirst
  <2> SUFFICES ASSUME IInv, NEW u \in Calls, kind[u] = "queued", Active(u)
               PROVE  phase \notin {"pools", "down"} /\ (name[u] \in pools \/ work[u] = "getting")
    BY DEF QueuesFirst
  <2>1. worker[name[u]] \in Busy /\ (name[u] \in pools \/ work[u] = "getting")
    BY DEF IInv, Good
  <2>2. name[u] \in queues
    BY <2>1 DEF IInv, NoWorkerLost, TypeOK, Busy
  <2> QED BY <2>1, <2>2 DEF IInv, Ended
<1> QED BY Inductive, <1>1, PTL

\* Shutdown finds every worker through its queue.
THEOREM WorkersKept == Spec => []NoWorkerLost
BY Inductive, PTL DEF IInv

\* Nothing but background jobs survives the end of run.
THEOREM EndsClean == Spec => []CleanEnd
<1>1. IInv => CleanEnd
  <2> SUFFICES ASSUME IInv, phase = "down" PROVE CleanEnd
    BY DEF CleanEnd
  <2>1. pools = {} /\ queues = {} /\ \A u \in Calls : handler[u] # "open"
    BY DEF IInv, Ended
  <2>2. \A n \in Names : worker[n] \in {"none", "dead"}
    BY <2>1 DEF IInv, NoWorkerLost, TypeOK
  <2>3. \A u \in Calls : Active(u) => kind[u] = "job"
    BY <2>1, <2>2 DEF IInv, Good, TypeOK, Busy
  <2> QED BY <2>1, <2>2, <2>3 DEF CleanEnd
<1> QED BY Inductive, <1>1, PTL

=============================================================================
