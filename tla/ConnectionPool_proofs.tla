----------------------- MODULE ConnectionPool_proofs -----------------------
(* Theorems about ConnectionPool, for every set of connections, users and  *)
(* sockets, every number of attempts, slow or fast initialisation, with or *)
(* without cancelled releases.                                             *)
EXTENDS ConnectionPool, TLAPS

\* A connector task is an origin and the connection it works on.
LEMMA TaskShape ==
    ASSUME NEW k \in Tasks
    PROVE  /\ k[1] \in Origins
           /\ Of(k) \in Conns
           /\ k = <<k[1], Of(k)>>
BY DEF Tasks, Of

\* The variables keep their types: in particular a retried connection attempt
\* is never counted past MaxAttempts (EndAttempt).
LEMMA TypeStep == TypeOK /\ [Next]_vars => TypeOK'
<1> SUFFICES ASSUME TypeOK, [Next]_vars
             PROVE  TypeOK'
    OBVIOUS
<1> USE PoolAssumption
<1>1. CASE Publish
    BY <1>1 DEF TypeOK, Publish, poolVars, taskVars, hcVars, userVars
<1>2. ASSUME NEW s \in Sockets, ConnLost(s)
      PROVE  TypeOK'
    BY <1>2 DEF TypeOK, ConnLost, poolVars, taskVars, hcVars, userVars
<1>3. ASSUME NEW k \in Tasks, TaskNext(k)
      PROVE  TypeOK'
    <2> Of(k) \in Conns
        BY TaskShape
    <2>1. CASE TaskStart(k)
        BY <2>1 DEF TypeOK, TaskStart, EnterConnect, hcVars, userVars, States
    <2>2. CASE TaskClosed(k)
        BY <2>2 DEF TypeOK, TaskClosed, EnterConnect, hcVars, userVars, States
    <2>3. CASE ConnectOk(k)
        BY <2>3 DEF TypeOK, ConnectOk, hcVars, userVars
    <2>4. CASE TestOk(k)
        BY <2>4 DEF TypeOK, TestOk, Used, hcVars, userVars, States
    <2>5. CASE AttemptFails(k)
        BY <2>5 DEF TypeOK, AttemptFails, EndAttempt, hcVars, userVars, States
    <2>6. CASE CleanedUp(k)
        BY <2>6 DEF TypeOK, CleanedUp, EndAttempt, hcVars, userVars, States
    <2>7. CASE TaskCancel(k)
        BY <2>7 DEF TypeOK, TaskCancel, hcVars, userVars
    <2> QED
        BY <1>3, <2>1, <2>2, <2>3, <2>4, <2>5, <2>6, <2>7 DEF TaskNext
<1>4. CASE HcNext
    <2>1. CASE HcWake
        BY <2>1 DEF TypeOK, HcWake, poolVars, taskVars, userVars
    <2>2. CASE HcLock
        BY <2>2 DEF TypeOK, HcLock, poolVars, taskVars, userVars
    <2>3. ASSUME NEW c \in Conns, HcVisit(c)
          PROVE  TypeOK'
        BY <2>3 DEF TypeOK, HcVisit, taskVars, userVars, States
    <2>4. CASE HcPong
        BY <2>4 DEF TypeOK, HcPong, taskVars, userVars, States
    <2>5. CASE HcPingFails
        BY <2>5 DEF TypeOK, HcPingFails, taskVars, userVars, States
    <2>6. CASE HcConnect
        BY <2>6 DEF TypeOK, HcConnect, poolVars, userVars
    <2>7. CASE HcDone
        BY <2>7 DEF TypeOK, HcDone, poolVars, taskVars, userVars
    <2>8. CASE HcCancel
        BY <2>8 DEF TypeOK, HcCancel, poolVars, taskVars, userVars
    <2> QED
        BY <1>4, <2>1, <2>2, <2>3, <2>4, <2>5, <2>6, <2>7, <2>8 DEF HcNext
<1>5. ASSUME NEW u \in Users, UserNext(u)
      PROVE  TypeOK'
    <2>1. CASE Request(u)
        BY <2>1 DEF TypeOK, Request, poolVars, taskVars, hcVars
    <2>2. CASE Get(u)
        BY <2>2 DEF TypeOK, Get, Used, taskVars, hcVars, States
    <2>3. CASE GetNone(u)
        BY <2>3 DEF TypeOK, GetNone, poolVars, taskVars, hcVars
    <2>4. CASE Finish(u)
        BY <2>4 DEF TypeOK, Finish, poolVars, taskVars, hcVars
    <2>5. CASE Release(u)
        BY <2>5 DEF TypeOK, Release, Leave, taskVars, hcVars, States
    <2>6. CASE ReleaseCancelled(u)
        BY <2>6 DEF TypeOK, ReleaseCancelled, Leave, poolVars, taskVars, hcVars
    <2> QED
        BY <1>5, <2>1, <2>2, <2>3, <2>4, <2>5, <2>6 DEF UserNext
<1>6. CASE StopNext
    <2>1. CASE StopBegin
        BY <2>1 DEF TypeOK, StopBegin, poolVars, taskVars, hcVars, userVars
    <2>2. CASE StopLock
        BY <2>2 DEF TypeOK, StopLock, poolVars, taskVars, userVars
    <2>3. CASE StopEnd
        BY <2>3 DEF TypeOK, StopEnd, poolVars, taskVars, hcVars, userVars
    <2>4. ASSUME NEW c \in Conns, StopClose(c)
          PROVE  TypeOK'
        BY <2>4 DEF TypeOK, StopClose, taskVars, userVars, States
    <2> QED
        BY <1>6, <2>1, <2>2, <2>3, <2>4 DEF StopNext
<1>7. CASE UNCHANGED vars
    BY <1>7 DEF TypeOK, vars, poolVars, taskVars, hcVars, userVars
<1> QED
    BY <1>1, <1>2, <1>3, <1>4, <1>5, <1>6, <1>7 DEF Next

LEMMA InitType == Init => TypeOK
<1> SUFFICES ASSUME Init
             PROVE  TypeOK
    OBVIOUS
<1>1. 1 \in 1..MaxAttempts
    BY PoolAssumption
<1>2. tries \in [Tasks -> 1..MaxAttempts]
    BY <1>1 DEF Init
<1>3. task \in [Tasks -> {"idle", "start", "closing", "connecting", "testing",
                        "cleanup"}]
    BY DEF Init
<1>4. state \in [Conns -> States]
    BY DEF Init, States
<1> QED
    BY <1>2, <1>3, <1>4 DEF Init, TypeOK

\* Type correctness of the pool: see TypeStep.
THEOREM TypeCorrect == Spec => []TypeOK
BY InitType, TypeStep, PTL DEF Spec

-----------------------------------------------------------------------------
(* The inductive invariant behind the leases: who may touch what, and when. *)

\* The health check holds the lock exactly while it checks and connects, and
\* shutdown exactly while it closes; by then the check is over.
LockOwner ==
    /\ lock = "hc" <=> hc \in {"checking", "connecting"}
    /\ lock = "stop" <=> stop = "closing"
    /\ ping # NoConn => hc = "checking"
    /\ stop \in {"closing", "done"} => hc = "stopped"
    /\ hc = "stopped" => ~Running

\* Connectors exist only under the health check's lock or before the pool is
\* published; users and shutdown come after.
TasksOwned ==
    /\ \A c \in Conns : task[<<"hc", c>>] # "idle" => hc = "connecting"
    /\ \A c \in Conns : task[<<"init", c>>] # "idle" => ~published
    /\ ~published => Running /\ \A u \in Users : upc[u] = "out"

\* A user has a connection exactly while it holds or releases it.
LeaseShape ==
    \A u \in Users : lease[u] # NoConn <=> upc[u] \in {"holding", "releasing"}

\* What shutdown has closed stays closed.
Closed ==
    \A c \in Conns : stop = "done" \/ (stop = "closing" /\ c \notin todo) =>
        link[c] = NoSock /\ state[c] \in {"DISCONNECTED", "ERROR"}

\* A connection that is out is neither pinged nor reconnected.
IInv ==
    /\ TypeOK
    /\ LockOwner
    /\ TasksOwned
    /\ LeaseShape
    /\ Closed
    /\ LeaseIntact
    /\ ExclusiveLease
    /\ PoolKeepsOff

\* The part of IInv that is about the order of things.
Rest ==
    /\ LockOwner
    /\ TasksOwned
    /\ LeaseShape
    /\ Closed
    /\ LeaseIntact
    /\ ExclusiveLease
    /\ PoolKeepsOff

\* While a connector works, its connection is not out, and shutdown has not
\* closed anything yet.
LEMMA ConnectorAlone ==
    ASSUME IInv, NEW k \in Tasks, task[k] # "idle"
    PROVE  /\ \A u \in Users : lease[u] # Of(k)
           /\ stop \in {"run", "cancelling"}
<1>1. Of(k) \in Conns /\ k[1] \in Origins /\ k = <<k[1], Of(k)>>
    BY TaskShape
<1>2. \A u \in Users : lease[u] # Of(k)
    BY <1>1, PoolAssumption DEF IInv, PoolKeepsOff
<1>3. CASE k[1] = "hc"
    <2>1. hc = "connecting"
        BY <1>1, <1>3 DEF IInv, TasksOwned
    <2> QED
        BY <1>2, <2>1 DEF IInv, LockOwner, TypeOK
<1>4. CASE k[1] = "init"
    <2>1. ~published
        BY <1>1, <1>4 DEF IInv, TasksOwned
    <2> QED
        BY <1>2, <2>1 DEF IInv, TasksOwned, Running
<1> QED
    BY <1>1, <1>3, <1>4 DEF Origins

\* Whatever a connector does to its own connection, it disturbs no lease.
LEMMA ConnectorStep ==
    ASSUME IInv, TypeOK', NEW k \in Tasks, task[k] # "idle",
           \A d \in Conns : d # Of(k) => state'[d] = state[d] /\ link'[d] = link[d],
           \A j \in Tasks : j # k => task'[j] = task[j],
           UNCHANGED <<hcVars, userVars, lock, published, stop>>
    PROVE  Rest'
<1>1. Of(k) \in Conns /\ k[1] \in Origins /\ k = <<k[1], Of(k)>>
    BY TaskShape
<1>2. /\ \A u \in Users : lease[u] # Of(k)
      /\ stop \in {"run", "cancelling"}
    BY ConnectorAlone
<1>3. UNCHANGED <<hc, todo, ping, upc, lease, sock, lock, published, stop>>
    BY DEF hcVars, userVars
<1>4. \A c \in Conns : \A origin \in Origins : <<origin, c>> \in Tasks
    BY DEF Tasks
<1>5. LockOwner' /\ LeaseShape' /\ ExclusiveLease'
    BY <1>3 DEF IInv, LockOwner, LeaseShape, ExclusiveLease, Running
<1>6. TasksOwned'
    <2>1. ASSUME NEW c \in Conns, NEW origin \in Origins, task'[<<origin, c>>] # "idle"
          PROVE  task[<<origin, c>>] # "idle"
        BY <1>4, <2>1
    <2>2. "hc" \in Origins /\ "init" \in Origins
        BY DEF Origins
    <2> QED
        BY <2>1, <2>2, <1>3 DEF IInv, TasksOwned, Running
<1>7. Closed'
    BY <1>2, <1>3 DEF Closed
<1>8. LeaseIntact'
    BY <1>2, <1>3, PoolAssumption DEF IInv, TypeOK, LeaseIntact, Running
<1>9. PoolKeepsOff'
    <2> SUFFICES ASSUME NEW u \in Users, lease[u] # NoConn
                 PROVE  /\ ping # lease[u]
                        /\ \A origin \in Origins : task'[<<origin, lease[u]>>] = "idle"
        BY <1>3 DEF PoolKeepsOff
    <2>1. lease[u] \in Conns /\ lease[u] # Of(k)
        BY <1>2 DEF IInv, TypeOK
    <2>2. \A origin \in Origins : <<origin, lease[u]>> # k
        BY <1>1, <2>1
    <2> QED
        BY <1>4, <2>1, <2>2 DEF IInv, PoolKeepsOff
<1> QED
    BY <1>5, <1>6, <1>7, <1>8, <1>9 DEF Rest

\* A connector's steps touch nothing but its own connection.
LEMMA ConnectorSteps ==
    ASSUME IInv, TypeOK', NEW k \in Tasks, TaskNext(k)
    PROVE  Rest'
<1>1. Of(k) \in Conns
    BY TaskShape
<1>2. /\ task[k] # "idle"
      /\ \A d \in Conns : d # Of(k) => state'[d] = state[d] /\ link'[d] = link[d]
      /\ \A j \in Tasks : j # k => task'[j] = task[j]
      /\ UNCHANGED <<hcVars, userVars, lock, published, stop>>
    <2> USE <1>1 DEF IInv, TypeOK
    <2>1. CASE TaskStart(k)   BY <2>1 DEF TaskStart, EnterConnect
    <2>2. CASE TaskClosed(k)  BY <2>2 DEF TaskClosed, EnterConnect
    <2>3. CASE ConnectOk(k)   BY <2>3 DEF ConnectOk
    <2>4. CASE TestOk(k)      BY <2>4 DEF TestOk
    <2>5. CASE AttemptFails(k)  BY <2>5 DEF AttemptFails, EndAttempt
    <2>6. CASE CleanedUp(k)   BY <2>6 DEF CleanedUp, EndAttempt
    <2>7. CASE TaskCancel(k)  BY <2>7 DEF TaskCancel
    <2> QED
        BY <2>1, <2>2, <2>3, <2>4, <2>5, <2>6, <2>7 DEF TaskNext
<1> QED
    BY <1>2, ConnectorStep

\* A step that leaves the connections, the connectors and the leases alone
\* disturbs only LockOwner, TasksOwned and Closed.
LEMMA LeasesKept ==
    ASSUME IInv, UNCHANGED <<state, link, task, lease, sock>>,
           ping' \in {ping, NoConn},
           Running' \/ stop' = "cancelling" => Running \/ stop = "cancelling"
    PROVE  LeaseIntact' /\ ExclusiveLease' /\ PoolKeepsOff'
BY PoolAssumption DEF IInv, LeaseIntact, ExclusiveLease, PoolKeepsOff

\* The health check works under the lock and skips BUSY connections.
LEMMA HcSteps ==
    ASSUME IInv, TypeOK', HcNext
    PROVE  Rest'
<1> USE PoolAssumption
<1>1. CASE HcWake
    <2> USE <1>1 DEF HcWake, poolVars, taskVars, userVars
    <2>1. LockOwner' /\ TasksOwned' /\ LeaseShape' /\ Closed'
        BY DEF IInv, LockOwner, TasksOwned, LeaseShape, Closed, Running
    <2> QED
        BY <2>1, LeasesKept DEF Rest, Running
<1>2. CASE HcLock
    <2> USE <1>2 DEF HcLock, poolVars, taskVars, userVars
    <2>1. LockOwner' /\ TasksOwned' /\ LeaseShape' /\ Closed'
        BY DEF IInv, LockOwner, TasksOwned, LeaseShape, Closed, Running
    <2> QED
        BY <2>1, LeasesKept DEF Rest, Running
<1>3. ASSUME NEW c \in Conns, HcVisit(c)
      PROVE  Rest'
    <2> USE <1>3 DEF HcVisit, taskVars, userVars
    <2>1. LockOwner' /\ TasksOwned' /\ LeaseShape' /\ ExclusiveLease'
        BY DEF IInv, LockOwner, TasksOwned, LeaseShape, ExclusiveLease, Running
    <2>2. Closed'
        BY DEF Closed, Running
    <2>3. \A u \in Users : lease[u] = c => state[c] = "BUSY"
        BY DEF IInv, LeaseIntact, Running
    <2>4. LeaseIntact'
        BY <2>3 DEF IInv, TypeOK, LeaseIntact
    <2>5. PoolKeepsOff'
        BY <2>3 DEF IInv, PoolKeepsOff
    <2> QED
        BY <2>1, <2>2, <2>4, <2>5 DEF Rest
<1>4. CASE HcPong \/ HcPingFails
    <2>1. /\ ping # NoConn /\ ping' = NoConn
          /\ \A d \in Conns : d # ping => state'[d] = state[d] /\ link'[d] = link[d]
          /\ UNCHANGED <<task, hc, todo, upc, lease, sock, lock, published, stop>>
          /\ Running
        BY <1>4 DEF HcPong, HcPingFails, taskVars, userVars, IInv, TypeOK
    <2>2. LockOwner' /\ TasksOwned' /\ LeaseShape' /\ ExclusiveLease'
        BY <2>1 DEF IInv, LockOwner, TasksOwned, LeaseShape, ExclusiveLease, Running
    <2>3. Closed'
        BY <2>1 DEF Closed, Running
    <2>4. LeaseIntact'
        BY <2>1 DEF IInv, TypeOK, LeaseIntact, PoolKeepsOff, Running
    <2>5. PoolKeepsOff'
        BY <2>1 DEF IInv, PoolKeepsOff
    <2> QED
        BY <2>2, <2>3, <2>4, <2>5 DEF Rest
<1>5. CASE HcConnect
    <2> USE <1>5 DEF HcConnect, poolVars, userVars
    <2>1. \A c \in Conns : \A origin \in Origins :
             task'[<<origin, c>>] # "idle" =>
                \/ task[<<origin, c>>] # "idle"
                \/ origin = "hc" /\ NeedsConnect(c)
        BY DEF Tasks, Of
    <2>2. LockOwner' /\ LeaseShape' /\ ExclusiveLease'
        BY DEF IInv, LockOwner, LeaseShape, ExclusiveLease, Running
    <2>3. TasksOwned'
        BY <2>1 DEF IInv, TasksOwned, Running, Origins
    <2>4. Closed' /\ LeaseIntact'
        BY DEF IInv, Closed, LeaseIntact, Running
    <2>5. \A u \in Users : lease[u] # NoConn => ~NeedsConnect(lease[u])
        BY DEF IInv, LeaseIntact, NeedsConnect, Running
    <2>6. PoolKeepsOff'
        <3> SUFFICES ASSUME NEW u \in Users, lease[u] # NoConn
                     PROVE  /\ ping # lease[u]
                            /\ \A origin \in Origins : task'[<<origin, lease[u]>>] = "idle"
            BY DEF PoolKeepsOff
        <3>1. lease[u] \in Conns
            BY DEF IInv, TypeOK
        <3>2. /\ ping # lease[u]
              /\ \A origin \in Origins : task[<<origin, lease[u]>>] = "idle"
            BY DEF IInv, PoolKeepsOff
        <3> QED
            BY <2>1, <2>5, <3>1, <3>2
    <2> QED
        BY <2>2, <2>3, <2>4, <2>6 DEF Rest
<1>6. CASE HcDone
    <2> USE <1>6 DEF HcDone, poolVars, taskVars, userVars
    <2>1. LockOwner' /\ TasksOwned' /\ LeaseShape' /\ Closed'
        BY DEF IInv, LockOwner, TasksOwned, LeaseShape, Closed, Running, Idle
    <2> QED
        BY <2>1, LeasesKept DEF Rest, Running
<1>7. CASE HcCancel
    <2> USE <1>7 DEF HcCancel, poolVars, taskVars, userVars
    <2>1. LockOwner'
        BY DEF IInv, TypeOK, LockOwner, Running
    <2>2. TasksOwned' /\ LeaseShape' /\ Closed'
        BY DEF IInv, TasksOwned, LeaseShape, Closed, Running, Idle
    <2> QED
        BY <2>1, <2>2, LeasesKept DEF Rest, Running
<1> QED
    BY <1>1, <1>2, <1>3, <1>4, <1>5, <1>6, <1>7 DEF HcNext

\* Users take and return leases only while nobody else holds the lock.
LEMMA UserSteps ==
    ASSUME IInv, TypeOK', NEW u \in Users, UserNext(u)
    PROVE  Rest'
<1> USE PoolAssumption
<1>1. CASE Request(u) \/ GetNone(u) \/ Finish(u)
    <2>1. /\ UNCHANGED <<poolVars, taskVars, hcVars, lease, sock, lock, published, stop>>
          /\ \A v \in Users : v # u => upc'[v] = upc[v]
          /\ upc'[u] \in {"holding", "releasing"} <=> upc[u] \in {"holding", "releasing"}
          /\ published \/ upc[u] # "out"
        BY <1>1 DEF Request, GetNone, Finish, IInv, TypeOK
    <2> USE <2>1 DEF poolVars, taskVars, hcVars
    <2>2. LockOwner' /\ Closed'
        BY DEF IInv, LockOwner, Closed, Running
    <2>3. TasksOwned'
        BY DEF IInv, TasksOwned, Running
    <2>4. LeaseShape'
        BY DEF IInv, LeaseShape
    <2> QED
        BY <2>2, <2>3, <2>4, LeasesKept DEF Rest, Running
<1>2. CASE Get(u)
    <2>1. PICK c \in Conns :
            /\ Healthy(c)
            /\ state' = [state EXCEPT ![c] = "BUSY"]
            /\ lease' = [lease EXCEPT ![u] = c]
            /\ sock' = [sock EXCEPT ![u] = link[c]]
        BY <1>2 DEF Get
    <2>2. /\ upc[u] = "getting" /\ lock = "free"
          /\ upc' = [upc EXCEPT ![u] = "holding"]
          /\ UNCHANGED <<link, task, hc, todo, ping, lock, published, stop>>
        BY <1>2 DEF Get, taskVars, hcVars
    <2>3. published /\ ping = NoConn /\ stop # "closing"
        BY <2>2 DEF IInv, TasksOwned, LockOwner
    <2>4. \A origin \in Origins : task[<<origin, c>>] = "idle"
        BY <2>2, <2>3 DEF IInv, TasksOwned, LockOwner, Origins
    <2>5. stop # "done" /\ state[c] = "READY"
        BY <2>1 DEF IInv, Closed, Healthy
    <2>6. Running \/ stop = "cancelling"
        BY <2>3, <2>5 DEF IInv, TypeOK, Running
    <2>7. \A v \in Users : lease[v] # c
        BY <2>5, <2>6 DEF IInv, LeaseIntact
    <2>8. LockOwner' /\ Closed'
        BY <2>1, <2>2, <2>3, <2>5 DEF IInv, LockOwner, Closed, Running
    <2>9. TasksOwned'
        BY <2>2, <2>3 DEF IInv, TasksOwned, Running
    <2>10. LeaseShape'
        BY <2>1, <2>2 DEF IInv, TypeOK, LeaseShape
    <2>11. LeaseIntact'
        BY <2>1, <2>2, <2>7 DEF IInv, TypeOK, LeaseIntact, Running
    <2>12. ExclusiveLease'
        BY <2>1, <2>7 DEF IInv, TypeOK, ExclusiveLease
    <2>13. PoolKeepsOff'
        BY <2>1, <2>2, <2>3, <2>4 DEF IInv, TypeOK, PoolKeepsOff
    <2> QED
        BY <2>8, <2>9, <2>10, <2>11, <2>12, <2>13 DEF Rest
<1>3. CASE Release(u) \/ ReleaseCancelled(u)
    <2>1. /\ upc[u] = "releasing"
          /\ upc' = [upc EXCEPT ![u] = "out"]
          /\ lease' = [lease EXCEPT ![u] = NoConn]
          /\ sock' = [sock EXCEPT ![u] = NoSock]
          /\ UNCHANGED <<link, task, hc, todo, ping, lock, published, stop>>
        BY <1>3 DEF Release, ReleaseCancelled, Leave, poolVars, taskVars, hcVars
    <2>2. lease[u] \in Conns
        BY <2>1 DEF IInv, TypeOK, LeaseShape
    <2>3. /\ \A d \in Conns : d # lease[u] => state'[d] = state[d]
          /\ state'[lease[u]] \in {state[lease[u]], "ERROR"} \/ Healthy(lease[u])
        BY <1>3, <2>2 DEF Release, ReleaseCancelled, poolVars, IInv, TypeOK
    <2>4. LockOwner'
        BY <2>1 DEF IInv, LockOwner, Running
    <2>5. TasksOwned'
        BY <2>1 DEF IInv, TasksOwned, TypeOK, Running
    <2>6. LeaseShape'
        BY <2>1 DEF IInv, TypeOK, LeaseShape
    <2>7. Closed'
        BY <2>1, <2>2, <2>3 DEF IInv, Closed, Healthy
    <2>8. LeaseIntact'
        BY <2>1, <2>2, <2>3 DEF IInv, TypeOK, LeaseIntact, ExclusiveLease, Running
    <2>9. ExclusiveLease' /\ PoolKeepsOff'
        BY <2>1 DEF IInv, TypeOK, ExclusiveLease, PoolKeepsOff
    <2> QED
        BY <2>4, <2>5, <2>6, <2>7, <2>8, <2>9 DEF Rest
<1> QED
    BY <1>1, <1>2, <1>3 DEF UserNext

\* Shutdown closes connections only under the lock and after the health check.
LEMMA StopSteps ==
    ASSUME IInv, TypeOK', StopNext
    PROVE  Rest'
<1> USE PoolAssumption
<1>1. CASE StopBegin
    <2> USE <1>1 DEF StopBegin, poolVars, taskVars, hcVars, userVars
    <2>1. LockOwner' /\ TasksOwned' /\ LeaseShape' /\ Closed'
        BY DEF IInv, LockOwner, TasksOwned, LeaseShape, Closed, Running
    <2> QED
        BY <2>1, LeasesKept DEF Rest
<1>2. CASE StopLock
    <2> USE <1>2 DEF StopLock, poolVars, taskVars, userVars
    <2>1. LockOwner' /\ TasksOwned' /\ LeaseShape' /\ Closed'
        BY DEF IInv, LockOwner, TasksOwned, LeaseShape, Closed, Running
    <2> QED
        BY <2>1, LeasesKept DEF Rest, Running
<1>3. CASE StopEnd
    <2> USE <1>3 DEF StopEnd, poolVars, taskVars, hcVars, userVars
    <2>1. LockOwner' /\ TasksOwned' /\ LeaseShape' /\ Closed'
        BY DEF IInv, LockOwner, TasksOwned, LeaseShape, Closed, Running
    <2> QED
        BY <2>1, LeasesKept DEF Rest, Running
<1>4. ASSUME NEW c \in Conns, StopClose(c)
      PROVE  Rest'
    <2> USE <1>4 DEF StopClose, taskVars, userVars
    <2>1. LockOwner' /\ TasksOwned' /\ LeaseShape' /\ ExclusiveLease' /\ PoolKeepsOff'
        BY DEF IInv, LockOwner, TasksOwned, LeaseShape, ExclusiveLease, PoolKeepsOff, Running
    <2>2. Closed'
        BY DEF IInv, TypeOK, Closed
    <2>3. LeaseIntact'
        BY DEF LeaseIntact, Running
    <2> QED
        BY <2>1, <2>2, <2>3 DEF Rest
<1> QED
    BY <1>1, <1>2, <1>3, <1>4 DEF StopNext

\* IInv is inductive.
LEMMA InvStep == IInv /\ [Next]_vars => IInv'
<1> SUFFICES ASSUME IInv, [Next]_vars
             PROVE  IInv'
    OBVIOUS
<1> USE PoolAssumption
<1>1. TypeOK'
    BY TypeStep DEF IInv
<1>2. CASE Publish
    <2> USE <1>2 DEF Publish, poolVars, taskVars, hcVars, userVars
    <2>1. LockOwner' /\ TasksOwned' /\ LeaseShape' /\ Closed'
        BY DEF IInv, LockOwner, TasksOwned, LeaseShape, Closed, Running, Idle
    <2> QED
        BY <1>1, <2>1, LeasesKept DEF IInv, Running
<1>3. ASSUME NEW s \in Sockets, ConnLost(s)
      PROVE  IInv'
    <2> USE <1>3 DEF ConnLost, taskVars, hcVars, userVars
    <2>1. LockOwner' /\ TasksOwned' /\ LeaseShape' /\ Closed'
        BY DEF IInv, LockOwner, TasksOwned, LeaseShape, Closed, Running
    <2> QED
        BY <1>1, <2>1, LeasesKept DEF IInv, Running
<1>4. ASSUME NEW k \in Tasks, TaskNext(k)
      PROVE  IInv'
    BY <1>1, <1>4, ConnectorSteps DEF IInv, Rest
<1>5. CASE HcNext
    BY <1>1, <1>5, HcSteps DEF IInv, Rest
<1>6. ASSUME NEW u \in Users, UserNext(u)
      PROVE  IInv'
    BY <1>1, <1>6, UserSteps DEF IInv, Rest
<1>7. CASE StopNext
    BY <1>1, <1>7, StopSteps DEF IInv, Rest
<1>8. CASE UNCHANGED vars
    <2> USE <1>8 DEF vars, poolVars, taskVars, hcVars, userVars
    <2>1. LockOwner' /\ TasksOwned' /\ LeaseShape' /\ Closed'
        BY DEF IInv, LockOwner, TasksOwned, LeaseShape, Closed, Running
    <2> QED
        BY <1>1, <2>1, LeasesKept DEF IInv, Running
<1> QED
    BY <1>2, <1>3, <1>4, <1>5, <1>6, <1>7, <1>8 DEF Next

LEMMA InvInit == Init => IInv
<1> SUFFICES ASSUME Init
             PROVE  IInv
    OBVIOUS
<1>1. TypeOK
    BY InitType
<1>2. \A c \in Conns : <<"hc", c>> \in Tasks /\ <<"hc", c>>[1] # "init"
    BY DEF Tasks, Origins
<1>3. TasksOwned
    BY <1>2 DEF Init, TasksOwned, Running
<1>4. LockOwner /\ Closed /\ LeaseShape
    BY DEF Init, LockOwner, LeaseShape, Closed, Running
<1>5. LeaseIntact /\ ExclusiveLease /\ PoolKeepsOff
    BY DEF Init, LeaseIntact, ExclusiveLease, PoolKeepsOff
<1> QED
    BY <1>1, <1>3, <1>4, <1>5 DEF IInv

LEMMA Invariance == Spec => []IInv
BY InvInit, InvStep, PTL DEF Spec

\* No two users ever have the same connection: see ExclusiveLease.
THEOREM LeasesExclusive == Spec => []ExclusiveLease
<1>1. IInv => ExclusiveLease
    BY DEF IInv
<1> QED
    BY <1>1, Invariance, PTL

\* Nobody but shutdown closes or replaces the socket of a connection that is
\* out: see LeaseIntact.
THEOREM LeasesIntact == Spec => []LeaseIntact
<1>1. IInv => LeaseIntact
    BY DEF IInv
<1> QED
    BY <1>1, Invariance, PTL

\* No ping and no connector works on a connection that is out.
THEOREM LeasesUntouched == Spec => []PoolKeepsOff
<1>1. IInv => PoolKeepsOff
    BY DEF IInv
<1> QED
    BY <1>1, Invariance, PTL

\* After shutdown no connection, connector or check is left in the pool.
THEOREM ShutdownFinal == Spec => []ShutdownIsFinal
<1>1. IInv => ShutdownIsFinal
    <2> SUFFICES ASSUME IInv, stop = "done"
                 PROVE  /\ \A c \in Conns : link[c] = NoSock /\ state[c] \in {"DISCONNECTED", "ERROR"}
                        /\ \A k \in Tasks : task[k] = "idle"
                        /\ lock = "free"
        BY DEF ShutdownIsFinal
    <2>1. \A k \in Tasks : task[k] = "idle"
        BY ConnectorAlone
    <2>2. lock = "free"
        BY DEF IInv, TypeOK, LockOwner
    <2> QED
        BY <2>1, <2>2 DEF IInv, Closed
<1> QED
    BY <1>1, Invariance, PTL

-----------------------------------------------------------------------------
(* No connection is forgotten: one that is CONNECTING has a connector, one *)
(* that is BUSY has a user, and a socket that is open has a connection.    *)

\* A connector's step leaves its connection CONNECTING only if it goes on
\* working on it, or the pool stops.
LEMMA ConnectorGoesOn ==
    ASSUME TypeOK, NEW k \in Tasks, TaskNext(k)
    PROVE  /\ \A d \in Conns : d # Of(k) => state'[d] = state[d]
           /\ \A j \in Tasks : j # k => task'[j] = task[j]
           /\ Running' /\ state'[Of(k)] = "CONNECTING" => task'[k] # "idle"
           /\ state'[Of(k)] # "BUSY" \/ state' = state
<1> Of(k) \in Conns
    BY TaskShape
<1> USE DEF TypeOK
<1>1. CASE TaskStart(k)   BY <1>1 DEF TaskStart, EnterConnect
<1>2. CASE TaskClosed(k)  BY <1>2 DEF TaskClosed, EnterConnect
<1>3. CASE ConnectOk(k)   BY <1>3 DEF ConnectOk
<1>4. CASE TestOk(k)      BY <1>4 DEF TestOk
<1>5. CASE AttemptFails(k)  BY <1>5 DEF AttemptFails, EndAttempt
<1>6. CASE CleanedUp(k)   BY <1>6 DEF CleanedUp, EndAttempt
<1>7. CASE TaskCancel(k)  BY <1>7 DEF TaskCancel, Running
<1> QED
    BY <1>1, <1>2, <1>3, <1>4, <1>5, <1>6, <1>7 DEF TaskNext

\* Outside the connectors no step makes a connection CONNECTING, takes a
\* connector off its work or starts the pool again.
LEMMA OthersConnectNothing ==
    ASSUME TypeOK, [Next]_vars, ~ \E k \in Tasks : TaskNext(k)
    PROVE  /\ \A c \in Conns : state'[c] = "CONNECTING" => state[c] = "CONNECTING"
           /\ \A k \in Tasks : task[k] # "idle" => task'[k] # "idle"
           /\ Running' => Running
<1> USE DEF TypeOK
<1>1. CASE Publish
    BY <1>1 DEF Publish, poolVars, taskVars, Running
<1>2. CASE \E s \in Sockets : ConnLost(s)
    BY <1>2 DEF ConnLost, taskVars, Running
<1>3. CASE HcNext
    <2>1. CASE HcWake \/ HcLock \/ HcDone \/ HcCancel
        BY <2>1 DEF HcWake, HcLock, HcDone, HcCancel, poolVars, taskVars, Running
    <2>2. CASE HcConnect
        BY <2>2 DEF HcConnect, poolVars, Running
    <2>3. CASE HcPong \/ HcPingFails
        BY <2>3 DEF HcPong, HcPingFails, taskVars, Running
    <2>4. CASE \E c \in Conns : HcVisit(c)
        BY <2>4 DEF HcVisit, taskVars, Running
    <2> QED
        BY <1>3, <2>1, <2>2, <2>3, <2>4 DEF HcNext
<1>4. ASSUME NEW u \in Users, UserNext(u)
      PROVE  /\ \A c \in Conns : state'[c] = "CONNECTING" => state[c] = "CONNECTING"
             /\ UNCHANGED <<task, stop>>
    BY <1>4 DEF UserNext, Request, Get, GetNone, Finish, Release, ReleaseCancelled,
                Leave, poolVars, taskVars
<1>5. CASE StopNext
    BY <1>5 DEF StopNext, StopBegin, StopLock, StopEnd, StopClose, poolVars, taskVars,
                Running
<1>6. CASE UNCHANGED vars
    BY <1>6 DEF vars, poolVars, taskVars, Running
<1> QED
    BY <1>1, <1>2, <1>3, <1>4, <1>5, <1>6 DEF Next, Running

\* No connection stays CONNECTING when its connector has ended, although two
\* connectors may work on one connection when initialize is slow: see
\* NotStranded.
THEOREM NoneStranded == Spec => []NotStranded
<1>1. Init => NotStranded
    BY DEF Init, NotStranded
<1>2. ASSUME TypeOK, NotStranded, [Next]_vars
      PROVE  NotStranded'
    <2> SUFFICES ASSUME Running', NEW c \in Conns, state'[c] = "CONNECTING"
                 PROVE  \E origin \in Origins : task'[<<origin, c>>] # "idle"
        BY DEF NotStranded
    <2>1. \A origin \in Origins : <<origin, c>> \in Tasks /\ Of(<<origin, c>>) = c
        BY DEF Tasks, Of
    <2>2. ASSUME NEW k \in Tasks, TaskNext(k)
          PROVE  \E origin \in Origins : task'[<<origin, c>>] # "idle"
        <3>1. k[1] \in Origins /\ k = <<k[1], Of(k)>>
            BY TaskShape
        <3>2. Running
            BY <2>2 DEF TaskNext, TaskStart, TaskClosed, ConnectOk, TestOk,
                        AttemptFails, CleanedUp, TaskCancel, Running
        <3>3. CASE Of(k) = c
            BY <1>2, <2>2, <3>1, <3>3, ConnectorGoesOn
        <3>4. CASE Of(k) # c
            <4>1. state[c] = "CONNECTING"
                BY <1>2, <2>2, <3>4, ConnectorGoesOn
            <4>2. PICK origin \in Origins : task[<<origin, c>>] # "idle"
                BY <1>2, <3>2, <4>1 DEF NotStranded
            <4>3. task'[<<origin, c>>] # "idle"
                BY <1>2, <2>1, <2>2, <3>4, <4>2, ConnectorGoesOn
            <4> QED
                BY <4>3
        <3> QED
            BY <3>3, <3>4
    <2>3. CASE ~ \E k \in Tasks : TaskNext(k)
        BY <1>2, <2>1, <2>3, OthersConnectNothing DEF NotStranded
    <2> QED
        BY <2>2, <2>3
<1> QED
    BY <1>1, <1>2, TypeCorrect, PTL DEF Spec

\* Only a user makes a connection BUSY, and the one that gives it back leaves it
\* READY or in ERROR.
LEMMA BusyStep ==
    ASSUME IInv, ~CancelRelease, BusyAccounted, [Next]_vars
    PROVE  BusyAccounted'
<1> USE DEF IInv, TypeOK
<1>1. CASE UNCHANGED <<state, lease>>
    BY <1>1 DEF BusyAccounted
<1>2. ASSUME lease' = lease,
             \A c \in Conns : state'[c] = "BUSY" => state[c] = "BUSY"
      PROVE  BusyAccounted'
    BY <1>2 DEF BusyAccounted
<1>3. CASE Publish \/ UNCHANGED vars
    BY <1>1, <1>3 DEF Publish, vars, poolVars, userVars
<1>4. CASE \E s \in Sockets : ConnLost(s)
    BY <1>1, <1>4 DEF ConnLost, userVars
<1>5. ASSUME NEW k \in Tasks, TaskNext(k)
      PROVE  BusyAccounted'
    <2>1. lease' = lease
        BY <1>5 DEF TaskNext, TaskStart, TaskClosed, ConnectOk, TestOk, AttemptFails,
                    CleanedUp, TaskCancel, userVars
    <2>2. \A c \in Conns : state'[c] = "BUSY" => state[c] = "BUSY"
        BY <1>5, ConnectorGoesOn
    <2> QED
        BY <1>2, <2>1, <2>2
<1>6. CASE HcNext
    <2>1. lease' = lease
        BY <1>6 DEF HcNext, HcWake, HcLock, HcPong, HcPingFails, HcConnect, HcDone,
                    HcCancel, HcVisit, userVars
    <2>2. \A c \in Conns : state'[c] = "BUSY" => state[c] = "BUSY"
        BY <1>6 DEF HcNext, HcWake, HcLock, HcPong, HcPingFails, HcConnect, HcDone,
                    HcCancel, HcVisit, poolVars
    <2> QED
        BY <1>2, <2>1, <2>2
<1>7. ASSUME NEW u \in Users, UserNext(u)
      PROVE  BusyAccounted'
    <2>1. CASE Request(u) \/ GetNone(u) \/ Finish(u)
        BY <1>1, <2>1 DEF Request, GetNone, Finish, poolVars
    <2>2. CASE Get(u)
        <3>1. lease[u] = NoConn
            BY <2>2 DEF Get, LeaseShape
        <3>2. PICK c \in Conns : /\ state' = [state EXCEPT ![c] = "BUSY"]
                                 /\ lease' = [lease EXCEPT ![u] = c]
            BY <2>2 DEF Get
        <3> QED
            BY <3>1, <3>2, PoolAssumption DEF BusyAccounted
    <2>3. CASE Release(u)
        <3>1. lease[u] \in Conns
            BY <2>3, PoolAssumption DEF Release, LeaseShape
        <3>2. /\ state'[lease[u]] # "BUSY"
              /\ \A c \in Conns : c # lease[u] => state'[c] = state[c]
              /\ \A v \in Users : v # u => lease'[v] = lease[v]
            BY <2>3, <3>1 DEF Release, Leave
        <3> QED
            BY <3>1, <3>2 DEF BusyAccounted
    <2>4. CASE ReleaseCancelled(u)
        BY <2>4 DEF ReleaseCancelled
    <2> QED
        BY <1>7, <2>1, <2>2, <2>3, <2>4 DEF UserNext
<1>8. CASE StopNext
    <2>1. /\ lease' = lease
          /\ \A c \in Conns : state'[c] = "BUSY" => state[c] = "BUSY"
        BY <1>8 DEF StopNext, StopBegin, StopLock, StopEnd, StopClose, poolVars, userVars
    <2> QED
        BY <1>2, <2>1
<1> QED
    BY <1>3, <1>4, <1>5, <1>6, <1>7, <1>8 DEF Next

\* Unless a user is cancelled while it waits to release, every BUSY connection
\* is held by someone who will give it back: see BusyAccounted.
THEOREM BusyHeld == ~CancelRelease => (Spec => []BusyAccounted)
<1> SUFFICES ASSUME ~CancelRelease
             PROVE  Spec => []BusyAccounted
    OBVIOUS
<1>1. Init => BusyAccounted
    BY DEF Init, BusyAccounted
<1>2. IInv /\ BusyAccounted /\ [Next]_vars => BusyAccounted'
    BY BusyStep
<1> QED
    BY <1>1, <1>2, Invariance, PTL DEF Spec

-----------------------------------------------------------------------------
(* No socket leaks when initialize is over before the first health check.  *)
(* AllLinked alone is not inductive: a connector that connects overwrites  *)
(* conn.connection, and is harmless only because it has cleared it before  *)
(* and because nobody else connects the same connection meanwhile.         *)

\* The health check has not woken before users see the pool.
ChecksAfterInit ==
    hc \in {"waiting", "checking", "connecting"} => published

\* A connector that connects has no connection yet, one that waits for an old
\* or a failed connection to close has closed it.
LinkCleared ==
    \A k \in Tasks :
        /\ task[k] = "connecting" => link[Of(k)] = NoSock
        /\ task[k] \in {"closing", "cleanup"} => link[Of(k)] \notin open

LInv == AllLinked /\ ChecksAfterInit /\ LinkCleared

\* One connector at a time works on a connection.
LEMMA OneConnector ==
    ASSUME IInv, ChecksAfterInit, NEW k \in Tasks, NEW j \in Tasks,
           task[k] # "idle", task[j] # "idle", Of(j) = Of(k)
    PROVE  j = k
<1>1. /\ k[1] \in Origins /\ Of(k) \in Conns /\ k = <<k[1], Of(k)>>
      /\ j[1] \in Origins /\ j = <<j[1], Of(k)>>
    BY TaskShape
<1>2. k[1] = j[1]
    BY <1>1 DEF IInv, TasksOwned, ChecksAfterInit, Origins
<1> QED
    BY <1>1, <1>2

\* What a connector does to its own connection keeps every open socket linked.
LEMMA ConnectorLinks ==
    ASSUME IInv, IInv', LInv, NEW k \in Tasks, TaskNext(k)
    PROVE  LInv'
<1>1. Of(k) \in Conns
    BY TaskShape
<1>2. /\ task[k] # "idle"
      /\ UNCHANGED <<hc, published>>
      /\ \A j \in Tasks : j # k => task'[j] = task[j]
      /\ \A d \in Conns : d # Of(k) => link'[d] = link[d]
    BY <1>1 DEF TaskNext, TaskStart, TaskClosed, ConnectOk, TestOk, AttemptFails,
                CleanedUp, TaskCancel, EnterConnect, EndAttempt, hcVars, IInv, TypeOK
<1>3. ChecksAfterInit'
    BY <1>2 DEF LInv, ChecksAfterInit
<1>4. \A j \in Tasks : j # k /\ task[j] # "idle" => Of(j) \in Conns \ {Of(k)}
    BY <1>2, OneConnector, TaskShape DEF LInv
<1>5. NoSock \notin open
    BY PoolAssumption DEF IInv, TypeOK
<1>6. link \in [Conns -> Sockets \cup {NoSock}] /\ task[k] = task[k] /\ open \subseteq Sockets
    BY DEF IInv, TypeOK
<1>7. \A j \in Tasks : j # k /\ task[j] # "idle" =>
         link'[Of(j)] = link[Of(j)] /\ task'[j] = task[j]
    BY <1>2, <1>4
<1>8. CASE ConnectOk(k)
    <2>1. PICK s \in Sockets \ (open \cup Referenced) :
             open' = open \cup {s} /\ link' = [link EXCEPT ![Of(k)] = s]
        BY <1>8 DEF ConnectOk
    <2>2. task[k] = "connecting" /\ link[Of(k)] = NoSock
        BY <1>8 DEF ConnectOk, LInv, LinkCleared
    <2>3. link'[Of(k)] = s
        BY <2>1, <1>1, <1>6
    <2>4. AllLinked'
        BY <2>1, <2>2, <2>3, <1>1, <1>2, <1>5 DEF LInv, AllLinked
    <2>5. task'[k] = "testing"
        BY <1>8 DEF ConnectOk, IInv, TypeOK
    <2>6. \A d \in Conns : link[d] # s
        BY <2>1 DEF Referenced
    <2>7. ASSUME NEW j \in Tasks
          PROVE  /\ task'[j] = "connecting" => link'[Of(j)] = NoSock
                 /\ task'[j] \in {"closing", "cleanup"} => link'[Of(j)] \notin open'
        <3>1. CASE j = k
            BY <3>1, <2>5
        <3>2. CASE j # k
            BY <3>2, <1>2, <1>4, <1>7, <2>1, <2>6 DEF LInv, LinkCleared
        <3> QED
            BY <3>1, <3>2
    <2> QED
        BY <1>3, <2>4, <2>7 DEF LInv, LinkCleared
<1>9. CASE ~ConnectOk(k)
    <2>1. /\ open' \in {open, open \ {link[Of(k)]}}
          /\ link'[Of(k)] \in {link[Of(k)], NoSock}
          /\ link'[Of(k)] # link[Of(k)] => link[Of(k)] \notin open
          /\ task'[k] = "connecting" => link'[Of(k)] = NoSock
          /\ task'[k] \in {"closing", "cleanup"} => link'[Of(k)] \notin open'
        <3> USE <1>1, <1>6 DEF LInv, LinkCleared, IInv, TypeOK
        <3>1. CASE TaskStart(k)   BY <3>1 DEF TaskStart, EnterConnect
        <3>2. CASE TaskClosed(k)  BY <3>2 DEF TaskClosed, EnterConnect
        <3>3. CASE TestOk(k)      BY <3>3 DEF TestOk
        <3>4. CASE AttemptFails(k)  BY <3>4 DEF AttemptFails, EndAttempt
        <3>5. CASE CleanedUp(k)   BY <3>5 DEF CleanedUp, EndAttempt
        <3>6. CASE TaskCancel(k)  BY <3>6 DEF TaskCancel
        <3> QED
            BY <1>9, <3>1, <3>2, <3>3, <3>4, <3>5, <3>6 DEF TaskNext
    <2>2. AllLinked'
        BY <2>1, <1>1, <1>2 DEF LInv, AllLinked
    <2>3. ASSUME NEW j \in Tasks
          PROVE  /\ task'[j] = "connecting" => link'[Of(j)] = NoSock
                 /\ task'[j] \in {"closing", "cleanup"} => link'[Of(j)] \notin open'
        <3>1. CASE j = k
            BY <3>1, <2>1
        <3>2. CASE j # k
            BY <3>2, <1>2, <1>7, <2>1 DEF LInv, LinkCleared
        <3> QED
            BY <3>1, <3>2
    <2> QED
        BY <1>3, <2>2, <2>3 DEF LInv, LinkCleared
<1> QED
    BY <1>8, <1>9

\* A step that only closes sockets, and drops only what it closes or what is
\* closed, leaks nothing.
LEMMA ClosesOnly ==
    ASSUME IInv, LInv, open' \subseteq open, UNCHANGED <<task, hc, published>>,
           NEW c \in Conns, \A d \in Conns \ {c} : link'[d] = link[d],
           link'[c] # link[c] => link'[c] = NoSock /\ link[c] \notin open'
    PROVE  LInv'
<1>1. NoSock \notin open
    BY PoolAssumption DEF IInv, TypeOK
<1>2. AllLinked' /\ ChecksAfterInit'
    BY DEF LInv, AllLinked, ChecksAfterInit
<1>3. \A k \in Tasks : link'[Of(k)] = link[Of(k)] \/ link'[Of(k)] = NoSock
    BY TaskShape
<1>4. LinkCleared'
    BY <1>1, <1>3 DEF LInv, LinkCleared
<1> QED
    BY <1>2, <1>4 DEF LInv

LEMMA LinkStep ==
    ASSUME ~SlowInit, IInv, IInv', LInv, [Next]_vars
    PROVE  LInv'
<1>1. ASSUME UNCHANGED <<open, link, task>>, ChecksAfterInit'
      PROVE  LInv'
    BY <1>1 DEF LInv, AllLinked, LinkCleared
<1>2. CASE Publish \/ UNCHANGED vars
    BY <1>1, <1>2 DEF Publish, vars, poolVars, taskVars, hcVars, LInv, ChecksAfterInit
<1>3. ASSUME NEW s \in Sockets, ConnLost(s)
      PROVE  LInv'
    <2>1. open' \subseteq open /\ UNCHANGED <<link, task, hc, published>>
        BY <1>3 DEF ConnLost, taskVars, hcVars
    <2> QED
        BY <2>1 DEF LInv, AllLinked, LinkCleared, ChecksAfterInit
<1>4. ASSUME NEW k \in Tasks, TaskNext(k)
      PROVE  LInv'
    BY <1>4, ConnectorLinks
<1>5. CASE HcNext
    <2>1. CASE HcWake \/ HcLock \/ HcDone \/ HcCancel
        <3>1. UNCHANGED <<open, link, task, published>>
            BY <2>1 DEF HcWake, HcLock, HcDone, HcCancel, poolVars, taskVars
        <3>2. ChecksAfterInit'
            BY <2>1 DEF HcWake, HcLock, HcDone, HcCancel, LInv, ChecksAfterInit
        <3> QED
            BY <1>1, <3>1, <3>2
    <2>2. CASE HcConnect
        <3>1. /\ UNCHANGED <<open, link, published>>
              /\ \A k \in Tasks : task'[k] \in {task[k], "start"}
              /\ published
            BY <2>2 DEF HcConnect, poolVars, LInv, ChecksAfterInit
        <3> QED
            BY <3>1 DEF LInv, AllLinked, LinkCleared, ChecksAfterInit
    <2>3. CASE HcPong
        BY <1>1, <2>3 DEF HcPong, taskVars, LInv, ChecksAfterInit
    <2>4. CASE HcPingFails
        <3>1. ping \in Conns
            BY <2>4 DEF HcPingFails, IInv, TypeOK
        <3>2. /\ open' = open \ {link[ping]}
              /\ link'[ping] = NoSock
              /\ \A d \in Conns \ {ping} : link'[d] = link[d]
              /\ UNCHANGED <<task, hc, published>>
            BY <2>4, <3>1 DEF HcPingFails, taskVars, IInv, TypeOK
        <3>3. open' \subseteq open /\ link[ping] \notin open'
            BY <3>2
        <3> QED
            BY <3>1, <3>2, <3>3, ClosesOnly
    <2>5. ASSUME NEW c \in Conns, HcVisit(c)
          PROVE  LInv'
        <3>1. /\ open' \subseteq open
              /\ UNCHANGED <<task, hc, published>>
              /\ \A d \in Conns \ {c} : link'[d] = link[d]
              /\ link'[c] # link[c] => link'[c] = NoSock /\ link[c] \notin open'
            BY <2>5 DEF HcVisit, taskVars, IInv, TypeOK
        <3> QED
            BY <3>1, ClosesOnly
    <2> QED
        BY <1>5, <2>1, <2>2, <2>3, <2>4, <2>5 DEF HcNext
<1>6. ASSUME NEW u \in Users, UserNext(u)
      PROVE  LInv'
    <2>1. UNCHANGED <<open, link, task, hc, published>>
        BY <1>6 DEF UserNext, Request, Get, GetNone, Finish, Release, ReleaseCancelled,
                    Leave, poolVars, taskVars, hcVars
    <2> QED
        BY <1>1, <2>1 DEF LInv, ChecksAfterInit
<1>7. CASE StopNext
    <2>1. CASE StopBegin \/ StopLock \/ StopEnd
        <3>1. UNCHANGED <<open, link, task, hc, published>>
            BY <2>1 DEF StopBegin, StopLock, StopEnd, poolVars, taskVars, hcVars
        <3> QED
            BY <1>1, <3>1 DEF LInv, ChecksAfterInit
    <2>2. ASSUME NEW c \in Conns, StopClose(c)
          PROVE  LInv'
        <3>1. /\ open' = open \ {link[c]}
              /\ UNCHANGED <<task, hc, published>>
              /\ \A d \in Conns \ {c} : link'[d] = link[d]
              /\ link'[c] = NoSock
            BY <2>2 DEF StopClose, taskVars, IInv, TypeOK
        <3>2. open' \subseteq open /\ link[c] \notin open'
            BY <3>1
        <3> QED
            BY <3>1, <3>2, ClosesOnly
    <2> QED
        BY <1>7, <2>1, <2>2 DEF StopNext
<1> QED
    BY <1>2, <1>3, <1>4, <1>5, <1>6, <1>7 DEF Next

\* Unless initialize is slower than the first health check, every open socket
\* belongs to a connection of the pool, where shutdown finds it: see AllLinked.
THEOREM SocketsLinked == ~SlowInit => (Spec => []AllLinked)
<1> SUFFICES ASSUME ~SlowInit
             PROVE  Spec => []AllLinked
    OBVIOUS
<1>1. Init => LInv
    BY DEF Init, LInv, AllLinked, ChecksAfterInit, LinkCleared
<1>2. IInv /\ IInv' /\ LInv /\ [Next]_vars => LInv'
    BY LinkStep
<1>3. LInv => AllLinked
    BY DEF LInv
<1> QED
    BY <1>1, <1>2, <1>3, Invariance, PTL DEF Spec

\* With AllLinked, shutdown leaves no socket open.
THEOREM ShutdownClosesAll ==
    ~SlowInit => (Spec => [](stop = "done" => open = {}))
<1> SUFFICES ASSUME ~SlowInit
             PROVE  Spec => [](stop = "done" => open = {})
    OBVIOUS
<1>1. IInv /\ AllLinked => (stop = "done" => open = {})
    BY PoolAssumption DEF IInv, Closed, AllLinked, TypeOK
<1> QED
    BY <1>1, SocketsLinked, Invariance, PTL

-----------------------------------------------------------------------------
(* The pool implements exclusive leases.                                   *)

\* Connections are lost, or nothing happens.
LEMMA Shrinks ==
    ASSUME Avail' \subseteq Avail, lease' = lease
    PROVE  Leases!Next
<1>1. Avail \subseteq Conns
    BY DEF Avail
<1>2. Conns \ Avail' \in SUBSET Conns
    OBVIOUS
<1>3. Avail' = Avail \ (Conns \ Avail')
    BY <1>1
<1>4. Leases!Lose(Conns \ Avail')
    BY <1>3 DEF Leases!Lose
<1> QED
    BY <1>2, <1>4 DEF Leases!Next

\* One connection that nobody holds may have become available.
LEMMA Repairs ==
    ASSUME NEW c \in Conns, \A u \in Users : lease[u] # c, lease' = lease,
           \A d \in Conns \ {c} : d \in Avail' <=> d \in Avail
    PROVE  Leases!Next
<1>1. Avail \subseteq Conns /\ Avail' \subseteq Conns
    BY DEF Avail
<1>2. CASE c \in Avail'
    <2>1. Avail' = Avail \cup {c}
        BY <1>1, <1>2
    <2>2. Leases!Repair(c)
        BY <2>1 DEF Leases!Repair
    <2> QED
        BY <2>2 DEF Leases!Next
<1>3. CASE c \notin Avail'
    <2>1. Avail' \subseteq Avail
        BY <1>1, <1>3
    <2> QED
        BY <2>1, Shrinks
<1> QED
    BY <1>2, <1>3

LEMMA ConnectorLeases ==
    ASSUME IInv, NEW k \in Tasks, TaskNext(k)
    PROVE  Leases!Next
<1> Of(k) \in Conns
    BY TaskShape
<1>1. task[k] # "idle"
    BY DEF TaskNext, TaskStart, TaskClosed, ConnectOk, TestOk, AttemptFails,
           CleanedUp, TaskCancel
<1>2. \A u \in Users : lease[u] # Of(k)
    BY <1>1, ConnectorAlone
<1>3. lease' = lease
    BY DEF TaskNext, TaskStart, TaskClosed, ConnectOk, TestOk, AttemptFails,
           CleanedUp, TaskCancel, userVars
<1>4. CASE TaskStart(k) \/ TaskClosed(k) \/ AttemptFails(k) \/ CleanedUp(k) \/ TaskCancel(k)
    <2>1. /\ open' \subseteq open
          /\ \A d \in Conns : state'[d] = "READY" => state[d] = "READY"
          /\ \A d \in Conns : link'[d] = link[d] \/ link'[d] = NoSock
        BY <1>4 DEF IInv, TypeOK, TaskStart, TaskClosed, AttemptFails, CleanedUp,
                    TaskCancel, EnterConnect
    <2>2. NoSock \notin open
        BY PoolAssumption DEF IInv, TypeOK
    <2>3. Avail' \subseteq Avail
        BY <2>1, <2>2 DEF Avail, Healthy
    <2> QED
        BY <1>3, <2>3, Shrinks
<1>5. CASE ConnectOk(k)
    <2>1. PICK s \in Sockets \ (open \cup Referenced) :
             /\ open' = open \cup {s}
             /\ link' = [link EXCEPT ![Of(k)] = s]
             /\ state' = state
        BY <1>5 DEF ConnectOk
    <2>2. \A d \in Conns \ {Of(k)} : d \in Avail' <=> d \in Avail
        BY <2>1 DEF Avail, Healthy, Referenced, IInv, TypeOK
    <2> QED
        BY <1>2, <1>3, <2>2, Repairs
<1>6. CASE TestOk(k)
    <2>1. \A d \in Conns \ {Of(k)} : d \in Avail' <=> d \in Avail
        BY <1>6 DEF TestOk, Avail, Healthy, IInv, TypeOK
    <2> QED
        BY <1>2, <1>3, <2>1, Repairs
<1> QED
    BY <1>4, <1>5, <1>6 DEF TaskNext

LEMMA HcLeases ==
    ASSUME IInv, HcNext
    PROVE  Leases!Next
<1>1. CASE HcWake \/ HcLock \/ HcConnect \/ HcDone \/ HcCancel
    <2>1. UNCHANGED <<poolVars, userVars>>
        BY <1>1 DEF HcWake, HcLock, HcConnect, HcDone, HcCancel
    <2> QED
        BY <2>1, Shrinks DEF poolVars, userVars, Avail, Healthy
<1>2. ASSUME NEW c \in Conns, HcVisit(c)
      PROVE  Leases!Next
    <2>1. /\ open' = open /\ lease' = lease
          /\ \A d \in Conns : state'[d] = "READY" => state[d] = "READY" /\ link'[d] = link[d]
        BY <1>2 DEF HcVisit, userVars, IInv, TypeOK
    <2> QED
        BY <2>1, Shrinks DEF Avail, Healthy
<1>3. CASE HcPong \/ HcPingFails
    <2>1. ping \in Conns /\ \A u \in Users : lease[u] # ping
        BY <1>3, PoolAssumption DEF HcPong, HcPingFails, IInv, TypeOK, PoolKeepsOff
    <2>2. lease' = lease
        BY <1>3 DEF HcPong, HcPingFails, userVars
    <2>3. CASE HcPong
        <3>1. \A d \in Conns \ {ping} : d \in Avail' <=> d \in Avail
            BY <2>3 DEF HcPong, Avail, Healthy, IInv, TypeOK
        <3> QED
            BY <2>1, <2>2, <3>1, Repairs
    <2>4. CASE HcPingFails
        <3>1. Avail' \subseteq Avail
            BY <2>1, <2>4 DEF HcPingFails, Avail, Healthy, IInv, TypeOK
        <3> QED
            BY <2>2, <3>1, Shrinks
    <2> QED
        BY <1>3, <2>3, <2>4
<1> QED
    BY <1>1, <1>2, <1>3 DEF HcNext

LEMMA UserLeases ==
    ASSUME IInv, NEW u \in Users, UserNext(u)
    PROVE  Leases!Next
<1>1. CASE Request(u) \/ GetNone(u) \/ Finish(u)
    <2>1. UNCHANGED <<poolVars, lease>>
        BY <1>1 DEF Request, GetNone, Finish
    <2> QED
        BY <2>1, Shrinks DEF poolVars, Avail, Healthy
<1>2. CASE Get(u)
    <2>1. PICK c \in Conns :
            /\ Healthy(c)
            /\ state' = [state EXCEPT ![c] = "BUSY"]
            /\ lease' = [lease EXCEPT ![u] = c]
        BY <1>2 DEF Get
    <2>2. upc[u] = "getting" /\ UNCHANGED <<link, open>>
        BY <1>2 DEF Get
    <2>3. lease[u] = NoConn
        BY <2>2 DEF IInv, LeaseShape
    <2>4. c \in Avail /\ Avail' = Avail \ {c}
        BY <2>1, <2>2 DEF Avail, Healthy, IInv, TypeOK
    <2>5. Leases!Grant(u, c)
        BY <2>1, <2>3, <2>4 DEF Leases!Grant
    <2> QED
        BY <2>5 DEF Leases!Next
<1>3. CASE Release(u) \/ ReleaseCancelled(u)
    <2>1. /\ upc[u] = "releasing"
          /\ lease' = [lease EXCEPT ![u] = NoConn]
          /\ UNCHANGED <<link, open>>
        BY <1>3 DEF Release, ReleaseCancelled, Leave, poolVars
    <2>2. lease[u] # NoConn /\ lease[u] \in Conns
        BY <2>1 DEF IInv, TypeOK, LeaseShape
    <2>3. \A d \in Conns : Healthy(d)' <=> Healthy(d)
        BY <1>3, <2>1, <2>2 DEF Release, ReleaseCancelled, poolVars, Healthy, IInv, TypeOK
    <2>4. Avail' = Avail
        BY <2>3 DEF Avail
    <2>5. Leases!Return(u)
        BY <2>1, <2>2, <2>4 DEF Leases!Return
    <2> QED
        BY <2>5 DEF Leases!Next
<1> QED
    BY <1>1, <1>2, <1>3 DEF UserNext

LEMMA StopLeases ==
    ASSUME IInv, StopNext
    PROVE  Leases!Next
<1>1. CASE StopBegin \/ StopLock \/ StopEnd
    <2>1. UNCHANGED <<poolVars, userVars>>
        BY <1>1 DEF StopBegin, StopLock, StopEnd
    <2> QED
        BY <2>1, Shrinks DEF poolVars, userVars, Avail, Healthy
<1>2. ASSUME NEW c \in Conns, StopClose(c)
      PROVE  Leases!Next
    <2>1. /\ open' \subseteq open /\ lease' = lease
          /\ \A d \in Conns : state'[d] = "READY" => state[d] = "READY" /\ link'[d] = link[d]
        BY <1>2 DEF StopClose, userVars, IInv, TypeOK
    <2> QED
        BY <2>1, Shrinks DEF Avail, Healthy
<1> QED
    BY <1>1, <1>2 DEF StopNext

LEMMA LeaseStep == IInv /\ [Next]_vars => [Leases!Next]_(Leases!leaseVars)
<1> SUFFICES ASSUME IInv, [Next]_vars
             PROVE  [Leases!Next]_(Leases!leaseVars)
    OBVIOUS
<1>1. CASE Publish
    BY <1>1 DEF Publish, poolVars, userVars, Avail, Healthy, Leases!leaseVars
<1>2. ASSUME NEW s \in Sockets, ConnLost(s)
      PROVE  Leases!Next
    BY <1>2, Shrinks DEF ConnLost, userVars, Avail, Healthy
<1>3. CASE UNCHANGED vars
    BY <1>3 DEF vars, poolVars, userVars, Avail, Healthy, Leases!leaseVars
<1> QED
    BY <1>1, <1>2, <1>3, ConnectorLeases, HcLeases, UserLeases, StopLeases DEF Next

\* The pool implements LeasePool: no step makes a connection available while it
\* is out, whatever connectors, health check, users and shutdown do.
THEOREM Implements == Spec => ImplementsLeases
<1>1. Init => Leases!Init
    BY DEF Init, Leases!Init, Avail, Healthy
<1> QED
    BY <1>1, LeaseStep, Invariance, PTL DEF Spec, ImplementsLeases, Leases!Spec

=============================================================================
