-------------------------- MODULE Monitoring_proofs --------------------------
(* What holds of Monitoring for any number of calls and connections, any   *)
(* of the metrics and any life of the cache.  Good says of each call what  *)
(* the place it is at implies, CacheRight of each entry what it is for.    *)
EXTENDS Monitoring, TLAPS

Collecting == {"basic", "detail"}

Good(u) ==
    /\ \A m \in Metrics : probe[u][m] \in DOMAIN Plan[m] \cup {"idle", "done"}
    /\ Running(u) # {} => pc[u] \in Collecting
    /\ lease[u] # NoConn <=> pc[u] \in Collecting \cup {"release", "kept"}
    /\ answer[u] \in {{}, Wanted(detailed[u])}
    /\ pc[u] \in {"new", "get"} \cup Collecting => answer[u] = {}
    /\ hit[u] => answer[u] = {} /\ pc[u] \in Collecting \cup {"release", "over", "kept"}

CacheRight == \A k \in BOOLEAN : cache[k] # NoEntry => cache[k].metrics = Wanted(k)

IInv == TypeOK /\ CacheRight /\ \A u \in Calls : Good(u)

\* A step that leaves the state of a call alone keeps what is true of it.
LEMMA Frame ==
    ASSUME NEW v \in Calls, Good(v),
           lease'[v] = lease[v], pc'[v] = pc[v], detailed'[v] = detailed[v],
           probe'[v] = probe[v], hit'[v] = hit[v], answer'[v] = answer[v]
    PROVE  Good(v)'
BY DEF Good, Running

Closed(p) ==
    \A c \in DOMAIN p, how \in {"ok", "failed", "cancelled"} :
        p[c][how] \in DOMAIN p \cup {"done"}

\* A metric goes from one of its commands to another one, or is done.
LEMMA PlanClosed == ASSUME NEW m \in Metrics PROVE Closed(Plan[m])
<1>0. Closed(Cpu)
  <2>1. /\ Cpu.stat = [ok |-> "nproc", failed |-> "top", cancelled |-> "done"]
        /\ Cpu.nproc = [ok |-> "done", failed |-> "top", cancelled |-> "done"]
        /\ Cpu.top = [ok |-> "done", failed |-> "done", cancelled |-> "done"]
        /\ DOMAIN Cpu = {"stat", "nproc", "top"}
    BY DEF Cpu, Last
  <2> QED BY <2>1 DEF Closed
<1>1. Closed(Memory)
  BY DEF Closed, Memory, Last
<1>2. Closed(Disk) /\ Closed(Load) /\ Closed(Uptime) /\ Closed(Network)
  BY DEF Closed, Disk, Load, Uptime, Network, Last
<1>3. Closed(Process) /\ Closed(System)
  BY DEF Closed, Process, System, Last
<1>4. m \in DOMAIN Plan
  BY MonitoringAssumption
<1>5. Plan[m] \in {Cpu, Memory, Disk, Load, Uptime, Network, Process, System}
  BY <1>4 DEF Plan
<1> QED BY <1>0, <1>1, <1>2, <1>3, <1>5

LEMMA FirstFits ==
    ASSUME NEW m \in Metrics PROVE First[m] \in DOMAIN Plan[m]
BY MonitoringAssumption
   DEF First, Plan, Cpu, Memory, Disk, Load, Uptime, Network, Process, System, Last

LEMMA CommandsOfAll ==
    ASSUME NEW m \in Metrics PROVE DOMAIN Plan[m] \subseteq Commands
BY DEF Commands

\* No command has the name of a state.
LEMMA Apart == "idle" \notin Commands /\ "done" \notin Commands
<1>1. ASSUME NEW m \in Metrics PROVE "idle" \notin DOMAIN Plan[m] /\ "done" \notin DOMAIN Plan[m]
  BY MonitoringAssumption
     DEF Plan, Cpu, Memory, Disk, Load, Uptime, Network, Process, System, Last
<1> QED BY <1>1 DEF Commands

\* A metric whose command is under way waits for one of its own.
LEMMA OwnCommand ==
    ASSUME NEW u \in Calls, Good(u), NEW m \in Running(u)
    PROVE  m \in Metrics /\ probe[u][m] \in DOMAIN Plan[m]
BY Apart DEF Good, Running

LEMMA InitGood == Init => IInv
<1> SUFFICES ASSUME Init PROVE IInv
  OBVIOUS
<1> USE MonitoringAssumption DEF Init, Pool!Init
<1>1. TypeOK
  BY DEF TypeOK, Idle
<1>2. CacheRight
  BY DEF CacheRight
<1>3. ASSUME NEW u \in Calls PROVE Good(u)
  BY Apart DEF Good, Collecting, Running, Idle
<1> QED BY <1>1, <1>2, <1>3 DEF IInv

\* A call begins: it finds an answer in the cache, or goes to the pool.
LEMMA Calling ==
    ASSUME IInv, NEW u \in Calls, NEW d \in BOOLEAN, Call(u, d) PROVE IInv'
<1> USE DEF IInv, Goto, poolVars
<1>0. Good(u) /\ TypeOK /\ CacheRight
  OBVIOUS
<1> DEFINE e == cache[Key(d)]
<1>1. CASE e # NoEntry /\ now - e.at < TTL
  <2>1. e.metrics \in SUBSET Metrics /\ e.metrics = Wanted(d)
    BY <1>0, <1>1 DEF TypeOK, CacheRight, Key
  <2>2. /\ pc' = [pc EXCEPT ![u] = "over"] /\ answer' = [answer EXCEPT ![u] = e.metrics]
        /\ detailed' = [detailed EXCEPT ![u] = d]
        /\ UNCHANGED <<avail, lease, now, cache, probe, hit>>
    BY <1>1 DEF Call
  <2> HIDE DEF e
  <2>3. TypeOK'
    BY <1>0, <2>1, <2>2 DEF TypeOK
  <2>4. CacheRight'
    BY <1>0, <2>2 DEF CacheRight
  <2>5. pc[u] = "new"
    BY DEF Call
  <2>6. Good(u)'
    BY <1>0, <2>1, <2>2, <2>5 DEF Good, Collecting, Running, TypeOK
  <2>7. ASSUME NEW v \in Calls, v # u PROVE Good(v)'
    BY <1>0, <2>2, <2>7, Frame DEF TypeOK
  <2> QED BY <2>3, <2>4, <2>6, <2>7
<1>2. CASE ~(e # NoEntry /\ now - e.at < TTL)
  <2>1. /\ pc[u] = "new" /\ pc' = [pc EXCEPT ![u] = "get"]
        /\ detailed' = [detailed EXCEPT ![u] = d]
        /\ UNCHANGED <<avail, lease, now, cache, probe, hit, answer>>
    BY <1>2 DEF Call
  <2> HIDE DEF e
  <2>2. TypeOK'
    BY <1>0, <2>1 DEF TypeOK
  <2>3. CacheRight'
    BY <1>0, <2>1 DEF CacheRight
  <2>4. Good(u)'
    BY <1>0, <2>1 DEF Good, Collecting, Running, TypeOK
  <2>5. ASSUME NEW v \in Calls, v # u PROVE Good(v)'
    BY <1>0, <2>1, <2>5, Frame DEF TypeOK
  <2> QED BY <2>2, <2>3, <2>4, <2>5
<1> QED BY <1>1, <1>2

\* A call has its connection, and begins to collect, or gets none.
LEMMA Getting ==
    ASSUME IInv, NEW u \in Calls, Get(u) \/ GetNone(u) PROVE IInv'
<1>0. Good(u) /\ TypeOK /\ CacheRight
  BY DEF IInv
<1> USE DEF Goto, poolVars
<1>1. CASE Get(u)
  <2>1. PICK c \in Conns : Pool!Grant(u, c)
    BY <1>1 DEF Get
  <2>2. /\ pc[u] = "get" /\ pc' = [pc EXCEPT ![u] = "basic"]
        /\ lease' = [lease EXCEPT ![u] = c] /\ avail' = avail \ {c}
        /\ UNCHANGED <<now, cache, detailed, hit, answer>>
    BY <1>1, <2>1 DEF Get, Pool!Grant
  <2>3. probe' = [probe EXCEPT ![u] =
                     [m \in Metrics |-> IF m \in Basics THEN First[m] ELSE probe[u][m]]]
    BY <1>0, <1>1 DEF Get, Start, TypeOK
  <2>4. \A m \in Metrics : First[m] \in DOMAIN Plan[m] /\ First[m] \in Commands
    BY FirstFits, CommandsOfAll
  <2>5. TypeOK'
    BY <1>0, <2>2, <2>3, <2>4 DEF TypeOK
  <2>6. CacheRight'
    BY <1>0, <2>2 DEF CacheRight
  <2>7. Good(u)'
    BY <1>0, <2>2, <2>3, <2>4, MonitoringAssumption DEF Good, Collecting, TypeOK
  <2>8. ASSUME NEW v \in Calls, v # u PROVE Good(v)'
    BY <1>0, <2>2, <2>3, <2>8, Frame DEF TypeOK, IInv
  <2> QED BY <2>5, <2>6, <2>7, <2>8 DEF IInv
<1>2. CASE GetNone(u)
  <2>1. TypeOK' /\ CacheRight'
    BY <1>0, <1>2 DEF GetNone, TypeOK, CacheRight
  <2>2. Good(u)'
    BY <1>0, <1>2 DEF GetNone, Good, Collecting, Running, TypeOK
  <2>3. ASSUME NEW v \in Calls, v # u PROVE Good(v)'
    BY <1>0, <1>2, <2>3, Frame DEF GetNone, TypeOK, IInv
  <2> QED BY <2>1, <2>2, <2>3 DEF IInv
<1> QED BY <1>1, <1>2

\* Metrics that wait for a command go on with it, in any way.
LEMMA ProbeMoves ==
    ASSUME IInv, NEW u \in Calls, NEW M \in SUBSET Running(u),
           NEW how \in [M -> {"ok", "failed", "cancelled"}],
           probe' = [probe EXCEPT ![u] =
               [m \in Metrics |-> IF m \in M THEN Plan[m][probe[u][m]][how[m]]
                                  ELSE probe[u][m]]]
    PROVE  /\ probe' \in [Calls -> [Metrics -> Commands \cup {"idle", "done"}]]
           /\ \A m \in Metrics : probe'[u][m] \in DOMAIN Plan[m] \cup {"idle", "done"}
<1>0. Good(u) /\ TypeOK
  BY DEF IInv
<1>1. ASSUME NEW m \in Metrics
      PROVE  probe'[u][m] \in DOMAIN Plan[m] \cup {"idle", "done"}
  <2>0. probe'[u][m] = IF m \in M THEN Plan[m][probe[u][m]][how[m]] ELSE probe[u][m]
    BY <1>0 DEF TypeOK
  <2>1. CASE m \in M
    <3>1. probe[u][m] \in DOMAIN Plan[m]
      BY <1>0, <2>1, OwnCommand
    <3> QED BY <2>0, <2>1, <3>1, PlanClosed DEF Closed
  <2>2. CASE m \notin M
    BY <1>0, <2>0, <2>2 DEF Good
  <2> QED BY <2>1, <2>2
<1>2. \A m \in Metrics : probe'[u][m] \in Commands \cup {"idle", "done"}
  BY <1>1, CommandsOfAll
<1>3. probe'[u] \in [Metrics -> Commands \cup {"idle", "done"}]
  <2>1. probe'[u] = [m \in Metrics |-> probe'[u][m]]
    BY <1>0 DEF TypeOK
  <2> QED BY <1>2, <2>1
<1> QED BY <1>0, <1>1, <1>3 DEF TypeOK

\* A command ends, or all that are under way are cancelled.
LEMMA Collects ==
    ASSUME IInv, NEW u \in Calls,
           (\E m \in Metrics : CommandEnds(u, m)) \/ CancelCollect(u)
    PROVE  IInv'
<1>0. Good(u) /\ TypeOK /\ CacheRight
  BY DEF IInv
<1> USE DEF poolVars
<1>1. CASE \E m \in Metrics : CommandEnds(u, m)
  <2>1. PICK m \in Metrics : CommandEnds(u, m)
    BY <1>1
  <2>2. PICK h \in {"ok", "failed"} :
           probe' = [probe EXCEPT ![u][m] = Plan[m][probe[u][m]][h]]
    BY <2>1 DEF CommandEnds
  <2>3. /\ m \in Running(u)
        /\ UNCHANGED <<avail, lease, now, cache, pc, detailed, hit, answer>>
    BY <2>1 DEF CommandEnds
  <2> DEFINE how == [n \in {m} |-> h]
  <2>4. probe' = [probe EXCEPT ![u] =
           [n \in Metrics |-> IF n \in {m} THEN Plan[n][probe[u][n]][how[n]] ELSE probe[u][n]]]
    <3>1. [probe[u] EXCEPT ![m] = Plan[m][probe[u][m]][h]] =
             [n \in Metrics |-> IF n \in {m} THEN Plan[n][probe[u][n]][how[n]] ELSE probe[u][n]]
      BY <1>0 DEF TypeOK
    <3> QED BY <2>2, <3>1
  <2>5. {m} \in SUBSET Running(u) /\ how \in [{m} -> {"ok", "failed", "cancelled"}]
    BY <2>3
  <2> HIDE DEF how
  <2>6. /\ probe' \in [Calls -> [Metrics -> Commands \cup {"idle", "done"}]]
        /\ \A n \in Metrics : probe'[u][n] \in DOMAIN Plan[n] \cup {"idle", "done"}
    BY <2>4, <2>5, ProbeMoves
  <2>7. TypeOK' /\ CacheRight'
    BY <1>0, <2>3, <2>6 DEF TypeOK, CacheRight
  <2>8. Good(u)'
    BY <1>0, <2>3, <2>6 DEF Good
  <2>9. ASSUME NEW v \in Calls, v # u PROVE Good(v)'
    BY <1>0, <2>2, <2>3, <2>9, Frame DEF TypeOK, IInv
  <2> QED BY <2>7, <2>8, <2>9 DEF IInv
<1>2. CASE CancelCollect(u)
  <2> DEFINE how == [n \in Running(u) |-> "cancelled"]
  <2>1. /\ pc[u] \in Collecting /\ hit' = [hit EXCEPT ![u] = TRUE]
        /\ UNCHANGED <<avail, lease, now, cache, pc, detailed, answer>>
    BY <1>2 DEF CancelCollect, Collecting
  <2>2. probe' = [probe EXCEPT ![u] =
           [n \in Metrics |-> IF n \in Running(u) THEN Plan[n][probe[u][n]][how[n]]
                              ELSE probe[u][n]]]
    BY <1>2 DEF CancelCollect
  <2>3. how \in [Running(u) -> {"ok", "failed", "cancelled"}]
    OBVIOUS
  <2> HIDE DEF how
  <2>4. /\ probe' \in [Calls -> [Metrics -> Commands \cup {"idle", "done"}]]
        /\ \A n \in Metrics : probe'[u][n] \in DOMAIN Plan[n] \cup {"idle", "done"}
    BY <2>2, <2>3, ProbeMoves
  <2>5. TypeOK' /\ CacheRight'
    BY <1>0, <2>1, <2>4 DEF TypeOK, CacheRight
  <2>6. Good(u)'
    BY <1>0, <2>1, <2>4 DEF Good, Collecting
  <2>7. ASSUME NEW v \in Calls, v # u PROVE Good(v)'
    BY <1>0, <2>1, <2>2, <2>7, Frame DEF TypeOK, IInv
  <2> QED BY <2>5, <2>6, <2>7 DEF IInv
<1> QED BY <1>1, <1>2

\* A call has all its metrics: it goes on to the details, or caches and answers, or, if
\* it was cancelled, leaves.
LEMMA Gathering ==
    ASSUME IInv, NEW u \in Calls, Gathered(u) PROVE IInv'
<1>0. Good(u) /\ TypeOK /\ CacheRight
  BY DEF IInv
<1> USE DEF Goto, poolVars
<1>1. /\ pc[u] \in Collecting /\ Running(u) = {} /\ answer[u] = {}
      /\ UNCHANGED <<avail, lease, now, detailed, hit>>
  BY <1>0 DEF Gathered, Good, Collecting
<1>2. CASE pc[u] = "basic" /\ detailed[u] /\ ~hit[u]
  <2>1. /\ pc' = [pc EXCEPT ![u] = "detail"] /\ UNCHANGED <<cache, answer>>
        /\ probe' = [probe EXCEPT ![u] =
               [m \in Metrics |-> IF m \in Details THEN First[m] ELSE probe[u][m]]]
    BY <1>0, <1>2 DEF Gathered, Start, TypeOK
  <2>2. \A m \in Metrics : First[m] \in DOMAIN Plan[m] /\ First[m] \in Commands
    BY FirstFits, CommandsOfAll
  <2>3. TypeOK' /\ CacheRight'
    BY <1>0, <1>1, <2>1, <2>2 DEF TypeOK, CacheRight
  <2>4. Good(u)'
    BY <1>0, <1>1, <1>2, <2>1, <2>2 DEF Good, Collecting, TypeOK
  <2>5. ASSUME NEW v \in Calls, v # u PROVE Good(v)'
    BY <1>0, <1>1, <2>1, <2>5, Frame DEF TypeOK, IInv
  <2> QED BY <2>3, <2>4, <2>5 DEF IInv
<1>3. CASE ~(pc[u] = "basic" /\ detailed[u] /\ ~hit[u]) /\ hit[u]
  <2>1. pc' = [pc EXCEPT ![u] = "release"] /\ UNCHANGED <<cache, answer, probe>>
    BY <1>3 DEF Gathered
  <2>2. TypeOK' /\ CacheRight'
    BY <1>0, <1>1, <2>1 DEF TypeOK, CacheRight
  <2>3. Good(u)'
    BY <1>0, <1>1, <2>1 DEF Good, Collecting, TypeOK, Running
  <2>4. ASSUME NEW v \in Calls, v # u PROVE Good(v)'
    BY <1>0, <1>1, <2>1, <2>4, Frame DEF TypeOK, IInv
  <2> QED BY <2>2, <2>3, <2>4 DEF IInv
<1>4. CASE ~(pc[u] = "basic" /\ detailed[u] /\ ~hit[u]) /\ ~hit[u]
  <2> DEFINE d == detailed[u]
             e == [at |-> now, metrics |-> Wanted(d)]
  <2>1. /\ pc' = [pc EXCEPT ![u] = "release"] /\ UNCHANGED probe
        /\ cache' = [cache EXCEPT ![d] = e]
        /\ answer' = [answer EXCEPT ![u] = Wanted(d)]
    BY <1>4 DEF Gathered, Key
  <2>2. d \in BOOLEAN /\ Wanted(d) \in SUBSET Metrics
    BY <1>0 DEF TypeOK, Wanted, Basics
  <2>3. e \in [at : 0..MaxTime, metrics : SUBSET Metrics] /\ e.metrics = Wanted(d)
    BY <1>0, <2>2 DEF TypeOK
  <2>4. \A k \in BOOLEAN : cache'[k] = IF k = d THEN e ELSE cache[k]
    BY <1>0, <2>1, <2>2 DEF TypeOK
  <2> HIDE DEF e
  <2>5. TypeOK'
    BY <1>0, <1>1, <2>1, <2>2, <2>3 DEF TypeOK
  <2>6. CacheRight'
    BY <1>0, <2>3, <2>4 DEF CacheRight
  <2>7. Good(u)'
    BY <1>0, <1>1, <1>4, <2>1, <2>2 DEF Good, Collecting, TypeOK, Running
  <2>8. ASSUME NEW v \in Calls, v # u PROVE Good(v)'
    BY <1>0, <1>1, <2>1, <2>8, Frame DEF TypeOK, IInv
  <2> QED BY <2>5, <2>6, <2>7, <2>8 DEF IInv
<1> QED BY <1>2, <1>3, <1>4

\* A call gives its connection back, or no longer waits for the pool.
LEMMA Leaving ==
    ASSUME IInv, NEW u \in Calls, Release(u) \/ CancelAtPool(u) PROVE IInv'
<1>0. Good(u) /\ TypeOK /\ CacheRight
  BY DEF IInv
<1>1. /\ pc[u] \in {"get", "release"}
      /\ \/ lease' = [lease EXCEPT ![u] = NoConn] /\ pc' = [pc EXCEPT ![u] = "over"]
         \/ pc[u] = "get" /\ lease' = lease /\ pc' = [pc EXCEPT ![u] = "over"]
         \/ pc[u] = "release" /\ lease' = lease /\ pc' = [pc EXCEPT ![u] = "kept"]
      /\ answer' = answer \/ answer' = [answer EXCEPT ![u] = {}]
      /\ UNCHANGED <<avail, now, cache, detailed, probe, hit>>
  BY <1>0 DEF Release, CancelAtPool, Goto, poolVars, Pool!Return, TypeOK
<1>2. TypeOK' /\ CacheRight'
  BY <1>0, <1>1 DEF TypeOK, CacheRight
<1>3. Good(u)'
  BY <1>0, <1>1 DEF Good, Collecting, TypeOK, Running
<1>4. ASSUME NEW v \in Calls, v # u PROVE Good(v)'
  BY <1>0, <1>1, <1>4, Frame DEF TypeOK, IInv
<1> QED BY <1>2, <1>3, <1>4 DEF IInv

\* What happens around the calls.
LEMMA Around ==
    ASSUME IInv, ClearCache \/ Tick \/ PoolNext PROVE IInv'
<1>0. TypeOK /\ CacheRight
  BY DEF IInv
<1>1. UNCHANGED <<lease, pc, detailed, probe, hit, answer>>
  BY DEF ClearCache, Tick, PoolNext, poolVars, Pool!Repair, Pool!Lose
<1>2. \A v \in Calls : Good(v)'
  BY <1>1, Frame DEF IInv
<1>3. CASE ClearCache
  BY <1>0, <1>1, <1>2, <1>3 DEF ClearCache, poolVars, IInv, TypeOK, CacheRight
<1>4. CASE Tick
  BY <1>0, <1>1, <1>2, <1>4, MonitoringAssumption DEF Tick, poolVars, IInv, TypeOK, CacheRight
<1>5. CASE PoolNext
  <2>1. avail' \subseteq Conns /\ UNCHANGED <<now, cache>>
    BY <1>0, <1>5 DEF PoolNext, Pool!Repair, Pool!Lose, TypeOK
  <2> QED BY <1>0, <1>1, <1>2, <2>1 DEF IInv, TypeOK, CacheRight
<1> QED BY <1>3, <1>4, <1>5

LEMMA StepGood == IInv /\ [Next]_vars => IInv'
<1> SUFFICES ASSUME IInv, [Next]_vars PROVE IInv'
  OBVIOUS
<1>1. CASE UNCHANGED vars
  BY <1>1 DEF vars, IInv, TypeOK, CacheRight, Good, Running
<1>2. CASE Next
  BY <1>2, Calling, Getting, Collects, Gathering, Leaving, Around DEF Next, Step
<1> QED BY <1>1, <1>2

THEOREM Inductive == Spec => []IInv
BY InitGood, StepGood, PTL DEF Spec

\* Every variable keeps its type.
THEOREM TypeCorrect == Spec => []TypeOK
BY Inductive, PTL DEF IInv

\* However commands end and calls are cancelled, a call's commands run on the connection it
\* holds, and it gives it back when the last one is over.
THEOREM ConnectionsHeld == Spec => []ProbesHold
<1>1. IInv => ProbesHold
  BY DEF IInv, Good, ProbesHold, Collecting
<1> QED BY Inductive, <1>1, PTL

\* A call is answered with what it asked for, collected by itself or by another call.
THEOREM AnswersRight == Spec => []AnswersFit
<1>1. IInv => AnswersFit
  BY DEF IInv, Good, AnswersFit
<1> QED BY Inductive, <1>1, PTL

\* A call that was cancelled while it collected leaves nothing behind.
THEOREM CancellationsHeeded == Spec => CancelHeeded
<1>1. ASSUME IInv, [Next]_vars, NEW u \in Calls, hit[u], pc'[u] # pc[u]
      PROVE  pc'[u] # "detail" /\ cache' = cache /\ answer'[u] = {}
  <2>1. TypeOK /\ Good(u)
    BY <1>1 DEF IInv
  <2>2. /\ answer[u] = {}
        /\ pc[u] \in Collecting \cup {"release", "over", "kept"}
    BY <1>1, <2>1 DEF Good
  <2>3. CASE Gathered(u)
    BY <1>1, <2>1, <2>2, <2>3 DEF Gathered, Goto, TypeOK
  <2>4. CASE Release(u) \/ CancelAtPool(u)
    BY <1>1, <2>1, <2>2, <2>4 DEF Release, CancelAtPool, Goto, TypeOK
  <2>5. Gathered(u) \/ Release(u) \/ CancelAtPool(u)
    <3>1. ASSUME NEW v \in Calls, v # u,
                 \/ \E d \in BOOLEAN : Call(v, d)
                 \/ Step(v) \/ CancelAtPool(v) \/ CancelCollect(v)
                 \/ \E m \in Metrics : CommandEnds(v, m)
          PROVE  pc'[u] = pc[u]
      BY <2>1, <3>1 DEF Call, Step, Get, GetNone, Gathered, Release, CancelAtPool,
                        CancelCollect, CommandEnds, Goto, TypeOK
    <3>2. ClearCache \/ Tick \/ PoolNext \/ UNCHANGED vars => pc' = pc
      BY DEF ClearCache, Tick, PoolNext, vars
    <3>3. ASSUME \/ \E d \in BOOLEAN : Call(u, d)
                 \/ Get(u) \/ GetNone(u) \/ CancelCollect(u)
                 \/ \E m \in Metrics : CommandEnds(u, m)
          PROVE  pc'[u] = pc[u]
      BY <2>2, <3>3 DEF Call, Get, GetNone, CancelCollect, CommandEnds, Collecting
    <3> QED BY <1>1, <3>1, <3>2, <3>3 DEF Next, Step
  <2> QED BY <2>3, <2>4, <2>5
<1>2. IInv /\ [Next]_vars =>
        [\A u \in Calls : hit[u] /\ pc'[u] # pc[u] =>
            pc'[u] # "detail" /\ cache' = cache /\ answer'[u] = {}]_vars
  BY <1>1
<1> QED BY Inductive, <1>2, PTL DEF Spec, CancelHeeded

-----------------------------------------------------------------------------
(* The calls and the pool: what a call does to a connection, it does as a  *)
(* user of the LeasePool, which ConnectionPool implements                  *)
(* (ConnectionPool_proofs, Implements).                                    *)

\* What a call does with the pool, if anything.
LEMMA CallUsesPool ==
    ASSUME NEW u \in Calls,
           \/ \E d \in BOOLEAN : Call(u, d)
           \/ Step(u) \/ CancelAtPool(u) \/ CancelCollect(u)
           \/ \E m \in Metrics : CommandEnds(u, m)
    PROVE  \/ \E c \in Conns : Pool!Grant(u, c)
           \/ Pool!Return(u)
           \/ UNCHANGED poolVars
<1>1. CASE Get(u)
  BY <1>1 DEF Get
<1>2. CASE Release(u)
  BY <1>2 DEF Release
<1>3. CASE GetNone(u) \/ Gathered(u) \/ CancelCollect(u) \/ CancelAtPool(u)
  BY <1>3 DEF GetNone, Gathered, CancelCollect, CancelAtPool
<1>4. CASE \/ \E d \in BOOLEAN : Call(u, d)
           \/ \E m \in Metrics : CommandEnds(u, m)
  BY <1>4 DEF Call, CommandEnds
<1> QED BY <1>1, <1>2, <1>3, <1>4 DEF Step

LEMMA StepUsesPool == TypeOK /\ [Next]_vars => [Pool!Next]_(Pool!leaseVars)
<1> SUFFICES ASSUME TypeOK, [Next]_vars PROVE [Pool!Next]_(Pool!leaseVars)
  OBVIOUS
<1> USE DEF Pool!Next, Pool!leaseVars, poolVars
<1>1. ASSUME NEW u \in Calls,
             \/ \E c \in Conns : Pool!Grant(u, c)
             \/ Pool!Return(u)
             \/ UNCHANGED poolVars
      PROVE  [Pool!Next]_(Pool!leaseVars)
  BY <1>1
<1>2. CASE PoolNext
  <2>1. SUBSET avail \subseteq SUBSET Conns
    BY DEF TypeOK
  <2> QED BY <1>2, <2>1 DEF PoolNext
<1>3. CASE ClearCache \/ Tick \/ UNCHANGED vars
  BY <1>3 DEF ClearCache, Tick, vars
<1> QED BY <1>1, <1>2, <1>3, CallUsesPool DEF Next

\* The commands of all metrics share the call's one connection, which it takes and
\* gives back only as a user of the pool may, also when it is cancelled.
THEOREM UsesPool == Spec => Pool!Spec
<1>1. Init => Pool!Init
  BY DEF Init
<1> QED BY <1>1, StepUsesPool, TypeCorrect, PTL DEF Spec, Pool!Spec
=============================================================================
