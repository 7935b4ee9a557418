-------------------------- MODULE ServiceTool_proofs --------------------------
(* What holds of ServiceTool for any number of calls and connections.  An  *)
(* undisturbed detection stays on the probes its server leads to (OnPath)  *)
(* and so comes to one of what the server may be taken for (Taken); Good   *)
(* says of each call what the place it is at implies.                      *)
EXTENDS ServiceTool, TLAPS

\* The probes an undisturbed detection gets to.
OnPath(h) ==
    IF h = "systemd" THEN {"rundir"}
    ELSE {"rundir", "version", "pid1", "units", "initctl"}
         \cup IF h = "upstart" THEN {} ELSE {"initd"}
         \cup IF h = "unknown" THEN {"box", "running"} ELSE {}

Holding == {"probe", "family", "release1", "run", "running", "release2", "kept"}

Good(u) ==
    /\ lease[u] # NoConn <=> pc[u] \in Holding
    /\ pc[u] \in {"new", "getinfo"} => probe[u] = "rundir" /\ info[u] = "none" /\ sure[u]
    /\ pc[u] = "probe" => info[u] = "none"
    /\ pc[u] = "probe" /\ sure[u] => probe[u] \in OnPath(host)
    /\ info[u] # "none" /\ sure[u] => info[u] \in Taken(host)
    /\ pc[u] \in {"family", "get", "run", "running"} => info[u] # "none"
    /\ pc[u] = "release1" /\ gone[u] # "heeded" => info[u] # "none"
    /\ gone[u] = "heeded" => pc[u] \in {"release1", "release2", "over", "kept"}
    /\ pc[u] = "kept" => gone[u] = "heeded"

CacheSure == cache # NoInfo => (cache.sure => cache.init \in Taken(host))

IInv == TypeOK /\ CacheSure /\ \A u \in Calls : Good(u)

\* A step that leaves the state of a call alone keeps what is true of it.
LEMMA Frame ==
    ASSUME NEW v \in Calls, Good(v), host' = host,
           lease'[v] = lease[v], pc'[v] = pc[v], probe'[v] = probe[v], info'[v] = info[v],
           sure'[v] = sure[v], gone'[v] = gone[v]
    PROVE  Good(v)'
BY DEF Good, Holding, OnPath, Taken

\* Where the cascade leads.
LEMMA CascadeTyped ==
    ASSUME NEW p \in Probes, NEW a \in {"yes", "init", "no"}
    PROVE  Cascade[p][a] \in Probes \cup Inits
BY DEF Probes, Cascade, Inits

\* Honest answers keep a detection on its path until it comes to what the server may
\* be taken for.
LEMMA CascadeRight ==
    ASSUME NEW h \in Hosts, NEW p \in OnPath(h), NEW a \in Honest(h, p)
    PROVE  /\ a \in {"yes", "init", "no"}
           /\ Cascade[p][a] \in OnPath(h) \cup Taken(h)
BY DEF Hosts, Inits, OnPath, Taken, Honest, Cascade

\* Probes and init systems have different names.
LEMMA Apart == Probes \cap Inits = {} /\ "none" \notin Inits \cup Probes
BY DEF Probes, Cascade, Inits

LEMMA HonestTyped ==
    ASSUME NEW h \in Hosts, NEW p \in Probes, NEW a \in Honest(h, p)
    PROVE  a \in {"yes", "init", "no"}
BY DEF Hosts, Inits, Probes, Cascade, Honest

LEMMA InitGood == Init => IInv
<1> SUFFICES ASSUME Init PROVE IInv
  OBVIOUS
<1> USE ServiceAssumption DEF Init, Pool!Init, Hosts, Inits
<1>1. TypeOK
  BY DEF TypeOK, Probes, Cascade
<1>2. CacheSure
  BY DEF CacheSure
<1>3. ASSUME NEW u \in Calls PROVE Good(u)
  BY DEF Good, Holding, OnPath
<1> QED BY <1>1, <1>2, <1>3 DEF IInv

\* A call begins and gets its connections, or does not.
LEMMA Looking ==
    ASSUME IInv, NEW u \in Calls, NEW o \in {"control", "list", "logs"},
           \/ Call(u, o)
           \/ Get(u)
           \/ GetNone(u)
    PROVE  IInv'
<1> USE ServiceAssumption DEF IInv, TypeOK, Goto, poolVars, server
<1>1. CASE Call(u, o)
  <2>0. Good(u)
    OBVIOUS
  <2>1. TypeOK'
    BY <1>1, <2>0 DEF Call, Informed, Fresh, Good, Holding
  <2>2. CacheSure'
    BY <1>1, <2>0 DEF Call, Informed, Fresh, CacheSure, Good
  <2>3. Good(u)'
    <3>1. CASE Fresh
      <4>1. /\ cache.init \in Inits /\ cache.sure \in BOOLEAN
            /\ cache.sure => cache.init \in Taken(host)
        BY <3>1 DEF Fresh, CacheSure
      <4>2. /\ info'[u] = cache.init /\ sure'[u] = cache.sure
            /\ pc'[u] \in {"get", "over"}
            /\ lease' = lease /\ gone' = gone /\ host' = host /\ pc[u] = "new"
        BY <1>1, <3>1 DEF Call, Informed
      <4>3. cache.init # "none"
        BY <4>1 DEF Inits
      <4> QED BY <2>0, <4>1, <4>2, <4>3 DEF Good, Holding
    <3>2. CASE ~Fresh
      BY <1>1, <2>0, <3>2 DEF Call, Good, Holding
    <3> QED BY <3>1, <3>2
  <2>4. ASSUME NEW v \in Calls, v # u PROVE Good(v)'
    BY <1>1, <2>4, Frame DEF Call, Informed, Fresh
  <2> QED BY <2>1, <2>2, <2>3, <2>4
<1>2. CASE Get(u)
  <2>0. Good(u)
    OBVIOUS
  <2>1. TypeOK'
    BY <1>2, <2>0 DEF Get, Pool!Grant, Good, Holding
  <2>2. CacheSure'
    BY <1>2, <2>0 DEF Get, Pool!Grant, CacheSure, Good
  <2>3. Good(u)'
    BY <1>2, <2>0 DEF Get, Pool!Grant, CacheSure, Good, Holding, OnPath
  <2>4. ASSUME NEW v \in Calls, v # u PROVE Good(v)'
    BY <1>2, <2>4, Frame DEF Get, Pool!Grant
  <2> QED BY <2>1, <2>2, <2>3, <2>4
<1>3. CASE GetNone(u)
  <2>0. Good(u)
    OBVIOUS
  <2>1. TypeOK'
    BY <1>3, <2>0 DEF GetNone, Good, Holding
  <2>2. CacheSure'
    BY <1>3, <2>0 DEF GetNone, CacheSure, Good
  <2>3. Good(u)'
    BY <1>3, <2>0 DEF GetNone, CacheSure, Good, Holding, OnPath
  <2>4. ASSUME NEW v \in Calls, v # u PROVE Good(v)'
    BY <1>3, <2>4, Frame DEF GetNone
  <2> QED BY <2>1, <2>2, <2>3, <2>4
<1> QED BY <1>1, <1>2, <1>3

\* A probe's answer a, honest or not, takes the detection on; s says whether it
\* is still undisturbed.
LEMMA Advancing ==
    ASSUME IInv, NEW u \in Calls, NEW a \in {"yes", "init", "no"}, NEW s \in BOOLEAN,
           pc[u] = "probe",
           Advance(u, a),
           sure' = [sure EXCEPT ![u] = s],
           s => sure[u] /\ a \in Honest(host, probe[u]),
           gone' = gone \/ gone' = [gone EXCEPT ![u] = "swallowed"],
           UNCHANGED <<poolVars, server, cache, op>>
    PROVE  IInv'
<1> USE DEF IInv, TypeOK, poolVars, server
<1> DEFINE n == Cascade[probe[u]][a]
<1>0. Good(u)
  OBVIOUS
<1>1. n \in Probes \cup Inits
  BY CascadeTyped
<1>2. s => n \in OnPath(host) \cup Taken(host)
  BY <1>0, CascadeRight DEF Good
<1>3. OnPath(host) \subseteq Probes /\ Taken(host) \subseteq Inits /\ "rundir" \in Probes
  BY DEF OnPath, Taken, Probes, Cascade, Hosts, Inits
<1> HIDE DEF n
<1>4. CASE n \in Probes
  <2>1. probe' = [probe EXCEPT ![u] = n] /\ pc' = pc /\ info' = info
    BY <1>4 DEF Advance, n
  <2>2. TypeOK' /\ CacheSure'
    BY <1>4, <2>1 DEF CacheSure
  <2>3. Good(u)'
    BY <1>0, <1>2, <1>3, <1>4, <2>1, Apart DEF Good, Holding
  <2>4. ASSUME NEW v \in Calls, v # u PROVE Good(v)'
    BY <2>1, <2>4, Frame
  <2> QED BY <2>2, <2>3, <2>4
<1>5. CASE n \in Inits
  <2>1. /\ info' = [info EXCEPT ![u] = n]
        /\ probe' = [probe EXCEPT ![u] = "rundir"]
        /\ pc' = [pc EXCEPT ![u] = "family"]
    BY <1>5, Apart DEF Advance, Goto, n
  <2>2. TypeOK' /\ CacheSure'
    BY <1>3, <1>5, <2>1 DEF CacheSure
  <2>3. Good(u)'
    BY <1>0, <1>2, <1>3, <1>5, <2>1, Apart DEF Good, Holding
  <2>4. ASSUME NEW v \in Calls, v # u PROVE Good(v)'
    BY <2>1, <2>4, Frame
  <2> QED BY <2>2, <2>3, <2>4
<1> QED BY <1>1, <1>4, <1>5

LEMMA Probing ==
    ASSUME IInv, NEW u \in Calls, Answer(u) \/ ProbeFails(u) \/ CancelSwallowed(u)
    PROVE  IInv'
<1>1. CASE Answer(u)
  <2>1. PICK a \in Honest(host, probe[u]) : Advance(u, a)
    BY <1>1 DEF Answer
  <2>2. a \in {"yes", "init", "no"}
    BY HonestTyped DEF IInv, TypeOK
  <2>3. sure' = [sure EXCEPT ![u] = sure[u]]
    BY <1>1 DEF Answer, IInv, TypeOK
  <2>4. gone' = gone /\ pc[u] = "probe" /\ UNCHANGED <<poolVars, server, cache, op>>
    BY <1>1 DEF Answer
  <2>5. sure[u] \in BOOLEAN
    BY DEF IInv, TypeOK
  <2> QED BY <2>1, <2>2, <2>3, <2>4, <2>5, Advancing
<1>2. CASE ProbeFails(u)
  BY <1>2, Advancing DEF ProbeFails
<1>3. CASE CancelSwallowed(u) /\ pc[u] = "probe"
  BY <1>3, Advancing DEF CancelSwallowed
<1>4. CASE CancelSwallowed(u) /\ pc[u] = "family"
  <2> USE DEF IInv, TypeOK
  <2>1. TypeOK' /\ CacheSure'
    BY <1>4 DEF CancelSwallowed, CacheSure, poolVars, server
  <2>2. Good(u)'
    BY <1>4 DEF CancelSwallowed, Good, Holding, poolVars, server
  <2>3. ASSUME NEW v \in Calls, v # u PROVE Good(v)'
    BY <1>4, <2>3, Frame DEF CancelSwallowed, poolVars, server
  <2> QED BY <2>1, <2>2, <2>3
<1> QED BY <1>1, <1>2, <1>3, <1>4 DEF CancelSwallowed

\* What was found is cached, connections are given back, the command is run.
LEMMA Ending ==
    ASSUME IInv, NEW u \in Calls,
           \/ Store(u)
           \/ ReleaseInfo(u)
           \/ Run(u)
           \/ RunEnds(u)
           \/ Release(u)
    PROVE  IInv'
<1> USE ServiceAssumption DEF IInv, TypeOK, Goto, poolVars, server
<1>1. CASE Store(u)
  <2>0. Good(u)
    OBVIOUS
  <2>1. TypeOK'
    BY <1>1, <2>0 DEF Store, Good, Holding
  <2>2. CacheSure'
    BY <1>1, <2>0 DEF Store, CacheSure, Good
  <2>3. Good(u)'
    BY <1>1, <2>0 DEF Store, CacheSure, Good, Holding, OnPath
  <2>4. ASSUME NEW v \in Calls, v # u PROVE Good(v)'
    BY <1>1, <2>4, Frame DEF Store
  <2> QED BY <2>1, <2>2, <2>3, <2>4
<1>2. CASE ReleaseInfo(u)
  <2>0. Good(u)
    OBVIOUS
  <2>1. TypeOK'
    BY <1>2, <2>0 DEF ReleaseInfo, Informed, Pool!Return, Good
  <2>2. CacheSure'
    BY <1>2, <2>0 DEF ReleaseInfo, Pool!Return, CacheSure, Good
  <2>3. Good(u)'
    BY <1>2, <2>0 DEF ReleaseInfo, Pool!Return, Good, Holding, Informed
  <2>4. ASSUME NEW v \in Calls, v # u PROVE Good(v)'
    BY <1>2, <2>4, Frame DEF ReleaseInfo, Pool!Return
  <2> QED BY <2>1, <2>2, <2>3, <2>4
<1>3. CASE Run(u)
  <2>0. Good(u)
    OBVIOUS
  <2>1. TypeOK'
    BY <1>3, <2>0 DEF Run, Good, Holding
  <2>2. CacheSure'
    BY <1>3, <2>0 DEF Run, CacheSure, Good
  <2>3. Good(u)'
    BY <1>3, <2>0 DEF Run, CacheSure, Good, Holding, OnPath
  <2>4. ASSUME NEW v \in Calls, v # u PROVE Good(v)'
    BY <1>3, <2>4, Frame DEF Run
  <2> QED BY <2>1, <2>2, <2>3, <2>4
<1>4. CASE RunEnds(u)
  <2>0. Good(u)
    OBVIOUS
  <2>1. TypeOK'
    BY <1>4, <2>0 DEF RunEnds, Good, Holding
  <2>2. CacheSure'
    BY <1>4, <2>0 DEF RunEnds, CacheSure, Good
  <2>3. Good(u)'
    BY <1>4, <2>0 DEF RunEnds, CacheSure, Good, Holding, OnPath
  <2>4. ASSUME NEW v \in Calls, v # u PROVE Good(v)'
    BY <1>4, <2>4, Frame DEF RunEnds
  <2> QED BY <2>1, <2>2, <2>3, <2>4
<1>5. CASE Release(u)
  <2>0. Good(u)
    OBVIOUS
  <2>1. TypeOK'
    BY <1>5, <2>0 DEF Release, Pool!Return, Good, Holding
  <2>2. CacheSure'
    BY <1>5, <2>0 DEF Release, Pool!Return, CacheSure, Good
  <2>3. Good(u)'
    BY <1>5, <2>0 DEF Release, Pool!Return, CacheSure, Good, Holding, OnPath
  <2>4. ASSUME NEW v \in Calls, v # u PROVE Good(v)'
    BY <1>5, <2>4, Frame DEF Release, Pool!Return
  <2> QED BY <2>1, <2>2, <2>3, <2>4
<1> QED BY <1>1, <1>2, <1>3, <1>4, <1>5

\* Cancellations that end the call, or that a loop swallows.
LEMMA Cancelling ==
    ASSUME IInv, NEW u \in Calls,
           \/ CancelAtPool(u)
           \/ CancelProbe(u)
           \/ CancelRun(u)
           \/ CancelLoop(u)
    PROVE  IInv'
<1> USE ServiceAssumption DEF IInv, TypeOK, Goto, poolVars, server
<1>1. CASE CancelAtPool(u)
  <2>0. Good(u)
    OBVIOUS
  <2>1. TypeOK'
    BY <1>1, <2>0 DEF CancelAtPool, Heeded, Good, Holding
  <2>2. CacheSure'
    BY <1>1, <2>0 DEF CancelAtPool, Heeded, CacheSure, Good
  <2>3. Good(u)'
    BY <1>1, <2>0 DEF CancelAtPool, Heeded, CacheSure, Good, Holding, OnPath
  <2>4. ASSUME NEW v \in Calls, v # u PROVE Good(v)'
    BY <1>1, <2>4, Frame DEF CancelAtPool, Heeded
  <2> QED BY <2>1, <2>2, <2>3, <2>4
<1>2. CASE CancelProbe(u)
  <2>0. Good(u)
    OBVIOUS
  <2>1. TypeOK'
    BY <1>2, <2>0 DEF CancelProbe, Heeded, Probes, Cascade
  <2>2. CacheSure'
    BY <1>2, <2>0 DEF CancelProbe, Heeded, CacheSure, Good
  <2>3. Good(u)'
    BY <1>2, <2>0 DEF CancelProbe, Heeded, CacheSure, Good, Holding, OnPath
  <2>4. ASSUME NEW v \in Calls, v # u PROVE Good(v)'
    BY <1>2, <2>4, Frame DEF CancelProbe, Heeded
  <2> QED BY <2>1, <2>2, <2>3, <2>4
<1>3. CASE CancelRun(u)
  <2>0. Good(u)
    OBVIOUS
  <2>1. TypeOK'
    BY <1>3, <2>0 DEF CancelRun, Heeded, Good, Holding
  <2>2. CacheSure'
    BY <1>3, <2>0 DEF CancelRun, Heeded, CacheSure, Good
  <2>3. Good(u)'
    BY <1>3, <2>0 DEF CancelRun, Heeded, CacheSure, Good, Holding, OnPath
  <2>4. ASSUME NEW v \in Calls, v # u PROVE Good(v)'
    BY <1>3, <2>4, Frame DEF CancelRun, Heeded
  <2> QED BY <2>1, <2>2, <2>3, <2>4
<1>4. CASE CancelLoop(u)
  <2>0. Good(u)
    OBVIOUS
  <2>1. TypeOK'
    BY <1>4, <2>0 DEF CancelLoop, Good, Holding
  <2>2. CacheSure'
    BY <1>4, <2>0 DEF CancelLoop, CacheSure, Good
  <2>3. Good(u)'
    BY <1>4, <2>0 DEF CancelLoop, CacheSure, Good, Holding, OnPath
  <2>4. ASSUME NEW v \in Calls, v # u PROVE Good(v)'
    BY <1>4, <2>4, Frame DEF CancelLoop
  <2> QED BY <2>1, <2>2, <2>3, <2>4
<1> QED BY <1>1, <1>2, <1>3, <1>4

\* The clock and the pool.
LEMMA Elsewhere ==
    ASSUME IInv, Tick \/ PoolNext \/ UNCHANGED vars
    PROVE  IInv'
<1> USE ServiceAssumption DEF IInv, TypeOK, poolVars, server
<1>1. TypeOK' /\ CacheSure'
  BY DEF Tick, PoolNext, Pool!Repair, Pool!Lose, vars, CacheSure
<1>2. ASSUME NEW v \in Calls PROVE Good(v)'
  BY <1>2, Frame DEF Tick, PoolNext, Pool!Repair, Pool!Lose, vars
<1> QED BY <1>1, <1>2

LEMMA NextGood == IInv /\ [Next]_vars => IInv'
<1> SUFFICES ASSUME IInv, [Next]_vars PROVE IInv'
  OBVIOUS
<1>1. ASSUME NEW u \in Calls, NEW o \in {"control", "list", "logs"}, Call(u, o) PROVE IInv'
  BY <1>1, Looking
<1>2. ASSUME NEW u \in Calls, Step(u) \/ Probed(u) \/ RunEnds(u) PROVE IInv'
  BY <1>2, Looking, Probing, Ending DEF Step, Probed, RunTimesOut
<1>3. ASSUME NEW u \in Calls, Cancel(u) PROVE IInv'
  BY <1>3, Probing, Cancelling DEF Cancel
<1> QED BY <1>1, <1>2, <1>3, Elsewhere DEF Next

THEOREM Invariance == Spec => []IInv
BY InitGood, NextGood, PTL DEF Spec

\* Every variable keeps its type.
THEOREM TypeCorrect == Spec => []TypeOK
<1>1. IInv => TypeOK
  BY DEF IInv
<1> QED BY <1>1, Invariance, PTL

\* A call never holds two connections, nor one while it asks for another, and whatever
\* ends it, it keeps one only if it was cancelled while it gave that one back.
THEOREM LeasesOneAtATime == Spec => []OneAtATime
<1>1. IInv => OneAtATime
  BY DEF IInv, Good, Holding, OneAtATime
<1> QED BY <1>1, Invariance, PTL

\* Undisturbed, the cascade of probes and the cache make no other mistake about the
\* server than Taken allows: systemd where it does not run, and SysV where there is
\* none of the three but scripts in /etc/init.d.
THEOREM CommandsFit == Spec => []FitsHost
<1>1. IInv => FitsHost
  BY DEF IInv, Good, FitsHost, TypeOK
<1> QED BY <1>1, Invariance, PTL

\* A cancellation that is not swallowed is heeded.
THEOREM CancellationsHeeded == Spec => []CancelHeeded
<1>1. IInv => CancelHeeded
  BY DEF IInv, Good, CancelHeeded
<1> QED BY <1>1, Invariance, PTL
-----------------------------------------------------------------------------
(* The calls and the pool: what a call does to a connection, it does as a  *)
(* user of the LeasePool, which ConnectionPool implements                  *)
(* (ConnectionPool_proofs, Implements).                                    *)

\* What a call does with the pool, if anything.
LEMMA CallUsesPool ==
    ASSUME NEW u \in Calls,
           \/ \E o \in {"control", "list", "logs"} : Call(u, o)
           \/ Step(u) \/ Probed(u) \/ RunEnds(u) \/ Cancel(u)
    PROVE  \/ \E c \in Conns : Pool!Grant(u, c)
           \/ Pool!Return(u)
           \/ UNCHANGED poolVars
<1>1. CASE Get(u)
  BY <1>1 DEF Get
<1>2. CASE ReleaseInfo(u) \/ Release(u)
  BY <1>2 DEF ReleaseInfo, Release
<1>3. CASE GetNone(u) \/ Probed(u) \/ Store(u) \/ Run(u) \/ RunTimesOut(u) \/ RunEnds(u)
  BY <1>3 DEF GetNone, Probed, Answer, ProbeFails, Store, Run, RunTimesOut, RunEnds
<1>4. CASE \/ CancelAtPool(u) \/ CancelProbe(u) \/ CancelSwallowed(u) \/ CancelRun(u)
           \/ CancelLoop(u)
  BY <1>4 DEF CancelAtPool, CancelProbe, CancelSwallowed, CancelRun, CancelLoop
<1>5. CASE \E o \in {"control", "list", "logs"} : Call(u, o)
  BY <1>5 DEF Call
<1> QED BY <1>1, <1>2, <1>3, <1>4, <1>5 DEF Step, Cancel

LEMMA StepUsesPool == TypeOK /\ [Next]_vars => [Pool!Next]_(Pool!leaseVars)
<1> SUFFICES ASSUME TypeOK, [Next]_vars PROVE [Pool!Next]_(Pool!leaseVars)
  OBVIOUS
<1> USE DEF Pool!Next, Pool!leaseVars, poolVars
<1>1. ASSUME NEW u \in Calls,
             \/ \E c \in Conns : Pool!Grant(u, c)
             \/ Pool!Return(u)
             \/ UNCHANGED poolVars
      PROVE  [Pool!Next]_(Pool!leaseVars)
  BY <1>1
<1>2. CASE PoolNext
  <2>1. SUBSET avail \subseteq SUBSET Conns
    BY DEF TypeOK
  <2> QED BY <1>2, <2>1 DEF PoolNext
<1>3. CASE Tick \/ UNCHANGED vars
  BY <1>3 DEF Tick, vars
<1> QED BY <1>1, <1>2, <1>3, CallUsesPool DEF Next

\* A call that looks at its server and runs its command there, cancelled or not, takes
\* both connections, and gives back what it does give back, only as a user of the pool
\* may.
THEOREM UsesPool == Spec => Pool!Spec
<1>1. Init => Pool!Init
  BY DEF Init
<1> QED BY <1>1, StepUsesPool, TypeCorrect, PTL DEF Spec, Pool!Spec
=============================================================================
