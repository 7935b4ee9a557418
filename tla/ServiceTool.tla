----------------------------- MODULE ServiceTool -----------------------------
(* service_control, list_services and get_service_logs (tools/services.py) *)
(* of one server, on the connections of a LeasePool: the cached server     *)
(* information, its detection probe by probe (utils/distro.py), which      *)
(* takes a connection of its own, and the command that follows.            *)
(*                                                                         *)
(* Validation comes first and has no state.  The family of the             *)
(* distribution only selects the wording of a SysV command and is left out *)
(* but for the time its detection takes.                                   *)
EXTENDS Naturals

CONSTANTS
    Calls,   \* the calls, each made once
    Conns,   \* the connections of the pool
    NoConn,  \* None
    NoInfo,  \* nothing cached
    TTL,     \* _cache_ttl
    MaxTime, \* bound on the clock
    Stray    \* whether systemctl may be installed where systemd does not run

ASSUME ServiceAssumption ==
    /\ NoConn \notin Conns
    /\ TTL \in Nat \ {0}
    /\ MaxTime \in Nat
    /\ Stray \in BOOLEAN

Inits == {"systemd", "upstart", "sysvinit", "unknown"}

\* What the server runs ("unknown": none of the three).
Hosts == Inits

\* What detect_init_system does with the answer to each of its probes; a probe that
\* raises counts as "no".  ps answers "yes" (systemd), "init" or "no".
Cascade ==
    [rundir    |-> [yes |-> "systemd",  init |-> "version",  no |-> "version"],
     version   |-> [yes |-> "systemd",  init |-> "pid1",     no |-> "pid1"],
     pid1      |-> [yes |-> "systemd",  init |-> "units",    no |-> "initctl"],
     units     |-> [yes |-> "systemd",  init |-> "initctl1", no |-> "initctl1"],
     initctl1  |-> [yes |-> "upstart",  init |-> "sysvinit", no |-> "sysvinit"],
     initctl   |-> [yes |-> "upstart",  init |-> "initd",    no |-> "initd"],
     initd     |-> [yes |-> "sysvinit", init |-> "box",      no |-> "box"],
     box       |-> [yes |-> "running",  init |-> "unknown",  no |-> "unknown"],
     running   |-> [yes |-> "systemd",  init |-> "unknown",  no |-> "unknown"]]

Probes == DOMAIN Cascade

\* Probes in a try whose "except BaseException" swallows a cancellation.
Swallowing == {"units", "initctl1", "running"}

\* The answers server h may give to an undisturbed probe; any server may be a
\* container ("box").  "version" and "running" only need systemctl, "units" is
\* "systemctl ... | head -1", which has the exit status of head, and without ps, or
\* with a shell as process 1, "pid1" finds nothing.  A server that runs none of the
\* three may have scripts in /etc/init.d all the same (OpenRC, many containers).
Honest(h, p) ==
    CASE p = "rundir" -> {IF h = "systemd" THEN "yes" ELSE "no"}
      [] p \in {"version", "running"} ->
            IF h = "systemd" THEN {"yes"} ELSE {"no"} \cup IF Stray THEN {"yes"} ELSE {}
      [] p = "pid1" -> IF h = "systemd" THEN {"yes"} ELSE {"init", "no"}
      [] p = "units" -> {"yes"}
      [] p \in {"initctl", "initctl1"} -> {IF h = "upstart" THEN "yes" ELSE "no"}
      [] p = "initd" -> IF h = "unknown" THEN {"yes", "no"}
                        ELSE {IF h \in {"upstart", "sysvinit"} THEN "yes" ELSE "no"}
      [] p = "box" -> {"yes", "no"}

VARIABLES
    avail, lease, \* the pool
    host,   \* the server (never changes)
    now,    \* the clock
    cache,  \* _server_info_cache of the server
    pc,     \* where each call is
    op,     \* "control", "list" or "logs"
    probe,  \* the probe it waits for
    info,   \* the init system it has come to; "none" before
    sure,   \* no probe of the detection this comes from was disturbed
    gone    \* what became of a cancellation: "no", "heeded", "swallowed"

vars == <<avail, lease, host, now, cache, pc, op, probe, info, sure, gone>>
poolVars == <<avail, lease>>
server == <<host, now>>

Pool == INSTANCE LeasePool WITH Users <- Calls

Init ==
    /\ Pool!Init
    /\ host \in Hosts
    /\ now = 0
    /\ cache = NoInfo
    /\ pc = [u \in Calls |-> "new"]
    /\ op = [u \in Calls |-> "control"]
    /\ probe = [u \in Calls |-> "rundir"]
    /\ info = [u \in Calls |-> "none"]
    /\ sure = [u \in Calls |-> TRUE]
    /\ gone = [u \in Calls |-> "no"]

Goto(u, p) == pc' = [pc EXCEPT ![u] = p]

\* Where a call may go with its information: no action is supported for UNKNOWN, some
\* are not for the others, and validation may refuse the command; the other two
\* calls go on and, for UNKNOWN, answer with nothing.
Informed(o, i) ==
    IF o # "control" THEN {"get"} ELSE IF i = "unknown" THEN {"over"} ELSE {"get", "over"}

Fresh == cache # NoInfo /\ now - cache.at < TTL

Call(u, o) ==
    /\ pc[u] = "new"
    /\ op' = [op EXCEPT ![u] = o]
    /\ IF Fresh
       THEN /\ info' = [info EXCEPT ![u] = cache.init]
            /\ sure' = [sure EXCEPT ![u] = cache.sure]
            /\ \E p \in Informed(o, cache.init) : Goto(u, p)
       ELSE UNCHANGED <<info, sure>> /\ Goto(u, "getinfo")
    /\ UNCHANGED <<poolVars, server, cache, probe, gone>>

Get(u) ==
    /\ \/ pc[u] = "getinfo" /\ Goto(u, "probe")
       \/ pc[u] = "get" /\ Goto(u, "run")
    /\ \E c \in Conns : Pool!Grant(u, c)
    /\ UNCHANGED <<server, cache, op, probe, info, sure, gone>>

\* "No available connections".
GetNone(u) ==
    /\ pc[u] \in {"getinfo", "get"}
    /\ avail = {}
    /\ Goto(u, "over")
    /\ UNCHANGED <<poolVars, server, cache, op, probe, info, sure, gone>>

\* Mutant: the answer of initctl is not used.
AdvanceSkips(u, a) ==
    LET n == Cascade[probe[u]][IF probe[u] = "initctl" THEN "no" ELSE a] IN
    IF n \in Probes
    THEN probe' = [probe EXCEPT ![u] = n] /\ UNCHANGED <<pc, info>>
    ELSE /\ info' = [info EXCEPT ![u] = n]
         /\ probe' = [probe EXCEPT ![u] = "rundir"]
         /\ Goto(u, "family")

\* To the next probe, or to the detection of the distribution.
Advance(u, a) ==
    LET n == Cascade[probe[u]][a] IN
    IF n \in Probes
    THEN probe' = [probe EXCEPT ![u] = n] /\ UNCHANGED <<pc, info>>
    ELSE /\ info' = [info EXCEPT ![u] = n]
         /\ probe' = [probe EXCEPT ![u] = "rundir"]
         /\ Goto(u, "family")

Answer(u) ==
    /\ pc[u] = "probe"
    /\ \E a \in Honest(host, probe[u]) : Advance(u, a)
    /\ UNCHANGED <<poolVars, server, cache, op, sure, gone>>

\* The probe raises, whatever the answer would have been.
ProbeFails(u) ==
    /\ pc[u] = "probe"
    /\ Advance(u, "no")
    /\ sure' = [sure EXCEPT ![u] = FALSE]
    /\ UNCHANGED <<poolVars, server, cache, op, gone>>

\* The distribution is known, or not; what was found is cached either way.
Store(u) ==
    /\ pc[u] = "family"
    /\ cache' = [init |-> info[u], at |-> now, sure |-> sure[u]]
    /\ Goto(u, "release1")
    /\ UNCHANGED <<poolVars, server, op, probe, info, sure, gone>>

\* Mutant: the second connection is asked for while the first is held.
ReleaseInfoLate(u) ==
    /\ pc[u] = "release1"
    /\ \E p \in IF gone[u] = "heeded" THEN {"over"} ELSE Informed(op[u], info[u]) : Goto(u, p)
    /\ UNCHANGED <<poolVars, server, cache, op, probe, info, sure, gone>>

\* Mutant: a cancelled call goes on after its finally clause.
ReleaseInfoGoesOn(u) ==
    /\ pc[u] = "release1"
    /\ Pool!Return(u)
    /\ \E p \in Informed(op[u], info[u]) : Goto(u, p)
    /\ UNCHANGED <<server, cache, op, probe, info, sure, gone>>

\* The finally clause of _get_server_info.
ReleaseInfo(u) ==
    /\ pc[u] = "release1"
    /\ Pool!Return(u)
    /\ \E p \in IF gone[u] = "heeded" THEN {"over"} ELSE Informed(op[u], info[u]) : Goto(u, p)
    /\ UNCHANGED <<server, cache, op, probe, info, sure, gone>>

\* The command, as the init system wants it, is sent (none, if it is unknown).
Run(u) ==
    /\ pc[u] = "run"
    /\ Goto(u, "running")
    /\ UNCHANGED <<poolVars, server, cache, op, probe, info, sure, gone>>

\* It is answered or fails.
RunEnds(u) ==
    /\ pc[u] = "running"
    /\ Goto(u, "release2")
    /\ UNCHANGED <<poolVars, server, cache, op, probe, info, sure, gone>>

\* Mutant: the wrong call has the timeout.
RunTimesOutList(u) ==
    /\ op[u] = "list"
    /\ RunEnds(u)

\* Only service_control has a timeout.
RunTimesOut(u) ==
    /\ op[u] = "control"
    /\ RunEnds(u)

\* The finally clause of the call itself.
Release(u) ==
    /\ pc[u] = "release2"
    /\ Pool!Return(u)
    /\ Goto(u, "over")
    /\ UNCHANGED <<server, cache, op, probe, info, sure, gone>>

-----------------------------------------------------------------------------
(* Cancellation of a call.                                                 *)

Heeded(u) == gone' = [gone EXCEPT ![u] = "heeded"]

\* It waits for a connection, or for the lock to give one back, which is then
\* never released and stays BUSY (ConnectionPool, ReleaseCancelled): the call is
\* over and has kept it.
CancelAtPool(u) ==
    /\ \/ pc[u] \in {"getinfo", "get"} /\ Goto(u, "over")
       \/ pc[u] \in {"release1", "release2"} /\ Goto(u, "kept")
    /\ Heeded(u)
    /\ UNCHANGED <<poolVars, server, cache, op, probe, info, sure>>

\* It probes: the finally clause releases the connection.  Nothing is cached.
CancelProbe(u) ==
    /\ \/ pc[u] = "probe" /\ probe[u] \notin Swallowing
       \/ pc[u] = "family"
    /\ Goto(u, "release1")
    /\ probe' = [probe EXCEPT ![u] = "rundir"]
    /\ Heeded(u)
    /\ UNCHANGED <<poolVars, server, cache, op, info, sure>>

\* Three probes of the init system, and two of the distribution, take a
\* cancellation for an answer.
CancelSwallowed(u) ==
    /\ \/ pc[u] = "probe" /\ probe[u] \in Swallowing /\ Advance(u, "no")
       \/ pc[u] = "family" /\ UNCHANGED <<pc, probe, info>>
    /\ sure' = [sure EXCEPT ![u] = FALSE]
    /\ gone' = [gone EXCEPT ![u] = "swallowed"]
    /\ UNCHANGED <<poolVars, server, cache, op>>

\* Its command is sent or about to be.
CancelRun(u) ==
    /\ pc[u] \in {"run", "running"}
    /\ Goto(u, "release2")
    /\ Heeded(u)
    /\ UNCHANGED <<poolVars, server, cache, op, probe, info, sure>>

\* It looks at one service or one log after the other: it goes on with the next.
CancelLoop(u) ==
    /\ pc[u] = "running"
    /\ \/ op[u] = "list" /\ info[u] = "sysvinit"
       \/ op[u] = "logs" /\ info[u] \in {"upstart", "sysvinit"}
    /\ gone' = [gone EXCEPT ![u] = "swallowed"]
    /\ UNCHANGED <<poolVars, server, cache, pc, op, probe, info, sure>>

Cancel(u) ==
    CancelAtPool(u) \/ CancelProbe(u) \/ CancelSwallowed(u) \/ CancelRun(u) \/ CancelLoop(u)

-----------------------------------------------------------------------------
Tick ==
    /\ now < MaxTime
    /\ now' = now + 1
    /\ UNCHANGED <<poolVars, host, cache, pc, op, probe, info, sure, gone>>

\* What the pool does on its own: repair and lose connections.
PoolNext ==
    /\ \/ \E c \in Conns : Pool!Repair(c)
       \/ \E C \in SUBSET avail : Pool!Lose(C)
    /\ UNCHANGED <<server, cache, pc, op, probe, info, sure, gone>>

\* A command of the detection is over, or the last of them.
Probed(u) == Answer(u) \/ ProbeFails(u) \/ Store(u)

\* The steps a call takes in its own time.
Step(u) ==
    \/ Get(u) \/ GetNone(u) \/ ReleaseInfo(u) \/ Run(u) \/ RunTimesOut(u) \/ Release(u)

Next ==
    \/ \E u \in Calls :
          \/ \E o \in {"control", "list", "logs"} : Call(u, o)
          \/ Step(u) \/ Probed(u) \/ RunEnds(u) \/ Cancel(u)
    \/ Tick
    \/ PoolNext

Spec == Init /\ [][Next]_vars

\* A call goes on: get_connection answers (ConnectionPool, GetAnswered) and the timeout
\* of service_control expires.  The commands of the detection have no timeout; nothing
\* makes them end.
FairSpec == Spec /\ \A u \in Calls : WF_vars(Step(u))

-----------------------------------------------------------------------------
TypeOK ==
    /\ avail \subseteq Conns
    /\ lease \in [Calls -> Conns \cup {NoConn}]
    /\ host \in Hosts
    /\ now \in 0..MaxTime
    /\ cache \in {NoInfo} \cup [init : Inits, at : 0..MaxTime, sure : BOOLEAN]
    /\ pc \in [Calls -> {"new", "getinfo", "probe", "family", "release1", "get", "run",
                         "running", "release2", "over", "kept"}]
    /\ op \in [Calls -> {"control", "list", "logs"}]
    /\ probe \in [Calls -> Probes]
    /\ info \in [Calls -> Inits \cup {"none"}]
    /\ sure \in [Calls -> BOOLEAN]
    /\ gone \in [Calls -> {"no", "heeded", "swallowed"}]

\* A call takes a connection to find out about the server and another one for its
\* command, never both at once (with every call holding one and waiting for one,
\* the pool would be stuck).  When it is over it has given back what it had, with one
\* exception: a call that is cancelled while it waits for the pool's lock to give a
\* connection back keeps that one for good.
OneAtATime ==
    \A u \in Calls :
        /\ lease[u] # NoConn <=>
              pc[u] \in {"probe", "family", "release1", "run", "running", "release2", "kept"}
        /\ pc[u] = "kept" => gone[u] = "heeded"

\* What server h may be taken for: anything for one that runs systemd, and one that
\* runs none of the three for SysV, if there is something in /etc/init.d.
Taken(h) == {h, "systemd"} \cup IF h = "unknown" THEN {"sysvinit"} ELSE {}

\* Undisturbed probes, the cache and the calls that share it make no other mistake than
\* those two: a systemd server is never taken for anything else, upstart and SysV are
\* not mixed up, and none of the three is lost to UNKNOWN.
FitsHost ==
    \A u \in Calls : pc[u] = "running" => info[u] \in Taken(host) \/ ~sure[u]

\* A cancelled call runs no command and caches nothing afterwards: it only gives its
\* connection back (or fails to), unless one of the clauses that catch BaseException
\* swallowed the cancellation.
CancelHeeded ==
    \A u \in Calls : gone[u] = "heeded" => pc[u] \in {"release1", "release2", "over", "kept"}

\* Only a command of the detection that is never answered can keep service_control:
\* in the end it is over, or waits for one of those, even if its own command is never
\* answered and whatever other calls do with connections and cache.
ControlEnds ==
    \A u \in Calls :
        <>[](op[u] = "control" => pc[u] \in {"new", "probe", "family", "over", "kept"})

=============================================================================
