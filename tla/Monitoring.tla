----------------------------- MODULE Monitoring -----------------------------
(* get_system_status (tools/monitoring.py) of one server, on the           *)
(* connections of a LeasePool: the cache, and the metrics, which are       *)
(* collected side by side by asyncio.gather on one connection, each by     *)
(* some commands one after the other.                                      *)
(*                                                                         *)
(* gather with return_exceptions waits for all; when the call that waits   *)
(* is cancelled it cancels all that are not over, waits for them, and      *)
(* raises CancelledError even if one of them swallowed its own.  No        *)
(* command has a timeout.                                                  *)
EXTENDS Naturals

CONSTANTS
    Calls,    \* the calls, each made once
    Conns,    \* the connections of the pool
    NoConn,   \* None
    NoEntry,  \* nothing cached
    Metrics,  \* the metrics that are collected (all of Plan's in the code)
    TTL,      \* _cache_ttl
    MaxTime   \* bound on the clock

\* Where a metric goes after each of its commands: on its output, when it fails or its output
\* does not parse, and when it is cancelled.  Those that go on after a cancellation, and the
\* last ones of cpu and memory, are in a try whose "except BaseException" swallows it.
Last == [ok |-> "done", failed |-> "done", cancelled |-> "done"]

\* If one of the first two fails, top has to do.
Cpu == [stat  |-> [Last EXCEPT !.ok = "nproc", !.failed = "top"],
        nproc |-> [Last EXCEPT !.failed = "top"],
        top   |-> Last]

Memory == [meminfo |-> [Last EXCEPT !.failed = "free"], free |-> Last]

Disk == [df |-> Last]

Load == [loadavg |-> Last]

Uptime == [uptime |-> Last]

Network == [netdev |-> Last]

Process == [count |-> [Last EXCEPT !.ok = "procs"], procs |-> Last]

\* Only the name of the host must be had; what happens to the system's does not matter.
System == [hostname |-> [Last EXCEPT !.ok = "os"],
           os       |-> [ok |-> "kernel", failed |-> "kernel", cancelled |-> "kernel"],
           kernel   |-> Last]

Plan == [cpu |-> Cpu, memory |-> Memory, disk |-> Disk, load |-> Load, uptime |-> Uptime,
         network |-> Network, process |-> Process, system |-> System]

\* The first command of each.
First == [cpu |-> "stat", memory |-> "meminfo", disk |-> "df", load |-> "loadavg",
          uptime |-> "uptime", network |-> "netdev", process |-> "count",
          system |-> "hostname"]

Details == Metrics \cap {"network", "process", "system"}

Basics == Metrics \ Details

\* The metrics of a call, detailed or not.
Wanted(d) == IF d THEN Metrics ELSE Basics

ASSUME MonitoringAssumption ==
    /\ NoConn \notin Conns
    /\ Metrics \subseteq DOMAIN Plan
    /\ TTL \in Nat \ {0}
    /\ MaxTime \in Nat

Commands == UNION {DOMAIN Plan[m] : m \in Metrics}

VARIABLES
    avail, lease, \* the pool
    now,      \* the clock
    cache,    \* _cache, the entry of each key
    pc,       \* where each call is
    detailed, \* its parameter
    probe,    \* the command each of its metrics waits for: "idle" before, "done" after
    hit,      \* it was cancelled while it collected
    answer    \* the metrics it returns; {} if it has not, or raised

vars == <<avail, lease, now, cache, pc, detailed, probe, hit, answer>>
poolVars == <<avail, lease>>

Pool == INSTANCE LeasePool WITH Users <- Calls

\* Mutant: the key does not tell detailed answers from others.
KeyShared(d) == FALSE

\* The key of the cache for this server.
Key(d) == d

Idle == [m \in Metrics |-> "idle"]

Init ==
    /\ Pool!Init
    /\ now = 0
    /\ cache = [k \in BOOLEAN |-> NoEntry]
    /\ pc = [u \in Calls |-> "new"]
    /\ detailed = [u \in Calls |-> FALSE]
    /\ probe = [u \in Calls |-> Idle]
    /\ hit = [u \in Calls |-> FALSE]
    /\ answer = [u \in Calls |-> {}]

Goto(u, p) == pc' = [pc EXCEPT ![u] = p]

\* The commands of a call that are under way.
Running(u) == {m \in Metrics : probe[u][m] \in Commands}

-----------------------------------------------------------------------------
Call(u, d) ==
    /\ pc[u] = "new"
    /\ detailed' = [detailed EXCEPT ![u] = d]
    /\ LET e == cache[Key(d)] IN
       IF e # NoEntry /\ now - e.at < TTL
       THEN Goto(u, "over") /\ answer' = [answer EXCEPT ![u] = e.metrics]
       ELSE Goto(u, "get") /\ UNCHANGED answer
    /\ UNCHANGED <<poolVars, now, cache, probe, hit>>

\* gather begins the commands of the metrics M.
Start(u, M) ==
    probe' = [probe EXCEPT ![u] = [m \in Metrics |-> IF m \in M THEN First[m] ELSE @[m]]]

Get(u) ==
    /\ pc[u] = "get"
    /\ \E c \in Conns : Pool!Grant(u, c)
    /\ Start(u, Basics)
    /\ Goto(u, "basic")
    /\ UNCHANGED <<now, cache, detailed, hit, answer>>

\* "No available connections".
GetNone(u) ==
    /\ pc[u] = "get"
    /\ avail = {}
    /\ Goto(u, "over")
    /\ UNCHANGED <<poolVars, now, cache, detailed, probe, hit, answer>>

\* A command is over; one that fails leaves its metric at zero, or to another command.
CommandEnds(u, m) ==
    /\ m \in Running(u)
    /\ \E how \in {"ok", "failed"} :
          probe' = [probe EXCEPT ![u][m] = Plan[m][@][how]]
    /\ UNCHANGED <<poolVars, now, cache, pc, detailed, hit, answer>>

\* Mutant: a call that was cancelled goes on like any other.
GatheredGood(u) ==
    /\ pc[u] \in {"basic", "detail"}
    /\ Running(u) = {}
    /\ LET more == pc[u] = "basic" /\ detailed[u] IN
       /\ IF more THEN Goto(u, "detail") /\ Start(u, Details)
                  ELSE Goto(u, "release") /\ UNCHANGED probe
       /\ IF more THEN UNCHANGED <<cache, answer>>
          ELSE LET e == [at |-> now, metrics |-> Wanted(detailed[u])] IN
               /\ cache' = [cache EXCEPT ![Key(detailed[u])] = e]
               /\ answer' = [answer EXCEPT ![u] = e.metrics]
    /\ UNCHANGED <<poolVars, now, detailed, hit>>

\* Mutant: it waits for the details also of a call that did not ask for them.
GatheredAll(u) ==
    /\ pc[u] \in {"basic", "detail"}
    /\ \A m \in (IF pc[u] = "basic" /\ detailed[u] THEN Basics ELSE Metrics) : probe[u][m] = "done"
    /\ LET more == pc[u] = "basic" /\ detailed[u] /\ ~hit[u] IN
       /\ IF more THEN Goto(u, "detail") /\ Start(u, Details)
                  ELSE Goto(u, "release") /\ UNCHANGED probe
       /\ IF more \/ hit[u] THEN UNCHANGED <<cache, answer>>
          ELSE LET e == [at |-> now, metrics |-> Wanted(detailed[u])] IN
               /\ cache' = [cache EXCEPT ![Key(detailed[u])] = e]
               /\ answer' = [answer EXCEPT ![u] = e.metrics]
    /\ UNCHANGED <<poolVars, now, detailed, hit>>

\* gather has all it waited for.  A cancelled call goes to its finally clause; another one
\* collects its details, or caches what it has.
Gathered(u) ==
    /\ pc[u] \in {"basic", "detail"}
    /\ Running(u) = {}
    /\ LET more == pc[u] = "basic" /\ detailed[u] /\ ~hit[u] IN
       /\ IF more THEN Goto(u, "detail") /\ Start(u, Details)
                  ELSE Goto(u, "release") /\ UNCHANGED probe
       /\ IF more \/ hit[u] THEN UNCHANGED <<cache, answer>>
          ELSE LET e == [at |-> now, metrics |-> Wanted(detailed[u])] IN
               /\ cache' = [cache EXCEPT ![Key(detailed[u])] = e]
               /\ answer' = [answer EXCEPT ![u] = e.metrics]
    /\ UNCHANGED <<poolVars, now, detailed, hit>>

\* The finally clause.
Release(u) ==
    /\ pc[u] = "release"
    /\ Pool!Return(u)
    /\ Goto(u, "over")
    /\ UNCHANGED <<now, cache, detailed, probe, hit, answer>>

-----------------------------------------------------------------------------
(* Cancellation.                                                           *)

\* It waits for a connection, or for the lock to give one back, which is then never
\* released and stays BUSY (ConnectionPool, ReleaseCancelled): the call is over and
\* has kept it.
CancelAtPool(u) ==
    /\ \/ pc[u] = "get" /\ Goto(u, "over")
       \/ pc[u] = "release" /\ Goto(u, "kept")
    /\ answer' = [answer EXCEPT ![u] = {}]
    /\ UNCHANGED <<poolVars, now, cache, detailed, probe, hit>>

\* Mutant: gather does not wait for what it cancelled (as without return_exceptions).
CancelLeaves(u) ==
    /\ pc[u] \in {"basic", "detail"}
    /\ probe' = [probe EXCEPT ![u] =
          [m \in Metrics |-> IF m \in Running(u) THEN Plan[m][@[m]].cancelled ELSE @[m]]]
    /\ hit' = [hit EXCEPT ![u] = TRUE]
    /\ Goto(u, "release")
    /\ UNCHANGED <<poolVars, now, cache, detailed, answer>>

\* It collects: all its commands are cancelled, and some metrics go on to another.
CancelCollect(u) ==
    /\ pc[u] \in {"basic", "detail"}
    /\ probe' = [probe EXCEPT ![u] =
          [m \in Metrics |-> IF m \in Running(u) THEN Plan[m][@[m]].cancelled ELSE @[m]]]
    /\ hit' = [hit EXCEPT ![u] = TRUE]
    /\ UNCHANGED <<poolVars, now, cache, pc, detailed, answer>>

-----------------------------------------------------------------------------
\* clear_cache, at any moment.
ClearCache ==
    /\ cache' = [k \in BOOLEAN |-> NoEntry]
    /\ UNCHANGED <<poolVars, now, pc, detailed, probe, hit, answer>>

Tick ==
    /\ now < MaxTime
    /\ now' = now + 1
    /\ UNCHANGED <<poolVars, cache, pc, detailed, probe, hit, answer>>

\* What the pool does on its own: repair and lose connections.
PoolNext ==
    /\ \/ \E c \in Conns : Pool!Repair(c)
       \/ \E C \in SUBSET avail : Pool!Lose(C)
    /\ UNCHANGED <<now, cache, pc, detailed, probe, hit, answer>>

\* The steps a call takes in its own time.
Step(u) == Get(u) \/ GetNone(u) \/ Gathered(u) \/ Release(u)

Next ==
    \/ \E u \in Calls :
          \/ \E d \in BOOLEAN : Call(u, d)
          \/ Step(u) \/ CancelAtPool(u) \/ CancelCollect(u)
          \/ \E m \in Metrics : CommandEnds(u, m)
    \/ ClearCache
    \/ Tick
    \/ PoolNext

Spec == Init /\ [][Next]_vars

\* A call goes on; nothing makes a command end.
FairSpec == Spec /\ \A u \in Calls : WF_vars(Step(u))

-----------------------------------------------------------------------------
TypeOK ==
    /\ avail \subseteq Conns
    /\ lease \in [Calls -> Conns \cup {NoConn}]
    /\ now \in 0..MaxTime
    /\ cache \in [BOOLEAN -> {NoEntry} \cup [at : 0..MaxTime, metrics : SUBSET Metrics]]
    /\ pc \in [Calls -> {"new", "get", "basic", "detail", "release", "over", "kept"}]
    /\ detailed \in [Calls -> BOOLEAN]
    /\ probe \in [Calls -> [Metrics -> Commands \cup {"idle", "done"}]]
    /\ hit \in [Calls -> BOOLEAN]
    /\ answer \in [Calls -> SUBSET Metrics]

\* The commands of a call run on the connection it holds, all of them, also those that
\* a metric begins after it swallowed a cancellation: it is given back when the last
\* one is over and not before (and only a call that is cancelled while it waits for the
\* pool's lock to give it back keeps it).
ProbesHold ==
    \A u \in Calls :
        /\ Running(u) # {} => pc[u] \in {"basic", "detail"}
        /\ lease[u] # NoConn <=> pc[u] \in {"basic", "detail", "release", "kept"}

\* A call gets what it asked for, the details or the basic metrics only, whether it
\* collected them or another call did, and never half a collection.
AnswersFit ==
    \A u \in Calls : answer[u] \in {{}, Wanted(detailed[u])}

\* A call that was cancelled while it collected begins no second round, answers nothing
\* and caches nothing, although some of its metrics swallow the cancellation.
CancelHeeded ==
    [][\A u \in Calls : hit[u] /\ pc'[u] # pc[u] =>
          pc'[u] # "detail" /\ cache' = cache /\ answer'[u] = {}]_vars

\* Only a command that never ends can keep a call: in the end each call is over, or waits for
\* one of its commands.
StatusEnds ==
    \A u \in Calls : <>[](pc[u] \in {"new", "over", "kept"} \/ Running(u) # {})

=============================================================================
