--------------------------- MODULE ConnectionPool ---------------------------
(* The pool of SSH connections to one server (connection_pool.py).         *)
(*                                                                         *)
(* Everything runs on one asyncio event loop, so an action is the code     *)
(* between two awaits that may suspend.  The actors are                    *)
(*   - connector tasks <<origin, conn>>: _connect_single, spawned by       *)
(*     initialize ("init", without the lock) or by the health check ("hc", *)
(*     while it holds the lock);                                           *)
(*   - the health check loop;                                              *)
(*   - users: coroutines that get a connection, use it and release it;     *)
(*   - shutdown.                                                           *)
(*                                                                         *)
(* An asyncssh connection is a member of Sockets.  It is in `open' until   *)
(* someone closes it or its loss is noticed (_closing is then true); an    *)
(* undetected loss is an open socket whose commands fail.  An identifier   *)
(* that is closed and that nothing refers to may be used again.            *)
(*                                                                         *)
(* Left out: error_count and the state counts (only logged and reported),  *)
(* and the position of a connection in the list (loops over the pool visit *)
(* it in any order; ties of last_used are broken in any way).              *)
EXTENDS Naturals

CONSTANTS
    Conns,          \* the SSHConnection objects of the pool
    Users,          \* coroutines that use the pool
    Sockets,        \* asyncssh connections
    NoConn, NoSock, \* None
    MaxAttempts,    \* stop_after_attempt
    SlowInit,       \* initialize may take longer than the 30 s to the first check
    CancelRelease   \* a user may be cancelled while it waits to release

ASSUME PoolAssumption ==
    /\ NoConn \notin Conns
    /\ NoSock \notin Sockets
    /\ MaxAttempts \in Nat \ {0}
    /\ SlowInit \in BOOLEAN
    /\ CancelRelease \in BOOLEAN

VARIABLES
    state,      \* conn.state
    link,       \* conn.connection
    older,      \* <<c, d>>: c.last_used is earlier than d.last_used
    open,       \* the sockets that are not closing
    lock,       \* who holds _lock across an await: "free", "hc" or "stop"
    published,  \* initialize has returned; add_server has stored the pool
    task,       \* where each connector task is
    tries,      \* its attempt number
    hc,         \* where the health check loop is
    todo,       \* connections the lock holder's loop has still to visit
    ping,       \* the connection being pinged
    upc,        \* where each user is
    lease,      \* the connection each user holds
    sock,       \* the socket it had when the user got it (history)
    stop        \* how far shutdown is; _shutdown is true unless "run"

poolVars == <<state, link, older, open>>
taskVars == <<task, tries>>
hcVars   == <<hc, todo, ping>>
userVars == <<upc, lease, sock>>
vars == <<poolVars, taskVars, hcVars, userVars, lock, published, stop>>

Origins == {"init", "hc"}
Tasks   == Origins \X Conns
Of(k)   == k[2]     \* the connection a connector works on

States  == {"DISCONNECTED", "CONNECTING", "READY", "BUSY", "ERROR"}

Running == stop = "run"

\* Mutant: is_healthy forgets the state.
HealthyIfOpen(c) == link[c] \in open

\* SSHConnection.is_healthy: a BUSY connection is never "healthy".
Healthy(c) == link[c] \in open /\ state[c] = "READY"

\* Mutant: _connect_all forgets the disconnected ones.
NeedsConnectOnError(c) == state[c] = "ERROR"

\* What _connect_all picks.
NeedsConnect(c) == state[c] \in {"DISCONNECTED", "ERROR"}

Idle(origin) == \A c \in Conns : task[<<origin, c>>] = "idle"

\* mark_used: c becomes the most recently used connection.
Used(c) == {p \in older : c \notin {p[1], p[2]}} \cup ((Conns \ {c}) \X {c})

Referenced == {link[c] : c \in Conns} \cup {sock[u] : u \in Users}

-----------------------------------------------------------------------------
\* The pool just after initialize has started the health check task and
\* created one connector task per connection.
Init ==
    /\ state = [c \in Conns |-> "DISCONNECTED"]
    /\ link = [c \in Conns |-> NoSock]
    /\ older = {}
    /\ open = {}
    /\ lock = "free"
    /\ published = FALSE
    /\ task = [k \in Tasks |-> IF k[1] = "init" THEN "start" ELSE "idle"]
    /\ tries = [k \in Tasks |-> 1]
    /\ hc = "sleeping"
    /\ todo = {}
    /\ ping = NoConn
    /\ upc = [u \in Users |-> "out"]
    /\ lease = [u \in Users |-> NoConn]
    /\ sock = [u \in Users |-> NoSock]
    /\ stop = "run"

\* initialize's gather is over: add_server stores the pool and users see it.
Publish ==
    /\ ~published
    /\ Idle("init")
    /\ published' = TRUE
    /\ UNCHANGED <<poolVars, taskVars, hcVars, userVars, lock, stop>>

\* The loss of a connection is noticed.
ConnLost(s) ==
    /\ s \in open
    /\ open' = open \ {s}
    /\ UNCHANGED <<state, link, older, taskVars, hcVars, userVars, lock,
                   published, stop>>

-----------------------------------------------------------------------------
(* _connect_single.  "start": created, or sleeping before its next attempt; *)
(* "closing": waits for an old connection to close; "connecting";           *)
(* "testing": runs the test command; "cleanup": waits for a failed          *)
(* connection to close.  None of its assignments asks whether the           *)
(* connection it sees is the one it made.                                   *)

EnterConnect(k) ==
    /\ link' = [link EXCEPT ![Of(k)] = NoSock]
    /\ state' = [state EXCEPT ![Of(k)] = "CONNECTING"]
    /\ task' = [task EXCEPT ![k] = "connecting"]

\* _ensure_clean_connection_state up to its await.
TaskStart(k) ==
    /\ Running
    /\ task[k] = "start"
    /\ IF link[Of(k)] \in open
       THEN /\ open' = open \ {link[Of(k)]}
            /\ task' = [task EXCEPT ![k] = "closing"]
            /\ UNCHANGED <<state, link>>
       ELSE EnterConnect(k) /\ UNCHANGED open
    /\ UNCHANGED <<older, tries, hcVars, userVars, lock, published, stop>>

\* The old connection is closed, or 5 s have passed.
TaskClosed(k) ==
    /\ Running
    /\ task[k] = "closing"
    /\ EnterConnect(k)
    /\ UNCHANGED <<open, older, tries, hcVars, userVars, lock, published, stop>>

ConnectOk(k) ==
    /\ Running
    /\ task[k] = "connecting"
    /\ \E s \in Sockets \ (open \cup Referenced) :
          /\ open' = open \cup {s}
          /\ link' = [link EXCEPT ![Of(k)] = s]
    /\ task' = [task EXCEPT ![k] = "testing"]
    /\ UNCHANGED <<state, older, tries, hcVars, userVars, lock, published, stop>>

TestOk(k) ==
    /\ Running
    /\ task[k] = "testing"
    /\ state' = [state EXCEPT ![Of(k)] = "READY"]
    /\ older' = Used(Of(k))
    /\ task' = [task EXCEPT ![k] = "idle"]
    /\ tries' = [tries EXCEPT ![k] = 1]
    /\ UNCHANGED <<link, open, hcVars, userVars, lock, published, stop>>

\* An attempt has raised: try again, or give up (the last attempt, or an
\* exception that is not retried).
EndAttempt(k) ==
    \/ /\ tries[k] < MaxAttempts
       /\ tries' = [tries EXCEPT ![k] = @ + 1]
       /\ task' = [task EXCEPT ![k] = "start"]
    \/ /\ tries' = [tries EXCEPT ![k] = 1]
       /\ task' = [task EXCEPT ![k] = "idle"]

\* A connect or a test fails or times out; _cleanup_failed_connection closes
\* whatever connection it finds.
AttemptFails(k) ==
    /\ Running
    /\ task[k] \in {"connecting", "testing"}
    /\ IF link[Of(k)] = NoSock
       THEN /\ state' = [state EXCEPT ![Of(k)] = "DISCONNECTED"]
            /\ EndAttempt(k)
            /\ UNCHANGED open
       ELSE /\ open' = open \ {link[Of(k)]}
            /\ task' = [task EXCEPT ![k] = "cleanup"]
            /\ UNCHANGED <<state, tries>>
    /\ UNCHANGED <<link, older, hcVars, userVars, lock, published, stop>>

\* Mutant: the state is not reset after the cleanup.
CleanedUpNoReset(k) ==
    /\ Running
    /\ task[k] = "cleanup"
    /\ link' = [link EXCEPT ![Of(k)] = NoSock]
    /\ EndAttempt(k)
    /\ UNCHANGED <<state, open, older, hcVars, userVars, lock, published, stop>>

\* The failed connection is closed, or 3 s have passed.
CleanedUp(k) ==
    /\ Running
    /\ task[k] = "cleanup"
    /\ link' = [link EXCEPT ![Of(k)] = NoSock]
    /\ state' = [state EXCEPT ![Of(k)] = "DISCONNECTED"]
    /\ EndAttempt(k)
    /\ UNCHANGED <<open, older, hcVars, userVars, lock, published, stop>>

\* CancelledError, passed on by the gather of the cancelled health check: no
\* handler catches it, only cleanup's finally clause runs.
TaskCancel(k) ==
    /\ ~Running
    /\ task[k] # "idle"
    /\ link' = IF task[k] = "cleanup" THEN [link EXCEPT ![Of(k)] = NoSock] ELSE link
    /\ task' = [task EXCEPT ![k] = "idle"]
    /\ tries' = [tries EXCEPT ![k] = 1]
    /\ UNCHANGED <<state, open, older, hcVars, userVars, lock, published, stop>>

-----------------------------------------------------------------------------
(* _health_check_loop and health_check, which holds the lock throughout.   *)

\* 30 s have passed.  Unless SlowInit, initialize was over before.
HcWake ==
    /\ Running
    /\ hc = "sleeping"
    /\ SlowInit \/ published
    /\ hc' = "waiting"
    /\ UNCHANGED <<poolVars, taskVars, todo, ping, userVars, lock, published, stop>>

\* Mutant: the health check does not take the lock.
HcLockNot ==
    /\ Running
    /\ hc = "waiting"
    /\ lock = "free"
    /\ hc' = "checking"
    /\ todo' = Conns
    /\ UNCHANGED <<poolVars, taskVars, ping, userVars, lock, published, stop>>

HcLock ==
    /\ Running
    /\ hc = "waiting"
    /\ lock = "free"
    /\ lock' = "hc"
    /\ hc' = "checking"
    /\ todo' = Conns
    /\ UNCHANGED <<poolVars, taskVars, ping, userVars, published, stop>>

\* Mutant: BUSY connections are pinged too.
HcVisitBusy(c) ==
    /\ Running
    /\ hc = "checking"
    /\ ping = NoConn
    /\ c \in todo
    /\ todo' = todo \ {c}
    /\ IF link[c] \in open
       THEN ping' = c /\ UNCHANGED <<state, link>>
       ELSE /\ state' = [state EXCEPT ![c] = "DISCONNECTED"]
            /\ link' = [link EXCEPT ![c] = NoSock]
            /\ UNCHANGED ping
    /\ UNCHANGED <<older, open, taskVars, hc, userVars, lock, published, stop>>

\* One connection of the loop: skipped when BUSY, pinged when it has a
\* connection that is not closing, marked DISCONNECTED otherwise.
HcVisit(c) ==
    /\ Running
    /\ hc = "checking"
    /\ ping = NoConn
    /\ c \in todo
    /\ todo' = todo \ {c}
    /\ IF state[c] = "BUSY" THEN UNCHANGED <<state, link, ping>>
       ELSE IF link[c] \in open
       THEN ping' = c /\ UNCHANGED <<state, link>>
       ELSE /\ state' = [state EXCEPT ![c] = "DISCONNECTED"]
            /\ link' = [link EXCEPT ![c] = NoSock]
            /\ UNCHANGED ping
    /\ UNCHANGED <<older, open, taskVars, hc, userVars, lock, published, stop>>

HcPong ==
    /\ Running
    /\ ping # NoConn
    /\ state' = [state EXCEPT ![ping] = "READY"]
    /\ ping' = NoConn
    /\ UNCHANGED <<link, older, open, taskVars, hc, todo, userVars, lock,
                   published, stop>>

\* Mutant: the bad connection is dropped without closing it.
HcPingDrops ==
    /\ Running
    /\ ping # NoConn
    /\ state' = [state EXCEPT ![ping] = "ERROR"]
    /\ link' = [link EXCEPT ![ping] = NoSock]
    /\ ping' = NoConn
    /\ UNCHANGED <<open, older, taskVars, hc, todo, userVars, lock, published, stop>>

HcPingFails ==
    /\ Running
    /\ ping # NoConn
    /\ state' = [state EXCEPT ![ping] = "ERROR"]
    /\ open' = open \ {link[ping]}
    /\ link' = [link EXCEPT ![ping] = NoSock]
    /\ ping' = NoConn
    /\ UNCHANGED <<older, taskVars, hc, todo, userVars, lock, published, stop>>

\* _connect_all, called with the lock held.
HcConnect ==
    /\ Running
    /\ hc = "checking"
    /\ ping = NoConn
    /\ todo = {}
    /\ hc' = "connecting"
    /\ task' = [k \in Tasks |-> IF k[1] = "hc" /\ NeedsConnect(Of(k))
                                THEN "start" ELSE task[k]]
    /\ UNCHANGED <<poolVars, tries, todo, ping, userVars, lock, published, stop>>

\* Mutant: the check goes on until every connection is up.
HcDoneWhenUp ==
    /\ Running
    /\ hc = "connecting"
    /\ Idle("hc")
    /\ \A c \in Conns : ~NeedsConnect(c)
    /\ hc' = "sleeping"
    /\ lock' = "free"
    /\ UNCHANGED <<poolVars, taskVars, todo, ping, userVars, published, stop>>

HcDone ==
    /\ Running
    /\ hc = "connecting"
    /\ Idle("hc")
    /\ hc' = "sleeping"
    /\ lock' = "free"
    /\ UNCHANGED <<poolVars, taskVars, todo, ping, userVars, published, stop>>

\* Mutant: a cancelled check keeps the lock.
HcCancelLocked ==
    /\ stop = "cancelling"
    /\ hc # "stopped"
    /\ Idle("hc")
    /\ hc' = "stopped"
    /\ todo' = {}
    /\ ping' = NoConn
    /\ UNCHANGED <<poolVars, taskVars, userVars, lock, published, stop>>

\* The loop is cancelled at its await; a gather waits for its connectors.
HcCancel ==
    /\ stop = "cancelling"
    /\ hc # "stopped"
    /\ Idle("hc")
    /\ hc' = "stopped"
    /\ lock' = IF lock = "hc" THEN "free" ELSE lock
    /\ todo' = {}
    /\ ping' = NoConn
    /\ UNCHANGED <<poolVars, taskVars, userVars, published, stop>>

-----------------------------------------------------------------------------
(* Users.  get_connection and release_connection suspend only to wait for  *)
(* the lock.                                                               *)

Request(u) ==
    /\ published
    /\ upc[u] = "out"
    /\ upc' = [upc EXCEPT ![u] = "getting"]
    /\ UNCHANGED <<poolVars, taskVars, hcVars, lease, sock, lock, published, stop>>

\* The least recently used healthy connection.
Get(u) ==
    /\ upc[u] = "getting"
    /\ lock = "free"
    /\ \E c \in Conns :
          /\ Healthy(c)
          /\ \A d \in Conns : Healthy(d) => <<d, c>> \notin older
          /\ state' = [state EXCEPT ![c] = "BUSY"]
          /\ older' = Used(c)
          /\ lease' = [lease EXCEPT ![u] = c]
          /\ sock' = [sock EXCEPT ![u] = link[c]]
    /\ upc' = [upc EXCEPT ![u] = "holding"]
    /\ UNCHANGED <<link, open, taskVars, hcVars, lock, published, stop>>

\* get_connection returns None.
GetNone(u) ==
    /\ upc[u] = "getting"
    /\ lock = "free"
    /\ \A c \in Conns : ~Healthy(c)
    /\ upc' = [upc EXCEPT ![u] = "out"]
    /\ UNCHANGED <<poolVars, taskVars, hcVars, lease, sock, lock, published, stop>>

\* The user is done with the connection: its finally clause releases it.
Finish(u) ==
    /\ upc[u] = "holding"
    /\ upc' = [upc EXCEPT ![u] = "releasing"]
    /\ UNCHANGED <<poolVars, taskVars, hcVars, lease, sock, lock, published, stop>>

Leave(u) ==
    /\ upc' = [upc EXCEPT ![u] = "out"]
    /\ lease' = [lease EXCEPT ![u] = NoConn]
    /\ sock' = [sock EXCEPT ![u] = NoSock]

\* Mutant: an unhealthy connection keeps its state.
ReleaseUnlessUnhealthy(u) ==
    /\ upc[u] = "releasing"
    /\ lock = "free"
    /\ state' = IF Healthy(lease[u]) THEN [state EXCEPT ![lease[u]] = "READY"] ELSE state
    /\ Leave(u)
    /\ UNCHANGED <<link, older, open, taskVars, hcVars, lock, published, stop>>

Release(u) ==
    /\ upc[u] = "releasing"
    /\ lock = "free"
    /\ state' = [state EXCEPT ![lease[u]] =
                    IF Healthy(lease[u]) THEN "READY" ELSE "ERROR"]
    /\ Leave(u)
    /\ UNCHANGED <<link, older, open, taskVars, hcVars, lock, published, stop>>

\* The user is cancelled while it waits for the lock in release_connection.
ReleaseCancelled(u) ==
    /\ CancelRelease
    /\ upc[u] = "releasing"
    /\ lock # "free"
    /\ Leave(u)
    /\ UNCHANGED <<poolVars, taskVars, hcVars, lock, published, stop>>

-----------------------------------------------------------------------------
(* shutdown.                                                               *)

StopBegin ==
    /\ Running
    /\ published
    /\ stop' = "cancelling"
    /\ UNCHANGED <<poolVars, taskVars, hcVars, userVars, lock, published>>

StopLock ==
    /\ stop = "cancelling"
    /\ hc = "stopped"
    /\ lock = "free"
    /\ stop' = "closing"
    /\ lock' = "stop"
    /\ todo' = Conns
    /\ UNCHANGED <<poolVars, taskVars, hc, ping, userVars, published>>

\* Mutant: connections that are out are left alone.
StopCloseUnlessBusy(c) ==
    /\ stop = "closing"
    /\ c \in todo
    /\ todo' = todo \ {c}
    /\ IF state[c] = "BUSY" THEN UNCHANGED <<open, state, link>>
       ELSE /\ open' = open \ {link[c]}
            /\ state' = [state EXCEPT ![c] = "DISCONNECTED"]
            /\ link' = [link EXCEPT ![c] = NoSock]
    /\ UNCHANGED <<older, taskVars, hc, ping, userVars, lock, published, stop>>

\* One connection is closed, whatever its state.
StopClose(c) ==
    /\ stop = "closing"
    /\ c \in todo
    /\ todo' = todo \ {c}
    /\ open' = open \ {link[c]}
    /\ state' = [state EXCEPT ![c] = "DISCONNECTED"]
    /\ link' = [link EXCEPT ![c] = NoSock]
    /\ UNCHANGED <<older, taskVars, hc, ping, userVars, lock, published, stop>>

StopEnd ==
    /\ stop = "closing"
    /\ todo = {}
    /\ stop' = "done"
    /\ lock' = "free"
    /\ UNCHANGED <<poolVars, taskVars, hcVars, userVars, published>>

-----------------------------------------------------------------------------
TaskNext(k) ==
    \/ TaskStart(k) \/ TaskClosed(k) \/ ConnectOk(k) \/ TestOk(k)
    \/ AttemptFails(k) \/ CleanedUp(k) \/ TaskCancel(k)

HcNext ==
    \/ HcWake \/ HcLock \/ HcPong \/ HcPingFails \/ HcConnect \/ HcDone
    \/ HcCancel
    \/ \E c \in Conns : HcVisit(c)

UserNext(u) ==
    \/ Request(u) \/ Get(u) \/ GetNone(u) \/ Finish(u) \/ Release(u)
    \/ ReleaseCancelled(u)

StopNext == StopBegin \/ StopLock \/ StopEnd \/ \E c \in Conns : StopClose(c)

Next ==
    \/ Publish
    \/ \E s \in Sockets : ConnLost(s)
    \/ \E k \in Tasks : TaskNext(k)
    \/ HcNext
    \/ \E u \in Users : UserNext(u)
    \/ StopNext

Spec == Init /\ [][Next]_vars

(* Every wait of the pool's own code has a timeout (connect, test, ping,   *)
(* close), so its tasks go on; asyncio.Lock is FIFO, so a waiter that finds *)
(* it free again and again gets it; and the server can be reached: a       *)
(* connect, or a test, that is tried again and again succeeds.  Nothing    *)
(* makes a user arrive or be done (a streamed command, a status or a log   *)
(* has no timeout), a connection fail or the pool shut down.               *)
Reachable == \A k \in Tasks : SF_vars(ConnectOk(k)) /\ SF_vars(TestOk(k))

Fairness ==
    /\ WF_vars(Publish)
    /\ \A k \in Tasks : WF_vars(TaskNext(k))
    /\ WF_vars(HcNext) /\ SF_vars(HcLock)
    /\ \A u \in Users :
          /\ SF_vars(Get(u) \/ GetNone(u))
          /\ SF_vars(Release(u))
    /\ SF_vars(StopLock)
    /\ WF_vars(StopEnd \/ \E c \in Conns : StopClose(c))

FairSpec == Spec /\ Fairness /\ Reachable

-----------------------------------------------------------------------------
(* Properties.                                                             *)

TypeOK ==
    /\ state \in [Conns -> States]
    /\ link \in [Conns -> Sockets \cup {NoSock}]
    /\ older \subseteq Conns \X Conns
    /\ open \subseteq Sockets
    /\ lock \in {"free", "hc", "stop"}
    /\ published \in BOOLEAN
    /\ task \in [Tasks -> {"idle", "start", "closing", "connecting", "testing",
                           "cleanup"}]
    /\ tries \in [Tasks -> 1..MaxAttempts]
    /\ hc \in {"sleeping", "waiting", "checking", "connecting", "stopped"}
    /\ todo \subseteq Conns
    /\ ping \in Conns \cup {NoConn}
    /\ upc \in [Users -> {"out", "getting", "holding", "releasing"}]
    /\ lease \in [Users -> Conns \cup {NoConn}]
    /\ sock \in [Users -> Sockets \cup {NoSock}]
    /\ stop \in {"run", "cancelling", "closing", "done"}

\* A connection is lent to one user at a time: the SSH session of a command is
\* never shared (get_connection marks it BUSY under the lock; health checks,
\* reconnections and shutdown must not make it READY again while it is out).
ExclusiveLease ==
    \A u, v \in Users : u # v /\ lease[u] # NoConn => lease[u] # lease[v]

\* Until shutdown reaches it, a connection that is out stays BUSY and keeps the
\* socket it had when the user got it: nobody closes or replaces it under the
\* running command, neither a health check nor a late connection attempt of
\* initialize.
LeaseIntact ==
    \A u \in Users :
        lease[u] # NoConn /\ (Running \/ stop = "cancelling")
            => state[lease[u]] = "BUSY" /\ link[lease[u]] = sock[u]

\* No connector and no ping works on a connection that is out, although
\* neither looks at who holds it, and no connector of initialize is left when
\* the first user arrives.
PoolKeepsOff ==
    \A u \in Users : lease[u] # NoConn =>
        /\ ping # lease[u]
        /\ \A origin \in Origins : task[<<origin, lease[u]>>] = "idle"

\* A connection is CONNECTING only while a connector works on it (or the pool
\* is stopping): _connect_all would never pick it up again.
NotStranded ==
    Running => \A c \in Conns :
        state[c] = "CONNECTING" => \E origin \in Origins : task[<<origin, c>>] # "idle"

\* Unless users are cancelled while they release, a BUSY connection is one some
\* user holds: health checks skip BUSY connections, so one that is BUSY for
\* nobody is lost to the pool for good.
BusyAccounted ==
    \A c \in Conns : state[c] = "BUSY" => \E u \in Users : lease[u] = c

\* Every socket that is open is the connection of some member of the pool, so
\* that shutdown can close it.
AllLinked == open \subseteq {link[c] : c \in Conns}

\* What holds of shutdown however slow initialize was: no member of the pool
\* has a connection, and no connector, check or lease comes after it.
ShutdownIsFinal ==
    stop = "done" =>
        /\ \A c \in Conns : link[c] = NoSock /\ state[c] \in {"DISCONNECTED", "ERROR"}
        /\ \A k \in Tasks : task[k] = "idle"
        /\ lock = "free"

\* What the docs promise of a release ("Release a connection back to the pool"):
\* a connection whose socket is open can be handed out again.
ReleasedIsReady ==
    [][\A u \in Users :
        lease[u] # NoConn /\ lease'[u] = NoConn /\ link[lease[u]] \in open /\ Running
            => state'[lease[u]] = "READY"]_vars

\* A connection that is not ready and that nobody holds (lost, in error, not yet
\* connected, just released) is eventually ready again, as long as the pool runs,
\* although other users may keep theirs for ever: nothing is left behind in a
\* state that the health check does not take it out of.
Recovers ==
    \A c \in Conns :
        state[c] # "READY" /\ (\A u \in Users : lease[u] # c)
            ~> (state[c] = "READY" \/ ~Running)

\* get_connection answers: the lock, which health checks hold across pings,
\* connection attempts and retries, always comes free.
GetAnswered == \A u \in Users : upc[u] = "getting" ~> upc[u] # "getting"

\* Shutdown ends, even when it begins in the middle of a health check that
\* holds the lock: the cancelled check gives the lock back.
ShutdownEnds == stop = "cancelling" ~> stop = "done"

-----------------------------------------------------------------------------
(* Refinement: seen from its users the pool hands out exclusive leases.    *)

Avail == {c \in Conns : Healthy(c)}

Leases == INSTANCE LeasePool WITH avail <- Avail

\* Every step of the pool lends an available connection, takes one back,
\* repairs one that nobody holds, loses some, or changes nothing of that: no
\* interleaving of connectors, health check, users and shutdown makes a
\* connection available while it is out.
ImplementsLeases == Leases!Spec

=============================================================================
