# Verification of MCP VPS Manager

MCP VPS Manager is one Python process on one asyncio event loop. It serves tool
calls (run a command, write a file, restart a service ...) over stdio and carries
them out on remote servers over SSH. The TLA+ modules here model the parts of it
where the order of events matters; TLC checks them on small instances and TLAPS
proves the safety properties that matter most for every size.

Because there is one event loop, nothing runs between two awaits that suspend. An
action of a module is the code between two such awaits, and the hard behaviour is
what happens at the awaits: other coroutines run, and cancellation arrives.

## 1. Inventory

| component | state | operations | correct when |
|---|---|---|---|
| Connection pool (`connection_pool.py`, `ConnectionPool`) | the list of `SSHConnection` (state, asyncssh connection, `last_used`), `_lock`, `_shutdown`, the health check task | initialize, get, release, connect with retries, health check, shutdown | a connection is lent to one user at a time and left alone while it is out; nothing is stranded in a state no one takes it out of; no socket is lost; lost connections come back; shutdown ends and closes everything |
| Connection manager (same file, `Server`) | `pools`, `sudo_passwords` per server name | add (replace), remove, shutdown all, set password | every pool that was added is shut down, after the queues, whatever interrupts |
| Rate limiter (`queue.py`, `RateLimiter`) | `tokens`, `last_update`, `_lock` | acquire | the number of permissions in any window is bounded |
| Command queue (`queue.py`, `CommandQueue`) | heap, `executing`, `completed`, `failed`, counters, worker task, `_shutdown` | enqueue, status, worker with retries, cleanup, stop | a command is in one place, runs no more than allowed, in the order of priority and arrival, and its client is answered |
| Queue manager (`queue.py`, `QueueManager`, `Server`) | `queues` per server name | create (replace), remove, shutdown all | a worker that runs has a queue a name leads to, and ends with it |
| Command tool (`tools/command.py`, `CommandExec`) | `background_jobs`, job counter | exec (queued, direct, streaming, background), cancel a job, clean jobs | every way out gives the connection back; the server is told to run a command no more often than promised; a job's status says what became of it and stays |
| File tool (`tools/file_ops.py`, `FileWrite`, `FileRead`) | none of its own; files, `.bak` and `.tmp` on the server | read, write, upload, download, list | a write that fails loses nothing and leaves nothing behind; success means that the content is there; a reader gets one whole content |
| Service tool (`tools/services.py`, `ServiceTool`) | `_server_info_cache` (300 s) | control, list, logs | commands fit the init system of the server; no connection is held while another is asked for, every way out gives it back; a cancelled call runs nothing |
| Monitoring tool (`tools/monitoring.py`, `Monitoring`) | `_cache` (5 s), by server and detail | get_system_status, clear_cache | its connection is held while one of its commands runs and no longer; an answer has what was asked for; a cancelled call stores nothing |
| Distribution detection (`utils/distro.py`) | none | `detect_init_system`, a cascade of probes | it comes to the init system the server has |
| Security validation (`security.py`) | none | checks of commands and paths | decisions on text |
| MCP server (`server.py`, `Server`) | the components above | initialize, dispatch, shutdown, signals | every call is answered; queues end before pools; it comes to an end in order although a signal cancels everything |
| Configuration, response and error helpers, scripts | none that changes | load, format | - |

### How they interact

A tool call is a coroutine. `exec_command` either enqueues `_execute_direct` in the
server's queue and polls every 0.1 s, or calls it directly. Either way the command
takes a connection from the pool (`get_connection`, which answers `None` when none is
ready), runs on it, and releases it in a `finally`. File, service and monitoring tools
take connections in the same way; so does reading the resource of a server, by way of `get_system_status`. The pool's health check wakes every 30 s, pings what
is not busy and reconnects what is down; it is the only thing that repairs connections
after start-up. The server adds all pools, then creates all queues; a call for a name without a queue
creates one. The program ends when the client closes stdin, and the MCP library then waits for or cancels
the handlers, or by a signal: `sys.exit` in its handler leaves the event loop and `asyncio.run` cancels every
task. Either way the `finally` of `run` stops the queues one after the other, and the pools after them.
`get_system_status` runs up to five commands at the same time on its one connection, with `asyncio.gather`.

### What is hard

- The pool lock is held over whole health checks (pings, connection attempts, backoffs),
  but `initialize` connects without it, and connectors write to whatever connection
  object they were given without asking whether it still has the socket they made.
- Connecting, testing, pinging and closing suspend, fail and time out; connectors retry
  seconds later.
- Cancellation reaches coroutines at their awaits: a shutdown in the middle of a health
  check, a client in the middle of a release, a queue in the middle of a command. A `finally` that itself awaits
  (`release_connection`, for the pool's lock) can be cancelled there and then has not done its work.
- Some commands have no timeout (`process.wait()` of a stream, every command of `get_system_status`, `list_services` and
  `get_service_logs`, the probes of the detection): whoever waits for one may wait for ever.
- The queue's bookkeeping is spread over a worker, a task per command and polling
  clients; results may be cleaned away while somebody polls for them.
- The rate limiter computes with a time read before it sleeps.
- A command, once started, is a process of the server that lives on when the call that
  started it times out, is cancelled, falls back from streaming or is repeated.
- Detecting a server's init system is a cascade of up to nine probes, any of which may fail or be
  cancelled; some clauses catch `BaseException`, and with it cancellation.
- A signal reaches the shutdown itself: whether pools and queues are closed depends on which of its awaits
  swallow a cancellation.
- `gather` cancels its parts together, some of which take it for a failure and begin another command.
- Readers look at a name several times while writers rename and fill files.
- A write is four or five operations on the server, each of which may fail, be carried out with its
  answer lost, or meet another call's.

`PROJECT.json` lists each hazard at its line with the properties that cover it.

## 2. Modules

| module | models | proofs |
|---|---|---|
| `LeasePool` | what the pool promises: exclusive leases | implemented by `ConnectionPool` |
| `ConnectionPool` | one pool with users, connectors, health check, shutdown | `ConnectionPool_proofs` |
| `MCConnectionPool` | the symmetry set for TLC | |
| `RateLimiter` | the token bucket, in integers, with a clock | `RateLimiter_proofs` |
| `TaskQueue` | what the queue promises: tasks served one at a time, in order, with one verdict each | implemented by `CommandQueue` |
| `CommandQueue` | one queue with its worker and polling clients | `CommandQueue_proofs` |
| `CommandExec` | calls of `exec_command` on the connections of a `LeasePool` | `CommandExec_proofs` |
| `FileWrite` | `write_file` and `upload_file` on one path | `FileWrite_proofs` |
| `FileRead` | `FileWrite` with `read_file` and `download_file` of the same path | in `FileWrite_proofs` |
| `ServiceTool` | the service calls to one server, with its cache and the detection, on a `LeasePool` | `ServiceTool_proofs` |
| `Monitoring` | calls of `get_system_status` for one server, with the cache, on a `LeasePool` | `Monitoring_proofs` |
| `Server` | the program: several servers, pools, queues and workers, tool calls, session, signals, shutdown | `Server_proofs` |

`CommandExec`, `ServiceTool` and `Monitoring` compose the tools with the pool by way of `LeasePool`: they
use the pool's promise, and `ConnectionPool` is shown to keep it (run `pool_leases`, theorem
`Implements`), so none of them has to be checked with all the other's states. That they use the pool only in the ways it
allows is their theorem `UsesPool`. Of the queue `CommandExec` has what its calls meet: `Enqueue`, `Dequeue` (the one worker, busy until its command
is over), `Retry` and `StopQueue`; the order of service and the answers to clients are `CommandQueue`'s. `Server` puts
managers, workers, calls and shutdown together and reduces each of them to what the others see: a pool
is there or not and is locked while it closes; a worker is alive, cancelled or dead; a call waits, runs, gives its connection back.

Each module names, in the comment before an operator, the code it stands for;
`PROJECT.json` has the lines. Operators whose comment says "Mutant" are not part of any
specification: each is the definition after it with a plausible bug, and stands for the
question "would the run notice?".

### ConnectionPool

| code | model |
|---|---|
| `conn.state`, `conn.connection`, order of `last_used` | `state`, `link`, `older` |
| asyncssh connection, `_closing` | a member of `Sockets`, `s \notin open` |
| `_lock` held across an await | `lock` |
| `_shutdown`, progress of `shutdown()` | `stop` (`"run"`, `"cancelling"`, `"closing"`, `"done"`) |
| a running `_connect_single(conn)` | `task[<<origin, conn>>]`, its retry `tries` |
| `_health_check_loop`, `health_check` | `hc`, `todo` (what the loop has still to visit), `ping` |
| a tool call that uses a connection | `upc`, `lease`; `sock` remembers the socket it was given |
| `pools[name] = pool` in `add_server` | `published` |

`_connect_single` is split at its awaits: `TaskStart` (up to waiting for an old socket to
close), `TaskClosed`, `ConnectOk` / `AttemptFails`, `TestOk` / `AttemptFails`, `CleanedUp`,
`TaskCancel`. There are two origins because `initialize` and a health check may each
have a connector on the same connection. `health_check` is `HcLock`, one `HcVisit` per
connection with `HcPong` / `HcPingFails` for its ping, `HcConnect` and `HcDone`.
A short critical section under the lock (`get_connection`, `release_connection`) is one
action guarded by `lock = "free"`. A lost connection is either noticed (`ConnLost`:
asyncssh closes it) or not (an open socket whose ping or test fails).

Two constants separate situations that the code does not exclude: `SlowInit` (the first
health check, after 30 s, may come while `initialize` still connects: three attempts of
up to `connection_timeout + 5` seconds each) and `CancelRelease` (a tool call is cancelled
while `release_connection` waits for the lock; `cancel_job` and `stop_worker` do that).

Left out: `error_count` and the state counts, which are only logged and reported; the
position of a connection in the list (the loops visit in any order, ties of `last_used`
go either way); what the command does on the connection.

### RateLimiter

Time and tokens are integers: a tick is the time in which `1/Period` of a token accrues
and a token is `Period` units, so `rate = 1/Period` tokens per tick. `acquire` is `Take`
when a token is there and `Sleep` then `Wake` when not; `Wake` may come late (a busy event
loop), and `Cancel` is a sleeper that is cancelled. `last` keeps the value it had before
the sleep, as in the code. `Observe` starts, at any time, the window in which permissions
are counted. The clock does not step back.

### CommandQueue

| code | model |
|---|---|
| `queue` (heap of `(-priority, time, command)`) | `heap` with the order `Before` |
| `executing`, `completed`, `failed` | the same names; the two dicts in order of insertion |
| `_worker_task` and the task of the command | `worker`, `cur`, `attempt` |
| `metrics` | `metrics` (the two gauges are derived and left out) |
| a client in `exec_command` | `client[c]` |

The worker awaits each command before it takes the next, so one command runs at a time
and the semaphore of `max_concurrent` is always free: it is left out. The rate limiter is
the state `"limiting"`, left at any time. `metrics.queued` also gives the time stamps. `runs`, `log` and `bypass` are history. Two
commands never have the same time stamp: if two of one priority had, the heap would compare the commands themselves and
raise `TypeError` (hazard at `queue.py:182`). `WorkerStep` is what the worker does in its own time; `RunOk` and `RunFails`, the end of
a command, are not among it. `StopEnd` follows when the worker has ended: the tasks that `stop_worker` would then gather are done.

### TaskQueue

A task goes from `"new"` over `"waiting"` and `"active"` to `"done"` (or is `"refused"`, or `"aborted"` by a stop). `Serve` takes
the first one that waits when none is active, `Run` is an attempt, `Succeed` and `Fail` give the verdict, the
latter only when the attempts are used up, `Tell` is a client that asks for it, `Forget` the clean-up; after `Close` only `Tell`,
`Forget`, `Reject`, `Abort` and `Closed` are left. `Phase` in `CommandQueue` says which phase a command is in: the two dicts,
`executing` and the client's view are details of it.

### LeasePool

`avail` is what `get_connection` may hand out (in `ConnectionPool`: the connections that are
`Healthy`), `lease` who holds what. `Return` does not make a connection available, because
`release_connection` does not; `Repair` (a connector's success or a ping) does, and
never for a connection that is out. `Lose` is everything that makes a connection unavailable. No user has to give
a connection back: one whose release was cancelled never does, and its lease stays.

### CommandExec

| code | model |
|---|---|
| a coroutine of `exec_command` / `_background_job_runner` | `pc`, `kind`, `cmd` |
| a queued call before the worker takes it, the worker's attempt, `_shutdown` of the queue | `pc = "queued"`, `attempt`, `stopped` |
| which of `run` and `create_process` is under way | `way` |
| the exception or result on its way to the `finally` | `last` |
| processes on the server, by the call that started them | `live`, and how many: `starts` |
| `job.status` | `status` (`"removed"` after `cleanup_completed_jobs`) |

`_execute_sync` is `Get` or `GetNone`, `Open`, one of the ways the run comes to an end, and
`Release`, which is its `finally`. `_execute_with_streaming` adds `StreamEnds`, and
`Fallback` from each of its failures. A direct call and a job begin with `Call`; a queued one with `Enqueue`, waits until
`Dequeue`, when no other queued call is at work (`AtWork`), and is repeated by `Retry`. Every await can be cancelled: `CancelIdle`,
`CancelRunning` and `CancelReleasing` are the three outcomes. In the last the call waits for the lock in `release_connection`,
which is in the `finally` already and is not repeated: the connection is never given back (`ReleaseCancelled` in `ConnectionPool`). The call
is then `"kept"`: over, with its lease. `StopQueue` is `stop_worker`, which cancels the call at work and leaves what is queued where it is.
`wait_for` is that of Python 3.12 and later; before, it may swallow
a cancellation (hazard at `command.py:314`). `live` is reset when an attempt begins: processes of earlier
attempts are not followed. Commands with sudo are taken to behave like plain ones.

### FileWrite

`name` maps the path, its `.bak` and its `.tmp` to inodes, `data` an inode to its
content, two blocks that may come from different calls. A call goes through `Begin`,
`EnsureDirs`, `Stat`, `Backup`, `Open`, `Write1`, `Write2`, `Rename` and `Check` (an upload
writes in place and has no `Stat`, `Backup` or `Rename`), one action per
operation on the server. `Done` says that the operation was carried out and its answer arrives or
is lost, `Fault` that it failed, `Failure` where the code's `try` blocks then lead.
`posix` (does rename replace?) and `dir` (is the directory there?) are facts
about the server, chosen at first. `before` and `met` are history: what the path held when
the call began, and whether another call was under way with it. The connection the call holds is
left out; it is taken and released as in `CommandExec`.

### FileRead

A reader goes through `Ask`, `SizeOf`, `Detect`, `OpenFile`, two `Read`s and `Answer`, with `Again` when text does not
decode; `Stop` is a failure or a cancellation anywhere. It reads from the inode its open led to (`file`), whatever
happens to the name afterwards. The test for a binary file, `Detect`, changes nothing: its
`with await` raises for asyncssh's files, and the exception is taken for text. The local side of a download is left out.
An operation that a call had sent when it was cancelled is carried out at once or never: that the server carries it out later, when others have
gone on, is not modelled.

### Monitoring

| code | model |
|---|---|
| a coroutine of `get_system_status` | `pc`; `detailed`, its parameter |
| the parts of its two `gather`s | `probe[u][m]`, the command a metric waits for, and `Plan`, where it goes from there |
| `_cache`, its keys and time stamps | `cache[detailed]`, `now`, `TTL` |
| a cancellation while it collects | `hit` |

`Plan` says for each command where its metric goes on its output, on a failure (or output that does
not parse), and on a cancellation, which `except BaseException` swallows in places. `Gathered` is everything
between the end of a `gather` and the next await. `gather` with `return_exceptions` waits for all its parts also when it is
cancelled, and then raises. A call that is cancelled in `release_connection` is `"kept"`, as in `CommandExec`.

### Server

| code | model |
|---|---|
| `MCPVPSServer.run`, `initialize`, `shutdown` | `phase`; `next`, the server to be added; `at`, what `shutdown` awaits |
| `ConnectionManager.pools`, `QueueManager.queues` | `pools`, `queues` (sets of names; the dicts' order is that of the numbers) |
| the worker of each queue | `worker` |
| `handle_call_tool` of a call | `handler` |
| its command, wherever it is done | `work`, `kind`, `name`, `tries`, `result` |
| where the first signal struck | `struck` |

A call is for a server that was added or for `""`, which `if server_name:` lets pass: a queue is created under this name, and its
commands find no pool. `Signal` cancels every task: the work and the handlers, the workers, and the coroutine that
shuts down, whose awaits differ (`stop_worker` and the wait for a health check swallow the cancellation, the
lock and the closing of a connection do not). A signal is taken to arrive while the event loop waits.

### ServiceTool

| code | model |
|---|---|
| the server | `host`, chosen at first; `Honest` says what its shell may answer to each probe |
| `_server_info_cache[server]` | `cache` |
| `detect_init_system`, `detect_distro_family` | `probe`, the table `Cascade`, `pc = "family"` |
| a coroutine of one of the three calls | `pc`, `op`, `info` (the init system it goes by) |
| history | `sure` (no probe failed or was cancelled), `gone` (what became of a cancellation) |

`Call` looks into the cache; `Get` (or `GetNone`), the probes, `Store` and `ReleaseInfo` are `_get_server_info`;
`Get`, `Run`, one of `RunEnds` and `RunTimesOut`, and `Release` are the command. A probe is `Answer` or `ProbeFails`; after
either `Advance` goes where the table leads. Cancellation has one action per place
where it has a different effect; `CancelAtPool` at a release leaves the call `"kept"`, over but with its lease. `Taken` says what a server may be taken for. Left out: the family of the distribution, which selects the wording of
three SysV commands, the command lines and the parsing of what they print. `Stray` says whether systemctl may be
installed on a server that does not run systemd.

## 3. Runs

Passing runs:

| run | instance | shows |
|---|---|---|
| `pool_leases` | 2 connections, 2 users, 3 sockets, 2 attempts, slow initialize, cancelled releases; symmetry | `ExclusiveLease`, `LeaseIntact`, `PoolKeepsOff`, `NotStranded`, `ShutdownIsFinal`: even with two connectors per connection nobody touches a connection that is out, nothing stays CONNECTING without a connector, and shutdown leaves no connection in the pool. `ImplementsLeases`: every step is one of `LeasePool` |
| `pool_life` | 1 connection, 2 users, 3 sockets, 2 attempts, fast initialize, no cancelled release; fairness | `BusyAccounted`, `AllLinked` (no connection lost as BUSY, no socket lost), `Recovers` (of every connection nobody holds), `GetAnswered`, `ShutdownEnds`, although commands may run for ever |
| `rate_window` | 3 ticks per token, bucket of 2, 14 ticks | `WindowBound`: at most Burst + 1 + 2 * rate * length permissions in any window |
| `queue_all` | 3 commands, priorities normal and critical, 2 attempts, 2 results kept; fairness | `OnePlace`, `Overtaken`, `RunsBounded`, `ClientsAnswered`: through retries, cleanup and a stop at any moment no command is lost or doubled, and clients are answered unless a command before theirs never ends. `ImplementsQueue`: every step is one of `TaskQueue`; nothing begins or gets a verdict once `stop_worker` has begun |
| `exec_calls` | 2 calls of any kind, 2 connections that come and go, 2 attempts; fairness | `LeaseWhileRunning`, `StartsBounded`, `JobTruth`, `JobStatusFinal`, `TimeoutsHold`: every way out but a cancelled release gives the connection back, a command is started no more often than allowed, a job tells the truth, and a call that does not stream ends unless it waits behind one that does or in a stopped queue |
| `service_calls` | 2 calls of any kind, 1 connection, every kind of server, a cache that lives for one of 2 instants; fairness | `OneAtATime`, `FitsHost`, `CancelHeeded`, `ControlEnds`: through failing probes, shared and expired cache entries and cancellations; `service_control` is kept by nothing but a probe that is never answered |
| `file_calls` | 2 writers and a reader, both kinds of server, with or without the directory and a file | `LoneWriteSafe`, `SuccessTruth` for writers that do not overlap, `NoTempLeft` for all; `ReadsWhole`: a reader among calls of `write_file`, one after the other, gets one whole content |
| `status_calls` | 2 calls, 2 connections that come and go, 5 metrics, a cache that lives for 1 of 3 instants; fairness | `ProbesHold`, `AnswersFit`, `CancelHeeded`, `StatusEnds`: commands side by side, some of which swallow a cancellation |
| `server_life` | 2 servers of which any may fail to be added, 2 calls of any kind for any name, 2 attempts, two signals; fairness | `QueuesFirst`, `NoWorkerLost`, `CleanEnd`, `GracefulStop`, `CallsAnswered` |

Runs that refute what a doc or a comment says (the counterexample is the finding):

| run | property | what the code does |
|---|---|---|
| `pool_release` | `ReleasedIsReady` | `release_connection` asks `is_healthy()`, which wants READY, of a BUSY connection: every release makes it ERROR, until the next health check pings it. After `pool_size` commands `get_connection` answers `None` for up to 30 s |
| `rate_documented` | `DocumentedRate` | time slept in `acquire` is credited twice: the sustained rate is twice the configured one |
| `exec_streams` | `FailedStreamsCleaned` | any exception of a streamed command runs it again without killing the first process; `chunk.decode` on a `str` makes that the normal case for a command that prints |

Four things the passing runs except. With `SlowInit` TRUE, `AllLinked` does not hold: a health check during
a slow `initialize` marks a CONNECTING connection DISCONNECTED and starts a second connector; one socket is
overwritten and never closed. With `CancelRelease` TRUE, `BusyAccounted` does not hold: a call that is cancelled (`cancel_job`,
`stop_worker`, the MCP session) while it waits for the pool's lock in its `finally` (`command.py:378-380`, `services.py:199` and `492`,
`monitoring.py:125`) never releases its connection; `LeaseWhileRunning`, `OneAtATime` and `ProbesHold` name it as
the one way out that keeps a connection. `FitsHost` excepts two mistakes of the detection (`Taken`). The probe
`systemctl list-units ... | head -1` has the exit status of `head`, so that any server whose process 1 is called init
is taken for systemd, even without systemctl. And whatever is in `/etc/init.d` counts for SysV (`distro.py:138-142`), which OpenRC
servers and many containers have without running it.

Two more comments are not kept to, which follows from the order of a few lines and needs no run: `stop_worker` aborts
the executing command, and the gather after "Wait for executing commands to complete" (`queue.py:134`)
finds nothing to wait for; and between its two renames, and after a failure there, `write_file` ("Write content
atomically", `file_ops.py:279`) leaves no file under the name.

**Bounds.** Two connections and two users are the least for two users to meet on a
connection, for LRU to choose, and for a connector, a ping and a lease to be on different
connections; two connectors per connection are always possible, and three sockets are
enough for an old, a new and a forgotten one. Two attempts give a retry. Identifiers of
sockets that nothing refers to are used again, so runs are not cut short by their number.
`pool_life` has one connection because liveness with two takes too long; what it checks is
per connection, and the lock, through which connections affect each other, is contended by
its two users, the check and shutdown. In `rate_window` 14 ticks let the bucket empty
and several sleeps follow, and `Period` 3 lets sleeps begin with 0, 1 and 2 units. Three
commands of two priorities are the least with one executing, one that overtakes and one that
is overtaken; 2 results kept make cleanup remove some. In `exec_calls` two calls can
both be at work, one can wait in the queue behind the other, or find the pool empty because of it; an attempt and its repetition are two.
In `file_calls` two writers follow each other (the second finds the first one's
backup or leftovers) or overlap at every pair of steps, and the reader meets them anywhere; two blocks are enough for half a file. In `service_calls` two calls share the cache, before and after it
expires, and the one connection, so that one can find the pool empty between its own two leases. In `status_calls` there are metrics with a fallback (cpu, memory), with one
command (disk), and with commands that follow each other (process; system, which goes on after a failure); load, uptime and
network are like disk. In `server_life` a queue or a pool can be closed while the other's commands run, two calls share a worker, and
one can create a queue. `CHECK_DEADLOCK FALSE` is set for
`CommandQueue`, `CommandExec`, `FileRead`, `ServiceTool`, `Monitoring` and `Server`, whose calls are finitely many and end. The pool
never stops in the model (users come and go), and the bound on the clock leaves the limiter a step:
whoever may neither take a token nor sleep is asleep and may be cancelled.

**Fairness.** Weak fairness of a step says that the event loop runs a task that can run, and that a wait with a timeout ends.
Nothing makes a command end that has no timeout of its own.

- `ConnectionPool`: the pool's own waits have timeouts (connect, test, ping, close: 3 to 10 s or `connection_timeout + 5`), hence
  weak fairness of the steps of connectors, health check and shutdown. `asyncio.Lock` is FIFO, so a
  coroutine that waits for it gets it although others take it again and again: strong
  fairness of `HcLock`, `Get`/`GetNone`, `Release` and `StopLock`. `Finish`, the end of what a user does with its connection, is not fair:
  a user may keep it for ever, and `Recovers` is about the connections nobody holds. `Reachable` is an assumption on the network:
  connecting, and its test, succeed when they are tried again and again; without it `Recovers`
  cannot hold, while `GetAnswered` and `ShutdownEnds` do not depend on it being true. No
  user has to come, no connection has to fail, nobody has to stop anything. `wait_closed` in shutdown
  is assumed to return: the code gives it no timeout.
- `CommandQueue`: `WorkerStep` and the polling of clients. A command need not end (`RunOk` and `RunFails` are not fair), and
  `ClientsAnswered` then says nothing of the others: the worker is one.
- `CommandExec`: the steps of a call (its turn at the worker, `get_connection`, the timeout of `connection.run` and of the readers of a stream, its `finally`). Nothing makes
  a process end, a connection fail or a stream close, and `process.wait()` after a stream (`command.py:432`) has no timeout, which is why `TimeoutsHold`
  excepts streamed commands and the queued calls behind them.
- `ServiceTool`: a call's own steps, among them the timeout of `service_control` (`RunTimesOut`). The commands of the detection have no timeout, so
  `Answer`, `ProbeFails` and `Store` are not fair, nor is `RunEnds`: `ControlEnds` excepts the probes and is about `service_control` only.
- `Monitoring`: a call's own steps. No command has a timeout, and `StatusEnds` says that nothing else keeps a call.
- `Server`: the event loop runs what can run and commands are assumed to end; one that does not (a status, a log, a stream that closes its
  output and goes on) would hold up the end of the session and with it `GracefulStop`.

## 4. Proofs

`ConnectionPool_proofs` proves, for all sets of connections, users and sockets, all numbers of
attempts, and with or without slow initialisation and cancelled releases
(`PoolAssumption`):

- `TypeCorrect`: `Spec => []TypeOK`.
- `LeasesExclusive`, `LeasesIntact`, `LeasesUntouched`, `ShutdownFinal`:
  `ExclusiveLease`, `LeaseIntact`, `PoolKeepsOff` and `ShutdownIsFinal`.

None of these is inductive alone. That a connector never disturbs a lease rests on: connectors of
`initialize` are over once the pool is published and only then do users come; connectors of a health
check exist only while it holds the lock (`TasksOwned`); the check starts them on connections
that are DISCONNECTED or ERROR and a lease is BUSY; and nobody can be given a connection while the
lock is held (`LockOwner`). `LeaseShape` ties a user's place to what it holds, `Closed` says what the
stages of shutdown have left. `IInv` is their conjunction with the properties; TLC agrees with
it on the instance of `pool_leases`.

- `NoneStranded`: `NotStranded`. Nobody but a connector makes a connection CONNECTING or ends a connector's work
  (`OthersConnectNothing`), and a connector leaves its connection CONNECTING only if it goes on with it
  (`ConnectorGoesOn`); with the types the property is inductive.
- `BusyHeld`: `~CancelRelease => (Spec => []BusyAccounted)`, and `SocketsLinked`: `~SlowInit => (Spec => []AllLinked)`, with
  `ShutdownClosesAll`: under the same condition no socket is open when shutdown is over. The hypotheses are needed: a release that is
  cancelled does leave its connection BUSY, and two connectors on one connection do lose a socket (section 3). For `AllLinked` the
  inductive invariant `LInv` adds that a connector clears `conn.connection` before it connects (`LinkCleared`) and that
  no health check wakes before the pool is published (`ChecksAfterInit`), from which one connection
  has one connector at a time (`OneConnector`).
- `Implements`: `Spec => Leases!Spec`, that is `ImplementsLeases`: the initial state maps to that of `LeasePool`,
  and each action to `Grant`, `Return`, `Repair`, `Lose` or a stutter. The invariant is needed for
  `Repair`: a connector or a ping that makes a connection READY works on one that nobody holds.

`RateLimiter_proofs` proves `BucketTyped` (`TypeOK`) and `RateBounded` (`WindowBound`) for every
rate and burst. `WindowBound` alone is not inductive, because a sleeper's permission and the time
that will be credited again are still to come. `RateInv` adds both: what was given, with the refilled
bucket, stays below the bound, and while a caller sleeps, what was given with the credit its sleep will leave behind stays a
token below it.

`CommandExec_proofs` proves `TypeCorrect`, `LeasesHeld` (`LeaseWhileRunning`), `StartsLimited` (`StartsBounded`),
`JobsTrue` (`JobTruth`) and `JobsFinal` (`JobStatusFinal`) for all calls, connections and `MaxAttempts`, with the queue stopped at any moment. `LeasesHeld` has the one exception of
its property, a call cancelled in `release_connection`. `Good(u)`
adds to the bound on starts how many the attempt may still make (`Left`); `Job(u)` adds to `JobTruth`
that a job which was cancelled has its status before its task notices. A step concerns one call
(lemma `Frame` for the others).
`UsesPool` (`Spec => Pool!Spec`, in `ServiceTool_proofs` and `Monitoring_proofs` too) is the other half of the composition with
`ConnectionPool`: each step of a call is a step of a user of `LeasePool` or leaves the pool alone. With it the pool's promise reaches
the commands: `NeverShared` says that no two of them run on one connection, nor one on a connection that is available (`Apart`,
an invariant of `LeasePool`); a connection that was kept is not available either, that is, lost to the others.

`FileWrite_proofs` proves `TypeCorrect`, `TempFilesGone` (`NoTempLeft`), `LoneWritesSafe` (`LoneWriteSafe`) and
`SuccessesTrue` (`SuccessTruth`) for any number of calls. `Linked`: different names lead to different inodes and
nobody's inode is there before it was created. `TempOwned`: a temporary file has a call that is at work on it, or that was cancelled or could
not clean up. `Lone` gives, for each place of a call that meets no other, where the old and the new content are. Two theorems
are about `FileRead`. `ReadersOnlyRead` (`ReadSpec => Spec`) carries everything about writers over. `WholeReads` (`ReadsWhole`) rests on inodes
that are `Settled`: neither a temporary file's nor one still to be created. Among calls that replace the file one after the other
a settled inode stays settled and its content is never written again (`SettledStays`), and the name leads to a settled inode
with a whole content (`TargetSettled`, `TargetWhole`), so that what a reader opened and read (`Shown`) is of one piece.

`ServiceTool_proofs` proves `TypeCorrect`, `LeasesOneAtATime` (`OneAtATime`), `CommandsFit` (`FitsHost`) and
`CancellationsHeeded` (`CancelHeeded`) for any number of calls and connections, any life of the cache, and with or without
`Stray`. `FitsHost` rests on `OnPath`, the probes an undisturbed detection can get to on each kind of
server (lemma `CascadeRight`: an honest answer stays on them, or comes to one of what the server may be taken for, `Taken`), and on
`CacheSure`, the same for what is cached.

`CommandQueue_proofs` proves `TypeCorrect`, `CommandsInOnePlace` (`OnePlace`), `OvertakenOnce` (`Overtaken`), `RunsLimited`
(`RunsBounded`) and `Implements` (`ImplementsQueue`) for any number of commands, priorities and attempts. `OnePlace` is inductive
with `Hands`, what the worker holds at each place. `Overtaken` rests on `Ranked`: what waits and ranks before the command
in the worker's hands came later than it, and nothing has overtaken it yet. `Implements` is the refinement of `TaskQueue`: each
action is one of it or a stutter (`Execute`, `RunOk` and `RunFails` change no phase). `PhasesFit` says in which
phase the heap, the worker's hands and the log put a command, and `Tried` that a command whose task raised
has no attempt left, which `Fail` asks for.

`Monitoring_proofs` proves `TypeCorrect`, `ConnectionsHeld` (`ProbesHold`), `AnswersRight` (`AnswersFit`) and `CancellationsHeeded`
(`CancelHeeded`) for any number of calls and connections and any set of metrics. A metric only ever waits for one of its own commands
(`PlanClosed`, `Apart`); what is cached under a key is what that key's calls want (`CacheRight`).

`Server_proofs` proves `TypeCorrect`, `QueuesEndFirst` (`QueuesFirst`), `WorkersKept` (`NoWorkerLost`) and `EndsClean` (`CleanEnd`) for any
number of servers and calls. `Good(u)`: a queued command under way has a worker that is not dead, and a direct one an open
handler; `Ended`: what each stage of the end leaves behind.

Type invariants are proved, for every value of the constants, and not checked again by the runs.

Every safety property the passing runs check is the subject of a theorem. Only model-checked are the liveness properties, because
fairness and ENABLED are beyond TLAPS: `Recovers`, `GetAnswered`, `ShutdownEnds` (pool), `ClientsAnswered` (queue),
`TimeoutsHold`, `ControlEnds`, `StatusEnds` (tools), `GracefulStop` and `CallsAnswered` (`Server`). The three
refuted properties need no proof: TLC's counterexample is one.

## 5. Not modelled

- Security validation: regular expressions over text; a model of it would be the text.
- Configuration, schemas, response formatting, logging, `validate_deployment.py`: no state that
  other parts depend on.
- asyncssh, asyncio and the remote servers are modelled from how the code uses them.
- `utils/secure_sudo.py` is imported but not part of the repository.
- Replacing the pool or the queue of an existing name: the configuration refuses two servers of one name, `initialize` is called
  once, and both callers of `create_queue` look first and await nothing in between.
- `set_sudo_password`, `health_check_all`, `list_directory` and reports: no state that changes,
  or nothing calls them.
- The handlers of resources: listing them changes nothing, and reading one (`server.py:88-113`) calls `get_system_status`, which for
  the pool and the cache is one more call of `Monitoring`.
- The local side of uploads and downloads.

## 6. Plan

Done: `ConnectionPool` with `LeasePool`, `RateLimiter`, `CommandQueue` with `TaskQueue`, `CommandExec`, `FileWrite` and `FileRead`,
`ServiceTool`, `Monitoring`, `Server`, and the proofs of section 4. To come, in this order:

1. For `TaskQueue`: theorems of its own (order of service, one verdict), which then hold of every implementation.
2. `Server` and `CommandQueue`: that the worker's life in `Server` is what `CommandQueue`'s `stop` and `worker` allow.
