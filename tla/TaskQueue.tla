------------------------------ MODULE TaskQueue ------------------------------
(* What the command queue of one server promises to the tools that use it: *)
(* a priority queue whose tasks are served one at a time.  A task that is  *)
(* taken in goes one way, from waiting over active to done, and gets one   *)
(* verdict, which says how its attempts ended; it runs no more often than  *)
(* allowed, and once the queue closes nothing begins any more (queue.py,   *)
(* class CommandQueue).  CommandQueue implements this specification.       *)
EXTENDS Naturals

CONSTANTS
    Cmds,        \* the tasks
    Priorities,  \* their priorities
    MaxAttempts  \* how often one that is not critical may run

Critical == 4

VARIABLES
    phase,     \* "new", "refused", "waiting", "active", "done" or "aborted"
    priority,
    arrival,   \* the number it got when it was taken in
    count,     \* how many have been taken in
    runs,      \* how often it ran
    good, bad, \* tasks with a verdict that can be asked for
    told,      \* tasks whose verdict was asked for
    stop       \* "run", "cancelling" or "done"

verdicts == <<good, bad, told>>
queueVars == <<phase, priority, arrival, count, runs, verdicts, stop>>

Limit(c) == IF priority[c] = Critical THEN 1 ELSE MaxAttempts

Init ==
    /\ phase = [c \in Cmds |-> "new"]
    /\ priority = [c \in Cmds |-> 0]
    /\ arrival = [c \in Cmds |-> 0]
    /\ count = 0
    /\ runs = [c \in Cmds |-> 0]
    /\ good = {} /\ bad = {} /\ told = {}
    /\ stop = "run"

\* A task goes from one phase to the next.
Move(c, from, to) ==
    /\ phase[c] = from
    /\ phase' = [phase EXCEPT ![c] = to]

Submit(c, p) ==
    /\ stop = "run"
    /\ Move(c, "new", "waiting")
    /\ priority' = [priority EXCEPT ![c] = p]
    /\ count' = count + 1
    /\ arrival' = [arrival EXCEPT ![c] = count + 1]
    /\ UNCHANGED <<runs, verdicts, stop>>

Reject(c) ==
    /\ stop # "run"
    /\ Move(c, "new", "refused")
    /\ UNCHANGED <<priority, arrival, count, runs, verdicts, stop>>

Outranks(c, d) ==
    \/ priority[c] > priority[d]
    \/ priority[c] = priority[d] /\ arrival[c] < arrival[d]

\* The first of those that wait, when no other is active.
Serve(c) ==
    /\ stop = "run"
    /\ \A d \in Cmds :
          /\ phase[d] # "active"
          /\ phase[d] = "waiting" => ~Outranks(d, c)
    /\ Move(c, "waiting", "active")
    /\ UNCHANGED <<priority, arrival, count, runs, verdicts, stop>>

Run(c) ==
    /\ stop = "run"
    /\ phase[c] = "active"
    /\ runs[c] < Limit(c)
    /\ runs' = [runs EXCEPT ![c] = @ + 1]
    /\ UNCHANGED <<phase, priority, arrival, count, verdicts, stop>>

Succeed(c) ==
    /\ stop = "run"
    /\ runs[c] > 0
    /\ Move(c, "active", "done")
    /\ good' = good \cup {c}
    /\ UNCHANGED <<priority, arrival, count, runs, bad, told, stop>>

\* A task has failed when its last attempt has.
Fail(c) ==
    /\ stop = "run"
    /\ runs[c] = Limit(c)
    /\ Move(c, "active", "done")
    /\ bad' = bad \cup {c}
    /\ UNCHANGED <<priority, arrival, count, runs, good, told, stop>>

Tell(c) ==
    /\ c \in good \cup bad
    /\ told' = told \cup {c}
    /\ UNCHANGED <<phase, priority, arrival, count, runs, good, bad, stop>>

\* Verdicts that nobody may ask for any more.
Forget ==
    /\ good' \subseteq good
    /\ bad' \subseteq bad
    /\ UNCHANGED <<phase, priority, arrival, count, runs, told, stop>>

Close ==
    /\ stop = "run"
    /\ stop' = "cancelling"
    /\ UNCHANGED <<phase, priority, arrival, count, runs, verdicts>>

\* The active task gets no verdict.
Abort(c) ==
    /\ stop = "cancelling"
    /\ Move(c, "active", "aborted")
    /\ UNCHANGED <<priority, arrival, count, runs, verdicts, stop>>

Closed ==
    /\ stop = "cancelling"
    /\ \A c \in Cmds : phase[c] # "active"
    /\ stop' = "done"
    /\ UNCHANGED <<phase, priority, arrival, count, runs, verdicts>>

Next ==
    \/ \E c \in Cmds :
          \/ \E p \in Priorities : Submit(c, p)
          \/ Reject(c) \/ Serve(c) \/ Run(c) \/ Succeed(c) \/ Fail(c) \/ Tell(c)
          \/ Abort(c)
    \/ Forget \/ Close \/ Closed

Spec == Init /\ [][Next]_queueVars
=============================================================================
