------------------------------ MODULE LeasePool ------------------------------
(* What the connection pool of one server promises to the code that uses   *)
(* it: exclusive leases.  A connection that is available may be lent to    *)
(* one user; one that is out never becomes available.  A connection that   *)
(* was returned is available again only once the pool has repaired it      *)
(* (connection_pool.py: release_connection leaves it in ERROR, the health  *)
(* check makes it READY).  No user has to give its connection back.        *)
(* ConnectionPool implements this specification; CommandExec, ServiceTool  *)
(* and Monitoring are built on it.                                         *)

CONSTANTS
    Conns,  \* the connections of the pool
    Users,  \* who may hold one
    NoConn  \* None

VARIABLES
    avail,  \* connections that can be handed out
    lease   \* the connection each user holds

leaseVars == <<avail, lease>>

Init ==
    /\ avail = {}
    /\ lease = [u \in Users |-> NoConn]

Grant(u, c) ==
    /\ lease[u] = NoConn
    /\ c \in avail
    /\ avail' = avail \ {c}
    /\ lease' = [lease EXCEPT ![u] = c]

\* The user gives its connection up: release_connection.  (A ConnectionPool user
\* whose release is cancelled is rid of it too, and nobody repairs it then; the
\* tools' modules follow such a call and let it keep its lease.)
Return(u) ==
    /\ lease[u] # NoConn
    /\ lease' = [lease EXCEPT ![u] = NoConn]
    /\ UNCHANGED avail

\* A connection nobody holds is connected, or answers a ping.
Repair(c) ==
    /\ \A u \in Users : lease[u] # c
    /\ avail' = avail \cup {c}
    /\ UNCHANGED lease

\* Connections are lost, found bad or closed.
Lose(C) ==
    /\ avail' = avail \ C
    /\ UNCHANGED lease

Next ==
    \/ \E u \in Users, c \in Conns : Grant(u, c)
    \/ \E u \in Users : Return(u)
    \/ \E c \in Conns : Repair(c)
    \/ \E C \in SUBSET Conns : Lose(C)

Spec == Init /\ [][Next]_leaseVars
=============================================================================
