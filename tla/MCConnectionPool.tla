-------------------------- MODULE MCConnectionPool --------------------------
(* ConnectionPool for TLC. *)
EXTENDS ConnectionPool, TLC

Symmetry == Permutations(Users) \cup Permutations(Sockets) \cup Permutations(Conns)
=============================================================================
