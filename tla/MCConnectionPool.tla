-------------------------- MODULE MCConnectionPool --------------------------
(* Two or three goroutines over a pool of two or three connections. *)
EXTENDS ConnectionPool, TLC

CONSTANTS u1, u2, u3, c1, c2, c3, c4, c5

Alike == Permutations(Users) \cup Permutations(Conns)

=============================================================================
