---------------------------- MODULE MCDirectives ----------------------------
(* A small instance of Directives for TLC. *)
EXTENDS Directives, TLC

CONSTANTS c1, c2  \* children of the daemon

(* Every task depends on those before it. *)
ChainedDeps == [t \in 1..NumTasks |-> 1..(t - 1)]

Symmetry == Permutations({c1, c2})
=============================================================================
