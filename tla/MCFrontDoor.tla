---------------------------- MODULE MCFrontDoor -----------------------------
(* A small instance of FrontDoor for TLC. *)
EXTENDS FrontDoor, TLC

CONSTANTS c1, c2,               \* children of the daemon
          allow, budget, mode,  \* keys
          std, any              \* values

Installed == [k \in Key |-> std]
(* The file admits every peer; the environment sets the mode. *)
InstalledFile == [k \in Key |-> IF k = allow THEN any ELSE Unset]
ModeInEnv == [k \in Key |-> IF k = mode THEN std ELSE Unset]

Symmetry == Permutations({c1, c2}) \cup Permutations(Session)
=============================================================================
