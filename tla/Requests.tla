------------------------------ MODULE Requests ------------------------------
(***************************************************************************)
(* The children of the daemon: main of src/wt_roomd.c forks one for each   *)
(* connection, and the child runs handleClient and exits.  Nothing orders  *)
(* the children among themselves but the locks on the files.               *)
(*                                                                         *)
(* A child is a record with a program counter and what its handler keeps   *)
(* in local variables from one step to the next.                           *)
(***************************************************************************)
EXTENDS Integers

CONSTANTS
  Child,        \* children that may run at the same time
  MaxRequests,  \* bound: requests that the daemon receives
  MaxFaults     \* bound: children that die, and appends and writes that fail

ASSUME RequestsAssumption == MaxRequests \in Nat /\ MaxFaults \in Nat

VARIABLES child, requests, faults

Idle == [pc |-> "idle"]

RequestsInit == child = [c \in Child |-> Idle] /\ requests = 0 /\ faults = 0

At(c, pc) == child[c].pc = pc
Becomes(c, state) == child' = [child EXCEPT ![c] = state]
Goes(c, pc) == child' = [child EXCEPT ![c].pc = pc]
Ends(c) == Becomes(c, Idle)

(* A request arrives; its handler starts in the given state.               *)
Accept(c, state) ==
  /\ At(c, "idle") /\ requests < MaxRequests
  /\ requests' = requests + 1
  /\ Becomes(c, state)
  /\ UNCHANGED faults

Proceeds == UNCHANGED <<requests, faults>>

(* Something fails: the disk is full, a command exits with an error, or    *)
(* the child is killed.                                                    *)
Fault == faults < MaxFaults /\ faults' = faults + 1 /\ UNCHANGED requests
=============================================================================
