--------------------------- MODULE LeaseRegister ---------------------------
(***************************************************************************)
(* What the lease records of the ledger promise, with no ledger: a task is *)
(* held by at most one agent, it changes hands only after it was released, *)
(* and the attempt number counts the grants.                               *)
(***************************************************************************)
EXTENDS Naturals

CONSTANTS Agent, Nobody, Task

VARIABLES holder, attempt

Init ==
  /\ holder = [t \in Task |-> Nobody]
  /\ attempt = [t \in Task |-> 0]

(* A holder may be granted its lease again (the agent restarted).          *)
Grant(t, a) ==
  /\ holder[t] \in {Nobody, a}
  /\ holder' = [holder EXCEPT ![t] = a]
  /\ attempt' = [attempt EXCEPT ![t] = @ + 1]

Release(t) ==
  /\ holder' = [holder EXCEPT ![t] = Nobody]
  /\ UNCHANGED attempt

Next == \E t \in Task : Release(t) \/ \E a \in Agent : Grant(t, a)

Spec == Init /\ [][Next]_<<holder, attempt>>

=============================================================================
