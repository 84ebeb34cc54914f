--------------------------- MODULE MCControlPlane ---------------------------
(* Small deployments of ControlPlane for TLC. *)
EXTENDS ControlPlane

CONSTANTS claude, chatgpt,  \* agents
          farm,             \* a remote host
          w1, w2, r1        \* agent processes

(* One process per agent: claude on the daemon's host, chatgpt on the farm. *)
SplitAgentOf == [p \in {w1, r1} |-> IF p = w1 THEN claude ELSE chatgpt]
(* Two local processes, one for each agent. *)
LocalAgentOf == [p \in {w1, w2} |-> IF p = w1 THEN claude ELSE chatgpt]
(* One local process, and nothing else. *)
SoloAgentOf == [p \in {w1} |-> claude]

FarmHostOf == [p \in {r1} |-> farm]
NoHostOf == [p \in {} |-> farm]

(* The farm advertises the profile of the last task only, for every agent. *)
FarmCapable == {NumTasks} \X Agent \X {farm}
NoneCapable == {}

(* Task 1 is claude's, the others are chatgpt's. *)
OwnedAssignTo == [t \in 1..NumTasks |-> IF t = 1 THEN {claude} ELSE {chatgpt}]
ClaudeAssignTo == [t \in 1..NumTasks |-> {claude}]
(* Operators reroute between the two agents. *)
AnyAssignTo == [t \in 1..NumTasks |-> {claude, chatgpt}]
=============================================================================
