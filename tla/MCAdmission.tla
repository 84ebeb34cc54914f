----------------------------- MODULE MCAdmission -----------------------------
(* A small deployment of Admission for TLC. *)
EXTENDS Admission, TLC

CONSTANTS claude, chatgpt,       \* agents
          anthropic, openai,     \* families
          launch,                \* an initiative
          root                   \* the parent of the subtasks

AgentFamily == [a \in {claude, chatgpt} |-> IF a = claude THEN anthropic ELSE openai]

(* Posts for a named agent, and for the router with a model that does not *)
(* fit the agent it routes to; subtasks of one parent, for two agents.     *)
NewTask == Task \ {root}
Posts ==
  {[kind |-> "package", task |-> t, agent |-> p[1], role |-> claude, init |-> launch,
    model |-> p[2], tokens |-> 1, parent |-> NoTask] :
      t \in NewTask, p \in {<<claude, anthropic>>, <<Router, openai>>}}
Subtasks ==
  {[kind |-> "request", task |-> t, agent |-> Router, role |-> a, init |-> NoInitiative,
    model |-> NoFamily, tokens |-> 1, parent |-> root] : t \in NewTask, a \in Agent}
SmallRequests == Posts \cup Subtasks

Symmetry == Permutations(NewTask) \cup Permutations(Handler)
=============================================================================
