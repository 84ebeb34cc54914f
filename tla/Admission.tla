------------------------------ MODULE Admission ------------------------------
(***************************************************************************)
(* How new tasks are let in: handlePostTaskPackage and                     *)
(* handlePostTaskRequest of src/wt_roomd.c, the policy of src/wt_policy.c  *)
(* and the projection of src/wt_task_projection.c that they count in.      *)
(*                                                                         *)
(* Each request is a child of the daemon.  It rebuilds the projection from *)
(* the ledger, reads sums and counts, decides, and only then appends; the  *)
(* children take no lock over that.  The limits hold up to what children   *)
(* that decide at the same time may add.                                   *)
(*                                                                         *)
(* Role routing and token telemetry are on, as by default.  A post that is *)
(* refused before the projection is read (roleMaySpawn, a missing field)   *)
(* has no step; autonomy grants are not modelled; the month's budget is    *)
(* the day's with another length.                                          *)
(***************************************************************************)
EXTENDS Integers, FiniteSets

CONSTANTS
  Task, Agent, Initiative, Family,
  NoTask, NoInitiative, NoFamily, Router,
  FamilyOf,           \* the family of an agent's models
  BlockedVendors,
  Requests,           \* what may be posted
  MaxTokens,          \* the most a request asks for
  Handler,            \* children of the daemon
  MaxActiveTasksPerAgent, MaxTasksPerInitiative, MaxSubtasksPerParent,
  TokenBudgetPerInitiative, TokenBudgetPerModelFamily, TokenDailyBudget,
  MaxPosts,           \* bound: requests that the daemon receives
  MaxMoves            \* bound: tasks that operators move or reopen

Request ==
  [kind : {"package", "request"}, task : Task, agent : Agent \cup {Router},
   role : Agent, init : Initiative \cup {NoInitiative}, model : Family \cup {NoFamily},
   tokens : 0..MaxTokens, parent : Task \cup {NoTask}]

Limits == {MaxActiveTasksPerAgent, MaxTasksPerInitiative, MaxSubtasksPerParent,
           TokenBudgetPerInitiative, TokenBudgetPerModelFamily, TokenDailyBudget}

ASSUME AdmissionAssumption ==
  /\ Requests \subseteq Request
  /\ \A r \in Requests : r.kind = "package" => r.parent = NoTask
  /\ FamilyOf \in [Agent -> Family] /\ BlockedVendors \subseteq Family
  /\ NoTask \notin Task /\ NoInitiative \notin Initiative
  /\ NoFamily \notin Family /\ Router \notin Agent
  /\ IsFiniteSet(Task) /\ IsFiniteSet(Handler) /\ Handler # {}
  /\ MaxTokens \in Nat /\ MaxPosts \in Nat /\ MaxMoves \in Nat /\ Limits \subseteq Nat

VARIABLES
  rows,     \* the task rows that the ledger amounts to
  db,       \* the task rows of the last rebuild, in SQLite
  window,   \* tokens of the packages in the ledger's daily window
  child,    \* what each child is about to do
  posts,    \* requests received so far
  moves     \* tasks moved or reopened so far

vars == <<rows, db, window, child, posts, moves>>

NoRow == [agent |-> Router, init |-> NoInitiative, model |-> NoFamily,
          tokens |-> 0, parent |-> NoTask, active |-> FALSE, decided |-> NoFamily]

Init ==
  /\ rows = [t \in Task |-> NoRow] /\ db = rows
  /\ window = 0 /\ posts = 0 /\ moves = 0
  /\ child = [h \in Handler |-> [pc |-> "idle"]]

-----------------------------------------------------------------------------
(* routeAgentForTask; the role stands for role and tool profile, from which *)
(* the router takes the agent.                                             *)
RouteAgent(r) == IF r.agent = Router THEN r.role ELSE r.agent

DefaultModel(r) ==
  IF r.model = NoFamily \/ (r.agent = Router /\ r.model # FamilyOf[r.role])
  THEN FamilyOf[RouteAgent(r)] ELSE r.model

-----------------------------------------------------------------------------
(* The rows.  A task is active until it is complete, failed, cancelled or  *)
(* closed.  The package of handlePostTaskPackage is the body of the post,  *)
(* with the agent and the model as they were asked for.  History: the      *)
(* family that the policy was asked about (decided).                       *)

(* Mistake: two columns are bound in the wrong order.                      *)
ProjectSwapped(t, r) ==
  rows' = [rows EXCEPT ![t] = [agent |-> r.model, init |-> r.init, model |-> r.agent,
                               tokens |-> r.tokens, parent |-> r.parent, active |-> TRUE,
                               decided |-> DefaultModel(r)]]

ProjectPackage(t, r) ==
  rows' = [rows EXCEPT ![t] = [agent |-> r.agent, init |-> r.init, model |-> r.model,
                               tokens |-> r.tokens, parent |-> r.parent, active |-> TRUE,
                               decided |-> DefaultModel(r)]]

(* An event changes the agent it names and the status, of tasks that exist. *)
InsertEvent(t, agent, active) ==
  rows' = [rows EXCEPT ![t] = IF rows[t] = NoRow THEN NoRow
                              ELSE [@ EXCEPT !.agent = agent, !.active = active]]

Active(table) == {t \in Task : table[t].active}
ActiveForAgent(table, a) == {t \in Active(table) : table[t].agent = a}
ActiveForInitiative(table, i) == {t \in Active(table) : table[t].init = i}
ActiveForParent(table, p) == {t \in Active(table) : table[t].parent = p}
ActiveForModelFamily(table, f) == {t \in Active(table) : table[t].model = f}

(* The sum, counted token by token.                                        *)
AllocatedTokens(table, tasks) ==
  Cardinality({u \in tasks \X (1..MaxTokens) : u[2] <= table[u[1]].tokens})

-----------------------------------------------------------------------------
(* The policy.  A limit of 0 is no limit.                                  *)

Under(limit, n) == limit = 0 \/ n < limit
Fits(limit, n, tokens) == limit = 0 \/ n + tokens <= limit

(* Mistake: the tokens that are asked for are left out.                    *)
BudgetsWithoutRequest(r) ==
  r.tokens > 0 =>
    /\ r.init # NoInitiative =>
         Fits(TokenBudgetPerInitiative, AllocatedTokens(db, ActiveForInitiative(db, r.init)), 0)
    /\ Fits(TokenBudgetPerModelFamily,
            AllocatedTokens(db, ActiveForModelFamily(db, DefaultModel(r))), 0)
    /\ Fits(TokenDailyBudget, window, 0)

WithinBudgets(r) ==
  r.tokens > 0 =>
    /\ r.init # NoInitiative =>
         Fits(TokenBudgetPerInitiative, AllocatedTokens(db, ActiveForInitiative(db, r.init)), r.tokens)
    /\ Fits(TokenBudgetPerModelFamily,
            AllocatedTokens(db, ActiveForModelFamily(db, DefaultModel(r))), r.tokens)
    /\ Fits(TokenDailyBudget, window, r.tokens)

WithinCapacity(r) ==
  /\ Under(MaxActiveTasksPerAgent, Cardinality(ActiveForAgent(db, RouteAgent(r))))
  /\ r.init # NoInitiative =>
       Under(MaxTasksPerInitiative, Cardinality(ActiveForInitiative(db, r.init)))

EvaluateTaskPackage(r) ==
  /\ DefaultModel(r) \notin BlockedVendors
  /\ DefaultModel(r) = FamilyOf[RouteAgent(r)]
  /\ WithinBudgets(r)
  /\ WithinCapacity(r)

-----------------------------------------------------------------------------
(* A child.                                                                *)

At(h, pc) == child[h].pc = pc
Goes(h, pc) == child' = [child EXCEPT ![h].pc = pc]
Ends(h) == child' = [child EXCEPT ![h] = [pc |-> "idle"]]

Receive(h) ==
  /\ At(h, "idle") /\ posts < MaxPosts /\ posts' = posts + 1
  /\ \E r \in Requests : child' = [child EXCEPT ![h] = [pc |-> "rebuild", req |-> r]]
  /\ UNCHANGED <<rows, db, window, moves>>

(* Mistake: the projection is used as it is.                               *)
UseOldProjection(h) ==
  /\ \/ At(h, "rebuild") /\ Goes(h, "decide")
     \/ At(h, "recount") /\ Goes(h, "capacity")
  /\ UNCHANGED <<rows, db, window, posts, moves>>

(* wtTaskProjectionRebuild.  It reads the ledger under SQLite's write lock,  *)
(* and other readers see the old tables until it commits.                  *)
RebuildProjection(h) ==
  /\ \/ At(h, "rebuild") /\ Goes(h, "decide")
     \/ At(h, "recount") /\ Goes(h, "capacity")
  /\ db' = rows
  /\ UNCHANGED <<rows, window, posts, moves>>

(* preparePolicyInput and the evaluation.  Each limit is compared with one *)
(* read, so reading them together changes no bound.  A refusal leaves a record that  *)
(* nothing counts.                                                         *)
Decide(h) ==
  /\ At(h, "decide")
  /\ IF ~EvaluateTaskPackage(child[h].req) THEN Ends(h)
     ELSE Goes(h, IF child[h].req.kind = "package" THEN "package" ELSE "recount")
  /\ UNCHANGED <<rows, db, window, posts, moves>>

(* Mistake: the parent is not counted.                                     *)
EnforceNoParent(h) ==
  /\ At(h, "capacity")
  /\ IF WithinCapacity(child[h].req) THEN Goes(h, "request") ELSE Ends(h)
  /\ UNCHANGED <<rows, db, window, posts, moves>>

(* enforceCapacity, for subtasks, after a rebuild of its own.              *)
EnforceCapacity(h) ==
  LET r == child[h].req IN
  /\ At(h, "capacity")
  /\ IF /\ WithinCapacity(r)
        /\ r.parent # NoTask =>
             Under(MaxSubtasksPerParent, Cardinality(ActiveForParent(db, r.parent)))
     THEN Goes(h, "request") ELSE Ends(h)
  /\ UNCHANGED <<rows, db, window, posts, moves>>

(* The line of a subtask's request names its agent, and is an event.       *)
AppendRequest(h) ==
  LET r == child[h].req IN
  /\ At(h, "request") /\ Goes(h, "package")
  /\ InsertEvent(r.task, RouteAgent(r), rows[r.task].active)
  /\ UNCHANGED <<db, window, posts, moves>>

(* A package as it was posted, or the one that the daemon writes for a     *)
(* subtask, with the routed agent and the model that was decided on.       *)
AppendPackage(h) ==
  LET r == child[h].req IN
  /\ At(h, "package")
  /\ IF r.kind = "package" THEN ProjectPackage(r.task, r) /\ Goes(h, "route")
     ELSE /\ ProjectPackage(r.task, [r EXCEPT !.agent = RouteAgent(r), !.model = DefaultModel(r)])
          /\ Ends(h)
  /\ window' = window + r.tokens
  /\ UNCHANGED <<db, posts, moves>>

AppendRouting(h) ==
  LET r == child[h].req IN
  /\ At(h, "route") /\ Ends(h)
  /\ InsertEvent(r.task, RouteAgent(r), TRUE)
  /\ UNCHANGED <<db, window, posts, moves>>

(* The rebuild finds the database busy, the host does not have the tool    *)
(* profile, an append fails or the child dies.                             *)
Fail(h) ==
  /\ ~At(h, "idle") /\ Ends(h)
  /\ UNCHANGED <<rows, db, window, posts, moves>>

-----------------------------------------------------------------------------
(* What else changes the rows and the window.                              *)

(* A result, a cancel or a close.                                          *)
Finish(t) ==
  /\ rows[t].active
  /\ InsertEvent(t, rows[t].agent, FALSE)
  /\ UNCHANGED <<db, window, child, posts, moves>>

(* A reroute, a reopening, or the late record of an agent for a task that  *)
(* was taken from it or closed: none asks the policy.                      *)
Move(t) ==
  /\ rows[t] # NoRow /\ moves < MaxMoves /\ moves' = moves + 1
  /\ \E a \in Agent : InsertEvent(t, a, TRUE)
  /\ UNCHANGED <<db, window, child, posts>>

(* Packages grow older than a day.                                         *)
WindowMoves ==
  /\ \E n \in 0..(window - 1) : window' = n
  /\ UNCHANGED <<rows, db, child, posts, moves>>

Step(h) ==
  \/ Receive(h) \/ RebuildProjection(h) \/ Decide(h) \/ EnforceCapacity(h)
  \/ AppendRequest(h) \/ AppendPackage(h) \/ AppendRouting(h) \/ Fail(h)

Next ==
  \/ \E h \in Handler : Step(h)
  \/ \E t \in Task : Finish(t) \/ Move(t)
  \/ WindowMoves

Spec == Init /\ [][Next]_vars

-----------------------------------------------------------------------------
(* Properties.                                                             *)

Row == [agent : Agent \cup {Router}, init : Initiative \cup {NoInitiative},
        model : Family \cup {NoFamily}, tokens : 0..MaxTokens,
        parent : Task \cup {NoTask}, active : BOOLEAN, decided : Family \cup {NoFamily}]

(* Types: what insertEvent and projectPackage leave is a task row, and a    *)
(* child has a request in hand except when it is idle.                     *)
TypeOK ==
  /\ rows \in [Task -> Row] /\ db \in [Task -> Row]
  /\ window \in Nat /\ posts \in 0..MaxPosts /\ moves \in 0..MaxMoves
  /\ child \in [Handler -> {[pc |-> "idle"]}
                            \cup [pc : {"rebuild", "decide", "recount", "capacity", "request",
                                       "package", "route"}, req : Requests]]

(* What children that decide at the same time may add to a limit of one    *)
(* request at a time.                                                      *)
Racing == Cardinality(Handler) - 1

(* handlePostTaskPackage and handlePostTaskRequest: whatever races, an     *)
(* agent has at most one task over its limit for each further child, and   *)
(* for each task that an operator moved; initiatives and parents likewise. *)
CapacityBounded ==
  LET slack == Racing + moves
      bounded(limit, tasks) == limit > 0 => Cardinality(tasks) <= limit + slack
  IN  /\ \A a \in Agent : bounded(MaxActiveTasksPerAgent, ActiveForAgent(rows, a))
      /\ \A i \in Initiative : bounded(MaxTasksPerInitiative, ActiveForInitiative(rows, i))
      /\ \A p \in Task : bounded(MaxSubtasksPerParent, ActiveForParent(rows, p))

(* The tasks of a family that the policy was asked about.  The package of  *)
(* a post to the router keeps a model that does not fit the routed agent,  *)
(* although the decision was about the model that does: it counts for a    *)
(* family that nobody asked, without a bound, and is left out here.        *)
ChargedToModelFamily(f) == {t \in ActiveForModelFamily(rows, f) : rows[t].decided = f}

(* The same for tokens: the active tasks of an initiative or a model       *)
(* family, and the packages of a day, go over the budget by what the other *)
(* children ask for and by what is reopened, and no further.               *)
BudgetsBounded ==
  LET slack == (Racing + moves) * MaxTokens
      bounded(limit, tasks) == limit > 0 => AllocatedTokens(rows, tasks) <= limit + slack
  IN  /\ \A i \in Initiative : bounded(TokenBudgetPerInitiative, ActiveForInitiative(rows, i))
      /\ \A f \in Family : bounded(TokenBudgetPerModelFamily, ChargedToModelFamily(f))
      /\ TokenDailyBudget > 0 => window <= TokenDailyBudget + Racing * MaxTokens
=============================================================================
