----------------------------- MODULE Directives -----------------------------
(***************************************************************************)
(* What an operator or an agent says about a task that concerns others:    *)
(*                                                                         *)
(*   - a task is blocked, and so are the tasks that depend on it           *)
(*     (handlePostTaskEvent, wtTaskAppendBlockedDependents);               *)
(*   - the task may no longer run with elevated rights                     *)
(*     (handlePostAutonomyRevoke, autonomyGrantActive of src/wt_agent.c).  *)
(*                                                                         *)
(* Both are several appends, with agents at work in between.  How agents   *)
(* agree on who runs a task is the subject of ClaimProtocol: here a task   *)
(* has one process that may run it.                                        *)
(***************************************************************************)
EXTENDS Requests, Sequences, FiniteSets

CONSTANTS
  NumTasks,    \* bound: tasks that the ledger names
  TableSize,   \* rows of the tables of wtTaskAppendBlockedDependents, 256
  Deps,        \* the dependencies of a task's package
  Granted,     \* tasks whose package grants autonomy to the adapter
  MaxRuns      \* bound: leases that agents take

Task == 1..NumTasks
Claimable == {"queued", "assigned"}
InFlight == {"leased", "running"}
Terminal == {"complete", "failed", "cancelled", "closed"}
Status == {"none", "blocked", "gated"} \cup Claimable \cup InFlight \cup Terminal

ASSUME DirectivesAssumption ==
  /\ NumTasks \in Nat /\ TableSize \in Nat /\ MaxRuns \in Nat
  /\ Deps \in [Task -> SUBSET Task] /\ Granted \subseteq Task

VARIABLES
  packages,  \* the tasks of the package lines, in the order of the ledger
  status,    \* the status in the last line that gives the task one
  revoked,   \* tasks with a revocation in the ledger
  cancel,    \* tasks with a kill since their last lease
  lapsed,    \* tasks whose grant is older than its ttlSeconds
  run,       \* what the process of a task does
  runs       \* leases so far

(* History, which only the properties read.                                *)
VARIABLES
  announced, \* tasks that a task event made blocked, and nothing went wrong since
  since,     \* the tasks given another status since the task was given its own
  stale,     \* the tasks given a status since the child read the ledger
  halfway    \* tasks with a revocation that broke off after its first record

taskVars == <<packages, status, revoked, cancel, lapsed, run, runs>>
history == <<announced, since, stale, halfway>>
vars == <<child, requests, faults, taskVars, history>>

Init ==
  /\ RequestsInit
  /\ packages = <<>> /\ status = [t \in Task |-> "none"]
  /\ revoked = {} /\ cancel = {} /\ lapsed = {}
  /\ run = [t \in Task |-> "idle"] /\ runs = 0
  /\ announced = {} /\ halfway = {}
  /\ since = [t \in Task |-> {}] /\ stale = [c \in Child |-> {}]

-----------------------------------------------------------------------------
(* A line that gives a task a status.                                      *)

AppendStatus(t, s, isEvent) ==
  /\ status' = [status EXCEPT ![t] = s]
  /\ announced' = IF isEvent /\ s = "blocked" THEN announced \cup {t} ELSE announced \ {t}
  /\ since' = [u \in Task |-> IF u = t \/ u \notin announced' THEN {}
                             ELSE IF s = "blocked" THEN since[u] ELSE since[u] \cup {t}]
  /\ stale' = [c \in Child |-> IF At(c, "blocking") THEN stale[c] \cup {t} ELSE {}]

Posted(t) == status[t] # "none"

(* A package, possibly the second one of its task.                         *)
PostPackage(t) ==
  /\ Posted(t) \/ \A u \in 1..(t - 1) : Posted(u)
  /\ Len(packages) < NumTasks + 1
  /\ packages' = Append(packages, t)
  /\ AppendStatus(t, "queued", FALSE)
  /\ UNCHANGED <<child, requests, faults, revoked, cancel, lapsed, run, runs, halfway>>

-----------------------------------------------------------------------------
(* handlePostTaskEvent and handlePostTaskGate.                             *)

PostTaskEvent(c, t, s) ==
  /\ Accept(c, IF s = "blocked" THEN [pc |-> "dependents", task |-> t] ELSE Idle)
  /\ AppendStatus(t, s, TRUE)
  /\ UNCHANGED <<packages, revoked, cancel, lapsed, run, runs, halfway>>

(* "gated" stands for approved, rejected and revision_requested.           *)
PostTaskGate(c, t) ==
  /\ Accept(c, Idle) /\ AppendStatus(t, "gated", FALSE)
  /\ UNCHANGED <<packages, revoked, cancel, lapsed, run, runs, halfway>>

(* lineDependsOnTask and the tables: the package lines, as positions in    *)
(* the ledger, of the tasks that have a row and name the task as a         *)
(* dependency, as far as there is room for them.                           *)
DependentLines(t) == {i \in DOMAIN packages : packages[i] <= TableSize /\ t \in Deps[packages[i]]}
Dependents(t) ==
  {i \in DependentLines(t) : Cardinality({j \in DependentLines(t) : j <= i}) <= TableSize}

(* Mistake: some of the terminal statuses are forgotten.                   *)
LeavesCompleteAsIs(s) == s \in {"complete", "blocked"}

(* Mistake: only waiting tasks are blocked, those in flight are not.       *)
LeavesRunningAsIs(s) == s \notin Claimable

LeavesAsIs(s) == s \in Terminal \cup {"blocked"}

(* The pass over the file.  What is to be blocked is decided here: the     *)
(* statuses are not read again.                                            *)
ReadDependents(c) ==
  /\ At(c, "dependents")
  /\ Becomes(c, [pc |-> "blocking", task |-> child[c].task,
                 left |-> {i \in Dependents(child[c].task) : ~LeavesAsIs(status[packages[i]])}])
  /\ stale' = [stale EXCEPT ![c] = {}]
  /\ Proceeds /\ UNCHANGED <<taskVars, announced, since, halfway>>

BlockDependents(c) ==
  /\ At(c, "blocking")
  /\ \/ /\ child[c].left = {} /\ Ends(c)
        /\ UNCHANGED <<status, announced, since, stale>>
     \/ \E i \in child[c].left :
          /\ \A j \in child[c].left : i <= j
          /\ AppendStatus(packages[i], "blocked", FALSE)
          /\ child' = [child EXCEPT ![c].left = @ \ {i}]
  /\ Proceeds /\ UNCHANGED <<packages, revoked, cancel, lapsed, run, runs, halfway>>

(* The child dies, or an append fails, before the last dependent.          *)
PropagationFails(c) ==
  /\ At(c, "dependents") \/ (At(c, "blocking") /\ child[c].left # {})
  /\ announced' = announced \ {child[c].task}
  /\ Fault /\ Ends(c)
  /\ UNCHANGED <<taskVars, since, stale, halfway>>

-----------------------------------------------------------------------------
(* handlePostAutonomyRevoke: the revocation and then the kill.             *)

AppendRevocation(c, t) ==
  /\ Accept(c, [pc |-> "kill", task |-> t])
  /\ revoked' = revoked \cup {t}
  /\ UNCHANGED <<packages, status, cancel, lapsed, run, runs, history>>

AppendKill(c) ==
  /\ At(c, "kill") /\ Ends(c)
  /\ cancel' = cancel \cup {child[c].task}
  /\ Proceeds /\ UNCHANGED <<packages, status, revoked, lapsed, run, runs, history>>

(* The operator gets an error, or no answer at all.                        *)
KillFails(c) ==
  /\ At(c, "kill") /\ Fault /\ Ends(c)
  /\ halfway' = halfway \cup {child[c].task}
  /\ UNCHANGED <<taskVars, announced, since, stale>>

-----------------------------------------------------------------------------
(* The process that runs a task.                                           *)

AgentOnly == UNCHANGED <<child, requests, faults, packages, revoked, lapsed, halfway>>

(* wtTaskFindClaimableForAgent.  A task in flight that no process runs has *)
(* a lease that expires sooner or later.                                   *)
FindTask(t) ==
  /\ run[t] = "idle" /\ status[t] \in Claimable \cup InFlight /\ runs < MaxRuns
  /\ run' = [run EXCEPT ![t] = "found"]
  /\ AgentOnly /\ UNCHANGED <<status, cancel, runs, announced, since, stale>>

(* handleAssignedTask: the reclaim of an expired lease and the new lease,  *)
(* whatever was said of the task in the meantime.  The lease ends the      *)
(* effect of earlier kills.                                                *)
LeaseTask(t) ==
  /\ run[t] = "found"
  /\ AppendStatus(t, "leased", FALSE)
  /\ run' = [run EXCEPT ![t] = "leased"] /\ runs' = runs + 1
  /\ cancel' = cancel \ {t}
  /\ AgentOnly

(* Mistake: revocations are not looked up.                                 *)
GrantIgnoresRevocation(t) == t \in Granted /\ t \notin lapsed

(* autonomyGrantActive.  Granted stands for the level, the scope, the ttl  *)
(* and the clean worktree.                                                 *)
AutonomyGrantActive(t) == t \in Granted /\ t \notin revoked /\ t \notin lapsed

CheckGrant(t) ==
  /\ run[t] = "leased"
  /\ run' = [run EXCEPT ![t] = IF AutonomyGrantActive(t) THEN "mayElevate" ELSE "mayRun"]
  /\ AgentOnly /\ UNCHANGED <<status, cancel, runs, announced, since, stale>>

(* The running record and the adapter.                                     *)
StartAdapter(t) ==
  /\ run[t] \in {"mayElevate", "mayRun"}
  /\ run' = [run EXCEPT ![t] = IF @ = "mayElevate" THEN "elevated" ELSE "plain"]
  /\ AppendStatus(t, "running", FALSE)
  /\ AgentOnly /\ UNCHANGED <<cancel, runs>>

Running(t) == run[t] \in {"elevated", "plain"}

(* waitForAdapterChild: renewals; the adapter exits or runs out of time;   *)
(* the poll finds a kill.                                                  *)
RenewLease(t) ==
  /\ Running(t) /\ AppendStatus(t, "running", FALSE)
  /\ AgentOnly /\ UNCHANGED <<cancel, run, runs>>

EndAdapter(t) ==
  /\ Running(t)
  /\ \E s \in {"complete", "failed"} \cup (IF t \in cancel THEN {"cancelled"} ELSE {}) :
       AppendStatus(t, s, FALSE)
  /\ run' = [run EXCEPT ![t] = "idle"]
  /\ AgentOnly /\ UNCHANGED <<cancel, runs>>

(* The process dies and with it the adapter, which systemd stops too.      *)
AgentDies(t) ==
  /\ run[t] # "idle" /\ Fault
  /\ run' = [run EXCEPT ![t] = "idle"]
  /\ UNCHANGED <<child, packages, status, revoked, cancel, lapsed, runs, history>>

(* Mistake: a grant is taken to lapse that was never given.                *)
AnyGrantLapses(t) ==
  /\ lapsed' = lapsed \cup {t}
  /\ UNCHANGED <<child, requests, faults, packages, status, revoked, cancel, run, runs, history>>

(* ttlSeconds after the grant.                                             *)
GrantLapses(t) ==
  /\ t \in Granted \ lapsed
  /\ lapsed' = lapsed \cup {t}
  /\ UNCHANGED <<child, requests, faults, packages, status, revoked, cancel, run, runs, history>>

-----------------------------------------------------------------------------
EventStatus == {"blocked", "queued"}

DirectiveRequest(c, t) ==
  /\ Posted(t)
  /\ \/ \E s \in EventStatus : PostTaskEvent(c, t, s)
     \/ PostTaskGate(c, t)
     \/ AppendRevocation(c, t)

DirectiveStep(c) ==
  ReadDependents(c) \/ BlockDependents(c) \/ PropagationFails(c) \/ AppendKill(c) \/ KillFails(c)

AgentStep(t) ==
  FindTask(t) \/ LeaseTask(t) \/ CheckGrant(t) \/ StartAdapter(t) \/ RenewLease(t)
    \/ EndAdapter(t) \/ AgentDies(t) \/ GrantLapses(t)

Next ==
  \/ \E t \in Task : PostPackage(t) \/ AgentStep(t)
  \/ \E c \in Child : DirectiveStep(c) \/ \E t \in Task : DirectiveRequest(c, t)

Spec == Init /\ [][Next]_vars

-----------------------------------------------------------------------------
(* Correctness.                                                            *)

ChildState ==
  [pc : {"idle"}] \cup [pc : {"dependents", "kill"}, task : Task]
    \cup [pc : {"blocking"}, task : Task, left : SUBSET DOMAIN packages]

(* The variables stay within their types, and a grant lapses only where    *)
(* the package of the task holds one.                                      *)
TypeOK ==
  /\ child \in [Child -> ChildState] /\ requests \in Nat /\ faults \in Nat
  /\ packages \in Seq(Task) /\ status \in [Task -> Status]
  /\ revoked \subseteq Task /\ cancel \subseteq Task /\ lapsed \subseteq Granted
  /\ run \in [Task -> {"idle", "found", "leased", "mayElevate", "mayRun", "elevated", "plain"}]
  /\ runs \in Nat
  /\ announced \subseteq Task /\ halfway \subseteq Task
  /\ since \in [Task -> SUBSET Task] /\ stale \in [Child -> SUBSET Task]

Propagates(c, t) == child[c].pc \in {"dependents", "blocking"} /\ child[c].task = t

(* wtTaskAppendBlockedDependents rewrites no terminal status ("Terminal    *)
(* dependents are not rewritten", docs/api/task-ledger-v0.1.md) but one    *)
(* that was appended after the child had read the ledger: the decision is  *)
(* taken for all dependents before the first append.                       *)
TerminalKept ==
  [][\A c \in Child, d \in Task :
       At(c, "blocking") /\ BlockDependents(c) /\ status[d] \in Terminal /\ status'[d] = "blocked"
         => d \in stale[c]]_vars

(* Once the event that marks a task blocked has been answered without an   *)
(* error, each task whose package names it as a dependency (and fits the   *)
(* tables) is blocked or finished, however the appends of agents and other *)
(* requests fell between those of the propagation: unless the task was     *)
(* given a status again after that of its dependency.                      *)
BlockedReaches ==
  \A t \in announced :
    ~(\E c \in Child : Propagates(c, t)) =>
      \A i \in Dependents(t) :
        packages[i] \notin since[t] => status[packages[i]] \in Terminal \cup {"blocked"}

(* Of a task whose grant was revoked, no adapter runs with elevated rights *)
(* that the agent's poll does not stop: either the grant is checked after  *)
(* the revocation, or the kill comes after the lease.  Both records are    *)
(* needed and so is their order.  A revocation that broke off between the  *)
(* two (the operator gets an error) is excluded.                           *)
RevokedRunCancelled ==
  \A t \in revoked \ halfway :
    run[t] \in {"mayElevate", "elevated"} =>
      t \in cancel \/ \E c \in Child : At(c, "kill") /\ child[c].task = t
=============================================================================
