----------------------------- MODULE TaskLedger -----------------------------
(***************************************************************************)
(* The append-only task ledger (src/wt_task_store.c), as its readers see   *)
(* it.                                                                     *)
(*                                                                         *)
(* Every record is one flock-protected append of one line, and no process  *)
(* keeps the ledger in memory: each reader re-reads the file from the      *)
(* first line and folds it into the few fields it needs.  So the ledger    *)
(* matters to the rest of the system only through what those folds return, *)
(* and the module keeps, for every task, the value of each fold over the   *)
(* lines appended so far.  An append applies to that value the step that   *)
(* the readers' loops take on the new line.  Module LedgerReaders keeps    *)
(* the lines themselves and checks that the two descriptions agree.        *)
(***************************************************************************)
EXTENDS Integers

CONSTANTS
  Agent,      \* agent names: claude, chatgpt, gemini
  NoAgent,    \* any name no agent answers to: "", "router", "all"
  Host,       \* names of remote execution hosts
  NoHost,     \* the empty executionHost of a task that runs locally
  NumTasks,   \* bound: how many different task ids the ledger ever names
  TableSize   \* the length of the tasks[] table of the readers (256)

ASSUME LedgerAssumption ==
  /\ NumTasks \in Nat
  /\ TableSize \in Nat
  /\ NoAgent \notin Agent
  /\ NoHost \notin Host

(* Task t is the t-th task id to appear in a package line.                 *)
Task == 1..NumTasks

Claimable == {"queued", "assigned"}
InFlight  == {"leased", "running"}
Terminal  == {"complete", "failed", "cancelled", "closed"}
(* "none": no package line names the task yet.                             *)
Status    == {"none"} \cup Claimable \cup InFlight \cup Terminal

AgentName == Agent \cup {NoAgent}

(***************************************************************************)
(* What the readers know of a task:                                        *)
(*   status, assigned, host    wtTaskFindQueuedForAgent                    *)
(*   owner, stuckAt            wtTaskFindClaimableForAgent, second pass    *)
(*   owner, hostStuckAt        wtTaskFindClaimableForAgentOnHost           *)
(*   active, holder, expires, attempt   wtTaskFindActiveLease              *)
(*   cancel                    wtTaskCancelRequested                       *)
(***************************************************************************)
TaskView ==
  [status : Status, assigned : AgentName, owner : AgentName,
   host : Host \cup {NoHost}, stuckAt : Nat, hostStuckAt : Nat,
   active : BOOLEAN, holder : AgentName, expires : Nat, attempt : Nat,
   cancel : BOOLEAN]

Unposted ==
  [status |-> "none", assigned |-> NoAgent, owner |-> NoAgent,
   host |-> NoHost, stuckAt |-> 0, hostStuckAt |-> 0,
   active |-> FALSE, holder |-> NoAgent, expires |-> 0, attempt |-> 0,
   cancel |-> FALSE]

VARIABLE view   \* [Task -> TaskView]

Posted(t) == view[t].status # "none"

-----------------------------------------------------------------------------
(* One operator per kind of line: what reading that line next changes.     *)

(* A task package.  A second package for a task the ledger already names   *)
(* rewrites its status, agents and host and leaves its lease alone.        *)
AfterPackage(v, a, h) ==
  [v EXCEPT !.status = "queued", !.assigned = a, !.owner = a, !.host = h]

(* A routing event of the daemon or an assignment event of wt-task: the    *)
(* only events that change the owner.                                      *)
AfterRouting(v, s, a) ==
  [v EXCEPT !.status = s, !.assigned = a, !.owner = a]

AfterLease(v, a, n, expiry) ==
  [v EXCEPT !.status = "leased", !.assigned = a,
            !.stuckAt = expiry, !.hostStuckAt = expiry,
            !.active = TRUE, !.holder = a, !.expires = expiry, !.attempt = n,
            !.cancel = FALSE]

(* Mistake: a renewal also moves the expiry the second pass watches.        *)
RenewalMovesStuckAt(v, a, expiry) ==
  [v EXCEPT !.status = "running", !.assigned = a,
            !.stuckAt = expiry, !.hostStuckAt = expiry]

(* Mistake: a renewal resets the cancel, as a lease does.                   *)
RenewalResetsCancel(v, a, expiry) ==
  [v EXCEPT !.status = "running", !.assigned = a, !.hostStuckAt = expiry,
            !.cancel = FALSE]

(* A renewal moves hostStuckAt only: the second pass of                    *)
(* wtTaskFindClaimableForAgent and wtTaskFindActiveLease look for          *)
(* eventType "lease".                                                      *)
AfterRenewal(v, a, expiry) ==
  [v EXCEPT !.status = "running", !.assigned = a, !.hostStuckAt = expiry]

(* Mistake: a reclaim names a status of its own.                            *)
ReclaimHasStatus(v, previous) ==
  [v EXCEPT !.status = "reclaimed", !.assigned = previous,
            !.stuckAt = 0, !.hostStuckAt = 0, !.active = FALSE]

(* Mistake: wtTaskFindActiveLease overlooks reclaims.                       *)
ReclaimLeavesLease(v, previous) ==
  [v EXCEPT !.status = "queued", !.assigned = previous,
            !.stuckAt = 0, !.hostStuckAt = 0]

(* A reclaim hands the task to the queue of the previous holder.           *)
AfterReclaim(v, previous) ==
  [v EXCEPT !.status = "queued", !.assigned = previous,
            !.stuckAt = 0, !.hostStuckAt = 0, !.active = FALSE]

(* Mistake: any status event, "running" too, ends the lease.                *)
StatusEndsLease(v, s) ==
  [v EXCEPT !.status = s, !.active = FALSE, !.stuckAt = 0, !.hostStuckAt = 0]

(* A status event: a terminal status also releases the lease.              *)
AfterStatus(v, s) ==
  [v EXCEPT !.status = s, !.active = @ /\ s \notin Terminal]

(* Mistake: wtTaskFindActiveLease looks at lifecycle events too.            *)
LifecycleReleases(v, s) == [v EXCEPT !.status = s, !.active = @ /\ s \notin Terminal]

(* A lifecycle event (wt-task close, cancel, reopen and the console        *)
(* buttons) carries a status too, but wtTaskFindActiveLease ignores it.    *)
AfterLifecycle(v, s) == [v EXCEPT !.status = s]

AfterKill(v) == [v EXCEPT !.cancel = TRUE]

(* wtTaskAppendRecord: one line, appended under the file lock.             *)
AppendRecord(t, v) == view' = [view EXCEPT ![t] = v]

-----------------------------------------------------------------------------
(* The finders.  Each returns the first matching task in ledger order, and *)
(* sees only the tasks that fit its table.                                 *)

First(S, t) == t \in S /\ \A u \in S : t <= u

Visible == {t \in Task : t <= TableSize}

(* Mistake: the queue is one for all agents.                                *)
QueuedForAnyone(a) ==
  {t \in Visible : view[t].host = NoHost /\ view[t].status \in Claimable}

(* Mistake: local agents look at pinned tasks too.                          *)
QueuedOnAnyHost(a) ==
  {t \in Visible : view[t].assigned = a /\ view[t].status \in Claimable}

QueuedFor(a) ==
  {t \in Visible : /\ view[t].host = NoHost
                   /\ view[t].assigned = a
                   /\ view[t].status \in Claimable}

(* Mistake: the sweep looks for leased tasks and not for running ones.      *)
LapsedWhileLeased(v, expiry, now) == v.status = "leased" /\ 0 < expiry /\ expiry <= now

Lapsed(v, expiry, now) == v.status \in InFlight /\ 0 < expiry /\ expiry <= now

StuckFor(a, now) ==
  {t \in Visible : /\ view[t].host = NoHost
                   /\ view[t].owner = a
                   /\ Lapsed(view[t], view[t].stuckAt, now)}

ClaimableOnHost(a, h, now) ==
  {t \in Visible : /\ view[t].owner = a
                   /\ view[t].host \in {NoHost, h}
                   /\ \/ view[t].status \in Claimable
                      \/ Lapsed(view[t], view[t].hostStuckAt, now)}

=============================================================================
