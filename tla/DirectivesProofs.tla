-------------------------- MODULE DirectivesProofs --------------------------
(***************************************************************************)
(* Proofs about revocations and blocked tasks, for any number of tasks,    *)
(* children, requests, leases and failures, and any dependencies.          *)
(***************************************************************************)
EXTENDS Directives, TLAPS

(* The tables have a row for each child and each task.                     *)
Tables ==
  /\ child = [c \in Child |-> child[c]]
  /\ run = [t \in Task |-> run[t]]

Elevated(t) == run[t] \in {"mayElevate", "elevated"}
KillPending(t) == \E c \in Child : At(c, "kill") /\ child[c].task = t

RevokeInv == Tables /\ RevokedRunCancelled

LEMMA RevokeInit == Init => RevokeInv
  BY DEF Init, RequestsInit, RevokeInv, Tables, RevokedRunCancelled

(* A step that revokes nothing, ends no kill's effect and elevates nobody  *)
(* keeps what the invariant says, if the kills on their way stay so.       *)
LEMMA QuietStep ==
  ASSUME RevokedRunCancelled,
         revoked' = revoked, halfway \subseteq halfway', cancel \subseteq cancel',
         \A t \in revoked : Elevated(t)' => Elevated(t),
         \A t \in revoked \ halfway' : KillPending(t) => KillPending(t)' \/ t \in cancel'
  PROVE  RevokedRunCancelled'
  BY DEF RevokedRunCancelled, Elevated, KillPending, At

(* The requests.                                                           *)
LEMMA RequestKeeps ==
  ASSUME RevokeInv, NEW c \in Child, NEW t \in Task, DirectiveRequest(c, t)
  PROVE  RevokeInv'
<1>1. ASSUME NEW s \in EventStatus, PostTaskEvent(c, t, s)
      PROVE  RevokeInv'
  BY <1>1, QuietStep
     DEF PostTaskEvent, Accept, Becomes, At, RevokeInv, Tables, Elevated, KillPending
<1>2. CASE PostTaskGate(c, t)
  BY <1>2, QuietStep
     DEF PostTaskGate, Accept, Becomes, At, RevokeInv, Tables, Elevated, KillPending
<1>3. CASE AppendRevocation(c, t)
  <2>1. /\ Tables' /\ At(c, "kill")' /\ child'[c].task = t
        /\ \A k \in Child : At(k, "kill") => k # c /\ child'[k] = child[k]
    BY <1>3 DEF AppendRevocation, Accept, Becomes, At, RevokeInv, Tables
  <2>2. revoked' = revoked \cup {t} /\ UNCHANGED <<cancel, run, halfway>>
    BY <1>3 DEF AppendRevocation, history
  <2>3. QED
    BY <2>1, <2>2 DEF RevokeInv, RevokedRunCancelled, At
<1>4. QED
  BY <1>1, <1>2, <1>3 DEF DirectiveRequest

(* The rest of their handlers.                                             *)
LEMMA DirectiveStepKeeps ==
  ASSUME RevokeInv, NEW c \in Child, DirectiveStep(c)
  PROVE  RevokeInv'
<1>1. CASE ReadDependents(c)
  BY <1>1, QuietStep
     DEF ReadDependents, Becomes, At, RevokeInv, Tables, Elevated, KillPending, taskVars
<1>2. CASE BlockDependents(c)
  <2>1. At(c, "blocking") /\ UNCHANGED <<revoked, cancel, run, halfway>>
    BY <1>2 DEF BlockDependents
  <2>2. Tables' /\ \A k \in Child : k # c => child'[k] = child[k]
    BY <1>2 DEF BlockDependents, Ends, Becomes, RevokeInv, Tables
  <2>3. QED
    BY <2>1, <2>2, QuietStep DEF At, RevokeInv, Tables, Elevated, KillPending
<1>3. CASE PropagationFails(c)
  BY <1>3, QuietStep
     DEF PropagationFails, Ends, Becomes, At, RevokeInv, Tables, Elevated, KillPending, taskVars
<1>4. CASE AppendKill(c)
  BY <1>4, QuietStep
     DEF AppendKill, Ends, Becomes, At, RevokeInv, Tables, Elevated, KillPending, history
<1>5. CASE KillFails(c)
  BY <1>5, QuietStep
     DEF KillFails, Ends, Becomes, At, RevokeInv, Tables, Elevated, KillPending, taskVars
<1>6. QED
  BY <1>1, <1>2, <1>3, <1>4, <1>5 DEF DirectiveStep

(* The agents.  Only CheckGrant elevates, and it looks for revocations;    *)
(* only LeaseTask ends the effect of a kill, and nothing is elevated then. *)
LEMMA AgentStepKeeps ==
  ASSUME RevokeInv, NEW t \in Task, AgentStep(t)
  PROVE  RevokeInv'
<1>1. CASE FindTask(t)
  BY <1>1, QuietStep
     DEF FindTask, AgentOnly, At, RevokeInv, Tables, Elevated, KillPending
<1>2. CASE LeaseTask(t)
  <2>1. /\ UNCHANGED <<child, revoked, halfway>> /\ cancel' = cancel \ {t}
        /\ run' = [run EXCEPT ![t] = "leased"]
    BY <1>2 DEF LeaseTask, AgentOnly
  <2>2. QED
    BY <2>1 DEF RevokeInv, Tables, RevokedRunCancelled, At
<1>3. CASE CheckGrant(t)
  BY <1>3, QuietStep
     DEF CheckGrant, AutonomyGrantActive, AgentOnly, At, RevokeInv, Tables, Elevated, KillPending
<1>4. CASE StartAdapter(t)
  BY <1>4, QuietStep
     DEF StartAdapter, AgentOnly, At, RevokeInv, Tables, Elevated, KillPending
<1>5. CASE RenewLease(t)
  BY <1>5, QuietStep
     DEF RenewLease, AgentOnly, At, RevokeInv, Tables, Elevated, KillPending
<1>6. CASE EndAdapter(t)
  BY <1>6, QuietStep
     DEF EndAdapter, AgentOnly, At, RevokeInv, Tables, Elevated, KillPending
<1>7. CASE AgentDies(t)
  BY <1>7, QuietStep
     DEF AgentDies, At, RevokeInv, Tables, Elevated, KillPending, history
<1>8. CASE GrantLapses(t)
  BY <1>8, QuietStep
     DEF GrantLapses, At, RevokeInv, Tables, Elevated, KillPending, history
<1>9. QED
  BY <1>1, <1>2, <1>3, <1>4, <1>5, <1>6, <1>7, <1>8 DEF AgentStep

LEMMA RevokeStep == RevokeInv /\ [Next]_vars => RevokeInv'
<1> SUFFICES ASSUME RevokeInv, [Next]_vars PROVE RevokeInv'
  OBVIOUS
<1>1. ASSUME NEW t \in Task, PostPackage(t) PROVE RevokeInv'
  BY <1>1, QuietStep
     DEF PostPackage, At, RevokeInv, Tables, Elevated, KillPending
<1>2. CASE UNCHANGED vars
  BY <1>2, QuietStep
     DEF vars, taskVars, history, At, RevokeInv, Tables, Elevated, KillPending
<1>3. QED
  BY <1>1, <1>2, RequestKeeps, DirectiveStepKeeps, AgentStepKeeps DEF Next

(* handlePostAutonomyRevoke against autonomyGrantActive: a run that is     *)
(* elevated after its task's revocation has a kill to stop it, in every    *)
(* deployment and at every interleaving.                                   *)
THEOREM RevocationsStopRuns == Spec => []RevokedRunCancelled
<1>1. Init => RevokeInv  BY RevokeInit
<1>2. RevokeInv /\ [Next]_vars => RevokeInv'  BY RevokeStep
<1>3. RevokeInv => RevokedRunCancelled  BY DEF RevokeInv
<1>4. QED  BY <1>1, <1>2, <1>3, PTL DEF Spec

-----------------------------------------------------------------------------
(* Types.                                                                  *)

LEMMA StatusKinds ==
  /\ {"queued", "gated", "blocked", "leased", "running", "complete", "failed", "cancelled"}
       \subseteq Status
  /\ EventStatus \subseteq Status
  BY DEF Status, Claimable, InFlight, Terminal, EventStatus

LEMMA AppendStatusTyped ==
  ASSUME TypeOK, NEW t \in Task, NEW s \in Status, NEW e \in BOOLEAN, AppendStatus(t, s, e)
  PROVE  /\ status' \in [Task -> Status] /\ announced' \subseteq Task
         /\ since' \in [Task -> SUBSET Task] /\ stale' \in [Child -> SUBSET Task]
<1>1. status' \in [Task -> Status] /\ announced' \subseteq Task
  BY DEF AppendStatus, TypeOK
<1>2. since' \in [Task -> SUBSET Task]
  <2>1. \A u \in Task : since[u] \subseteq Task
    BY DEF TypeOK
  <2>2. QED
    BY <2>1, Zenon DEF AppendStatus
<1>3. stale' \in [Child -> SUBSET Task]
  BY DEF AppendStatus, TypeOK
<1>4. QED
  BY <1>1, <1>2, <1>3

(* What the fields of a child hold.                                        *)
LEMMA ChildFields ==
  ASSUME TypeOK, NEW c \in Child
  PROVE  /\ child[c] \in ChildState
         /\ At(c, "dependents") \/ At(c, "kill") \/ At(c, "blocking") => child[c].task \in Task
         /\ At(c, "blocking") => /\ child[c].left \subseteq DOMAIN packages
                                /\ child[c] = [pc |-> "blocking", task |-> child[c].task,
                                               left |-> child[c].left]
  BY DEF TypeOK, ChildState, At

LEMMA BecomesTyped ==
  ASSUME child \in [Child -> ChildState], NEW c \in Child, NEW r \in ChildState, Becomes(c, r)
  PROVE  child' \in [Child -> ChildState]
  BY DEF Becomes

LEMMA ChildStates ==
  /\ Idle \in ChildState
  /\ \A t \in Task : [pc |-> "dependents", task |-> t] \in ChildState
  /\ \A t \in Task : [pc |-> "kill", task |-> t] \in ChildState
  /\ \A t \in Task, l \in SUBSET DOMAIN packages :
       [pc |-> "blocking", task |-> t, left |-> l] \in ChildState
  BY DEF Idle, ChildState

LEMMA ChildStateKept == packages' = packages => ChildState' = ChildState
  BY DEF ChildState

LEMMA DirectivesTypeInit == Init => TypeOK
<1> SUFFICES ASSUME Init PROVE TypeOK
  OBVIOUS
<1>1. child \in [Child -> ChildState] /\ requests \in Nat /\ faults \in Nat
  BY ChildStates DEF Init, RequestsInit
<1>2. QED
  BY <1>1 DEF Init, TypeOK, Status

LEMMA TypeRequest ==
  ASSUME TypeOK, NEW c \in Child, NEW t \in Task, DirectiveRequest(c, t)
  PROVE  TypeOK'
<1>1. ASSUME NEW s \in EventStatus, PostTaskEvent(c, t, s)
      PROVE  TypeOK'
  <2>1. s \in Status /\ AppendStatus(t, s, TRUE)
    BY <1>1, StatusKinds DEF PostTaskEvent
  <2>2. packages' = packages /\ child \in [Child -> ChildState]
    BY <1>1 DEF PostTaskEvent, TypeOK
  <2>3. child' \in [Child -> ChildState]
    BY <1>1, <2>2, ChildStates, BecomesTyped DEF PostTaskEvent, Accept
  <2>4. requests' \in Nat /\ faults' \in Nat
    BY <1>1 DEF PostTaskEvent, Accept, TypeOK
  <2>5. QED
    BY <1>1, <2>1, <2>2, <2>3, <2>4, AppendStatusTyped, ChildStateKept DEF PostTaskEvent, TypeOK
<1>2. CASE PostTaskGate(c, t)
  <2>1. AppendStatus(t, "gated", FALSE) /\ "gated" \in Status
    BY <1>2, StatusKinds DEF PostTaskGate
  <2>2. packages' = packages /\ child \in [Child -> ChildState]
    BY <1>2 DEF PostTaskGate, TypeOK
  <2>3. child' \in [Child -> ChildState]
    BY <1>2, <2>2, ChildStates, BecomesTyped DEF PostTaskGate, Accept
  <2>4. requests' \in Nat /\ faults' \in Nat
    BY <1>2 DEF PostTaskGate, Accept, TypeOK
  <2>5. QED
    BY <1>2, <2>1, <2>2, <2>3, <2>4, AppendStatusTyped, ChildStateKept DEF PostTaskGate, TypeOK
<1>3. CASE AppendRevocation(c, t)
  <2>1. packages' = packages /\ child \in [Child -> ChildState]
    BY <1>3 DEF AppendRevocation, TypeOK
  <2>2. child' \in [Child -> ChildState]
    BY <1>3, <2>1, ChildStates, BecomesTyped DEF AppendRevocation, Accept
  <2>3. requests' \in Nat /\ faults' \in Nat
    BY <1>3 DEF AppendRevocation, Accept, TypeOK
  <2>4. QED
    BY <1>3, <2>1, <2>2, <2>3, ChildStateKept DEF AppendRevocation, history, TypeOK
<1>4. QED
  BY <1>1, <1>2, <1>3 DEF DirectiveRequest

LEMMA TypeStep ==
  ASSUME TypeOK, NEW c \in Child, DirectiveStep(c)
  PROVE  TypeOK'
<1> child \in [Child -> ChildState]
  BY DEF TypeOK
<1>1. CASE ReadDependents(c)
  <2>1. packages' = packages /\ Proceeds
    BY <1>1 DEF ReadDependents, taskVars
  <2>2. child' \in [Child -> ChildState]
    <3> DEFINE l == {i \in Dependents(child[c].task) : ~LeavesAsIs(status[packages[i]])}
    <3>1. l \in SUBSET DOMAIN packages
      BY DEF Dependents, DependentLines
    <3>2. child[c].task \in Task
      BY <1>1, ChildFields DEF ReadDependents
    <3>3. Becomes(c, [pc |-> "blocking", task |-> child[c].task, left |-> l])
      BY <1>1 DEF ReadDependents
    <3>4. QED
      BY <3>1, <3>2, <3>3, ChildStates, BecomesTyped
  <2>3. QED
    BY <1>1, <2>1, <2>2, ChildStateKept DEF ReadDependents, Proceeds, taskVars, TypeOK
<1>2. CASE BlockDependents(c)
  <2>1. /\ packages' = packages /\ Proceeds /\ At(c, "blocking")
        /\ UNCHANGED <<revoked, cancel, lapsed, run, runs, halfway>>
    BY <1>2 DEF BlockDependents
  <2>2. /\ status' \in [Task -> Status] /\ announced' \subseteq Task
        /\ since' \in [Task -> SUBSET Task] /\ stale' \in [Child -> SUBSET Task]
        /\ child' \in [Child -> ChildState]
    <3>1. CASE Ends(c) /\ UNCHANGED <<status, announced, since, stale>>
      BY <3>1, ChildStates, BecomesTyped DEF Ends, TypeOK
    <3>2. ASSUME NEW i \in child[c].left, AppendStatus(packages[i], "blocked", FALSE),
                 child' = [child EXCEPT ![c].left = @ \ {i}]
          PROVE  /\ status' \in [Task -> Status] /\ announced' \subseteq Task
                 /\ since' \in [Task -> SUBSET Task] /\ stale' \in [Child -> SUBSET Task]
                 /\ child' \in [Child -> ChildState]
      <4>1. packages[i] \in Task
        BY <2>1, ChildFields DEF TypeOK
      <4>2. [child[c] EXCEPT !.left = @ \ {i}] \in ChildState
        <5>1. /\ child[c] = [pc |-> "blocking", task |-> child[c].task, left |-> child[c].left]
              /\ child[c].task \in Task /\ child[c].left \subseteq DOMAIN packages
          BY <2>1, ChildFields
        <5>2. [child[c] EXCEPT !.left = @ \ {i}]
                = [pc |-> "blocking", task |-> child[c].task, left |-> child[c].left \ {i}]
          BY <5>1
        <5>3. child[c].left \ {i} \in SUBSET DOMAIN packages
          BY <5>1
        <5>4. QED
          BY <5>1, <5>2, <5>3, ChildStates
      <4>3. child' \in [Child -> ChildState]
        BY <3>2, <4>2
      <4>4. "blocked" \in Status /\ FALSE \in BOOLEAN
        BY StatusKinds
      <4>5. QED
        BY <3>2, <4>1, <4>3, <4>4, AppendStatusTyped
    <3>3. QED
      BY <1>2, <3>1, <3>2 DEF BlockDependents
  <2>3. QED
    BY <2>1, <2>2, ChildStateKept DEF Proceeds, TypeOK
<1>3. CASE PropagationFails(c)
  <2>1. packages' = packages /\ child' \in [Child -> ChildState]
    BY <1>3, ChildStates, BecomesTyped DEF PropagationFails, Ends, taskVars
  <2>2. QED
    BY <1>3, <2>1, ChildStateKept DEF PropagationFails, Fault, taskVars, TypeOK
<1>4. CASE AppendKill(c)
  <2>1. packages' = packages /\ child' \in [Child -> ChildState] /\ child[c].task \in Task
    BY <1>4, ChildStates, BecomesTyped, ChildFields DEF AppendKill, Ends
  <2>2. QED
    BY <1>4, <2>1, ChildStateKept DEF AppendKill, Proceeds, history, TypeOK
<1>5. CASE KillFails(c)
  <2>1. packages' = packages /\ child' \in [Child -> ChildState] /\ child[c].task \in Task
    BY <1>5, ChildStates, BecomesTyped, ChildFields DEF KillFails, Ends, taskVars
  <2>2. QED
    BY <1>5, <2>1, ChildStateKept DEF KillFails, Fault, taskVars, TypeOK
<1>6. QED
  BY <1>1, <1>2, <1>3, <1>4, <1>5 DEF DirectiveStep

LEMMA TypeAgentStep ==
  ASSUME TypeOK, NEW t \in Task, AgentStep(t)
  PROVE  TypeOK'
<1> DEFINE Kept == UNCHANGED <<child, requests, faults, packages, revoked, lapsed, halfway>>
           Appended == /\ status' \in [Task -> Status] /\ announced' \subseteq Task
                       /\ since' \in [Task -> SUBSET Task] /\ stale' \in [Child -> SUBSET Task]
<1>1. CASE FindTask(t)
  <2>1. Kept
    BY <1>1 DEF FindTask, AgentOnly
  <2>2. QED
    BY <1>1, <2>1, ChildStateKept DEF FindTask, TypeOK
<1>2. CASE LeaseTask(t)
  <2>1. Kept
    BY <1>2 DEF LeaseTask, AgentOnly
  <2>2. AppendStatus(t, "leased", FALSE) /\ "leased" \in Status
    BY <1>2, StatusKinds DEF LeaseTask
  <2>3. Appended
    BY <2>2, AppendStatusTyped
  <2>4. run' = [run EXCEPT ![t] = "leased"] /\ cancel' \subseteq Task /\ runs' \in Nat
    BY <1>2 DEF LeaseTask, TypeOK
  <2>5. QED
    BY <2>1, <2>3, <2>4, ChildStateKept DEF TypeOK
<1>3. CASE CheckGrant(t)
  <2>1. Kept
    BY <1>3 DEF CheckGrant, AgentOnly
  <2>2. QED
    BY <1>3, <2>1, ChildStateKept DEF CheckGrant, TypeOK
<1>4. CASE StartAdapter(t)
  <2>1. Kept
    BY <1>4 DEF StartAdapter, AgentOnly
  <2>2. AppendStatus(t, "running", FALSE) /\ "running" \in Status
    BY <1>4, StatusKinds DEF StartAdapter
  <2>3. Appended
    BY <2>2, AppendStatusTyped
  <2>4. QED
    BY <1>4, <2>1, <2>3, ChildStateKept DEF StartAdapter, TypeOK
<1>5. CASE RenewLease(t)
  <2>1. Kept
    BY <1>5 DEF RenewLease, AgentOnly
  <2>2. AppendStatus(t, "running", FALSE) /\ "running" \in Status
    BY <1>5, StatusKinds DEF RenewLease
  <2>3. Appended
    BY <2>2, AppendStatusTyped
  <2>4. QED
    BY <1>5, <2>1, <2>3, ChildStateKept DEF RenewLease, TypeOK
<1>6. CASE EndAdapter(t)
  <2>1. Kept
    BY <1>6 DEF EndAdapter, AgentOnly
  <2>2. PICK s \in {"complete", "failed", "cancelled"} : AppendStatus(t, s, FALSE)
    BY <1>6 DEF EndAdapter
  <2>3. Appended
    BY <2>2, StatusKinds, AppendStatusTyped
  <2>4. QED
    BY <1>6, <2>1, <2>3, ChildStateKept DEF EndAdapter, TypeOK
<1>7. CASE AgentDies(t)
  <2>1. packages' = packages /\ child' = child
    BY <1>7 DEF AgentDies
  <2>2. QED
    BY <1>7, <2>1, ChildStateKept DEF AgentDies, Fault, history, TypeOK
<1>8. CASE GrantLapses(t)
  <2>1. packages' = packages /\ child' = child
    BY <1>8 DEF GrantLapses
  <2>2. QED
    BY <1>8, <2>1, ChildStateKept DEF GrantLapses, history, TypeOK
<1>9. QED
  BY <1>1, <1>2, <1>3, <1>4, <1>5, <1>6, <1>7, <1>8 DEF AgentStep

(* The ledger only grows, so that positions in it stay positions.          *)
LEMMA TypePackage ==
  ASSUME TypeOK, NEW t \in Task, PostPackage(t)
  PROVE  TypeOK' /\ DOMAIN packages \subseteq DOMAIN packages'
                 /\ \A i \in DOMAIN packages : packages'[i] = packages[i]
<1>1. /\ packages' \in Seq(Task) /\ DOMAIN packages \subseteq DOMAIN packages'
      /\ \A i \in DOMAIN packages : packages'[i] = packages[i]
  BY DEF PostPackage, TypeOK
<1>2. AppendStatus(t, "queued", FALSE) /\ "queued" \in Status
  BY StatusKinds DEF PostPackage
<1>3. ChildState \subseteq ChildState'
  BY <1>1 DEF ChildState
<1>4. child' \in [Child -> ChildState']
  BY <1>3 DEF PostPackage, TypeOK
<1>5. /\ status' \in [Task -> Status] /\ announced' \subseteq Task
      /\ since' \in [Task -> SUBSET Task] /\ stale' \in [Child -> SUBSET Task]
  BY <1>2, AppendStatusTyped
<1>6. QED
  BY <1>1, <1>4, <1>5 DEF PostPackage, TypeOK

LEMMA DirectivesTypeStep == TypeOK /\ [Next]_vars => TypeOK'
<1> SUFFICES ASSUME TypeOK, [Next]_vars PROVE TypeOK'
  OBVIOUS
<1>1. CASE UNCHANGED vars
  <2>1. ChildState' = ChildState
    BY <1>1, ChildStateKept DEF vars, taskVars
  <2>2. QED
    BY <1>1, <2>1 DEF vars, taskVars, history, TypeOK
<1>2. QED
  BY <1>1, TypeRequest, TypeStep, TypeAgentStep, TypePackage DEF Next

(* The variables stay within their types, and only grants lapse that were  *)
(* given.                                                                  *)
THEOREM DirectivesTyped == Spec => []TypeOK
  BY DirectivesTypeInit, DirectivesTypeStep, PTL DEF Spec

-----------------------------------------------------------------------------
(* Blocked tasks and their dependents.                                     *)

Settled(i) == status[packages[i]] \in Terminal \cup {"blocked"}
Pending(c, t, i) == Propagates(c, t) /\ (At(c, "blocking") => i \in child[c].left)

(* A dependent that is not settled is still before a child.  This is what  *)
(* BlockedReaches becomes while children are at work.                      *)
ReachInv ==
  \A t \in announced : \A i \in Dependents(t) :
    packages[i] \in since[t] \/ Settled(i) \/ \E c \in Child : Pending(c, t, i)

(* What a child is going to block was to be blocked when it looked, and    *)
(* has been given a status since then if it is not to be blocked any more. *)
StaleInv ==
  \A c \in Child : At(c, "blocking") =>
    \A i \in child[c].left : LeavesAsIs(status[packages[i]]) => packages[i] \in stale[c]

BlockInv == TypeOK /\ ReachInv /\ StaleInv

LEMMA BlockInit == Init => BlockInv
<1> SUFFICES ASSUME Init PROVE BlockInv
  OBVIOUS
<1>1. TypeOK
  BY DirectivesTypeInit
<1>2. ReachInv /\ StaleInv
  BY DEF Init, RequestsInit, Idle, ReachInv, StaleInv, At
<1>3. QED
  BY <1>1, <1>2 DEF BlockInv

(* Children that do not start to block, and lose nothing from their        *)
(* tables, may go on.                                                      *)
TablesKept ==
  \A c \in Child : At(c, "blocking")' => At(c, "blocking") /\ child'[c].left \subseteq child[c].left

(* The lines that were there stay; a new one is of the given task.         *)
LinesKept(t) ==
  /\ \A i \in DOMAIN packages : i \in DOMAIN packages' /\ packages'[i] = packages[i]
  /\ \A u \in Task : \A i \in Dependents(u)' : i \in Dependents(u) \/ packages'[i] = t

LEMMA SameLines ==
  ASSUME NEW t, packages' = packages
  PROVE  LinesKept(t)
  BY DEF LinesKept, Dependents, DependentLines

LEMMA AppendKeepsStale ==
  ASSUME BlockInv, NEW t \in Task, NEW s \in Status, NEW e \in BOOLEAN, AppendStatus(t, s, e),
         TablesKept, LinesKept(t)
  PROVE  StaleInv'
<1> SUFFICES ASSUME NEW c \in Child, At(c, "blocking")', NEW i \in child'[c].left,
                    LeavesAsIs(status'[packages'[i]])
             PROVE  packages'[i] \in stale'[c]
  BY DEF StaleInv
<1>1. At(c, "blocking") /\ i \in child[c].left
  BY DEF TablesKept
<1>2. i \in DOMAIN packages /\ packages'[i] = packages[i]
  BY <1>1, ChildFields DEF BlockInv, LinesKept
<1>3. stale'[c] = stale[c] \cup {t} /\ status' = [status EXCEPT ![t] = s]
  BY <1>1 DEF AppendStatus
<1>4. CASE packages[i] = t
  BY <1>2, <1>3, <1>4
<1>5. CASE packages[i] # t
  <2>1. packages[i] \in Task
    BY <1>2 DEF BlockInv, TypeOK
  <2>2. status'[packages[i]] = status[packages[i]]
    BY <1>3, <1>5, <2>1 DEF BlockInv, TypeOK
  <2>3. QED
    BY <1>1, <1>2, <1>3, <2>2 DEF BlockInv, StaleInv
<1>6. QED
  BY <1>4, <1>5

LEMMA DependentsInLedger == ASSUME NEW t PROVE Dependents(t) \subseteq DOMAIN packages
  BY DEF Dependents, DependentLines

(* Another status than blocked: who is no longer settled counts as having  *)
(* been given a status since.                                              *)
LEMMA OtherStatusKeepsReach ==
  ASSUME BlockInv, NEW t \in Task, NEW s \in Status, NEW e \in BOOLEAN, AppendStatus(t, s, e),
         s # "blocked", LinesKept(t),
         \A c \in Child, u \in Task : \A i : Pending(c, u, i) => Pending(c, u, i)'
  PROVE  ReachInv'
<1> SUFFICES ASSUME NEW u \in announced', NEW i \in Dependents(u)'
             PROVE  packages'[i] \in since'[u] \/ Settled(i)' \/ \E c \in Child : Pending(c, u, i)'
  BY DEF ReachInv
<1>1. u \in announced /\ u # t /\ u \in Task
  BY DEF AppendStatus, BlockInv, TypeOK
<1>2. since'[u] = since[u] \cup {t} /\ status' = [status EXCEPT ![t] = s]
  BY <1>1 DEF AppendStatus
<1>3. CASE packages'[i] = t
  BY <1>2, <1>3
<1>4. CASE packages'[i] # t
  <2>1. i \in Dependents(u) /\ i \in DOMAIN packages /\ packages'[i] = packages[i]
    BY <1>1, <1>4, DependentsInLedger DEF LinesKept
  <2>2. packages[i] \in since[u] \/ Settled(i) \/ \E c \in Child : Pending(c, u, i)
    BY <1>1, <2>1 DEF BlockInv, ReachInv
  <2>3. status'[packages[i]] = status[packages[i]]
    BY <1>2, <1>4, <2>1 DEF BlockInv, TypeOK
  <2>4. Settled(i) => Settled(i)'
    BY <2>1, <2>3 DEF Settled
  <2>5. QED
    BY <1>1, <1>2, <2>1, <2>2, <2>4
<1>5. QED
  BY <1>3, <1>4

(* The status is blocked: the lines of the task are settled, and those of  *)
(* other tasks are as they were.                                           *)
LEMMA BlockedKeepsReach ==
  ASSUME BlockInv, NEW t \in Task, NEW e \in BOOLEAN, AppendStatus(t, "blocked", e),
         packages' = packages,
         NEW u \in announced, u # t, NEW i \in Dependents(u),
         \A c \in Child : Pending(c, u, i) /\ packages[i] # t => Pending(c, u, i)'
  PROVE  packages'[i] \in since'[u] \/ Settled(i)' \/ \E c \in Child : Pending(c, u, i)'
<1>1. u \in announced' /\ u \in Task
  BY DEF AppendStatus, BlockInv, TypeOK
<1>2. since'[u] = since[u] /\ status' = [status EXCEPT ![t] = "blocked"]
  BY <1>1 DEF AppendStatus
<1>3. packages[i] \in Task
  BY DependentsInLedger DEF BlockInv, TypeOK
<1>4. CASE packages[i] = t
  BY <1>2, <1>3, <1>4 DEF Settled, BlockInv, TypeOK
<1>5. CASE packages[i] # t
  <2>1. packages[i] \in since[u] \/ Settled(i) \/ \E c \in Child : Pending(c, u, i)
    BY DEF BlockInv, ReachInv
  <2>2. Settled(i) => Settled(i)'
    BY <1>2, <1>3, <1>5 DEF Settled, BlockInv, TypeOK
  <2>3. QED
    BY <1>2, <1>5, <2>1, <2>2
<1>6. QED
  BY <1>4, <1>5

(* Nothing is appended that concerns dependents.                           *)
LEMMA QuietKeepsBlock ==
  ASSUME BlockInv, UNCHANGED <<packages, status, since>>, TypeOK',
         announced' \subseteq announced, TablesKept,
         \A c \in Child : At(c, "blocking")' => stale'[c] = stale[c],
         \A c \in Child, u \in announced' : \A i : Pending(c, u, i) => Pending(c, u, i)'
  PROVE  BlockInv'
<1>1. StaleInv'
  BY DEF StaleInv, BlockInv, TablesKept
<1>2. ReachInv'
  <2>1. \A u, i : (i \in Dependents(u)' <=> i \in Dependents(u)) /\ (Settled(i)' <=> Settled(i))
    BY DEF Dependents, DependentLines, Settled
  <2>2. QED
    BY <2>1 DEF ReachInv, BlockInv
<1>3. QED
  BY <1>1, <1>2 DEF BlockInv

-----------------------------------------------------------------------------

LEMMA BlockRequest ==
  ASSUME BlockInv, NEW c \in Child, NEW t \in Task, DirectiveRequest(c, t)
  PROVE  BlockInv'
<1>0. TypeOK' /\ child \in [Child -> ChildState]
  BY TypeRequest DEF BlockInv, TypeOK
<1>1. ASSUME NEW s \in EventStatus, PostTaskEvent(c, t, s)
      PROVE  BlockInv'
  <2>1. AppendStatus(t, s, TRUE) /\ s \in Status /\ packages' = packages
    BY <1>1, StatusKinds DEF PostTaskEvent
  <2>2. /\ At(c, "idle") /\ \A k \in Child \ {c} : child'[k] = child[k]
        /\ child'[c] = IF s = "blocked" THEN [pc |-> "dependents", task |-> t] ELSE Idle
    BY <1>0, <1>1 DEF PostTaskEvent, Accept, Becomes
  <2>3. TablesKept
    BY <2>2 DEF TablesKept, At, Idle
  <2>4. StaleInv'
    BY <2>1, <2>3, SameLines, AppendKeepsStale
  <2>5. \A k \in Child, u \in Task : \A i : Pending(k, u, i) => Pending(k, u, i)'
    BY <2>2 DEF Pending, Propagates, At
  <2>6. CASE s = "blocked"
    <3> SUFFICES ASSUME NEW u \in announced', NEW i \in Dependents(u)'
                 PROVE  packages'[i] \in since'[u] \/ Settled(i)' \/ \E k \in Child : Pending(k, u, i)'
      BY <1>0, <2>4 DEF ReachInv, BlockInv
    <3>1. CASE u = t
      BY <2>2, <2>6, <3>1 DEF Pending, Propagates, At
    <3>2. CASE u # t
      <4>1. u \in announced /\ u \in Task
        BY <2>1, <3>2 DEF AppendStatus, BlockInv, TypeOK
      <4>2. i \in Dependents(u)
        BY <2>1 DEF Dependents, DependentLines
      <4>3. \A k \in Child : Pending(k, u, i) /\ packages[i] # t => Pending(k, u, i)'
        BY <2>5, <4>1
      <4>4. AppendStatus(t, "blocked", TRUE) /\ TRUE \in BOOLEAN
        BY <2>1, <2>6
      <4>5. QED
        BY <2>1, <3>2, <4>1, <4>2, <4>3, <4>4, BlockedKeepsReach
    <3>3. QED
      BY <3>1, <3>2
  <2>7. CASE s # "blocked"
    BY <1>0, <2>1, <2>4, <2>5, <2>7, SameLines, OtherStatusKeepsReach DEF BlockInv
  <2>8. QED
    BY <2>6, <2>7
<1>2. CASE PostTaskGate(c, t)
  <2>1. AppendStatus(t, "gated", FALSE) /\ "gated" \in Status /\ packages' = packages
    BY <1>2, StatusKinds DEF PostTaskGate
  <2>2. At(c, "idle") /\ child'[c] = Idle /\ \A k \in Child \ {c} : child'[k] = child[k]
    BY <1>0, <1>2 DEF PostTaskGate, Accept, Becomes
  <2>3. TablesKept
    BY <2>2 DEF TablesKept, At, Idle
  <2>4. \A k \in Child, u \in Task : \A i : Pending(k, u, i) => Pending(k, u, i)'
    BY <2>2 DEF Pending, Propagates, At
  <2>5. QED
    BY <1>0, <2>1, <2>3, <2>4, SameLines, AppendKeepsStale, OtherStatusKeepsReach DEF BlockInv
<1>3. CASE AppendRevocation(c, t)
  <2>1. UNCHANGED <<packages, status, announced, since, stale>>
    BY <1>3 DEF AppendRevocation, history
  <2>2. /\ At(c, "idle") /\ \A k \in Child \ {c} : child'[k] = child[k]
        /\ child'[c] = [pc |-> "kill", task |-> t]
    BY <1>0, <1>3 DEF AppendRevocation, Accept, Becomes
  <2>3. TablesKept
    BY <2>2 DEF TablesKept, At
  <2>4. \A k \in Child : \A u, i : Pending(k, u, i) => Pending(k, u, i)'
    BY <2>2 DEF Pending, Propagates, At
  <2>5. QED
    BY <1>0, <2>1, <2>3, <2>4, QuietKeepsBlock
<1>4. QED
  BY <1>1, <1>2, <1>3 DEF DirectiveRequest

LEMMA BlockDirectiveStep ==
  ASSUME BlockInv, NEW c \in Child, DirectiveStep(c)
  PROVE  BlockInv'
<1>0. TypeOK' /\ child \in [Child -> ChildState] /\ announced \subseteq Task
  BY TypeStep DEF BlockInv, TypeOK
<1>1. CASE ReadDependents(c)
  <2>1. /\ UNCHANGED <<packages, status, announced, since>>
        /\ At(c, "dependents") /\ stale' = [stale EXCEPT ![c] = {}]
    BY <1>1 DEF ReadDependents, taskVars
  <2>2. /\ \A k \in Child \ {c} : child'[k] = child[k]
        /\ child'[c].pc = "blocking" /\ child'[c].task = child[c].task
        /\ child'[c].left = {i \in Dependents(child[c].task) : ~LeavesAsIs(status[packages[i]])}
    BY <1>0, <1>1 DEF ReadDependents, Becomes
  <2>3. StaleInv'
    <3> SUFFICES ASSUME NEW k \in Child, At(k, "blocking")', NEW i \in child'[k].left,
                        LeavesAsIs(status'[packages'[i]])
                 PROVE  packages'[i] \in stale'[k]
      BY DEF StaleInv
    <3>1. k # c
      BY <2>1, <2>2
    <3>2. At(k, "blocking") /\ i \in child[k].left /\ stale'[k] = stale[k]
      BY <2>1, <2>2, <3>1 DEF At, BlockInv, TypeOK
    <3>3. QED
      BY <2>1, <3>2 DEF BlockInv, StaleInv
  <2>4. ReachInv'
    <3> SUFFICES ASSUME NEW u \in announced, NEW i \in Dependents(u), ~(packages[i] \in since[u]),
                        ~Settled(i)
                 PROVE  \E k \in Child : Pending(k, u, i)'
      BY <2>1 DEF ReachInv, Dependents, DependentLines, Settled
    <3>1. PICK k \in Child : Pending(k, u, i)
      BY DEF BlockInv, ReachInv
    <3>2. CASE k = c
      <4>1. child[c].task = u
        BY <3>1, <3>2 DEF Pending, Propagates
      <4>2. ~LeavesAsIs(status[packages[i]])
        BY DEF Settled, LeavesAsIs
      <4>3. QED
        BY <2>2, <4>1, <4>2 DEF Pending, Propagates
    <3>3. CASE k # c
      BY <2>2, <3>1, <3>3 DEF Pending, Propagates, At
    <3>4. QED
      BY <3>2, <3>3
  <2>5. QED
    BY <1>0, <2>3, <2>4 DEF BlockInv
<1>2. CASE BlockDependents(c)
  <2>1. packages' = packages /\ At(c, "blocking")
    BY <1>2 DEF BlockDependents
  <2>2. CASE child[c].left = {} /\ Ends(c) /\ UNCHANGED <<status, announced, since, stale>>
    <3>1. child'[c] = Idle /\ \A k \in Child \ {c} : child'[k] = child[k]
      BY <1>0, <2>2 DEF Ends, Becomes
    <3>2. TablesKept
      BY <3>1 DEF TablesKept, At, Idle
    <3>3. \A k \in Child : \A u, i : Pending(k, u, i) => Pending(k, u, i)'
      BY <2>1, <2>2, <3>1 DEF Pending, Propagates, At
    <3>4. QED
      BY <1>0, <2>1, <2>2, <3>2, <3>3, QuietKeepsBlock
  <2>3. ASSUME NEW j \in child[c].left, AppendStatus(packages[j], "blocked", FALSE),
               child' = [child EXCEPT ![c].left = @ \ {j}]
        PROVE  BlockInv'
    <3> DEFINE t == packages[j]
    <3>1. t \in Task /\ "blocked" \in Status /\ FALSE \in BOOLEAN
      BY <2>1, ChildFields, StatusKinds DEF BlockInv, TypeOK
    <3>2. /\ \A k \in Child \ {c} : child'[k] = child[k]
          /\ child'[c].pc = "blocking" /\ child'[c].task = child[c].task
          /\ child'[c].left = child[c].left \ {j}
      <4>1. child[c] = [pc |-> "blocking", task |-> child[c].task, left |-> child[c].left]
        BY <2>1, ChildFields DEF BlockInv
      <4>2. child'[c] = [child[c] EXCEPT !.left = @ \ {j}] /\ \A k \in Child \ {c} : child'[k] = child[k]
        BY <1>0, <2>3
      <4>3. QED
        BY <4>1, <4>2
    <3>3. TablesKept
      BY <2>1, <3>2 DEF TablesKept, At
    <3>4. StaleInv'
      BY <2>1, <2>3, <3>1, <3>3, SameLines, AppendKeepsStale
    <3>5. ReachInv'
      <4> SUFFICES ASSUME NEW u \in announced', NEW i \in Dependents(u)'
                   PROVE  packages'[i] \in since'[u] \/ Settled(i)' \/ \E k \in Child : Pending(k, u, i)'
        BY DEF ReachInv
      <4>1. u \in announced /\ u # t
        BY <2>3 DEF AppendStatus
      <4>2. i \in Dependents(u)
        BY <2>1 DEF Dependents, DependentLines
      <4>3. \A k \in Child : Pending(k, u, i) /\ packages[i] # t => Pending(k, u, i)'
        <5> SUFFICES ASSUME NEW k \in Child, Pending(k, u, i), packages[i] # t
                     PROVE  Pending(k, u, i)'
          OBVIOUS
        <5>1. CASE k = c
          BY <2>1, <3>2, <5>1 DEF Pending, Propagates, At
        <5>2. CASE k # c
          BY <3>2, <5>2 DEF Pending, Propagates, At
        <5>3. QED
          BY <5>1, <5>2
      <4>4. QED
        BY <2>1, <2>3, <3>1, <4>1, <4>2, <4>3, BlockedKeepsReach
    <3>6. QED
      BY <1>0, <3>4, <3>5 DEF BlockInv
  <2>4. QED
    BY <1>2, <2>2, <2>3 DEF BlockDependents
<1>3. CASE PropagationFails(c)
  <2>1. /\ UNCHANGED <<packages, status, since, stale>>
        /\ announced' = announced \ {child[c].task}
    BY <1>3 DEF PropagationFails, taskVars
  <2>2. child'[c] = Idle /\ \A k \in Child \ {c} : child'[k] = child[k]
    BY <1>0, <1>3 DEF PropagationFails, Ends, Becomes
  <2>3. TablesKept
    BY <2>2 DEF TablesKept, At, Idle
  <2>4. \A k \in Child, u \in announced' : \A i : Pending(k, u, i) => Pending(k, u, i)'
    BY <2>1, <2>2 DEF Pending, Propagates, At
  <2>5. QED
    BY <1>0, <2>1, <2>3, <2>4, QuietKeepsBlock
<1>4. CASE AppendKill(c)
  <2>1. UNCHANGED <<packages, status, announced, since, stale>> /\ At(c, "kill")
    BY <1>4 DEF AppendKill, history
  <2>2. child'[c] = Idle /\ \A k \in Child \ {c} : child'[k] = child[k]
    BY <1>0, <1>4 DEF AppendKill, Ends, Becomes
  <2>3. TablesKept
    BY <2>2 DEF TablesKept, At, Idle
  <2>4. \A k \in Child : \A u, i : Pending(k, u, i) => Pending(k, u, i)'
    BY <2>1, <2>2 DEF Pending, Propagates, At
  <2>5. QED
    BY <1>0, <2>1, <2>3, <2>4, QuietKeepsBlock
<1>5. CASE KillFails(c)
  <2>1. UNCHANGED <<packages, status, announced, since, stale>> /\ At(c, "kill")
    BY <1>5 DEF KillFails, taskVars
  <2>2. child'[c] = Idle /\ \A k \in Child \ {c} : child'[k] = child[k]
    BY <1>0, <1>5 DEF KillFails, Ends, Becomes
  <2>3. TablesKept
    BY <2>2 DEF TablesKept, At, Idle
  <2>4. \A k \in Child : \A u, i : Pending(k, u, i) => Pending(k, u, i)'
    BY <2>1, <2>2 DEF Pending, Propagates, At
  <2>5. QED
    BY <1>0, <2>1, <2>3, <2>4, QuietKeepsBlock
<1>6. QED
  BY <1>1, <1>2, <1>3, <1>4, <1>5 DEF DirectiveStep

(* A status that an agent or a package gives, while no child moves.        *)
LEMMA BlockAppend ==
  ASSUME BlockInv, TypeOK', NEW t \in Task, NEW s \in Status, s # "blocked",
         AppendStatus(t, s, FALSE), child' = child, LinesKept(t)
  PROVE  BlockInv'
<1>1. TablesKept
  BY DEF TablesKept, At
<1>2. \A k \in Child, u \in Task : \A i : Pending(k, u, i) => Pending(k, u, i)'
  BY DEF Pending, Propagates, At
<1>3. QED
  BY <1>1, <1>2, AppendKeepsStale, OtherStatusKeepsReach DEF BlockInv

LEMMA BlockAgentStep ==
  ASSUME BlockInv, NEW t \in Task, AgentStep(t)
  PROVE  BlockInv'
<1> DEFINE Quiet == UNCHANGED <<child, packages, status, announced, since, stale>>
           Appends(s) == AppendStatus(t, s, FALSE) /\ UNCHANGED <<child, packages>>
<1>1. TypeOK'
  BY TypeAgentStep DEF BlockInv
<1>2. Quiet \/ \E s \in {"leased", "running", "complete", "failed", "cancelled"} : Appends(s)
  <2>1. CASE FindTask(t) \/ CheckGrant(t)
    BY <2>1 DEF FindTask, CheckGrant, AgentOnly
  <2>2. CASE AgentDies(t) \/ GrantLapses(t)
    BY <2>2 DEF AgentDies, GrantLapses, history
  <2>3. CASE LeaseTask(t)
    <3>1. Appends("leased")
      BY <2>3 DEF LeaseTask, AgentOnly
    <3>2. QED
      BY <3>1
  <2>4. CASE StartAdapter(t) \/ RenewLease(t)
    <3>1. Appends("running")
      BY <2>4 DEF StartAdapter, RenewLease, AgentOnly
    <3>2. QED
      BY <3>1
  <2>5. CASE EndAdapter(t)
    <3>1. PICK s \in {"complete", "failed", "cancelled"} : AppendStatus(t, s, FALSE)
      BY <2>5 DEF EndAdapter
    <3>2. Appends(s)
      BY <2>5, <3>1 DEF EndAdapter, AgentOnly
    <3>3. QED
      BY <3>2
  <2>6. QED
    BY <2>1, <2>2, <2>3, <2>4, <2>5 DEF AgentStep
<1>3. CASE Quiet
  <2>1. TablesKept
    BY <1>3 DEF TablesKept, At
  <2>2. \A k \in Child : \A u, i : Pending(k, u, i) => Pending(k, u, i)'
    BY <1>3 DEF Pending, Propagates, At
  <2>3. QED
    BY <1>1, <1>3, <2>1, <2>2, QuietKeepsBlock
<1>4. ASSUME NEW s \in {"leased", "running", "complete", "failed", "cancelled"}, Appends(s)
      PROVE  BlockInv'
  <2>1. s \in Status /\ s # "blocked"
    BY StatusKinds
  <2>2. QED
    BY <1>1, <1>4, <2>1, SameLines, BlockAppend
<1>5. QED
  BY <1>2, <1>3, <1>4

LEMMA BlockPackage ==
  ASSUME BlockInv, NEW t \in Task, PostPackage(t)
  PROVE  BlockInv'
<1>1. /\ TypeOK' /\ DOMAIN packages \subseteq DOMAIN packages'
      /\ \A i \in DOMAIN packages : packages'[i] = packages[i]
  BY TypePackage DEF BlockInv
<1>2. /\ packages \in Seq(Task) /\ packages' = Append(packages, t) /\ child' = child
      /\ AppendStatus(t, "queued", FALSE)
  BY DEF PostPackage, BlockInv, TypeOK
<1>3. \A i \in DOMAIN packages' : i \in DOMAIN packages \/ packages'[i] = t
  BY <1>2
<1>4. \A i, j \in DOMAIN packages' : i \in DOMAIN packages /\ j <= i => j \in DOMAIN packages
  BY <1>2
<1>5. LinesKept(t)
  <2> SUFFICES ASSUME NEW u \in Task, NEW i \in Dependents(u)', i \in DOMAIN packages
               PROVE  i \in Dependents(u)
    BY <1>1, <1>3 DEF LinesKept, Dependents, DependentLines
  <2>1. \A j : j \in DOMAIN packages => (j \in DependentLines(u)' <=> j \in DependentLines(u))
    BY <1>1 DEF DependentLines
  <2>2. {j \in DependentLines(u)' : j <= i} = {j \in DependentLines(u) : j <= i}
    BY <1>1, <1>4, <2>1 DEF DependentLines
  <2>3. QED
    BY <2>1, <2>2 DEF Dependents
<1>6. "queued" \in Status
  BY StatusKinds
<1>7. QED
  BY <1>1, <1>2, <1>5, <1>6, BlockAppend

LEMMA BlockStep == BlockInv /\ [Next]_vars => BlockInv'
<1> SUFFICES ASSUME BlockInv, [Next]_vars PROVE BlockInv'
  OBVIOUS
<1>1. CASE UNCHANGED vars
  <2>1. TypeOK'
    BY <1>1, DirectivesTypeStep DEF BlockInv
  <2>2. UNCHANGED <<child, packages, status, announced, since, stale>>
    BY <1>1 DEF vars, taskVars, history
  <2>3. TablesKept
    BY <2>2 DEF TablesKept, At
  <2>4. \A k \in Child : \A u, i : Pending(k, u, i) => Pending(k, u, i)'
    BY <2>2 DEF Pending, Propagates, At
  <2>5. QED
    BY <2>1, <2>2, <2>3, <2>4, QuietKeepsBlock
<1>2. QED
  BY <1>1, BlockRequest, BlockDirectiveStep, BlockAgentStep, BlockPackage DEF Next

(* wtTaskAppendBlockedDependents: what the run shows for two tasks, for    *)
(* any dependencies and any number of tasks, children and failures.        *)
THEOREM BlocksReachDependents == Spec => []BlockedReaches
<1>1. BlockInv => BlockedReaches
  BY DEF BlockInv, ReachInv, BlockedReaches, Settled, Pending
<1>2. QED
  BY <1>1, BlockInit, BlockStep, PTL DEF Spec

(* A finished dependent is made blocked only if it finished, or was given  *)
(* another status, after the child had read the ledger.                    *)
THEOREM FinishedStaysFinished == Spec => TerminalKept
<1> DEFINE Kept == \A c \in Child, d \in Task :
                     At(c, "blocking") /\ BlockDependents(c)
                       /\ status[d] \in Terminal /\ status'[d] = "blocked" => d \in stale[c]
<1>1. BlockInv => [Kept]_vars
  <2> SUFFICES ASSUME BlockInv, NEW c \in Child, NEW d \in Task, At(c, "blocking"),
                      BlockDependents(c), status[d] \in Terminal, status'[d] = "blocked"
               PROVE  d \in stale[c]
    OBVIOUS
  <2>1. status'[d] # status[d]
    BY DEF Terminal
  <2>2. PICK i \in child[c].left : AppendStatus(packages[i], "blocked", FALSE)
    BY <2>1 DEF BlockDependents
  <2>3. packages[i] = d
    BY <2>1, <2>2 DEF AppendStatus, BlockInv, TypeOK
  <2>4. QED
    BY <2>2, <2>3 DEF BlockInv, StaleInv, LeavesAsIs
<1>2. Spec => []BlockInv
  BY BlockInit, BlockStep, PTL DEF Spec
<1>3. QED
  BY <1>1, <1>2, PTL DEF TerminalKept
=============================================================================
