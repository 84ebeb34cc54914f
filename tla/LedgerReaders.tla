---------------------------- MODULE LedgerReaders ----------------------------
(***************************************************************************)
(* The ledger as the file it is: a sequence of lines, and the readers of   *)
(* src/wt_task_store.c as the loops over it that they are.  TaskLedger     *)
(* keeps only what the readers return; here an append does both, it adds   *)
(* the line and takes the step of TaskLedger, and the readers must find    *)
(* the same.                                                               *)
(*                                                                         *)
(* A line is a record with exactly the fields its JSON object has: what a  *)
(* reader makes of a field that is not there matters.                      *)
(***************************************************************************)
EXTENDS TaskLedger, Sequences

CONSTANTS
  TaskId,   \* task ids; the t-th of them to be posted is Task t
  Times,    \* the expiry and reading times tried
  MaxLines  \* bound on the length of the ledger

ASSUME ReadersAssumption ==
  /\ Times \subseteq Nat \ {0}
  /\ MaxLines \in Nat

VARIABLES
  ledger,  \* the lines of the file
  names    \* the ids in the order of their first packages

-----------------------------------------------------------------------------
(* The lines, each with the fields its writer gives it.                    *)

PackageLine(id, a, h) ==
  [schema |-> "task_package", taskId |-> id, status |-> "queued",
   assignedAgent |-> a, executionHost |-> h]

Event(id, type, s) ==
  [schema |-> "task_event", taskId |-> id, eventType |-> type, status |-> s]

AgentEvent(id, type, s, a) ==
  [schema |-> "task_event", taskId |-> id, eventType |-> type, status |-> s,
   assignedAgent |-> a]

LeaseEvent(id, type, s, a, n, expiry) ==
  [schema |-> "task_event", taskId |-> id, eventType |-> type, status |-> s,
   assignedAgent |-> a, attempt |-> n, leaseExpiresAtUnixMs |-> expiry]

(* An artifact decision is an event without a status.                      *)
ArtifactEvent(id) ==
  [schema |-> "task_event", taskId |-> id, eventType |-> "artifact"]

KillLine(id) == [schema |-> "kill_event", taskId |-> id]

(* readOptionalString: the field, or a fallback when the line has none.    *)
Read(line, field, fallback) ==
  IF field \in DOMAIN line THEN line[field] ELSE fallback

-----------------------------------------------------------------------------
(* The finders' table of tasks: its rows, and the two ways a line changes  *)
(* them.                                                                   *)

Known(rows, id) == {i \in DOMAIN rows : rows[i].taskId = id}

NewRow(id) ==
  [taskId |-> id, status |-> "none", assignedAgent |-> NoAgent, ownerAgent |-> NoAgent,
   executionHost |-> NoHost, leaseExpiresAt |-> 0]

(* A package takes the next free row, if there is one.                     *)
Admit(rows, line) ==
  IF line.schema = "task_package" /\ Known(rows, line.taskId) = {} /\ Len(rows) < TableSize
  THEN Append(rows, NewRow(line.taskId))
  ELSE rows

Populate(row, line) ==
  [row EXCEPT !.status = line.status, !.assignedAgent = line.assignedAgent,
              !.ownerAgent = line.assignedAgent, !.executionHost = line.executionHost]

(* wtTaskFindQueuedForAgent: any event may name another agent.             *)
QueuedEvent(row, line) ==
  [row EXCEPT !.status = Read(line, "status", @),
              !.assignedAgent = Read(line, "assignedAgent", @)]

(* The other two: only routing and assignment events may, and the events   *)
(* of the given types set the expiry.                                      *)
OwnerEvent(row, line, leaseTypes) ==
  LET routed == line.eventType \in {"routing", "assignment"}
  IN  [row EXCEPT
         !.status = Read(line, "status", @),
         !.ownerAgent = IF routed THEN Read(line, "assignedAgent", @) ELSE @,
         !.assignedAgent = IF routed THEN Read(line, "assignedAgent", @) ELSE @,
         !.leaseExpiresAt = IF line.eventType \in leaseTypes
                            THEN Read(line, "leaseExpiresAtUnixMs", @)
                            ELSE IF line.eventType = "reclaim" THEN 0 ELSE @]

StuckEvent(row, line) == OwnerEvent(row, line, {"lease"})
OnHostEvent(row, line) == OwnerEvent(row, line, {"lease", "lease_renewal"})

OnEvent(finder, row, line) ==
  CASE finder = "queued" -> QueuedEvent(row, line)
    [] finder = "stuck" -> StuckEvent(row, line)
    [] finder = "onHost" -> OnHostEvent(row, line)

TableLine(finder, rows, line) ==
  LET table == Admit(rows, line)
  IN  [i \in DOMAIN table |->
         IF table[i].taskId # line.taskId THEN table[i]
         ELSE CASE line.schema = "task_package" -> Populate(table[i], line)
                [] line.schema = "task_event" -> OnEvent(finder, table[i], line)
                [] OTHER -> table[i]]

-----------------------------------------------------------------------------
(* The readers of one task, which need no table and no package.            *)

NoLease == [active |-> FALSE, holder |-> NoAgent, expires |-> 0, attempt |-> 0]

(* wtTaskFindActiveLease *)
LeaseLine(id, lease, line) ==
  IF line.schema # "task_event" \/ line.taskId # id THEN lease
  ELSE CASE line.eventType = "lease" ->
              [active |-> TRUE, holder |-> Read(line, "assignedAgent", NoAgent),
               expires |-> line.leaseExpiresAtUnixMs, attempt |-> line.attempt]
         [] \/ line.eventType = "reclaim"
            \/ line.eventType = "status" /\ line.status \in Terminal ->
              [lease EXCEPT !.active = FALSE]
         [] OTHER -> lease

(* wtTaskCancelRequested *)
CancelLine(id, seen, line) ==
  IF line.taskId # id THEN seen
  ELSE CASE line.schema = "kill_event" -> TRUE
         [] line.schema = "task_event" -> seen /\ line.eventType # "lease"
         [] OTHER -> seen

-----------------------------------------------------------------------------
(* Every reader opens the file and turns to its lines one after another.   *)

Finders == {"queued", "stuck", "onHost"}

Nothing(reader) ==
  CASE reader.of \in Finders -> <<>>
    [] reader.of = "lease" -> NoLease
    [] reader.of = "cancel" -> FALSE

ReadLine(reader, seen, line) ==
  CASE reader.of \in Finders -> TableLine(reader.of, seen, line)
    [] reader.of = "lease" -> LeaseLine(reader.id, seen, line)
    [] reader.of = "cancel" -> CancelLine(reader.id, seen, line)

Scan(reader, lines) ==
  LET seen[n \in 0..Len(lines)] ==
        IF n = 0 THEN Nothing(reader) ELSE ReadLine(reader, seen[n - 1], lines[n])
  IN  seen[Len(lines)]

Table(finder) == Scan([of |-> finder], ledger)
ActiveLease(id) == Scan([of |-> "lease", id |-> id], ledger)
CancelRequested(id) == Scan([of |-> "cancel", id |-> id], ledger)

-----------------------------------------------------------------------------
(* What the finders look for in their tables.                              *)

Waiting(row) == row.status \in {"queued", "assigned"}
Stuck(row, now) ==
  row.status \in {"leased", "running"} /\ row.leaseExpiresAt \in 1..now

(* The first of the rows found, if there is any.                           *)
FirstRow(rows, found) == {rows[i].taskId : i \in {j \in found : \A k \in found : j <= k}}

FindQueuedForAgent(a) ==
  LET rows == Table("queued")
  IN  FirstRow(rows, {i \in DOMAIN rows : /\ rows[i].executionHost = NoHost
                                          /\ rows[i].assignedAgent = a
                                          /\ Waiting(rows[i])})

FindStuckForAgent(a, now) ==
  LET rows == Table("stuck")
  IN  FirstRow(rows, {i \in DOMAIN rows : /\ Stuck(rows[i], now)
                                          /\ rows[i].executionHost = NoHost
                                          /\ rows[i].ownerAgent = a})

FindClaimableOnHost(a, h, now) ==
  LET rows == Table("onHost")
  IN  FirstRow(rows, {i \in DOMAIN rows : /\ Waiting(rows[i]) \/ Stuck(rows[i], now)
                                          /\ rows[i].ownerAgent = a
                                          /\ rows[i].executionHost \in {NoHost, h}})

-----------------------------------------------------------------------------
(* Appending.                                                              *)

Named == {names[t] : t \in DOMAIN names}

vars == <<view, ledger, names>>

Init == ledger = <<>> /\ names = <<>> /\ view = [t \in Task |-> Unposted]

Writes(line) == Len(ledger) < MaxLines /\ ledger' = Append(ledger, line)

(* A package for a new id makes it the next task.                          *)
PostPackage(t, id) ==
  /\ \/ t \in DOMAIN names /\ id = names[t] /\ UNCHANGED names
     \/ t = Len(names) + 1 /\ id \notin Named /\ names' = Append(names, id)
  /\ \E a \in AgentName, h \in Host \cup {NoHost} :
       Writes(PackageLine(id, a, h)) /\ AppendRecord(t, AfterPackage(view[t], a, h))

PostEvent(t, id, v) ==
  \/ \E type \in {"routing", "assignment"}, s \in Claimable, a \in Agent :
       /\ Writes(AgentEvent(id, type, s, a))
       /\ AppendRecord(t, AfterRouting(v, s, a))
  \/ \E a \in Agent, expiry \in Times :
       /\ Writes(LeaseEvent(id, "lease", "leased", a, v.attempt + 1, expiry))
       /\ AppendRecord(t, AfterLease(v, a, v.attempt + 1, expiry))
  \/ \E a \in Agent, expiry \in Times :
       /\ Writes(LeaseEvent(id, "lease_renewal", "running", a, 1, expiry))
       /\ AppendRecord(t, AfterRenewal(v, a, expiry))
  \/ \E a \in AgentName :
       /\ Writes(AgentEvent(id, "reclaim", "queued", a))
       /\ AppendRecord(t, AfterReclaim(v, a))
  \/ \E s \in {"queued", "running", "complete"} :
       Writes(Event(id, "status", s)) /\ AppendRecord(t, AfterStatus(v, s))
  \/ \E s \in {"queued", "closed"} :
       Writes(Event(id, "lifecycle", s)) /\ AppendRecord(t, AfterLifecycle(v, s))
  \/ Writes(KillLine(id)) /\ AppendRecord(t, AfterKill(v))
  \/ Writes(ArtifactEvent(id)) /\ UNCHANGED view

(* The daemon does not ask whether the task of a kill, a reclaim or a      *)
(* status exists.  TaskLedger knows no such line.                          *)
PostStray(id) ==
  /\ id \notin Named
  /\ \/ Writes(KillLine(id))
     \/ Writes(AgentEvent(id, "reclaim", "queued", NoAgent))
     \/ Writes(Event(id, "status", "complete"))
  /\ UNCHANGED view

Next ==
  \/ \E t \in Task, id \in TaskId : PostPackage(t, id)
  \/ \E t \in DOMAIN names : PostEvent(t, names[t], view[t]) /\ UNCHANGED names
  \/ \E id \in TaskId : PostStray(id) /\ UNCHANGED names

Spec == Init /\ [][Next]_vars

-----------------------------------------------------------------------------

TypeOK ==
  /\ view \in [Task -> TaskView]
  /\ names \in Seq(TaskId)

NameOf(S) == {names[t] : t \in {u \in Task : First(S, u)}}

(* Whatever is appended, in whatever order, the three finders of           *)
(* wt_task_store.c return from the file the task that TaskLedger says.     *)
FindersAgree ==
  \A a \in Agent, h \in Host, now \in Times :
    /\ FindQueuedForAgent(a) = NameOf(QueuedFor(a))
    /\ FindStuckForAgent(a, now) = NameOf(StuckFor(a, now))
    /\ FindClaimableOnHost(a, h, now) = NameOf(ClaimableOnHost(a, h, now))

(* And so do wtTaskFindActiveLease and, once a task has been leased,       *)
(* wtTaskCancelRequested: a kill may precede the package, but the adapter  *)
(* that asks has leased the task.                                          *)
LeaseReadersAgree ==
  \A t \in DOMAIN names :
    LET v == view[t] IN
    /\ ActiveLease(names[t]) =
         [active |-> v.active, holder |-> v.holder, expires |-> v.expires, attempt |-> v.attempt]
    /\ v.attempt > 0 => CancelRequested(names[t]) = v.cancel

=============================================================================
