---------------------------- MODULE ControlPlane ----------------------------
(***************************************************************************)
(* The claim protocol together with the daemon's task handlers             *)
(* (src/wt_roomd.c) that operators drive with bin/wt-task and the console. *)
(*                                                                         *)
(* wt-roomd forks one child per request, so two requests are two processes *)
(* and a handler that reads the ledger and then appends, or appends twice, *)
(* is interrupted like any other: it is two steps with a continuation in   *)
(* the variable handler.                                                   *)
(***************************************************************************)
EXTENDS ClaimProtocol

CONSTANTS
  Handler,     \* bound: request children that can be part-way at one time
  AssignTo,    \* [Task -> SUBSET Agent]: the agents each task is ever given to
  OperatorOps, \* the operations the operator of this deployment uses
  MaxOps       \* bound on how many of them

KnownOps == {"repost", "reroute", "reclaim", "status", "lifecycle", "kill",
             "pause", "abort"}

ASSUME PlaneAssumption ==
  /\ AssignTo \in [Task -> SUBSET Agent]
  /\ OperatorOps \subseteq KnownOps
  /\ MaxOps \in Nat

VARIABLES
  handler,  \* [Handler -> Request]: what a request child has still to append
  ops       \* how many operator operations have begun

vars == <<view, clock, paused, proc, crashes, handler, ops>>

Request == [op : {"none", "route", "reclaim"}, task : Task \cup {0}, agent : AgentName]
NoRequest == [op |-> "none", task |-> 0, agent |-> NoAgent]

Init == ClaimInit /\ handler = [h \in Handler |-> NoRequest] /\ ops = 0

Free(h) == handler[h] = NoRequest
Holds(h, op, t, a) ==
  handler' = [handler EXCEPT ![h] = [op |-> op, task |-> t, agent |-> a]]
Frees(h) == handler' = [handler EXCEPT ![h] = NoRequest]

(* An operator operation of the deployment.                                *)
Operates(op) == op \in OperatorOps /\ ops < MaxOps /\ ops' = ops + 1
NotOperated == UNCHANGED ops
Elsewhere == UNCHANGED <<clock, paused, proc, crashes>>

-----------------------------------------------------------------------------
(* Posting a task.                                                         *)

(* A new task is the next one the ledger names; a task already there can   *)
(* be posted again, for the handlers never look.                           *)
Postable(t) ==
  IF Posted(t) THEN Operates("repost")
               ELSE (\A u \in Task : u < t => Posted(u)) /\ NotOperated

(* A post is refused when its host does not advertise the task's profile.  *)
Hosts(t, a) == {NoHost} \cup {h \in Host : <<t, a, h>> \in Capable}

(* handlePostTaskPackage appends the package as it was sent, and then a    *)
(* routing record with the agent it resolved, also when the package names  *)
(* the agent already.                                                      *)
PostTaskPackage(h, t, asked, a, host) ==
  /\ Free(h)
  /\ Postable(t)
  /\ asked \in {a, NoAgent}
  /\ AppendRecord(t, AfterPackage(view[t], asked, host))
  /\ Holds(h, "route", t, a)
  /\ Elsewhere

RouteTask(h) ==
  /\ handler[h].op = "route"
  /\ AppendRecord(handler[h].task,
            AfterRouting(view[handler[h].task], "assigned", handler[h].agent))
  /\ Frees(h)
  /\ NotOperated /\ Elsewhere

(* handlePostTaskRequest: one package line, its agent resolved beforehand. *)
PostTaskRequest(t, a, host) ==
  /\ Postable(t)
  /\ AppendRecord(t, AfterPackage(view[t], a, host))
  /\ UNCHANGED handler /\ Elsewhere

-----------------------------------------------------------------------------
(* Steering a task.                                                        *)

Steers(op, t, v) ==
  /\ Posted(t)
  /\ Operates(op)
  /\ AppendRecord(t, v)
  /\ UNCHANGED handler /\ Elsewhere

(* POST /api/task-reroute ("queued") and wt-task assign ("assigned").      *)
Reroute(t, s, a) == Steers("reroute", t, AfterRouting(view[t], s, a))

(* wt-task update-status.                                                  *)
UpdateStatus(t, s) == Steers("status", t, AfterStatus(view[t], s))

(* wt-task retry, reopen, cancel, close and the console's buttons.         *)
Lifecycle(t, s) == Steers("lifecycle", t, AfterLifecycle(view[t], s))

(* POST /api/task-cancel, and the kill record of /api/autonomy-revoke.     *)
Cancel(t) == Steers("kill", t, AfterKill(view[t]))

(* handlePostTaskReclaim reads the last holder, and then appends, whether  *)
(* or not there is a lease and whether or not it has expired.              *)
BeginReclaim(h, t) ==
  /\ Free(h)
  /\ Posted(t)
  /\ Operates("reclaim")
  /\ Holds(h, "reclaim", t, view[t].holder)
  /\ UNCHANGED view /\ Elsewhere

FinishReclaim(h) ==
  /\ handler[h].op = "reclaim"
  /\ AppendRecord(handler[h].task, AfterReclaim(view[handler[h].task], handler[h].agent))
  /\ Frees(h)
  /\ NotOperated /\ Elsewhere

(* The request child dies, or its second append fails (HTTP 500).          *)
AbortRequest(h) ==
  /\ ~Free(h)
  /\ Operates("abort")
  /\ Frees(h)
  /\ UNCHANGED view /\ Elsewhere

-----------------------------------------------------------------------------
(* POST /api/agent-control.                                                *)

Pause(a) ==
  /\ a \notin paused
  /\ Operates("pause")
  /\ paused' = paused \cup {a}
  /\ UNCHANGED <<view, clock, proc, crashes, handler>>

Resume(a) ==
  /\ a \in paused
  /\ paused' = paused \ {a}
  /\ UNCHANGED <<view, clock, proc, crashes, handler, ops>>

-----------------------------------------------------------------------------

Post(t) ==
  \E a \in AssignTo[t] : \E host \in Hosts(t, a) :
     \/ \E h \in Handler, asked \in {a, NoAgent} : PostTaskPackage(h, t, asked, a, host)
     \/ PostTaskRequest(t, a, host)

Steer(t) ==
  \/ \E s \in Claimable, a \in AssignTo[t] : Reroute(t, s, a)
  \/ \E s \in Claimable \cup Terminal : UpdateStatus(t, s)
  \/ \E s \in {"queued", "cancelled", "closed"} : Lifecycle(t, s)
  \/ Cancel(t)
  \/ \E h \in Handler : BeginReclaim(h, t)

Serve(h) == RouteTask(h) \/ FinishReclaim(h) \/ AbortRequest(h)

Agents == ClaimNext /\ UNCHANGED <<handler, ops>>

Next ==
  \/ Agents
  \/ \E t \in Task : Post(t) \/ Steer(t)
  \/ \E h \in Handler : Serve(h)
  \/ \E a \in Agent : Pause(a) \/ Resume(a)

Spec == Init /\ [][Next]_vars

-----------------------------------------------------------------------------
(* Two facts about a deployment that many promises rest on.  The systemd   *)
(* template wt-agent@.service gives every agent one process; and a task    *)
(* has one owner for life when operators do not reroute between agents.    *)

OneProcessPerAgent == \A p, q \in Proc : AgentOf[p] = AgentOf[q] => p = q
SingleOwner == \A t \in Task : \A a, b \in AssignTo[t] : a = b

-----------------------------------------------------------------------------
(* Safety.                                                                 *)

(* The variables stay within their types, in particular every record an    *)
(* append writes leaves the readers with a status they know.               *)
TypeOK ==
  /\ view \in [Task -> TaskView]
  /\ clock \in Nat
  /\ paused \subseteq Agent
  /\ proc \in [Proc -> ProcState]
  /\ crashes \in Nat
  /\ handler \in [Handler -> Request]
  /\ ops \in Nat

(* No two processes run the adapter of one task at the same time, although *)
(* nothing is locked between finding a task and leasing it.                *)
SoleRunner ==
  \A p, q \in Proc, t \in Task : Executes(p, t) /\ Executes(q, t) => p = q

(* A lease that wtTaskFindActiveLease reports is the lease whose expiry    *)
(* the finders watch: no reader forgets a lease that another still holds   *)
(* against the agents, which would leave its task to nobody.               *)
LeaseViewsAgree ==
  \A t \in Task :
    view[t].active => /\ view[t].stuckAt = view[t].expires
                      /\ view[t].stuckAt > 0
                      /\ view[t].hostStuckAt > 0

(* handleAssignedTask says "lease expired" in its auto-reclaim: it never   *)
(* releases a lease that still has time to run.                            *)
ReclaimOnlyExpired ==
  [][\A p \in Proc : AutoReclaim(p) /\ LeaseOf(p).active
                        => LeaseOf(p).expires <= clock]_vars

(* A cancel that a running adapter has to obey is not forgotten before the *)
(* adapter has ended (wtTaskCancelRequested resets on a lease).            *)
CancelLatched ==
  [][\A t \in Task :
       view[t].cancel /\ (\E p \in Proc : At(p, "running") /\ proc[p].task = t)
         => view'[t].cancel]_vars

(* A task that reads as leased or running is still in the hands of a       *)
(* process, or else the sweep of wtTaskFindClaimableForAgent will find it  *)
(* when the lease runs out (include/wt_task_store.h:66: "recover stuck     *)
(* work without requiring a manual operator reclaim first").               *)
InFlightRecoverable ==
  \A t \in Task : view[t].status \in InFlight =>
    \/ view[t].stuckAt > 0
    \/ \E p \in Proc : proc[p].task = t

(* A process runs only tasks meant for its host: pinned tasks run on their *)
(* host, and local processes leave them alone.                             *)
HostRespected ==
  \A p \in Proc, t \in Task : Executes(p, t) =>
    view[t].host \in {NoHost} \cup {HostOf[r] : r \in {p} \cap Remote}

(* The lease records implement a register that passes from one agent to    *)
(* another only through a release, and counts its grants.                  *)
Register ==
  INSTANCE LeaseRegister WITH
    Nobody <- NoAgent,
    holder <- [t \in Task |-> IF view[t].active THEN view[t].holder ELSE NoAgent],
    attempt <- [t \in Task |-> view[t].attempt]

LeasesAreRegister == Register!Spec

-----------------------------------------------------------------------------
(* Liveness.                                                               *)

(* systemd keeps the --loop processes running, and the daemon serves what  *)
(* it has begun; operators and remote processes owe nothing.               *)
Scheduled ==
  /\ WF_vars(Tick /\ UNCHANGED <<handler, ops>>)
  /\ \A p \in Worker :
       /\ WF_vars(Find(p) /\ UNCHANGED <<handler, ops>>)
       /\ WF_vars(Claim(p) /\ UNCHANGED <<handler, ops>>)
       /\ WF_vars(StartRun(p) /\ UNCHANGED <<handler, ops>>)
       /\ WF_vars(ObserveCancel(p) /\ UNCHANGED <<handler, ops>>)
       /\ WF_vars(ReportResult(p) /\ UNCHANGED <<handler, ops>>)
       /\ WF_vars(Restart(p) /\ UNCHANGED <<handler, ops>>)
  /\ \A h \in Handler : WF_vars(RouteTask(h) \/ FinishReclaim(h))

(* waitForAdapterChild kills an adapter at its timeout, so every run ends; *)
(* the bounded clock may stop before the timeout.                          *)
AdaptersEnd ==
  \A p \in Worker : WF_vars(EndRun(p) /\ UNCHANGED <<handler, ops>>)

(* An adapter may hang for ever. *)
HangingSpec == Spec /\ Scheduled
FairSpec == Spec /\ Scheduled /\ AdaptersEnd

(* Every posted task reaches a terminal status, although processes may die *)
(* between any two appends.                                                *)
EveryTaskFinishes ==
  \A t \in Task : Posted(t) ~> view[t].status \in Terminal

(* An operator's cancel ends a run even when the adapter hangs.            *)
CancelStopsRun ==
  \A p \in Worker :
    (At(p, "running") /\ LeaseOf(p).cancel) ~> ~At(p, "running")

-----------------------------------------------------------------------------
(* What a comment of the repository says and the code does not do.         *)

(* include/wt_task_store.h:131: the daemon treats a renewal as an          *)
(* extension of the lease.  So nobody auto-reclaims a lease whose renewed  *)
(* window is still open.                                                   *)
RenewalExtends ==
  [][\A p \in Proc : AutoReclaim(p) /\ LeaseOf(p).active
                        => LeaseOf(p).hostStuckAt <= clock]_vars

=============================================================================
