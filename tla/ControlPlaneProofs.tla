------------------------- MODULE ControlPlaneProofs -------------------------
(***************************************************************************)
(* Theorems about ControlPlane, for every number of tasks, agents,         *)
(* processes and request children, and every value of the time constants.  *)
(***************************************************************************)
EXTENDS ControlPlane, TLAPS

(* A process that is past the finders has a task, and one that reports has *)
(* an outcome; a request child that is part-way has a task.                *)
WellFormed ==
  /\ \A p \in Proc :
       /\ proc[p].pc \in {"picked", "reclaiming", "leasing", "leased", "running", "finishing"}
            => proc[p].task \in Task
       /\ proc[p].pc = "finishing" => proc[p].outcome \in Outcome
  /\ \A h \in Handler : handler[h].op # "none" => handler[h].task \in Task

TypeInv == TypeOK /\ WellFormed

-----------------------------------------------------------------------------
(* Every kind of line keeps a task's view within its type.                 *)
LEMMA LinesTyped ==
  ASSUME NEW v \in TaskView, NEW a \in AgentName, NEW n \in Nat, NEW e \in Nat,
         NEW h \in Host \cup {NoHost}, NEW s \in Status
  PROVE  /\ AfterPackage(v, a, h) \in TaskView
         /\ AfterRouting(v, s, a) \in TaskView
         /\ AfterLease(v, a, n, e) \in TaskView
         /\ AfterRenewal(v, a, e) \in TaskView
         /\ AfterReclaim(v, a) \in TaskView
         /\ AfterStatus(v, s) \in TaskView
         /\ AfterLifecycle(v, s) \in TaskView
         /\ AfterKill(v) \in TaskView
<1>1. AfterPackage(v, a, h) \in TaskView
  BY DEF AfterPackage, TaskView, Status, Claimable
<1>2. AfterRouting(v, s, a) \in TaskView
  BY DEF AfterRouting, TaskView
<1>3. AfterLease(v, a, n, e) \in TaskView
  BY DEF AfterLease, TaskView, Status, InFlight
<1>4. AfterRenewal(v, a, e) \in TaskView
  BY DEF AfterRenewal, TaskView, Status, InFlight
<1>5. AfterReclaim(v, a) \in TaskView
  BY DEF AfterReclaim, TaskView, Status, Claimable
<1>6. AfterStatus(v, s) \in TaskView
  BY DEF AfterStatus, TaskView
<1>7. AfterLifecycle(v, s) \in TaskView
  BY DEF AfterLifecycle, TaskView
<1>8. AfterKill(v) \in TaskView
  BY DEF AfterKill, TaskView
<1>9. QED
  BY <1>1, <1>2, <1>3, <1>4, <1>5, <1>6, <1>7, <1>8

(* Appending a typed line keeps the ledger's views within their type.      *)
LEMMA AppendTyped ==
  ASSUME view \in [Task -> TaskView], NEW t \in Task, NEW v \in TaskView, AppendRecord(t, v)
  PROVE  view' \in [Task -> TaskView]
BY DEF AppendRecord

(* A process moves to a typed state.                                       *)
LEMMA BecomesTyped ==
  ASSUME proc \in [Proc -> ProcState], NEW p \in Proc, NEW s \in ProcState, Becomes(p, s)
  PROVE  /\ proc' \in [Proc -> ProcState]
         /\ proc'[p] = s
         /\ \A q \in Proc : q # p => proc'[q] = proc[q]
BY DEF Becomes

(* The resting states are typed.                                           *)
LEMMA RestTyped == Idle \in ProcState /\ Down \in ProcState
BY DEF Idle, Down, ProcState, AgentName

-----------------------------------------------------------------------------
(* TypeOK, with WellFormed, is inductive.                                  *)

LEMMA TypeInit == Init => TypeInv
<1> SUFFICES ASSUME Init PROVE TypeInv
  OBVIOUS
<1>1. Unposted \in TaskView
  BY DEF Unposted, TaskView, Status, AgentName
<1>2. NoRequest \in Request
  BY DEF NoRequest, Request, AgentName
<1>3. TypeOK
  BY <1>1, <1>2, RestTyped DEF Init, ClaimInit, TypeOK
<1>4. WellFormed
  BY DEF Init, ClaimInit, WellFormed, Idle, NoRequest
<1>5. QED  BY <1>3, <1>4 DEF TypeInv

(* What TypeInv asks of one process. *)
Sound(s) ==
  /\ s \in ProcState
  /\ s.pc \in {"picked", "reclaiming", "leasing", "leased", "running", "finishing"}
       => s.task \in Task
  /\ s.pc = "finishing" => s.outcome \in Outcome

LEMMA SoundProc ==
  ASSUME TypeInv, NEW p \in Proc
  PROVE  Sound(proc[p])
BY DEF TypeInv, TypeOK, WellFormed, Sound

LEMMA ProcStep ==
  ASSUME TypeInv, NEW p \in Proc, NEW s, Sound(s), Becomes(p, s),
         view' \in [Task -> TaskView], crashes' \in Nat,
         UNCHANGED <<clock, paused, handler, ops>>
  PROVE  TypeInv'
BY BecomesTyped DEF TypeInv, TypeOK, WellFormed, Sound

LEMMA TypeFind ==
  ASSUME TypeInv, NEW p \in Proc, Find(p), UNCHANGED <<handler, ops>>
  PROVE  TypeInv'
<1> USE DEF ReadsOnly
<1>1. view \in [Task -> TaskView] /\ crashes \in Nat /\ clock \in Nat
  BY DEF TypeInv, TypeOK
<1>2. Sound(proc[p])
  BY SoundProc
<1>3. CASE CheckPaused(p)
  <2>1. Sound([Idle EXCEPT !.pc = "polling", !.now = clock])
    BY <1>1, RestTyped DEF Sound, Idle, ProcState
  <2>2. QED  BY <1>1, <1>3, <2>1, ProcStep DEF CheckPaused
<1>4. CASE FindQueued(p) \/ FindStuck(p)
  <2>1. PICK t \in Task : Picks(p, t)
    BY <1>4 DEF FindQueued, FindStuck
  <2>2. Sound([proc[p] EXCEPT !.pc = "picked", !.task = t])
    BY <1>2 DEF Sound, ProcState
  <2>3. QED  BY <1>1, <1>4, <2>1, <2>2, ProcStep DEF FindQueued, FindStuck, Picks
<1>5. CASE NoneQueued(p)
  <2>1. Sound([proc[p] EXCEPT !.pc = "sweeping"])
    BY <1>2 DEF Sound, ProcState
  <2>2. QED  BY <1>1, <1>5, <2>1, ProcStep DEF NoneQueued, Goes
<1>6. CASE NoneStuck(p)
  <2>1. Sound(Idle)
    BY RestTyped DEF Sound, Idle
  <2>2. QED  BY <1>1, <1>6, <2>1, ProcStep DEF NoneStuck
<1>7. CASE FindOnHost(p)
  <2>1. PICK t \in Task :
          Becomes(p, [Idle EXCEPT !.pc = "picked", !.task = t, !.now = clock])
    BY <1>7 DEF FindOnHost
  <2>2. Sound([Idle EXCEPT !.pc = "picked", !.task = t, !.now = clock])
    BY <1>1, RestTyped DEF Sound, Idle, ProcState
  <2>3. QED  BY <1>1, <1>7, <2>1, <2>2, ProcStep DEF FindOnHost
<1>8. QED  BY <1>3, <1>4, <1>5, <1>6, <1>7 DEF Find

LEMMA TypeClaim ==
  ASSUME TypeInv, NEW p \in Proc, Claim(p), UNCHANGED <<handler, ops>>
  PROVE  TypeInv'
<1> USE DEF ReadsOnly, AppendsOnly
<1>1. /\ view \in [Task -> TaskView] /\ crashes \in Nat
      /\ Sound(proc[p])
      /\ AgentOf[p] \in AgentName
  BY SoundProc, ClaimAssumption DEF TypeInv, TypeOK, AgentName
<1>2. /\ proc[p].task \in Task => LeaseOf(p) \in TaskView
      /\ proc[p].now + LeaseTime \in Nat
      /\ proc[p].holder \in AgentName /\ proc[p].attempt \in Nat
  BY <1>1, ClaimAssumption DEF LeaseOf, Sound, ProcState
<1>3. CASE SkipForeignLease(p)
  <2>1. Sound(Idle)
    BY RestTyped DEF Sound, Idle
  <2>2. QED  BY <1>1, <1>3, <2>1, ProcStep DEF SkipForeignLease
<1>4. CASE FindLapsedLease(p)
  <2>1. LeaseOf(p) \in TaskView
    BY <1>1, <1>2, <1>4 DEF FindLapsedLease, At, Sound
  <2>2. LeaseOf(p).holder \in AgentName /\ LeaseOf(p).attempt + 1 \in Nat
    BY <2>1 DEF TaskView
  <2>3. Sound([proc[p] EXCEPT !.pc = "reclaiming",
                              !.holder = LeaseOf(p).holder,
                              !.attempt = LeaseOf(p).attempt + 1])
    BY <1>1, <1>4, <2>2 DEF Sound, ProcState, FindLapsedLease, At
  <2>4. QED  BY <1>1, <1>4, <2>3, ProcStep DEF FindLapsedLease
<1>5. CASE FindLeaseFree(p)
  <2>1. LeaseOf(p) \in TaskView
    BY <1>1, <1>2, <1>5 DEF FindLeaseFree, At, Sound
  <2>2. LeaseOf(p).attempt + 1 \in Nat
    BY <2>1 DEF TaskView
  <2>3. Sound([proc[p] EXCEPT !.pc = "leasing", !.attempt = LeaseOf(p).attempt + 1])
    BY <1>1, <1>5, <2>2 DEF Sound, ProcState, FindLeaseFree, At
  <2>4. QED  BY <1>1, <1>5, <2>3, ProcStep DEF FindLeaseFree
<1>6. CASE AutoReclaim(p)
  <2>1. proc[p].task \in Task
    BY <1>1, <1>6 DEF AutoReclaim, At, Sound
  <2>2. AfterReclaim(LeaseOf(p), proc[p].holder) \in TaskView
    BY <1>2, <2>1, LinesTyped, 0 \in Nat, NoHost \in Host \cup {NoHost},
       "none" \in Status DEF Status
  <2>3. view' \in [Task -> TaskView]
    BY <1>1, <1>6, <2>1, <2>2, AppendTyped DEF AutoReclaim
  <2>4. Sound([proc[p] EXCEPT !.pc = "leasing", !.holder = NoAgent])
    BY <1>1, <2>1 DEF Sound, ProcState, AgentName
  <2>5. QED  BY <1>1, <1>6, <2>3, <2>4, ProcStep DEF AutoReclaim
<1>7. CASE TakeLease(p)
  <2>1. proc[p].task \in Task
    BY <1>1, <1>7 DEF TakeLease, At, Sound
  <2>2. AfterLease(LeaseOf(p), AgentOf[p], proc[p].attempt, proc[p].now + LeaseTime) \in TaskView
    BY <1>1, <1>2, <2>1, LinesTyped, NoHost \in Host \cup {NoHost},
       "none" \in Status DEF Status
  <2>3. view' \in [Task -> TaskView]
    BY <1>1, <1>7, <2>1, <2>2, AppendTyped DEF TakeLease
  <2>4. Sound([Idle EXCEPT !.pc = "leased", !.task = proc[p].task])
    BY <2>1, RestTyped DEF Sound, Idle, ProcState
  <2>5. QED  BY <1>1, <1>7, <2>3, <2>4, ProcStep DEF TakeLease
<1>8. QED  BY <1>3, <1>4, <1>5, <1>6, <1>7 DEF Claim

LEMMA TypeRun ==
  ASSUME TypeInv, NEW p \in Proc, Run(p), UNCHANGED <<handler, ops>>
  PROVE  TypeInv'
<1> USE DEF ReadsOnly, AppendsOnly
<1>1. /\ view \in [Task -> TaskView] /\ crashes \in Nat /\ clock \in Nat
      /\ Sound(proc[p])
      /\ AgentOf[p] \in AgentName
      /\ clock + LeaseTime \in Nat
  BY SoundProc, ClaimAssumption DEF TypeInv, TypeOK, AgentName
<1>2. proc[p].task \in Task
  BY <1>1 DEF Run, EndRun, StartRun, Renew, AdapterExit, TimeOut, ObserveCancel,
              ReportResult, At, Sound
<1>3. LeaseOf(p) \in TaskView
  BY <1>1, <1>2 DEF LeaseOf
<1>4. \A s \in Status : AfterStatus(LeaseOf(p), s) \in TaskView
  BY <1>1, <1>3, LinesTyped, 0 \in Nat, NoHost \in Host \cup {NoHost}
<1>5. CASE StartRun(p)
  <2>1. view' \in [Task -> TaskView]
    BY <1>1, <1>2, <1>4, <1>5, AppendTyped DEF StartRun, Status, InFlight
  <2>2. Sound([proc[p] EXCEPT !.pc = "running", !.started = clock, !.renewed = clock])
    BY <1>1, <1>2 DEF Sound, ProcState
  <2>3. QED  BY <1>1, <1>5, <2>1, <2>2, ProcStep DEF StartRun
<1>6. CASE Renew(p)
  <2>1. AfterRenewal(LeaseOf(p), AgentOf[p], clock + LeaseTime) \in TaskView
    BY <1>1, <1>3, LinesTyped, NoHost \in Host \cup {NoHost}, "none" \in Status
       DEF Status
  <2>2. view' \in [Task -> TaskView]
    BY <1>1, <1>2, <1>6, <2>1, AppendTyped DEF Renew
  <2>3. Sound([proc[p] EXCEPT !.renewed = clock])
    BY <1>1, <1>2 DEF Sound, ProcState
  <2>4. QED  BY <1>1, <1>6, <2>2, <2>3, ProcStep DEF Renew
<1>7. CASE EndRun(p)
  <2>1. PICK o \in Outcome : Ends(p, o)
    BY <1>7 DEF EndRun, AdapterExit, TimeOut, ObserveCancel, Outcome
  <2>2. Sound([Idle EXCEPT !.pc = "finishing", !.task = proc[p].task, !.outcome = o])
    BY <1>2, RestTyped DEF Sound, Idle, ProcState
  <2>3. QED  BY <1>1, <2>1, <2>2, ProcStep DEF Ends
<1>8. CASE ReportResult(p)
  <2>1. proc[p].outcome \in Status
    BY <1>1, <1>8 DEF ReportResult, At, Sound, Outcome, Status, Terminal
  <2>2. view' \in [Task -> TaskView]
    BY <1>1, <1>2, <1>4, <1>8, <2>1, AppendTyped DEF ReportResult
  <2>3. Sound(Idle) /\ Sound(Down)
    BY RestTyped DEF Sound, Idle, Down
  <2>4. QED  BY <1>1, <1>8, <2>2, <2>3, ProcStep DEF ReportResult
<1>9. QED  BY <1>5, <1>6, <1>7, <1>8 DEF Run

LEMMA TypeAgents == TypeInv /\ Agents => TypeInv'
<1> SUFFICES ASSUME TypeInv, Agents PROVE TypeInv'
  OBVIOUS
<1>1. UNCHANGED <<handler, ops>>
  BY DEF Agents
<1>2. /\ view \in [Task -> TaskView] /\ crashes \in Nat /\ clock \in Nat
      /\ Sound(Idle) /\ Sound(Down)
  BY RestTyped DEF TypeInv, TypeOK, Sound, Idle, Down
<1>3. CASE Tick
  BY <1>1, <1>2, <1>3 DEF Tick, TypeInv, TypeOK, WellFormed
<1>4. ASSUME NEW p \in Proc, Crash(p) \/ Restart(p) PROVE TypeInv'
  BY <1>1, <1>2, <1>4, ProcStep DEF Crash, Restart, ReadsOnly
<1>5. QED
  BY <1>1, <1>3, <1>4, TypeFind, TypeClaim, TypeRun DEF Agents, ClaimNext

(* A request of the plane that appends at most one typed line. *)
LEMMA PlaneStep ==
  ASSUME TypeInv, view' \in [Task -> TaskView], ops' \in Nat,
         UNCHANGED <<clock, paused, proc, crashes>>,
         \/ UNCHANGED handler
         \/ \E h \in Handler, r \in Request :
              /\ handler' = [handler EXCEPT ![h] = r]
              /\ r.op # "none" => r.task \in Task
  PROVE  TypeInv'
<1>1. TypeOK'
  BY DEF TypeInv, TypeOK
<1>2. WellFormed'
  BY DEF TypeInv, TypeOK, WellFormed
<1>3. QED  BY <1>1, <1>2 DEF TypeInv

LEMMA OpsTyped ==
  ASSUME TypeInv
  PROVE  /\ NotOperated => ops' \in Nat
         /\ \A op : Operates(op) => ops' \in Nat
         /\ \A t : Postable(t) => ops' \in Nat
BY DEF TypeInv, TypeOK, NotOperated, Operates, Postable

LEMMA TypePlane ==
  ASSUME TypeInv,
         \/ \E t \in Task : Post(t) \/ Steer(t)
         \/ \E h \in Handler : Serve(h)
         \/ \E a \in Agent : Pause(a) \/ Resume(a)
  PROVE  TypeInv'
<1> USE DEF Elsewhere
<1>1. /\ view \in [Task -> TaskView]
      /\ handler \in [Handler -> Request]
      /\ \A h \in Handler : handler[h].op # "none" => handler[h].task \in Task
      /\ ops \in Nat
  BY DEF TypeInv, TypeOK, WellFormed
<1>2. \A t \in Task : AssignTo[t] \subseteq AgentName
  BY PlaneAssumption DEF AgentName
<1>3. NoAgent \in AgentName /\ NoHost \in Host \cup {NoHost} /\ 0 \in Nat
  BY DEF AgentName
<1>4. "none" \in Status /\ Claimable \subseteq Status /\ Terminal \subseteq Status
  BY DEF Status
<1>5. NoRequest \in Request /\ NoRequest.op = "none"
  BY <1>3 DEF NoRequest, Request
<1>6. CASE \E t \in Task : Post(t)
  <2>0. PICK t \in Task : Post(t)
    BY <1>6
  <2>1. PICK a \in AssignTo[t], host \in Host \cup {NoHost} :
          \/ \E h \in Handler, asked \in {a, NoAgent} : PostTaskPackage(h, t, asked, a, host)
          \/ PostTaskRequest(t, a, host)
    BY <2>0 DEF Post, Hosts
  <2>2. a \in AgentName /\ view[t] \in TaskView
    BY <1>1, <1>2
  <2>3. \A x \in {a, NoAgent} : AfterPackage(view[t], x, host) \in TaskView
    BY <1>3, <1>4, <2>2, LinesTyped
  <2>4. CASE PostTaskRequest(t, a, host)
    BY <1>1, <2>3, <2>4, AppendTyped, OpsTyped, PlaneStep DEF PostTaskRequest
  <2>5. CASE \E h \in Handler, asked \in {a, NoAgent} : PostTaskPackage(h, t, asked, a, host)
    <3>1. PICK h \in Handler, asked \in {a, NoAgent} : PostTaskPackage(h, t, asked, a, host)
      BY <2>5
    <3>2. view' \in [Task -> TaskView] /\ ops' \in Nat
      BY <1>1, <2>3, <3>1, AppendTyped, OpsTyped DEF PostTaskPackage
    <3>3. [op |-> "route", task |-> t, agent |-> a] \in Request
      BY <2>2 DEF Request
    <3>4. QED  BY <3>1, <3>2, <3>3, PlaneStep DEF PostTaskPackage, Holds
  <2>6. QED  BY <2>1, <2>4, <2>5
<1>7. CASE \E t \in Task : Steer(t)
  <2>1. PICK t \in Task : Steer(t)
    BY <1>7
  <2>2. view[t] \in TaskView
    BY <1>1
  <2>3. ASSUME NEW op, NEW v \in TaskView, Steers(op, t, v) PROVE TypeInv'
    BY <1>1, <2>3, AppendTyped, OpsTyped, PlaneStep DEF Steers
  <2>4. \A s \in Claimable, a \in AssignTo[t] : AfterRouting(view[t], s, a) \in TaskView
    BY <1>2, <1>3, <1>4, <2>2, LinesTyped
  <2>5. /\ \A s \in Claimable \cup Terminal : AfterStatus(view[t], s) \in TaskView
        /\ \A s \in {"queued", "cancelled", "closed"} : AfterLifecycle(view[t], s) \in TaskView
        /\ AfterKill(view[t]) \in TaskView
    BY <1>3, <1>4, <2>2, LinesTyped DEF Claimable, Terminal
  <2>6. ASSUME NEW h \in Handler, BeginReclaim(h, t) PROVE TypeInv'
    <3>1. [op |-> "reclaim", task |-> t, agent |-> view[t].holder] \in Request
      BY <2>2 DEF Request, TaskView
    <3>2. QED  BY <1>1, <2>6, <3>1, OpsTyped, PlaneStep DEF BeginReclaim, Holds
  <2>7. QED
    BY <2>1, <2>3, <2>4, <2>5, <2>6 DEF Steer, Reroute, UpdateStatus, Lifecycle, Cancel
<1>8. CASE \E h \in Handler : Serve(h)
  <2>1. PICK h \in Handler : Serve(h)
    BY <1>8
  <2>2. ops' \in Nat /\ Frees(h)
    BY <2>1, OpsTyped DEF Serve, RouteTask, FinishReclaim, AbortRequest
  <2>3. view' \in [Task -> TaskView]
    <3>1. CASE AbortRequest(h)
      BY <1>1, <3>1 DEF AbortRequest
    <3>2. CASE RouteTask(h) \/ FinishReclaim(h)
      <4>1. /\ handler[h].task \in Task
            /\ handler[h].agent \in AgentName
            /\ "assigned" \in Status
        BY <1>1, <3>2 DEF RouteTask, FinishReclaim, Request, Status, Claimable
      <4>2. view[handler[h].task] \in TaskView
        BY <1>1, <4>1
      <4>3. /\ AfterRouting(view[handler[h].task], "assigned", handler[h].agent) \in TaskView
            /\ AfterReclaim(view[handler[h].task], handler[h].agent) \in TaskView
        BY <1>3, <4>1, <4>2, LinesTyped
      <4>4. QED  BY <1>1, <3>2, <4>1, <4>3, AppendTyped DEF RouteTask, FinishReclaim
    <3>3. QED  BY <2>1, <3>1, <3>2 DEF Serve
  <2>4. UNCHANGED <<clock, paused, proc, crashes>>
    BY <2>1 DEF Serve, RouteTask, FinishReclaim, AbortRequest
  <2>5. QED  BY <1>5, <2>2, <2>3, <2>4, PlaneStep DEF Frees
<1>9. CASE \E a \in Agent : Pause(a) \/ Resume(a)
  BY <1>9, OpsTyped DEF Pause, Resume, TypeInv, TypeOK, WellFormed
<1>10. QED  BY <1>6, <1>7, <1>8, <1>9

LEMMA TypeStep == TypeInv /\ [Next]_vars => TypeInv'
<1>1. TypeInv /\ UNCHANGED vars => TypeInv'
  BY DEF vars, TypeInv, TypeOK, WellFormed
<1>2. QED  BY <1>1, TypeAgents, TypePlane DEF Next

LEMMA TypeAlways == Spec => []TypeInv
BY TypeInit, TypeStep, PTL DEF Spec

(* The variables stay within their types: whatever the interleaving of     *)
(* agents, request children and crashes, the readers of the ledger only    *)
(* ever see views they know.                                               *)
THEOREM TypeCorrect == Spec => []TypeOK
<1>1. TypeInv => TypeOK
  BY DEF TypeInv
<1>2. QED  BY <1>1, TypeAlways, PTL

-----------------------------------------------------------------------------
(* Every agent the ledger or a process has in hand for a task is one the   *)
(* task was given to: the invariant behind all the theorems below.         *)

Owners(t) == AssignTo[t] \cup {NoAgent}

Busy(p) == proc[p].pc \in {"picked", "reclaiming", "leasing", "leased", "running", "finishing"}

OwnedViews ==
  \A t \in Task : /\ view[t].assigned \in Owners(t)
                  /\ view[t].owner \in Owners(t)
                  /\ view[t].holder \in Owners(t)

OwnedProcs ==
  \A p \in Proc :
    /\ Busy(p) => AgentOf[p] \in AssignTo[proc[p].task]
    /\ At(p, "reclaiming") => proc[p].holder \in Owners(proc[p].task)

OwnedRequests ==
  \A h \in Handler : handler[h].op # "none" => handler[h].agent \in Owners(handler[h].task)

OwnInv == TypeInv /\ OwnedViews /\ OwnedProcs /\ OwnedRequests

(* The lines a step may append for task t, and who may append them.        *)
LeaseLine(t, v) ==
  \E p \in Proc :
    /\ TakeLease(p) /\ proc[p].task = t
    /\ v = AfterLease(view[t], AgentOf[p], proc[p].attempt, proc[p].now + LeaseTime)

RenewalLine(t, v) ==
  \E p \in Proc :
    /\ Renew(p) /\ proc[p].task = t
    /\ v = AfterRenewal(view[t], AgentOf[p], clock + LeaseTime)

OtherLine(t, v) ==
  \/ \E a \in Owners(t), h \in Host \cup {NoHost} : v = AfterPackage(view[t], a, h)
  \/ \E s \in Claimable, a \in Owners(t) : v = AfterRouting(view[t], s, a)
  \/ \E a \in Owners(t) : v = AfterReclaim(view[t], a)
  \/ \E s \in Status : v = AfterStatus(view[t], s) \/ v = AfterLifecycle(view[t], s)
  \/ v = AfterKill(view[t])

Line(t, v) == LeaseLine(t, v) \/ RenewalLine(t, v) \/ OtherLine(t, v)

LEMMA AgentLines ==
  ASSUME OwnInv, NEW p \in Proc, Find(p) \/ Claim(p) \/ Run(p)
  PROVE  \/ UNCHANGED view
         \/ \E t \in Task : \E v : AppendRecord(t, v) /\ Line(t, v)
<1> USE DEF Line, ReadsOnly
<1> DEFINE t == proc[p].task
<1>1. Busy(p) => t \in Task
  BY DEF OwnInv, TypeInv, WellFormed, Busy
<1>2. CASE Find(p)
  BY <1>2 DEF Find, CheckPaused, FindQueued, NoneQueued, FindStuck, NoneStuck, FindOnHost
<1>3. CASE SkipForeignLease(p) \/ FindLapsedLease(p) \/ FindLeaseFree(p) \/ EndRun(p)
  BY <1>3 DEF SkipForeignLease, FindLapsedLease, FindLeaseFree, EndRun,
              AdapterExit, TimeOut, ObserveCancel, Ends
<1>4. CASE AutoReclaim(p)
  <2>1. t \in Task /\ proc[p].holder \in Owners(t)
    BY <1>1, <1>4 DEF AutoReclaim, Busy, At, OwnInv, OwnedProcs
  <2>2. OtherLine(t, AfterReclaim(view[t], proc[p].holder))
    BY <2>1 DEF OtherLine
  <2>3. QED  BY <1>4, <2>1, <2>2 DEF AutoReclaim, LeaseOf
<1>5. CASE TakeLease(p)
  <2>1. t \in Task
    BY <1>1, <1>5 DEF TakeLease, Busy, At
  <2>2. LeaseLine(t, AfterLease(view[t], AgentOf[p], proc[p].attempt, proc[p].now + LeaseTime))
    BY <1>5 DEF LeaseLine
  <2>3. QED  BY <1>5, <2>1, <2>2 DEF TakeLease, LeaseOf
<1>6. CASE Renew(p)
  <2>1. t \in Task
    BY <1>1, <1>6 DEF Renew, Busy, At
  <2>2. RenewalLine(t, AfterRenewal(view[t], AgentOf[p], clock + LeaseTime))
    BY <1>6 DEF RenewalLine
  <2>3. QED  BY <1>6, <2>1, <2>2 DEF Renew, LeaseOf
<1>7. CASE StartRun(p) \/ ReportResult(p)
  <2>1. t \in Task
    BY <1>1, <1>7 DEF StartRun, ReportResult, Busy, At
  <2>2. At(p, "finishing") => proc[p].outcome \in Status
    BY DEF OwnInv, TypeInv, WellFormed, At, Outcome, Status, Terminal
  <2>3. PICK s \in Status : AppendRecord(t, AfterStatus(LeaseOf(p), s))
    BY <1>7, <2>2 DEF StartRun, ReportResult, Status, InFlight
  <2>4. OtherLine(t, AfterStatus(view[t], s))
    BY DEF OtherLine
  <2>5. QED  BY <2>1, <2>3, <2>4 DEF LeaseOf
<1>8. QED  BY <1>2, <1>3, <1>4, <1>5, <1>6, <1>7 DEF Claim, Run

LEMMA PlaneLines ==
  ASSUME OwnInv,
         (\E t \in Task : Post(t) \/ Steer(t)) \/ (\E h \in Handler : Serve(h))
  PROVE  \/ UNCHANGED view
         \/ \E t \in Task : \E v : AppendRecord(t, v) /\ Line(t, v)
<1> USE DEF Line
<1>1. CASE \E t \in Task : Post(t)
  <2>1. PICK t \in Task : Post(t)
    BY <1>1
  <2>2. PICK a \in Owners(t), host \in Host \cup {NoHost} :
          AppendRecord(t, AfterPackage(view[t], a, host))
    BY <2>1 DEF Post, Hosts, PostTaskPackage, PostTaskRequest, Owners
  <2>3. OtherLine(t, AfterPackage(view[t], a, host))
    BY DEF OtherLine
  <2>4. QED  BY <2>2, <2>3
<1>2. CASE \E t \in Task : Steer(t)
  <2>1. PICK t \in Task : Steer(t)
    BY <1>2
  <2>2. CASE \E h \in Handler : BeginReclaim(h, t)
    BY <2>2 DEF BeginReclaim
  <2>3. CASE \E s \in Claimable, a \in AssignTo[t] : Reroute(t, s, a)
    <3>1. PICK s \in Claimable, a \in AssignTo[t] : Reroute(t, s, a)
      BY <2>3
    <3>2. OtherLine(t, AfterRouting(view[t], s, a))
      BY DEF OtherLine, Owners
    <3>3. QED  BY <3>1, <3>2 DEF Reroute, Steers
  <2>4. CASE \E s \in Claimable \cup Terminal : UpdateStatus(t, s)
    <3>1. PICK s \in Status : UpdateStatus(t, s)
      BY <2>4 DEF Status
    <3>2. OtherLine(t, AfterStatus(view[t], s))
      BY DEF OtherLine
    <3>3. QED  BY <3>1, <3>2 DEF UpdateStatus, Steers
  <2>5. CASE \E s \in {"queued", "cancelled", "closed"} : Lifecycle(t, s)
    <3>1. PICK s \in Status : Lifecycle(t, s)
      BY <2>5 DEF Status, Claimable, Terminal
    <3>2. OtherLine(t, AfterLifecycle(view[t], s))
      BY DEF OtherLine
    <3>3. QED  BY <3>1, <3>2 DEF Lifecycle, Steers
  <2>6. CASE Cancel(t)
    <3>1. OtherLine(t, AfterKill(view[t]))
      BY DEF OtherLine
    <3>2. QED  BY <2>6, <3>1 DEF Cancel, Steers
  <2>7. QED  BY <2>1, <2>2, <2>3, <2>4, <2>5, <2>6 DEF Steer
<1>3. CASE \E h \in Handler : Serve(h)
  <2>1. PICK h \in Handler : Serve(h)
    BY <1>3
  <2>2. handler[h].op # "none" =>
          handler[h].task \in Task /\ handler[h].agent \in Owners(handler[h].task)
    BY DEF OwnInv, OwnedRequests, TypeInv, WellFormed
  <2>3. CASE AbortRequest(h)
    BY <2>3 DEF AbortRequest
  <2>4. CASE RouteTask(h)
    <3>1. OtherLine(handler[h].task,
                    AfterRouting(view[handler[h].task], "assigned", handler[h].agent))
      BY <2>2, <2>4 DEF RouteTask, OtherLine, Claimable
    <3>2. QED  BY <2>2, <2>4, <3>1 DEF RouteTask
  <2>5. CASE FinishReclaim(h)
    <3>1. OtherLine(handler[h].task, AfterReclaim(view[handler[h].task], handler[h].agent))
      BY <2>2, <2>5 DEF FinishReclaim, OtherLine
    <3>2. QED  BY <2>2, <2>5, <3>1 DEF FinishReclaim
  <2>6. QED  BY <2>1, <2>3, <2>4, <2>5 DEF Serve
<1>4. QED  BY <1>1, <1>2, <1>3

(* A step appends at most one line, and one of these.                      *)
LEMMA StepLines ==
  ASSUME OwnInv, [Next]_vars
  PROVE  \/ UNCHANGED view
         \/ \E t \in Task : \E v : AppendRecord(t, v) /\ Line(t, v)
BY AgentLines, PlaneLines
   DEF Next, vars, Agents, ClaimNext, Tick, Crash, Restart, ReadsOnly, Pause, Resume

(* The field-by-field effect of a line, for the proofs that follow.        *)
LEMMA OtherLineEffect ==
  ASSUME NEW t \in Task, view[t] \in TaskView, NEW v, OtherLine(t, v)
  PROVE  /\ v.attempt = view[t].attempt
         /\ v.holder = view[t].holder
         /\ v.expires = view[t].expires
         /\ v.active => /\ view[t].active
                        /\ v.stuckAt = view[t].stuckAt
                        /\ v.hostStuckAt = view[t].hostStuckAt
         /\ view[t].cancel => v.cancel
         /\ v.assigned \in Owners(t) \cup {view[t].assigned}
         /\ v.owner \in Owners(t) \cup {view[t].owner}
<1> USE DEF TaskView
<1>1. CASE \E a \in Owners(t), h \in Host \cup {NoHost} : v = AfterPackage(view[t], a, h)
  BY <1>1 DEF AfterPackage
<1>2. CASE \E s \in Claimable, a \in Owners(t) : v = AfterRouting(view[t], s, a)
  BY <1>2 DEF AfterRouting
<1>3. CASE \E a \in Owners(t) : v = AfterReclaim(view[t], a)
  BY <1>3 DEF AfterReclaim
<1>4. CASE \E s \in Status : v = AfterStatus(view[t], s) \/ v = AfterLifecycle(view[t], s)
  BY <1>4 DEF AfterStatus, AfterLifecycle
<1>5. CASE v = AfterKill(view[t])
  BY <1>5 DEF AfterKill
<1>6. QED  BY <1>1, <1>2, <1>3, <1>4, <1>5 DEF OtherLine

LEMMA OwnInit == Init => OwnInv
<1> SUFFICES ASSUME Init PROVE OwnInv
  OBVIOUS
<1>1. TypeInv
  BY TypeInit
<1>2. OwnedViews
  BY DEF Init, ClaimInit, OwnedViews, Owners, Unposted
<1>3. OwnedProcs /\ OwnedRequests
  BY DEF Init, ClaimInit, OwnedProcs, OwnedRequests, Busy, At, Idle, NoRequest
<1>4. QED  BY <1>1, <1>2, <1>3 DEF OwnInv

LEMMA OwnViewsStep == OwnInv /\ [Next]_vars => OwnedViews'
<1> SUFFICES ASSUME OwnInv, [Next]_vars PROVE OwnedViews'
  OBVIOUS
<1>1. CASE UNCHANGED view
  BY <1>1 DEF OwnInv, OwnedViews, Owners
<1>2. CASE \E t \in Task : \E v : AppendRecord(t, v) /\ Line(t, v)
  <2>0. PICK t \in Task : \E v : AppendRecord(t, v) /\ Line(t, v)
    BY <1>2
  <2>1. PICK v : AppendRecord(t, v) /\ Line(t, v)
    BY <2>0
  <2>2. view[t] \in TaskView /\ view \in [Task -> TaskView]
    BY DEF OwnInv, TypeInv, TypeOK
  <2>3. /\ v.assigned \in Owners(t) /\ v.owner \in Owners(t) /\ v.holder \in Owners(t)
    <3>1. CASE OtherLine(t, v)
      BY <2>2, <3>1, OtherLineEffect DEF OwnInv, OwnedViews
    <3>2. CASE LeaseLine(t, v) \/ RenewalLine(t, v)
      <4>1. PICK p \in Proc :
              /\ Busy(p) /\ proc[p].task = t
              /\ \/ v = AfterLease(view[t], AgentOf[p], proc[p].attempt, proc[p].now + LeaseTime)
                 \/ v = AfterRenewal(view[t], AgentOf[p], clock + LeaseTime)
        BY <3>2 DEF LeaseLine, RenewalLine, TakeLease, Renew, Busy, At
      <4>2. AgentOf[p] \in Owners(t)
        BY <4>1 DEF OwnInv, OwnedProcs, Owners
      <4>3. QED  BY <2>2, <4>1, <4>2 DEF AfterLease, AfterRenewal, TaskView, OwnInv, OwnedViews
    <3>3. QED  BY <2>1, <3>1, <3>2 DEF Line
  <2>4. QED  BY <2>1, <2>2, <2>3 DEF AppendRecord, OwnInv, OwnedViews, Owners
<1>3. QED  BY <1>1, <1>2, StepLines

(* A task a finder returns is in the hands of the agent that looked.       *)
LEMMA FindersOwn ==
  ASSUME OwnInv, NEW p \in Proc, NEW t \in Task, NEW now,
         t \in QueuedFor(AgentOf[p]) \cup StuckFor(AgentOf[p], now)
                 \cup ClaimableOnHost(AgentOf[p], HostOf[p], now)
  PROVE  AgentOf[p] \in AssignTo[t]
<1>1. AgentOf[p] # NoAgent
  BY ClaimAssumption, LedgerAssumption
<1>2. view[t].assigned = AgentOf[p] \/ view[t].owner = AgentOf[p]
  BY DEF QueuedFor, StuckFor, ClaimableOnHost
<1>3. QED  BY <1>1, <1>2 DEF OwnInv, OwnedViews, Owners

LEMMA OwnProcsStep == OwnInv /\ [Next]_vars => OwnedProcs'
<1> SUFFICES ASSUME OwnInv, [Next]_vars PROVE OwnedProcs'
  OBVIOUS
<1>1. CASE UNCHANGED proc
  BY <1>1 DEF OwnInv, OwnedProcs, Owners, Busy, At
<1>2. CASE \E p \in Proc : Find(p) \/ Claim(p) \/ Run(p) \/ Crash(p) \/ Restart(p)
  <2>1. PICK p \in Proc : Find(p) \/ Claim(p) \/ Run(p) \/ Crash(p) \/ Restart(p)
    BY <1>2
  <2>2. proc \in [Proc -> ProcState] /\ Sound(proc[p]) /\ view \in [Task -> TaskView]
    BY SoundProc DEF OwnInv, TypeInv, TypeOK
  (* What the step asks of the new state of p. *)
  <2> DEFINE Own(s) ==
        /\ s.pc \in {"picked", "reclaiming", "leasing", "leased", "running", "finishing"}
             => AgentOf[p] \in AssignTo[s.task]
        /\ s.pc = "reclaiming" => s.holder \in Owners(s.task)
  <2>3. ASSUME NEW s, Becomes(p, s), Own(s) PROVE OwnedProcs'
    BY <2>2, <2>3 DEF Becomes, OwnInv, OwnedProcs, Owners, Busy, At
  <2>4. Own(Idle) /\ Own(Down)
    BY DEF Idle, Down
  <2>5. CASE CheckPaused(p) \/ NoneQueued(p) \/ NoneStuck(p) \/ SkipForeignLease(p)
             \/ Crash(p) \/ Restart(p) \/ ReportResult(p)
    <3>1. Own([Idle EXCEPT !.pc = "polling", !.now = clock])
      BY DEF Idle
    <3>2. Own([proc[p] EXCEPT !.pc = "sweeping"])
      BY <2>2 DEF Sound, ProcState
    <3>3. QED
      BY <2>3, <2>4, <2>5, <3>1, <3>2
         DEF CheckPaused, NoneQueued, Goes, NoneStuck, SkipForeignLease, Crash,
             Restart, ReportResult
  <2>6. CASE FindQueued(p) \/ FindStuck(p)
    <3>1. PICK t \in Task :
            /\ t \in QueuedFor(AgentOf[p]) \cup StuckFor(AgentOf[p], proc[p].now)
            /\ Becomes(p, [proc[p] EXCEPT !.pc = "picked", !.task = t])
      BY <2>6 DEF FindQueued, FindStuck, First, Picks
    <3>2. Own([proc[p] EXCEPT !.pc = "picked", !.task = t])
      BY <2>2, <3>1, FindersOwn DEF Sound, ProcState
    <3>3. QED  BY <2>3, <3>1, <3>2
  <2>7. CASE FindOnHost(p)
    <3>1. PICK t \in Task :
            /\ t \in ClaimableOnHost(AgentOf[p], HostOf[p], clock)
            /\ Becomes(p, [Idle EXCEPT !.pc = "picked", !.task = t, !.now = clock])
      BY <2>7 DEF FindOnHost, First
    <3>2. Own([Idle EXCEPT !.pc = "picked", !.task = t, !.now = clock])
      BY <3>1, FindersOwn DEF Idle
    <3>3. QED  BY <2>3, <3>1, <3>2
  <2>8. CASE FindLapsedLease(p) \/ FindLeaseFree(p) \/ AutoReclaim(p) \/ TakeLease(p)
             \/ StartRun(p) \/ Renew(p) \/ EndRun(p)
    <3>1. Busy(p) /\ AgentOf[p] \in AssignTo[proc[p].task] /\ proc[p].task \in Task
      BY <2>2, <2>8
         DEF FindLapsedLease, FindLeaseFree, AutoReclaim, TakeLease, StartRun, Renew,
             EndRun, AdapterExit, TimeOut, ObserveCancel, At, Busy, Sound, OwnInv, OwnedProcs
    <3>2. LeaseOf(p).holder \in Owners(proc[p].task)
      BY <3>1 DEF LeaseOf, OwnInv, OwnedViews
    <3>3. ASSUME NEW s, Becomes(p, s), s.task = proc[p].task,
                 s.pc = "reclaiming" => s.holder \in Owners(s.task)
          PROVE  OwnedProcs'
      BY <2>3, <3>1, <3>3
    <3>4. CASE FindLapsedLease(p)
      <4> DEFINE s == [proc[p] EXCEPT !.pc = "reclaiming", !.holder = LeaseOf(p).holder,
                                      !.attempt = LeaseOf(p).attempt + 1]
      <4>1. s.task = proc[p].task /\ s.holder = LeaseOf(p).holder
        BY <2>2 DEF Sound, ProcState
      <4>2. QED  BY <3>2, <3>3, <3>4, <4>1 DEF FindLapsedLease
    <3>5. CASE FindLeaseFree(p)
      <4> DEFINE s == [proc[p] EXCEPT !.pc = "leasing", !.attempt = LeaseOf(p).attempt + 1]
      <4>1. s.task = proc[p].task /\ s.pc # "reclaiming"
        BY <2>2 DEF Sound, ProcState
      <4>2. QED  BY <3>3, <3>5, <4>1 DEF FindLeaseFree
    <3>6. CASE AutoReclaim(p)
      <4> DEFINE s == [proc[p] EXCEPT !.pc = "leasing", !.holder = NoAgent]
      <4>1. s.task = proc[p].task /\ s.pc # "reclaiming"
        BY <2>2 DEF Sound, ProcState
      <4>2. QED  BY <3>3, <3>6, <4>1 DEF AutoReclaim
    <3>7. CASE TakeLease(p)
      <4> DEFINE s == [Idle EXCEPT !.pc = "leased", !.task = proc[p].task]
      <4>1. s.task = proc[p].task /\ s.pc # "reclaiming"
        BY DEF Idle
      <4>2. QED  BY <3>3, <3>7, <4>1 DEF TakeLease
    <3>8. CASE StartRun(p)
      <4> DEFINE s == [proc[p] EXCEPT !.pc = "running", !.started = clock, !.renewed = clock]
      <4>1. s.task = proc[p].task /\ s.pc # "reclaiming"
        BY <2>2 DEF Sound, ProcState
      <4>2. QED  BY <3>3, <3>8, <4>1 DEF StartRun
    <3>9. CASE Renew(p)
      <4> DEFINE s == [proc[p] EXCEPT !.renewed = clock]
      <4>1. s.task = proc[p].task /\ s.pc # "reclaiming"
        BY <2>2, <3>9 DEF Sound, ProcState, Renew, At
      <4>2. QED  BY <3>3, <3>9, <4>1 DEF Renew
    <3>10. CASE EndRun(p)
      <4>1. PICK o : Ends(p, o)
        BY <3>10 DEF EndRun, AdapterExit, TimeOut, ObserveCancel
      <4> DEFINE s == [Idle EXCEPT !.pc = "finishing", !.task = proc[p].task, !.outcome = o]
      <4>2. s.task = proc[p].task /\ s.pc # "reclaiming"
        BY DEF Idle
      <4>3. QED  BY <3>3, <4>1, <4>2 DEF Ends
    <3>11. QED
      BY <2>8, <3>4, <3>5, <3>6, <3>7, <3>8, <3>9, <3>10
  <2>9. QED  BY <2>1, <2>5, <2>6, <2>7, <2>8 DEF Find, Claim, Run
<1>3. QED
  BY <1>1, <1>2 DEF Next, vars, Agents, ClaimNext, Tick, Post, Steer, Serve, PostTaskPackage,
     PostTaskRequest, Reroute, UpdateStatus, Lifecycle, Cancel, Steers, BeginReclaim,
     RouteTask, FinishReclaim, AbortRequest, Pause, Resume, Elsewhere

LEMMA OwnRequestsStep == OwnInv /\ [Next]_vars => OwnedRequests'
<1> SUFFICES ASSUME OwnInv, [Next]_vars PROVE OwnedRequests'
  OBVIOUS
<1>1. CASE UNCHANGED handler
  BY <1>1 DEF OwnInv, OwnedRequests, Owners
<1>2. CASE \E h \in Handler, t \in Task, op \in {"route", "reclaim"} :
             \E a \in Owners(t) : Holds(h, op, t, a)
  BY <1>2 DEF Holds, OwnInv, TypeInv, TypeOK, OwnedRequests, Owners
<1>3. CASE \E h \in Handler : Frees(h)
  BY <1>3 DEF Frees, NoRequest, OwnInv, TypeInv, TypeOK, OwnedRequests, Owners
<1>4. ASSUME NEW t \in Task, NEW h \in Handler, BeginReclaim(h, t) PROVE OwnedRequests'
  BY <1>2, <1>4 DEF BeginReclaim, OwnInv, OwnedViews
<1>5. ASSUME NEW t \in Task, Post(t) PROVE OwnedRequests'
  <2>1. CASE \E a \in AssignTo[t], host \in Host \cup {NoHost}, h \in Handler :
               Holds(h, "route", t, a)
    BY <1>2, <2>1 DEF Owners
  <2>2. QED  BY <1>1, <1>5, <2>1 DEF Post, Hosts, PostTaskPackage, PostTaskRequest
<1>6. ASSUME NEW t \in Task, Steer(t) PROVE OwnedRequests'
  BY <1>1, <1>4, <1>6 DEF Steer, Reroute, UpdateStatus, Lifecycle, Cancel, Steers
<1>7. ASSUME NEW h \in Handler, Serve(h) PROVE OwnedRequests'
  BY <1>3, <1>7 DEF Serve, RouteTask, FinishReclaim, AbortRequest
<1>8. QED
  BY <1>1, <1>5, <1>6, <1>7 DEF Next, vars, Agents, Pause, Resume

LEMMA OwnAlways == Spec => []OwnInv
<1>1. OwnInv /\ [Next]_vars => OwnInv'
  BY TypeStep, OwnViewsStep, OwnProcsStep, OwnRequestsStep DEF OwnInv
<1>2. QED  BY <1>1, OwnInit, PTL DEF Spec

-----------------------------------------------------------------------------
(* The deployment of the systemd units: one process per agent, one agent   *)
(* per task.                                                               *)
Dedicated == OneProcessPerAgent /\ SingleOwner

LEMMA SoleClaimant ==
  ASSUME Dedicated, OwnInv, NEW p \in Proc, NEW q \in Proc, Busy(p), Busy(q),
         proc[p].task = proc[q].task
  PROVE  p = q
<1>1. proc[p].task \in Task
  BY DEF OwnInv, TypeInv, WellFormed, Busy
<1>2. AgentOf[p] \in AssignTo[proc[p].task] /\ AgentOf[q] \in AssignTo[proc[p].task]
  BY DEF OwnInv, OwnedProcs
<1>3. QED  BY <1>1, <1>2 DEF Dedicated, SingleOwner, OneProcessPerAgent

(* In such a deployment no two processes run one task at the same time,    *)
(* whatever operators post, cancel, reclaim, reopen or reassign, and       *)
(* wherever processes and request children die.                            *)
THEOREM NoDoubleRun ==
  ASSUME Dedicated
  PROVE  Spec => []SoleRunner
<1>1. OwnInv => SoleRunner
  <2> SUFFICES ASSUME OwnInv, NEW p \in Proc, NEW q \in Proc, NEW t \in Task,
                      Executes(p, t), Executes(q, t)
               PROVE  p = q
    BY DEF SoleRunner
  <2>1. QED  BY SoleClaimant DEF Executes, Busy
<1>2. QED  BY <1>1, OwnAlways, PTL

-----------------------------------------------------------------------------
(* The fields of a lease that only a new lease changes.                    *)
LEMMA LeaseKept ==
  ASSUME OwnInv, NEW t \in Task, NEW v, AppendRecord(t, v), RenewalLine(t, v) \/ OtherLine(t, v),
         NEW u \in Task
  PROVE  /\ view'[u].attempt = view[u].attempt
         /\ view'[u].holder = view[u].holder
         /\ view'[u].expires = view[u].expires
         /\ view'[u].active => view[u].active
         /\ view[u].cancel => view'[u].cancel
<1>1. view \in [Task -> TaskView] /\ view[t] \in TaskView
  BY DEF OwnInv, TypeInv, TypeOK
<1>2. CASE u # t
  BY <1>1, <1>2 DEF AppendRecord
<1>3. CASE u = t
  <2>1. view'[u] = v
    BY <1>1, <1>3 DEF AppendRecord
  <2>2. CASE OtherLine(t, v)
    BY <1>1, <1>3, <2>1, <2>2, OtherLineEffect
  <2>3. CASE RenewalLine(t, v)
    BY <1>1, <1>3, <2>1, <2>3 DEF RenewalLine, AfterRenewal, TaskView
  <2>4. QED  BY <2>2, <2>3
<1>4. QED  BY <1>2, <1>3

LEMMA LeaseViewsStep == OwnInv /\ LeaseViewsAgree /\ [Next]_vars => LeaseViewsAgree'
<1> SUFFICES ASSUME OwnInv, LeaseViewsAgree, [Next]_vars PROVE LeaseViewsAgree'
  OBVIOUS
<1>1. CASE UNCHANGED view
  BY <1>1 DEF LeaseViewsAgree
<1>2. CASE \E t \in Task : \E v : AppendRecord(t, v) /\ Line(t, v)
  <2>0. PICK t \in Task : \E v : AppendRecord(t, v) /\ Line(t, v)
    BY <1>2
  <2>1. PICK v : AppendRecord(t, v) /\ Line(t, v)
    BY <2>0
  <2>2. /\ view \in [Task -> TaskView] /\ view[t] \in TaskView /\ clock \in Nat
        /\ \A p \in Proc : proc[p].now \in Nat
    BY DEF OwnInv, TypeInv, TypeOK, ProcState
  <2>3. view[t].active => view[t].stuckAt = view[t].expires /\ view[t].stuckAt > 0
                          /\ view[t].hostStuckAt > 0
    BY DEF LeaseViewsAgree
  <2>4. v.active => v.stuckAt = v.expires /\ v.stuckAt > 0 /\ v.hostStuckAt > 0
    <3>1. CASE OtherLine(t, v)
      BY <2>2, <2>3, <3>1, OtherLineEffect
    <3>2. CASE LeaseLine(t, v)
      <4>1. PICK p \in Proc :
              v = AfterLease(view[t], AgentOf[p], proc[p].attempt, proc[p].now + LeaseTime)
        BY <3>2 DEF LeaseLine
      <4>2. proc[p].now + LeaseTime > 0
        BY <2>2, ClaimAssumption
      <4>3. QED  BY <2>2, <4>1, <4>2 DEF AfterLease, TaskView
    <3>3. CASE RenewalLine(t, v)
      <4>1. PICK p \in Proc : v = AfterRenewal(view[t], AgentOf[p], clock + LeaseTime)
        BY <3>3 DEF RenewalLine
      <4>2. clock + LeaseTime > 0
        BY <2>2, ClaimAssumption
      <4>3. QED  BY <2>2, <2>3, <4>1, <4>2 DEF AfterRenewal, TaskView
    <3>4. QED  BY <2>1, <3>1, <3>2, <3>3 DEF Line
  <2>5. QED  BY <2>1, <2>2, <2>4 DEF AppendRecord, LeaseViewsAgree
<1>3. QED  BY <1>1, <1>2, StepLines

(* In every deployment, with any number of processes per agent and any     *)
(* rerouting, the readers agree on the lease that is active.               *)
THEOREM ReadersAgree == Spec => []LeaseViewsAgree
<1>1. Init => LeaseViewsAgree
  BY DEF Init, ClaimInit, Unposted, LeaseViewsAgree
<1>2. QED  BY <1>1, LeaseViewsStep, OwnAlways, PTL DEF Spec

-----------------------------------------------------------------------------
(* What a process that is claiming has read is still so when it appends.   *)

ClaimHolds(p) ==
  /\ proc[p].now <= clock
  /\ At(p, "reclaiming") \/ At(p, "leasing") => proc[p].attempt = LeaseOf(p).attempt + 1
  /\ At(p, "reclaiming") => LeaseOf(p).expires <= clock

ClaimInv == \A p \in Proc : ClaimHolds(p)

(* A process that another one's step leaves alone. *)
LEMMA ClaimOther ==
  ASSUME Dedicated, OwnInv, ClaimInv, [Next]_vars, NEW p \in Proc, proc'[p] = proc[p]
  PROVE  ClaimHolds(p)'
<1>1. clock \in Nat /\ clock' \in Nat /\ clock <= clock' /\ proc[p].now \in Nat
  <2>1. clock \in Nat /\ proc[p].now \in Nat
    BY DEF OwnInv, TypeInv, TypeOK, ProcState
  <2>2. UNCHANGED clock \/ clock' = clock + 1
    <3>1. ASSUME NEW q \in Proc, Find(q) \/ Claim(q) PROVE UNCHANGED clock
      BY <3>1 DEF Find, CheckPaused, FindQueued, NoneQueued, FindStuck, NoneStuck, FindOnHost,
         Claim, SkipForeignLease, FindLapsedLease, FindLeaseFree, AutoReclaim, TakeLease,
         ReadsOnly, AppendsOnly
    <3>2. ASSUME NEW q \in Proc, Run(q) \/ Crash(q) \/ Restart(q) PROVE UNCHANGED clock
      BY <3>2 DEF Run, StartRun, Renew, EndRun, AdapterExit, TimeOut, ObserveCancel, Ends,
         ReportResult, Crash, Restart, ReadsOnly, AppendsOnly
    <3>3. ASSUME NEW t \in Task, Post(t) \/ Steer(t) PROVE UNCHANGED clock
      BY <3>3 DEF Post, PostTaskPackage, PostTaskRequest, Steer, Reroute, UpdateStatus, Lifecycle,
         Cancel, Steers, BeginReclaim, Elsewhere
    <3>4. ASSUME NEW h \in Handler, Serve(h) PROVE UNCHANGED clock
      BY <3>4 DEF Serve, RouteTask, FinishReclaim, AbortRequest, Elsewhere
    <3>5. ASSUME NEW a \in Agent, Pause(a) \/ Resume(a) PROVE UNCHANGED clock
      BY <3>5 DEF Pause, Resume
    <3>6. Tick \/ UNCHANGED clock
      BY <3>1, <3>2, <3>3, <3>4, <3>5 DEF Next, vars, Agents, ClaimNext
    <3>7. QED  BY <3>6 DEF Tick
  <2>3. QED  BY <2>1, <2>2
<1>2. CASE ~At(p, "reclaiming") /\ ~At(p, "leasing")
  BY <1>1, <1>2 DEF ClaimInv, ClaimHolds, At
<1>3. CASE At(p, "reclaiming") \/ At(p, "leasing")
  <2>1. Busy(p) /\ proc[p].task \in Task
    BY <1>3 DEF At, Busy, OwnInv, TypeInv, WellFormed
  <2>2. /\ LeaseOf(p)'.attempt = LeaseOf(p).attempt
        /\ LeaseOf(p)'.expires = LeaseOf(p).expires
    <3>1. CASE UNCHANGED view
      BY <3>1 DEF LeaseOf
    <3>2. CASE \E t \in Task : \E v : AppendRecord(t, v) /\ Line(t, v)
      <4>0. PICK t \in Task : \E v : AppendRecord(t, v) /\ Line(t, v)
        BY <3>2
      <4>1. PICK v : AppendRecord(t, v) /\ Line(t, v)
        BY <4>0
      <4>2. CASE RenewalLine(t, v) \/ OtherLine(t, v)
        BY <2>1, <4>1, <4>2, LeaseKept DEF LeaseOf
      <4>3. CASE LeaseLine(t, v)
        <5>1. PICK q \in Proc : TakeLease(q) /\ proc[q].task = t
          BY <4>3 DEF LeaseLine
        <5>2. q # p
          <6>1. proc'[q].pc = "leased"
            BY <5>1 DEF TakeLease, Becomes, Idle, OwnInv, TypeInv, TypeOK
          <6>2. QED  BY <1>3, <6>1 DEF At
        <5>3. proc[p].task # t
          BY <2>1, <5>1, <5>2, SoleClaimant DEF TakeLease, At, Busy
        <5>4. QED  BY <2>1, <4>1, <5>3 DEF AppendRecord, LeaseOf, OwnInv, TypeInv, TypeOK
      <4>4. QED  BY <4>1, <4>2, <4>3 DEF Line
    <3>3. QED  BY <3>1, <3>2, StepLines
  <2>3. LeaseOf(p) \in TaskView
    BY <2>1 DEF LeaseOf, OwnInv, TypeInv, TypeOK
  <2>4. QED  BY <1>1, <2>2, <2>3 DEF ClaimInv, ClaimHolds, At, TaskView
<1>4. QED  BY <1>2, <1>3

LEMMA ClaimStep ==
  ASSUME Dedicated, OwnInv, ClaimInv, [Next]_vars
  PROVE  ClaimInv'
<1>1. CASE UNCHANGED proc
  BY <1>1, ClaimOther DEF ClaimInv
<1>2. ASSUME NEW p \in Proc, Find(p) \/ Claim(p) \/ Run(p) \/ Crash(p) \/ Restart(p)
      PROVE  ClaimInv'
  <2>1. proc \in [Proc -> ProcState] /\ clock \in Nat /\ Sound(proc[p]) /\ proc[p].now <= clock
    BY SoundProc DEF OwnInv, TypeInv, TypeOK, ClaimInv, ClaimHolds
  <2>2. ASSUME ClaimHolds(p)', NEW s, Becomes(p, s) PROVE ClaimInv'
    BY <2>1, <2>2, ClaimOther DEF ClaimInv, Becomes
  <2>3. ASSUME NEW s, Becomes(p, s), s.now \in {0, clock, proc[p].now},
               s.pc \notin {"reclaiming", "leasing"}, UNCHANGED clock
        PROVE  ClaimInv'
    <3>1. proc'[p] = s
      BY <2>1, <2>3 DEF Becomes
    <3>2. QED  BY <2>1, <2>2, <2>3, <3>1 DEF ClaimHolds, At
  <2>4. CASE Find(p)
    <3>1. /\ [Idle EXCEPT !.pc = "polling", !.now = clock].now = clock
          /\ [Idle EXCEPT !.pc = "polling", !.now = clock].pc = "polling"
          /\ Idle.now = 0 /\ Idle.pc = "idle"
          /\ [proc[p] EXCEPT !.pc = "sweeping"].now = proc[p].now
          /\ [proc[p] EXCEPT !.pc = "sweeping"].pc = "sweeping"
      BY <2>1 DEF Idle, Sound, ProcState
    <3>2. CASE CheckPaused(p)
      BY <2>3, <3>1, <3>2 DEF CheckPaused, ReadsOnly
    <3>3. CASE NoneQueued(p)
      BY <2>3, <3>1, <3>3 DEF NoneQueued, ReadsOnly, Goes
    <3>4. CASE NoneStuck(p)
      BY <2>3, <3>1, <3>4 DEF NoneStuck, ReadsOnly
    <3>5. CASE FindQueued(p) \/ FindStuck(p)
      <4>1. PICK t : Becomes(p, [proc[p] EXCEPT !.pc = "picked", !.task = t])
        BY <3>5 DEF FindQueued, FindStuck, Picks
      <4>2. /\ [proc[p] EXCEPT !.pc = "picked", !.task = t].now = proc[p].now
            /\ [proc[p] EXCEPT !.pc = "picked", !.task = t].pc = "picked"
        BY <2>1 DEF Sound, ProcState
      <4>3. QED  BY <2>3, <3>5, <4>1, <4>2 DEF FindQueued, FindStuck, ReadsOnly
    <3>6. CASE FindOnHost(p)
      <4>1. PICK t : Becomes(p, [Idle EXCEPT !.pc = "picked", !.task = t, !.now = clock])
        BY <3>6 DEF FindOnHost
      <4>2. /\ [Idle EXCEPT !.pc = "picked", !.task = t, !.now = clock].now = clock
            /\ [Idle EXCEPT !.pc = "picked", !.task = t, !.now = clock].pc = "picked"
        BY DEF Idle
      <4>3. QED  BY <2>3, <3>6, <4>1, <4>2 DEF FindOnHost, ReadsOnly
    <3>7. QED  BY <2>4, <3>2, <3>3, <3>4, <3>5, <3>6 DEF Find
  <2>5. CASE FindLapsedLease(p)
    <3>1. /\ proc'[p] = [proc[p] EXCEPT !.pc = "reclaiming", !.holder = LeaseOf(p).holder,
                                        !.attempt = LeaseOf(p).attempt + 1]
          /\ UNCHANGED <<view, clock>>
      BY <2>1, <2>5 DEF FindLapsedLease, Becomes, ReadsOnly
    <3>2. /\ proc'[p].now = proc[p].now /\ proc'[p].attempt = LeaseOf(p).attempt + 1
          /\ LeaseOf(p)' = LeaseOf(p)
      BY <2>1, <3>1 DEF Sound, ProcState, LeaseOf
    <3>3. LeaseOf(p).expires <= clock
      <4>1. LeaseOf(p) \in TaskView
        BY <2>1, <2>5 DEF FindLapsedLease, At, Sound, LeaseOf, OwnInv, TypeInv, TypeOK
      <4>2. QED  BY <2>1, <2>5, <4>1 DEF FindLapsedLease, TaskView, Sound, ProcState
    <3>4. ClaimHolds(p)'
      BY <2>1, <3>1, <3>2, <3>3 DEF ClaimHolds
    <3>5. QED  BY <2>2, <2>5, <3>4 DEF FindLapsedLease
  <2>6. CASE FindLeaseFree(p)
    <3>1. /\ proc'[p] = [proc[p] EXCEPT !.pc = "leasing", !.attempt = LeaseOf(p).attempt + 1]
          /\ UNCHANGED <<view, clock>>
      BY <2>1, <2>6 DEF FindLeaseFree, Becomes, ReadsOnly
    <3>2. /\ proc'[p].now = proc[p].now /\ proc'[p].attempt = LeaseOf(p).attempt + 1
          /\ proc'[p].pc = "leasing" /\ LeaseOf(p)' = LeaseOf(p)
      BY <2>1, <3>1 DEF Sound, ProcState, LeaseOf
    <3>3. ClaimHolds(p)'
      BY <2>1, <3>1, <3>2 DEF ClaimHolds, At
    <3>4. QED  BY <2>2, <2>6, <3>3 DEF FindLeaseFree
  <2>7. CASE AutoReclaim(p)
    <3>1. /\ proc'[p] = [proc[p] EXCEPT !.pc = "leasing", !.holder = NoAgent]
          /\ UNCHANGED clock
          /\ view' = [view EXCEPT ![proc[p].task] = AfterReclaim(LeaseOf(p), proc[p].holder)]
      BY <2>1, <2>7 DEF AutoReclaim, Becomes, AppendRecord, AppendsOnly
    <3>2. /\ proc'[p].now = proc[p].now /\ proc'[p].attempt = proc[p].attempt
          /\ proc'[p].pc = "leasing" /\ proc'[p].task = proc[p].task
          /\ proc[p].task \in Task
      BY <2>1, <2>7, <3>1 DEF Sound, ProcState, AutoReclaim, At
    <3>3. LeaseOf(p)'.attempt = LeaseOf(p).attempt
      BY <3>1, <3>2 DEF LeaseOf, AfterReclaim, OwnInv, TypeInv, TypeOK, TaskView
    <3>4. proc[p].attempt = LeaseOf(p).attempt + 1
      BY <2>7 DEF AutoReclaim, ClaimInv, ClaimHolds
    <3>5. ClaimHolds(p)'
      BY <2>1, <3>1, <3>2, <3>3, <3>4 DEF ClaimHolds, At
    <3>6. QED  BY <2>2, <2>7, <3>5 DEF AutoReclaim
  <2>8. CASE SkipForeignLease(p) \/ TakeLease(p) \/ ReportResult(p) \/ Crash(p) \/ Restart(p)
             \/ EndRun(p)
    <3>1. PICK s : Becomes(p, s) /\ s.now = 0 /\ s.pc \notin {"reclaiming", "leasing"}
      <4>1. CASE EndRun(p)
        <5>1. PICK o : Becomes(p, [Idle EXCEPT !.pc = "finishing", !.task = proc[p].task, !.outcome = o])
          BY <4>1 DEF EndRun, AdapterExit, TimeOut, ObserveCancel, Ends
        <5>2. /\ [Idle EXCEPT !.pc = "finishing", !.task = proc[p].task, !.outcome = o].now = 0
              /\ [Idle EXCEPT !.pc = "finishing", !.task = proc[p].task, !.outcome = o].pc = "finishing"
          BY DEF Idle
        <5>3. QED  BY <5>1, <5>2
      <4>2. CASE TakeLease(p)
        <5>1. /\ [Idle EXCEPT !.pc = "leased", !.task = proc[p].task].now = 0
              /\ [Idle EXCEPT !.pc = "leased", !.task = proc[p].task].pc = "leased"
          BY DEF Idle
        <5>2. QED  BY <4>2, <5>1 DEF TakeLease
      <4>3. CASE SkipForeignLease(p) \/ ReportResult(p) \/ Crash(p) \/ Restart(p)
        <5>1. Idle.now = 0 /\ Idle.pc = "idle" /\ Down.now = 0 /\ Down.pc = "down"
          BY DEF Idle, Down
        <5>2. Becomes(p, Idle) \/ Becomes(p, Down)
          BY <4>3 DEF SkipForeignLease, ReportResult, Crash, Restart
        <5>3. QED  BY <5>1, <5>2
      <4>4. QED  BY <2>8, <4>1, <4>2, <4>3
    <3>2. UNCHANGED clock
      BY <2>8 DEF SkipForeignLease, TakeLease, ReportResult, Crash, Restart, EndRun,
                  AdapterExit, TimeOut, ObserveCancel, Ends, ReadsOnly, AppendsOnly
    <3>3. QED  BY <2>3, <3>1, <3>2
  <2>9. CASE StartRun(p)
    <3>1. /\ [proc[p] EXCEPT !.pc = "running", !.started = clock, !.renewed = clock].now = proc[p].now
          /\ [proc[p] EXCEPT !.pc = "running", !.started = clock, !.renewed = clock].pc = "running"
      BY <2>1 DEF Sound, ProcState
    <3>2. QED  BY <2>3, <2>9, <3>1 DEF StartRun, AppendsOnly
  <2>10. CASE Renew(p)
    <3>1. /\ [proc[p] EXCEPT !.renewed = clock].now = proc[p].now
          /\ [proc[p] EXCEPT !.renewed = clock].pc = "running"
      BY <2>1, <2>10 DEF Sound, ProcState, Renew, At
    <3>2. QED  BY <2>3, <2>10, <3>1 DEF Renew, AppendsOnly
  <2>11. QED
    BY <1>2, <2>4, <2>5, <2>6, <2>7, <2>8, <2>9, <2>10 DEF Claim, Run
<1>3. QED
  BY <1>1, <1>2 DEF Next, vars, Agents, ClaimNext, Tick, Post, Steer, Serve, PostTaskPackage,
     PostTaskRequest, Reroute, UpdateStatus, Lifecycle, Cancel, Steers, BeginReclaim,
     RouteTask, FinishReclaim, AbortRequest, Pause, Resume, Elsewhere

LEMMA ClaimAlways ==
  ASSUME Dedicated
  PROVE  Spec => []ClaimInv
<1>1. Init => ClaimInv
  BY DEF Init, ClaimInit, ClaimInv, ClaimHolds, At, Idle
<1>2. OwnInv /\ ClaimInv /\ [Next]_vars => ClaimInv'
  BY ClaimStep
<1>3. QED  BY <1>1, <1>2, OwnAlways, PTL DEF Spec

(* The auto-reclaim appends "lease expired" only for a lease that has      *)
(* expired, although the clock was read before the ledger and the ledger   *)
(* before the append.                                                      *)
THEOREM ReclaimsAreDue ==
  ASSUME Dedicated
  PROVE  Spec => ReclaimOnlyExpired
<1>1. ClaimInv => \A p \in Proc : AutoReclaim(p) => LeaseOf(p).expires <= clock
  BY DEF ClaimInv, ClaimHolds, AutoReclaim
<1>2. ClaimInv /\ [Next]_vars
        => [\A p \in Proc : AutoReclaim(p) /\ LeaseOf(p).active
                              => LeaseOf(p).expires <= clock]_vars
  BY <1>1
<1>3. QED  BY <1>2, ClaimAlways, PTL DEF Spec, ReclaimOnlyExpired

(* A cancel reaches the running adapter it was meant for: only a lease     *)
(* resets it, and nobody leases a task that a process is running.          *)
THEOREM CancelsAreKept ==
  ASSUME Dedicated
  PROVE  Spec => CancelLatched
<1> DEFINE Latched ==
      \A t \in Task :
        view[t].cancel /\ (\E p \in Proc : At(p, "running") /\ proc[p].task = t)
          => view'[t].cancel
<1>1. ASSUME OwnInv, [Next]_vars PROVE Latched
  <2> SUFFICES ASSUME NEW u \in Task, view[u].cancel,
                      NEW p \in Proc, At(p, "running"), proc[p].task = u
               PROVE  view'[u].cancel
    OBVIOUS
  <2>1. CASE UNCHANGED view
    BY <2>1
  <2>2. CASE \E t \in Task : \E v : AppendRecord(t, v) /\ Line(t, v)
    <3>0. PICK t \in Task : \E v : AppendRecord(t, v) /\ Line(t, v)
      BY <2>2
    <3>1. PICK v : AppendRecord(t, v) /\ Line(t, v)
      BY <3>0
    <3>2. CASE RenewalLine(t, v) \/ OtherLine(t, v)
      BY <1>1, <3>1, <3>2, LeaseKept
    <3>3. CASE LeaseLine(t, v)
      <4>1. PICK q \in Proc : At(q, "leasing") /\ proc[q].task = t
        BY <3>3 DEF LeaseLine, TakeLease
      <4>2. t # u
        BY <1>1, <4>1, SoleClaimant DEF Busy, At
      <4>3. QED  BY <1>1, <3>1, <4>2 DEF AppendRecord, OwnInv, TypeInv, TypeOK
    <3>4. QED  BY <3>1, <3>2, <3>3 DEF Line
  <2>3. QED  BY <1>1, <2>1, <2>2, StepLines
<1>2. OwnInv /\ [Next]_vars => [Latched]_vars
  BY <1>1
<1>3. QED  BY <1>2, OwnAlways, PTL DEF Spec, CancelLatched

-----------------------------------------------------------------------------
(* The refinement.                                                         *)

Held(v) == IF v.active THEN v.holder ELSE NoAgent

(* What a line does to the lease register.                                 *)
LEMMA LineRegisters ==
  ASSUME Dedicated, OwnInv, ClaimInv, NEW t \in Task, NEW v, AppendRecord(t, v), Line(t, v)
  PROVE  \/ v.attempt = view[t].attempt /\ Held(v) = Held(view[t])
         \/ v.attempt = view[t].attempt /\ Held(v) = NoAgent
         \/ \E a \in Agent : /\ Held(view[t]) \in {NoAgent, a}
                             /\ Held(v) = a
                             /\ v.attempt = view[t].attempt + 1
<1>1. view[t] \in TaskView
  BY DEF OwnInv, TypeInv, TypeOK
<1>2. CASE OtherLine(t, v)
  BY <1>1, <1>2, OtherLineEffect DEF Held
<1>3. CASE RenewalLine(t, v)
  BY <1>1, <1>3 DEF RenewalLine, AfterRenewal, TaskView, Held
<1>4. CASE LeaseLine(t, v)
  <2>1. PICK p \in Proc :
          /\ At(p, "leasing") /\ proc[p].task = t
          /\ v = AfterLease(view[t], AgentOf[p], proc[p].attempt, proc[p].now + LeaseTime)
    BY <1>4 DEF LeaseLine, TakeLease
  <2>2. AgentOf[p] \in Agent /\ AgentOf[p] \in AssignTo[t]
    BY <2>1, ClaimAssumption DEF OwnInv, OwnedProcs, Busy, At
  <2>3. Held(view[t]) \in {NoAgent, AgentOf[p]}
    BY <2>2 DEF Held, OwnInv, OwnedViews, Owners, Dedicated, SingleOwner
  <2>4. proc[p].attempt = view[t].attempt + 1
    BY <2>1 DEF ClaimInv, ClaimHolds, LeaseOf
  <2>5. Held(v) = AgentOf[p] /\ v.attempt = proc[p].attempt
    BY <1>1, <2>1 DEF AfterLease, TaskView, Held
  <2>6. QED  BY <2>2, <2>3, <2>4, <2>5
<1>5. QED  BY <1>2, <1>3, <1>4 DEF Line

(* The ledger implements the lease register: a lease passes from agent to  *)
(* agent through a release, and the attempts are counted without a gap or  *)
(* a repetition, although attempt + 1 is computed from an earlier read.    *)
THEOREM LedgerIsRegister ==
  ASSUME Dedicated
  PROVE  Spec => LeasesAreRegister
<1> DEFINE holders == [t \in Task |-> Held(view[t])]
           attempts == [t \in Task |-> view[t].attempt]
<1>1. Init => Register!Init
  BY DEF Init, ClaimInit, Unposted, Register!Init
<1>2. ASSUME OwnInv, ClaimInv, [Next]_vars
      PROVE  [Register!Next]_<<holders, attempts>>
  <2>1. CASE UNCHANGED view
    BY <2>1
  <2>2. CASE \E t \in Task : \E v : AppendRecord(t, v) /\ Line(t, v)
    <3>0. PICK t \in Task : \E v : AppendRecord(t, v) /\ Line(t, v)
      BY <2>2
    <3>1. PICK v : AppendRecord(t, v) /\ Line(t, v)
      BY <3>0
    <3>2. \A u \in Task : view'[u] = IF u = t THEN v ELSE view[u]
      BY <1>2, <3>1 DEF AppendRecord, OwnInv, TypeInv, TypeOK
    <3>3. holders' = [holders EXCEPT ![t] = Held(v)]
      BY <3>2 DEF Held
    <3>4. attempts' = [attempts EXCEPT ![t] = v.attempt]
      BY <3>2
    <3>5. holders[t] = Held(view[t]) /\ attempts[t] = view[t].attempt
      OBVIOUS
    <3>6. CASE v.attempt = view[t].attempt /\ Held(v) = Held(view[t])
      BY <3>3, <3>4, <3>5, <3>6
    <3>7. CASE v.attempt = view[t].attempt /\ Held(v) = NoAgent
      <4>1. attempts' = attempts
        BY <3>4, <3>5, <3>7
      <4>2. Register!Release(t)
        BY <3>3, <3>7, <4>1 DEF Register!Release, Held
      <4>3. QED  BY <4>2 DEF Register!Next
    <3>8. CASE \E a \in Agent : /\ Held(view[t]) \in {NoAgent, a}
                                /\ Held(v) = a
                               /\ v.attempt = view[t].attempt + 1
      <4>1. PICK a \in Agent : Held(view[t]) \in {NoAgent, a} /\ Held(v) = a
                               /\ v.attempt = view[t].attempt + 1
        BY <3>8
      <4>2. Register!Grant(t, a)
        BY <3>3, <3>4, <3>5, <4>1 DEF Register!Grant, Held
      <4>3. QED  BY <4>2 DEF Register!Next
    <3>9. QED  BY <1>2, <3>1, <3>6, <3>7, <3>8, LineRegisters
  <2>3. QED  BY <1>2, <2>1, <2>2, StepLines
<1>3. [Register!Next]_<<holders, attempts>> =>
        [Register!Next]_<<[t \in Task |-> IF view[t].active THEN view[t].holder ELSE NoAgent],
                          [t \in Task |-> view[t].attempt]>>
  BY DEF Held
<1>4. QED
  BY <1>1, <1>2, <1>3, OwnAlways, ClaimAlways, PTL DEF Spec, LeasesAreRegister, Register!Spec

-----------------------------------------------------------------------------
(* A task keeps the host it was posted for, unless it is posted again; so   *)
(* what a finder has read of it stays true, whoever reroutes or reclaims.   *)

PostedOnce == "repost" \notin OperatorOps

Allowed(p) == {NoHost} \cup {HostOf[r] : r \in {p} \cap Remote}

HostsHeld ==
  \A p \in Proc : Busy(p) => Posted(proc[p].task) /\ view[proc[p].task].host \in Allowed(p)

(* A line that names no other host, for a task that stays posted.          *)
SameHost(t, v) == v.host = view[t].host /\ (Posted(t) => v.status # "none")

LEMMA LinesKeepHost ==
  ASSUME NEW t \in Task, view[t] \in TaskView, NEW a, NEW n, NEW e, NEW s \in Status \ {"none"}
  PROVE  /\ SameHost(t, AfterRouting(view[t], s, a))
         /\ SameHost(t, AfterLease(view[t], a, n, e))
         /\ SameHost(t, AfterRenewal(view[t], a, e))
         /\ SameHost(t, AfterReclaim(view[t], a))
         /\ SameHost(t, AfterStatus(view[t], s))
         /\ SameHost(t, AfterLifecycle(view[t], s))
         /\ SameHost(t, AfterKill(view[t]))
<1> USE DEF SameHost, TaskView, Posted
<1>1. SameHost(t, AfterRouting(view[t], s, a)) /\ SameHost(t, AfterLease(view[t], a, n, e))
  BY DEF AfterRouting, AfterLease
<1>2. SameHost(t, AfterRenewal(view[t], a, e)) /\ SameHost(t, AfterReclaim(view[t], a))
  BY DEF AfterRenewal, AfterReclaim
<1>3. SameHost(t, AfterStatus(view[t], s)) /\ SameHost(t, AfterLifecycle(view[t], s))
  BY DEF AfterStatus, AfterLifecycle
<1>4. SameHost(t, AfterKill(view[t]))
  BY DEF AfterKill
<1>5. QED  BY <1>1, <1>2, <1>3, <1>4

LEMMA StatusesPost ==
  /\ Claimable \cup InFlight \cup Terminal \subseteq Status \ {"none"}
  /\ Outcome \subseteq Status \ {"none"}
  BY DEF Status, Claimable, InFlight, Terminal, Outcome

LEMMA AgentKeepsHost ==
  ASSUME OwnInv, NEW p \in Proc, Find(p) \/ Claim(p) \/ Run(p)
  PROVE  UNCHANGED view \/ \E t \in Task : \E v : AppendRecord(t, v) /\ SameHost(t, v)
<1> DEFINE t == proc[p].task
<1>1. view \in [Task -> TaskView] /\ (Busy(p) => t \in Task /\ view[t] \in TaskView)
  BY DEF OwnInv, TypeInv, TypeOK, WellFormed, Busy
<1>2. CASE Find(p)
  BY <1>2 DEF Find, CheckPaused, FindQueued, NoneQueued, FindStuck, NoneStuck, FindOnHost, ReadsOnly
<1>3. CASE SkipForeignLease(p) \/ FindLapsedLease(p) \/ FindLeaseFree(p) \/ EndRun(p)
  BY <1>3 DEF SkipForeignLease, FindLapsedLease, FindLeaseFree, EndRun,
              AdapterExit, TimeOut, ObserveCancel, Ends, ReadsOnly
<1>4. CASE AutoReclaim(p) \/ TakeLease(p) \/ StartRun(p) \/ Renew(p) \/ ReportResult(p)
  <2>1. t \in Task /\ view[t] \in TaskView
    BY <1>1, <1>4 DEF AutoReclaim, TakeLease, StartRun, Renew, ReportResult, At, Busy
  <2>2. "running" \in Status \ {"none"} /\ (At(p, "finishing") => proc[p].outcome \in Status \ {"none"})
    BY StatusesPost DEF InFlight, OwnInv, TypeInv, WellFormed, At
  <2>3. CASE AutoReclaim(p)
    BY <2>1, <2>2, <2>3, LinesKeepHost DEF AutoReclaim, LeaseOf
  <2>4. CASE TakeLease(p)
    BY <2>1, <2>2, <2>4, LinesKeepHost DEF TakeLease, LeaseOf
  <2>5. CASE StartRun(p)
    BY <2>1, <2>2, <2>5, LinesKeepHost DEF StartRun, LeaseOf
  <2>6. CASE Renew(p)
    BY <2>1, <2>2, <2>6, LinesKeepHost DEF Renew, LeaseOf
  <2>7. CASE ReportResult(p)
    BY <2>1, <2>2, <2>7, LinesKeepHost DEF ReportResult, LeaseOf
  <2>8. QED  BY <1>4, <2>3, <2>4, <2>5, <2>6, <2>7
<1>5. QED  BY <1>2, <1>3, <1>4 DEF Claim, Run

LEMMA PlaneKeepsHost ==
  ASSUME OwnInv, PostedOnce,
         (\E t \in Task : Post(t) \/ Steer(t)) \/ (\E h \in Handler : Serve(h))
  PROVE  \/ UNCHANGED view
         \/ \E t \in Task : \E v : AppendRecord(t, v) /\ (~Posted(t) \/ SameHost(t, v))
<1>1. \A t \in Task : view[t] \in TaskView
  BY DEF OwnInv, TypeInv, TypeOK
<1>2. CASE \E t \in Task : Post(t)
  <2>1. PICK t \in Task : Postable(t) /\ \E v : AppendRecord(t, v)
    BY <1>2 DEF Post, PostTaskPackage, PostTaskRequest
  <2>2. ~Posted(t)
    BY <2>1 DEF Postable, Operates, PostedOnce
  <2>3. QED  BY <2>1, <2>2
<1>3. CASE \E t \in Task : Steer(t)
  <2>1. PICK t \in Task : Steer(t)
    BY <1>3
  <2>2. view[t] \in TaskView
    BY <1>1
  <2>3. CASE \E h \in Handler : BeginReclaim(h, t)
    BY <2>3 DEF BeginReclaim
  <2>4. CASE \E s \in Claimable, a \in AssignTo[t] : Reroute(t, s, a)
    BY <2>2, <2>4, LinesKeepHost, StatusesPost DEF Reroute, Steers
  <2>5. CASE \E s \in Claimable \cup Terminal : UpdateStatus(t, s)
    BY <2>2, <2>5, LinesKeepHost, StatusesPost DEF UpdateStatus, Steers
  <2>6. CASE \E s \in {"queued", "cancelled", "closed"} : Lifecycle(t, s)
    <3>1. PICK s \in Claimable \cup Terminal : Lifecycle(t, s)
      BY <2>6 DEF Claimable, Terminal
    <3>2. QED  BY <2>2, <3>1, LinesKeepHost, StatusesPost DEF Lifecycle, Steers
  <2>7. CASE Cancel(t)
    <3>1. "queued" \in Status \ {"none"}
      BY StatusesPost DEF Claimable
    <3>2. QED  BY <2>2, <2>7, <3>1, LinesKeepHost DEF Cancel, Steers
  <2>8. QED  BY <2>1, <2>3, <2>4, <2>5, <2>6, <2>7 DEF Steer
<1>4. CASE \E h \in Handler : Serve(h)
  <2>1. PICK h \in Handler : Serve(h)
    BY <1>4
  <2>2. handler[h].op # "none" => handler[h].task \in Task /\ view[handler[h].task] \in TaskView
    BY <1>1 DEF OwnInv, TypeInv, WellFormed
  <2>3. "assigned" \in Status \ {"none"}
    BY StatusesPost DEF Claimable
  <2>4. CASE AbortRequest(h)
    BY <2>4 DEF AbortRequest
  <2>5. CASE RouteTask(h)
    BY <2>2, <2>3, <2>5, LinesKeepHost DEF RouteTask
  <2>6. CASE FinishReclaim(h)
    BY <2>2, <2>3, <2>6, LinesKeepHost DEF FinishReclaim
  <2>7. QED  BY <2>1, <2>4, <2>5, <2>6 DEF Serve
<1>5. QED  BY <1>2, <1>3, <1>4

LEMMA StepKeepsHost ==
  ASSUME OwnInv, PostedOnce, [Next]_vars, NEW t \in Task, Posted(t)
  PROVE  view'[t].host = view[t].host /\ view'[t].status # "none"
<1>1. view \in [Task -> TaskView]
  BY DEF OwnInv, TypeInv, TypeOK
<1>2. \/ UNCHANGED view
      \/ \E u \in Task : \E v : AppendRecord(u, v) /\ (~Posted(u) \/ SameHost(u, v))
  BY AgentKeepsHost, PlaneKeepsHost
     DEF Next, vars, Agents, ClaimNext, Tick, Crash, Restart, ReadsOnly, Pause, Resume
<1>3. CASE UNCHANGED view
  BY <1>3 DEF Posted
<1>4. ASSUME NEW u \in Task, NEW v, AppendRecord(u, v), ~Posted(u) \/ SameHost(u, v)
      PROVE  view'[t].host = view[t].host /\ view'[t].status # "none"
  <2>1. CASE u = t
    BY <1>1, <1>4, <2>1 DEF AppendRecord, SameHost
  <2>2. CASE u # t
    BY <1>1, <1>4, <2>2 DEF AppendRecord, Posted
  <2>3. QED  BY <2>1, <2>2
<1>5. QED  BY <1>2, <1>3, <1>4

(* A task that a step of p may go on with.                                 *)
Fit(p, t) == t \in Task /\ Posted(t) /\ view[t].host \in Allowed(p)

LEMMA FindersFit ==
  ASSUME NEW p \in Proc, NEW t \in Task, NEW now,
         \/ t \in QueuedFor(AgentOf[p]) \cup StuckFor(AgentOf[p], now)
         \/ p \in Remote /\ t \in ClaimableOnHost(AgentOf[p], HostOf[p], now)
  PROVE  Fit(p, t)
<1>1. view[t].status \in Claimable \cup InFlight
  BY DEF QueuedFor, StuckFor, ClaimableOnHost, Lapsed
<1>2. view[t].host \in Allowed(p)
  BY DEF QueuedFor, StuckFor, ClaimableOnHost, Allowed
<1>3. QED  BY <1>1, <1>2, StatusesPost DEF Fit, Posted

LEMMA HeldFit ==
  ASSUME OwnInv, HostsHeld, NEW p \in Proc, Busy(p)
  PROVE  Fit(p, proc[p].task)
BY DEF Fit, HostsHeld, OwnInv, TypeInv, WellFormed, Busy

(* Whatever a process is busy with after a step was fit for it before.     *)
LEMMA BusyWithFit ==
  ASSUME OwnInv, HostsHeld, [Next]_vars, NEW q \in Proc, Busy(q)'
  PROVE  Fit(q, proc'[q].task)
<1>1. CASE UNCHANGED proc
  BY <1>1, HeldFit DEF Busy, At
<1>2. CASE \E p \in Proc : Find(p) \/ Claim(p) \/ Run(p) \/ Crash(p) \/ Restart(p)
  <2>1. PICK p \in Proc : Find(p) \/ Claim(p) \/ Run(p) \/ Crash(p) \/ Restart(p)
    BY <1>2
  <2>2. proc \in [Proc -> ProcState] /\ proc[p] \in ProcState
    BY DEF OwnInv, TypeInv, TypeOK
  <2> DEFINE Good(s) ==
        s.pc \in {"picked", "reclaiming", "leasing", "leased", "running", "finishing"}
          => Fit(p, s.task)
  <2>3. ASSUME NEW s, Becomes(p, s), Good(s) PROVE Fit(q, proc'[q].task)
    <3>1. CASE q = p
      BY <2>2, <2>3, <3>1 DEF Becomes, Busy, At
    <3>2. CASE q # p
      <4>1. proc'[q] = proc[q]
        BY <2>2, <2>3, <3>2 DEF Becomes
      <4>2. QED  BY <4>1, HeldFit DEF Busy, At
    <3>3. QED  BY <3>1, <3>2
  <2>4. Good(Idle) /\ Good(Down)
    BY DEF Idle, Down
  <2>5. CASE CheckPaused(p) \/ NoneQueued(p) \/ NoneStuck(p) \/ SkipForeignLease(p)
             \/ Crash(p) \/ Restart(p) \/ ReportResult(p)
    <3>1. Good([Idle EXCEPT !.pc = "polling", !.now = clock])
      BY DEF Idle
    <3>2. Good([proc[p] EXCEPT !.pc = "sweeping"])
      BY <2>2 DEF ProcState
    <3>3. QED
      BY <2>3, <2>4, <2>5, <3>1, <3>2
         DEF CheckPaused, NoneQueued, Goes, NoneStuck, SkipForeignLease, Crash,
             Restart, ReportResult
  <2>6. CASE FindQueued(p) \/ FindStuck(p)
    <3>1. PICK t \in Task :
            /\ t \in QueuedFor(AgentOf[p]) \cup StuckFor(AgentOf[p], proc[p].now)
            /\ Becomes(p, [proc[p] EXCEPT !.pc = "picked", !.task = t])
      BY <2>6 DEF FindQueued, FindStuck, First, Picks
    <3>2. Fit(p, t) /\ [proc[p] EXCEPT !.pc = "picked", !.task = t].task = t
      BY <2>2, <3>1, FindersFit DEF ProcState
    <3>3. QED  BY <2>3, <3>1, <3>2
  <2>7. CASE FindOnHost(p)
    <3>1. PICK t \in Task :
            /\ t \in ClaimableOnHost(AgentOf[p], HostOf[p], clock)
            /\ Becomes(p, [Idle EXCEPT !.pc = "picked", !.task = t, !.now = clock])
      BY <2>7 DEF FindOnHost, First
    <3>2. Fit(p, t)
      BY <2>7, <3>1, FindersFit DEF FindOnHost
    <3>3. [Idle EXCEPT !.pc = "picked", !.task = t, !.now = clock].task = t
      BY DEF Idle
    <3>4. QED  BY <2>3, <3>1, <3>2, <3>3
  <2>8. CASE FindLapsedLease(p) \/ FindLeaseFree(p) \/ AutoReclaim(p) \/ TakeLease(p)
             \/ StartRun(p) \/ Renew(p) \/ EndRun(p)
    <3>1. Fit(p, proc[p].task)
      BY <2>8, HeldFit
         DEF FindLapsedLease, FindLeaseFree, AutoReclaim, TakeLease, StartRun, Renew,
             EndRun, AdapterExit, TimeOut, ObserveCancel, At, Busy
    <3>2. PICK s : Becomes(p, s) /\ s.task = proc[p].task
      <4>1. CASE FindLapsedLease(p)
        <5> DEFINE s == [proc[p] EXCEPT !.pc = "reclaiming", !.holder = LeaseOf(p).holder,
                                        !.attempt = LeaseOf(p).attempt + 1]
        <5>1. s.task = proc[p].task
          BY <2>2 DEF ProcState
        <5>2. QED  BY <4>1, <5>1 DEF FindLapsedLease
      <4>2. CASE FindLeaseFree(p)
        <5> DEFINE s == [proc[p] EXCEPT !.pc = "leasing", !.attempt = LeaseOf(p).attempt + 1]
        <5>1. s.task = proc[p].task
          BY <2>2 DEF ProcState
        <5>2. QED  BY <4>2, <5>1 DEF FindLeaseFree
      <4>3. CASE AutoReclaim(p)
        <5> DEFINE s == [proc[p] EXCEPT !.pc = "leasing", !.holder = NoAgent]
        <5>1. s.task = proc[p].task
          BY <2>2 DEF ProcState
        <5>2. QED  BY <4>3, <5>1 DEF AutoReclaim
      <4>4. CASE TakeLease(p)
        <5> DEFINE s == [Idle EXCEPT !.pc = "leased", !.task = proc[p].task]
        <5>1. s.task = proc[p].task
          BY DEF Idle
        <5>2. QED  BY <4>4, <5>1 DEF TakeLease
      <4>5. CASE StartRun(p)
        <5> DEFINE s == [proc[p] EXCEPT !.pc = "running", !.started = clock, !.renewed = clock]
        <5>1. s.task = proc[p].task
          BY <2>2 DEF ProcState
        <5>2. QED  BY <4>5, <5>1 DEF StartRun
      <4>6. CASE Renew(p)
        <5> DEFINE s == [proc[p] EXCEPT !.renewed = clock]
        <5>1. s.task = proc[p].task
          BY <2>2 DEF ProcState
        <5>2. QED  BY <4>6, <5>1 DEF Renew
      <4>7. CASE EndRun(p)
        <5>1. PICK o : Ends(p, o)
          BY <4>7 DEF EndRun, AdapterExit, TimeOut, ObserveCancel
        <5> DEFINE s == [Idle EXCEPT !.pc = "finishing", !.task = proc[p].task, !.outcome = o]
        <5>2. s.task = proc[p].task
          BY DEF Idle
        <5>3. QED  BY <5>1, <5>2 DEF Ends
      <4>8. QED  BY <2>8, <4>1, <4>2, <4>3, <4>4, <4>5, <4>6, <4>7
    <3>3. QED  BY <2>3, <3>1, <3>2
  <2>9. QED  BY <2>1, <2>5, <2>6, <2>7, <2>8 DEF Find, Claim, Run
<1>3. QED
  BY <1>1, <1>2 DEF Next, vars, Agents, ClaimNext, Tick, Post, Steer, Serve, PostTaskPackage,
     PostTaskRequest, Reroute, UpdateStatus, Lifecycle, Cancel, Steers, BeginReclaim,
     RouteTask, FinishReclaim, AbortRequest, Pause, Resume, Elsewhere

LEMMA HostsStep == OwnInv /\ HostsHeld /\ PostedOnce /\ [Next]_vars => HostsHeld'
<1> SUFFICES ASSUME OwnInv, HostsHeld, PostedOnce, [Next]_vars PROVE HostsHeld'
  OBVIOUS
<1>1. ASSUME NEW p \in Proc, Busy(p)'
      PROVE  /\ view'[proc'[p].task].status # "none"
             /\ view'[proc'[p].task].host \in Allowed(p)
  BY <1>1, BusyWithFit, StepKeepsHost DEF Fit
<1>2. QED  BY <1>1 DEF HostsHeld, Posted, Allowed

(* A process runs only tasks meant for its host, whatever the operators    *)
(* reroute, reclaim, cancel or revoke meanwhile and whoever crashes:       *)
(* handleAssignedTask and the claim handler look at targetHost only while  *)
(* they search.  The one thing that breaks it is a second package for the  *)
(* same task, which may name another host after the search.                *)
THEOREM HostsRespected ==
  ASSUME PostedOnce
  PROVE  Spec => []HostRespected
<1>1. Init => HostsHeld
  BY DEF Init, ClaimInit, Idle, Busy, At, HostsHeld
<1>2. HostsHeld => HostRespected
  BY DEF HostsHeld, HostRespected, Executes, Busy, At, Allowed
<1>3. QED  BY <1>1, <1>2, HostsStep, OwnAlways, PTL DEF Spec

-----------------------------------------------------------------------------
(* A task that reads as leased or running is always found again, as long   *)
(* as nobody reclaims it by hand.                                          *)
(*                                                                         *)
(* InFlightRecoverable is not inductive: a process that is past its lease  *)
(* appends "running" without looking at the ledger, so what has to be      *)
(* carried along is that the sweep watches the lease of every process that *)
(* is executing, which only SoleClaimant keeps from being reclaimed.       *)

ByHand == "reclaim" \in OperatorOps

Watched ==
  /\ \A h \in Handler : handler[h].op # "reclaim"
  /\ \A t \in Task : view[t].status \in InFlight => view[t].stuckAt > 0
  /\ \A p \in Proc : At(p, "leased") \/ At(p, "running") => LeaseOf(p).stuckAt > 0

(* A line that leaves the sweep's expiry alone and puts no task in flight. *)
Gentle(t, v) ==
  v.stuckAt = view[t].stuckAt /\ v.status \notin InFlight

(* What a step does to what the sweep of wtTaskFindClaimableForAgent sees  *)
(* of a task.                                                              *)
Sweep(t) ==
  \/ view'[t].stuckAt > 0
  \/ view'[t].stuckAt = view[t].stuckAt /\ view'[t].status = view[t].status
  \/ Gentle(t, view'[t])
  \/ \E p \in Proc : /\ AutoReclaim(p) /\ proc[p].task = t
                     /\ view'[t].status \notin InFlight
  \/ \E p \in Proc : /\ At(p, "leased") \/ At(p, "running")
                     /\ proc[p].task = t
                     /\ view'[t].stuckAt = view[t].stuckAt

LEMMA AgentSweep ==
  ASSUME OwnInv, NEW p \in Proc, Find(p) \/ Claim(p) \/ Run(p), NEW t \in Task
  PROVE  Sweep(t)
<1>1. /\ view \in [Task -> TaskView] /\ view[t] \in TaskView
      /\ proc[p].now \in Nat /\ proc[p].now + LeaseTime > 0
  BY ClaimAssumption DEF OwnInv, TypeInv, TypeOK, ProcState
<1>2. CASE UNCHANGED view
  BY <1>2 DEF Sweep
<1>3. CASE proc[p].task # t
  <2>1. UNCHANGED view \/ \E v : AppendRecord(proc[p].task, v)
    BY DEF Find, CheckPaused, FindQueued, NoneQueued, FindStuck, NoneStuck, FindOnHost,
       Claim, SkipForeignLease, FindLapsedLease, FindLeaseFree, AutoReclaim, TakeLease,
       Run, StartRun, Renew, EndRun, AdapterExit, TimeOut, ObserveCancel, Ends,
       ReportResult, ReadsOnly
  <2>2. view'[t] = view[t]
    BY <1>1, <1>3, <2>1 DEF AppendRecord
  <2>3. QED  BY <2>2 DEF Sweep
<1>4. CASE proc[p].task = t
  <2>1. CASE AutoReclaim(p)
    <3>1. view'[t] = AfterReclaim(view[t], proc[p].holder)
      BY <1>1, <1>4, <2>1 DEF AutoReclaim, AppendRecord, LeaseOf
    <3>2. view'[t].status \notin InFlight
      BY <1>1, <3>1 DEF AfterReclaim, TaskView, InFlight
    <3>3. QED  BY <1>4, <2>1, <3>2 DEF Sweep
  <2>2. CASE TakeLease(p)
    <3>1. view'[t] = AfterLease(view[t], AgentOf[p], proc[p].attempt, proc[p].now + LeaseTime)
      BY <1>1, <1>4, <2>2 DEF TakeLease, AppendRecord, LeaseOf
    <3>2. QED  BY <1>1, <3>1 DEF AfterLease, TaskView, Sweep
  <2>3. CASE StartRun(p)
    <3>1. view'[t] = AfterStatus(view[t], "running") /\ At(p, "leased")
      BY <1>1, <1>4, <2>3 DEF StartRun, AppendRecord, LeaseOf
    <3>2. view'[t].stuckAt = view[t].stuckAt
      BY <1>1, <3>1 DEF AfterStatus, TaskView
    <3>3. QED  BY <1>4, <3>1, <3>2 DEF Sweep
  <2>4. CASE Renew(p)
    <3>1. view'[t] = AfterRenewal(view[t], AgentOf[p], clock + LeaseTime) /\ At(p, "running")
      BY <1>1, <1>4, <2>4 DEF Renew, AppendRecord, LeaseOf
    <3>2. view'[t].stuckAt = view[t].stuckAt
      BY <1>1, <3>1 DEF AfterRenewal, TaskView
    <3>3. QED  BY <1>4, <3>1, <3>2 DEF Sweep
  <2>5. CASE ReportResult(p)
    <3>1. view'[t] = AfterStatus(view[t], proc[p].outcome)
      BY <1>1, <1>4, <2>5 DEF ReportResult, AppendRecord, LeaseOf
    <3>2. proc[p].outcome \in Outcome
      BY <2>5 DEF ReportResult, OwnInv, TypeInv, WellFormed, At
    <3>3. QED  BY <1>1, <3>1, <3>2 DEF AfterStatus, TaskView, Sweep, Gentle, Outcome, InFlight
  <2>6. CASE Find(p) \/ SkipForeignLease(p) \/ FindLapsedLease(p) \/ FindLeaseFree(p) \/ EndRun(p)
    BY <1>2, <2>6
       DEF Find, CheckPaused, FindQueued, NoneQueued, FindStuck, NoneStuck, FindOnHost,
           SkipForeignLease, FindLapsedLease, FindLeaseFree, EndRun, AdapterExit, TimeOut,
           ObserveCancel, Ends, ReadsOnly
  <2>7. QED  BY <2>1, <2>2, <2>3, <2>4, <2>5, <2>6 DEF Claim, Run
<1>5. QED  BY <1>3, <1>4

LEMMA PlaneSweep ==
  ASSUME OwnInv, Watched, ~ByHand, NEW t \in Task,
         (\E u \in Task : Post(u) \/ Steer(u)) \/ (\E h \in Handler : Serve(h))
  PROVE  Sweep(t)
<1>1. view \in [Task -> TaskView] /\ view[t] \in TaskView
  BY DEF OwnInv, TypeInv, TypeOK
<1>2. CASE UNCHANGED view
  BY <1>2 DEF Sweep
<1>3. ASSUME NEW u \in Task, NEW v, AppendRecord(u, v),
             \/ Gentle(u, v)
             \/ v.stuckAt = view[u].stuckAt /\ v.status = view[u].status
      PROVE  Sweep(t)
  <2>1. CASE u = t
    BY <1>1, <1>3, <2>1 DEF AppendRecord, Sweep, Gentle
  <2>2. CASE u # t
    BY <1>1, <1>3, <2>2 DEF AppendRecord, Sweep
  <2>3. QED  BY <2>1, <2>2
<1>4. ASSUME NEW u \in Task
      PROVE  /\ \A a, h : Gentle(u, AfterPackage(view[u], a, h))
             /\ \A s \in Claimable : \A a : Gentle(u, AfterRouting(view[u], s, a))
             /\ \A s \in Claimable \cup Terminal : /\ Gentle(u, AfterStatus(view[u], s))
                                                   /\ Gentle(u, AfterLifecycle(view[u], s))
             /\ AfterKill(view[u]).stuckAt = view[u].stuckAt
             /\ AfterKill(view[u]).status = view[u].status
  <2>1. view[u] \in TaskView
    BY <1>1
  <2>2. QED
    BY <2>1 DEF TaskView, Gentle, AfterPackage, AfterRouting, AfterStatus, AfterLifecycle,
                AfterKill, Claimable, Terminal, InFlight
<1>5. CASE \E u \in Task : Post(u)
  <2>0. PICK u \in Task : \E a, host : AppendRecord(u, AfterPackage(view[u], a, host))
    BY <1>5 DEF Post, PostTaskPackage, PostTaskRequest
  <2>1. PICK a, host : AppendRecord(u, AfterPackage(view[u], a, host))
    BY <2>0
  <2>2. QED  BY <1>3, <1>4, <2>1
<1>6. CASE \E u \in Task : Steer(u)
  <2>1. PICK u \in Task : Steer(u)
    BY <1>6
  <2>2. CASE \E h \in Handler : BeginReclaim(h, u)
    BY <2>2 DEF BeginReclaim, Operates, ByHand
  <2>3. CASE \E s \in Claimable, a \in AssignTo[u] : Reroute(u, s, a)
    BY <1>3, <1>4, <2>3 DEF Reroute, Steers
  <2>4. CASE \E s \in Claimable \cup Terminal : UpdateStatus(u, s)
    BY <1>3, <1>4, <2>4 DEF UpdateStatus, Steers
  <2>5. CASE \E s \in {"queued", "cancelled", "closed"} : Lifecycle(u, s)
    <3>1. PICK s \in Claimable \cup Terminal : Lifecycle(u, s)
      BY <2>5 DEF Claimable, Terminal
    <3>2. QED  BY <1>3, <1>4, <3>1 DEF Lifecycle, Steers
  <2>6. CASE Cancel(u)
    BY <1>3, <1>4, <2>6 DEF Cancel, Steers
  <2>7. QED  BY <2>1, <2>2, <2>3, <2>4, <2>5, <2>6 DEF Steer
<1>7. CASE \E h \in Handler : Serve(h)
  <2>1. PICK h \in Handler : Serve(h)
    BY <1>7
  <2>2. CASE AbortRequest(h)
    BY <1>2, <2>2 DEF AbortRequest
  <2>3. CASE RouteTask(h)
    <3>1. handler[h].task \in Task /\ "assigned" \in Claimable
      BY <2>3 DEF RouteTask, OwnInv, TypeInv, WellFormed, Claimable
    <3>2. QED  BY <1>3, <1>4, <2>3, <3>1 DEF RouteTask
  <2>4. QED  BY <2>1, <2>2, <2>3 DEF Serve, FinishReclaim, Watched
<1>8. QED  BY <1>5, <1>6, <1>7

(* A process that is executing has taken its lease just now, or was        *)
(* executing the same task before.                                         *)
LEMMA ExecutesSince ==
  ASSUME OwnInv, [Next]_vars, NEW p \in Proc, (At(p, "leased") \/ At(p, "running"))'
  PROVE  \/ TakeLease(p) /\ proc'[p].task = proc[p].task
         \/ (At(p, "leased") \/ At(p, "running")) /\ proc'[p].task = proc[p].task
<1>1. proc \in [Proc -> ProcState]
  BY DEF OwnInv, TypeInv, TypeOK
<1>2. CASE proc'[p] = proc[p]
  BY <1>2 DEF At
<1>3. CASE Find(p) \/ Claim(p) \/ Run(p) \/ Crash(p) \/ Restart(p)
  <2>1. CASE TakeLease(p)
    BY <1>1, <2>1 DEF TakeLease, Becomes, Idle
  <2>2. CASE StartRun(p) \/ Renew(p)
    BY <1>1, <2>2 DEF StartRun, Renew, Becomes, ProcState, At
  <2>3. ASSUME NEW s, Becomes(p, s), s.pc \notin {"leased", "running"} PROVE FALSE
    BY <1>1, <2>3 DEF Becomes, At
  <2>4. Idle.pc = "idle" /\ Down.pc = "down"
    BY DEF Idle, Down
  <2>5. \A pc : [proc[p] EXCEPT !.pc = pc].pc = pc
    BY <1>1 DEF ProcState
  <2>6. CASE Find(p)
    <3>1. \A t : [proc[p] EXCEPT !.pc = "picked", !.task = t].pc = "picked"
      BY <1>1 DEF ProcState
    <3>2. \A t : [Idle EXCEPT !.pc = "picked", !.task = t, !.now = clock].pc = "picked"
      BY DEF Idle
    <3>3. [Idle EXCEPT !.pc = "polling", !.now = clock].pc = "polling"
      BY DEF Idle
    <3>4. CASE CheckPaused(p) \/ NoneQueued(p) \/ NoneStuck(p)
      BY <2>3, <2>4, <2>5, <3>3, <3>4 DEF CheckPaused, NoneQueued, NoneStuck, Goes
    <3>5. CASE FindQueued(p) \/ FindStuck(p)
      <4>1. PICK t : Becomes(p, [proc[p] EXCEPT !.pc = "picked", !.task = t])
        BY <3>5 DEF FindQueued, FindStuck, Picks
      <4>2. QED  BY <2>3, <3>1, <4>1
    <3>6. CASE FindOnHost(p)
      <4>1. PICK t : Becomes(p, [Idle EXCEPT !.pc = "picked", !.task = t, !.now = clock])
        BY <3>6 DEF FindOnHost
      <4>2. QED  BY <2>3, <3>2, <4>1
    <3>7. QED  BY <2>6, <3>4, <3>5, <3>6 DEF Find
  <2>7. CASE SkipForeignLease(p) \/ FindLapsedLease(p) \/ FindLeaseFree(p) \/ AutoReclaim(p)
    <3>1. /\ [proc[p] EXCEPT !.pc = "reclaiming", !.holder = LeaseOf(p).holder,
                             !.attempt = LeaseOf(p).attempt + 1].pc = "reclaiming"
          /\ [proc[p] EXCEPT !.pc = "leasing", !.attempt = LeaseOf(p).attempt + 1].pc = "leasing"
          /\ [proc[p] EXCEPT !.pc = "leasing", !.holder = NoAgent].pc = "leasing"
      BY <1>1 DEF ProcState
    <3>2. QED
      BY <2>3, <2>4, <2>7, <3>1
         DEF SkipForeignLease, FindLapsedLease, FindLeaseFree, AutoReclaim
  <2>8. CASE EndRun(p)
    <3>1. PICK o : Becomes(p, [Idle EXCEPT !.pc = "finishing", !.task = proc[p].task, !.outcome = o])
      BY <2>8 DEF EndRun, AdapterExit, TimeOut, ObserveCancel, Ends
    <3>2. [Idle EXCEPT !.pc = "finishing", !.task = proc[p].task, !.outcome = o].pc = "finishing"
      BY DEF Idle
    <3>3. QED  BY <2>3, <3>1, <3>2
  <2>9. CASE ReportResult(p) \/ Crash(p) \/ Restart(p)
    <3>1. Becomes(p, Idle) \/ Becomes(p, Down)
      BY <2>9 DEF ReportResult, Crash, Restart
    <3>2. QED  BY <2>3, <2>4, <3>1
  <2>10. QED  BY <1>3, <2>1, <2>2, <2>6, <2>7, <2>8, <2>9 DEF Claim, Run
<1>4. CASE \E q \in Proc \ {p} : Find(q) \/ Claim(q) \/ Run(q) \/ Crash(q) \/ Restart(q)
  <2>1. PICK q \in Proc \ {p} : \E s : Becomes(q, s)
    BY <1>4 DEF Find, CheckPaused, FindQueued, NoneQueued, FindStuck, NoneStuck, FindOnHost,
       Claim, SkipForeignLease, FindLapsedLease, FindLeaseFree, AutoReclaim, TakeLease,
       Run, StartRun, Renew, EndRun, AdapterExit, TimeOut, ObserveCancel, Ends,
       ReportResult, Crash, Restart, Goes, Picks
  <2>2. proc'[p] = proc[p]
    BY <1>1, <2>1 DEF Becomes
  <2>3. QED  BY <1>2, <2>2
<1>5. CASE UNCHANGED proc
  BY <1>2, <1>5
<1>6. UNCHANGED proc \/ \E q \in Proc : Find(q) \/ Claim(q) \/ Run(q) \/ Crash(q) \/ Restart(q)
  BY DEF Next, vars, Agents, ClaimNext, Tick, Post, Steer, Serve, PostTaskPackage,
     PostTaskRequest, Reroute, UpdateStatus, Lifecycle, Cancel, Steers, BeginReclaim,
     RouteTask, FinishReclaim, AbortRequest, Pause, Resume, Elsewhere
<1>7. QED  BY <1>3, <1>4, <1>5, <1>6

LEMMA WatchedStep ==
  ASSUME Dedicated, ~ByHand, OwnInv, Watched, [Next]_vars
  PROVE  Watched'
<1>1. view \in [Task -> TaskView] /\ proc \in [Proc -> ProcState] /\ handler \in [Handler -> Request]
  BY DEF OwnInv, TypeInv, TypeOK
<1>2. \A t \in Task : Sweep(t)
  <2> SUFFICES ASSUME NEW t \in Task PROVE Sweep(t)
    OBVIOUS
  <2>1. CASE UNCHANGED view
    BY <2>1 DEF Sweep
  <2>2. QED
    BY <2>1, AgentSweep, PlaneSweep
       DEF Next, vars, Agents, ClaimNext, Tick, Crash, Restart, ReadsOnly, Pause, Resume
<1>3. (\A h \in Handler : handler[h].op # "reclaim")'
  <2>1. CASE UNCHANGED handler
    BY <2>1 DEF Watched
  <2>2. CASE \E h \in Handler : \E t, a : Holds(h, "route", t, a)
    BY <1>1, <2>2 DEF Holds, Watched
  <2>3. CASE \E h \in Handler : Frees(h)
    BY <1>1, <2>3 DEF Frees, NoRequest, Watched
  <2>4. QED
    BY <2>1, <2>2, <2>3
       DEF Next, vars, Agents, Post, Steer, Serve, PostTaskPackage, PostTaskRequest,
           Reroute, UpdateStatus, Lifecycle, Cancel, Steers, BeginReclaim, RouteTask,
           FinishReclaim, AbortRequest, Pause, Resume, Operates, ByHand
<1>4. (\A t \in Task : view[t].status \in InFlight => view[t].stuckAt > 0)'
  <2> SUFFICES ASSUME NEW t \in Task, view'[t].status \in InFlight
               PROVE  view'[t].stuckAt > 0
    OBVIOUS
  <2>1. QED  BY <1>2 DEF Sweep, Gentle, Watched, LeaseOf
<1>5. (\A p \in Proc : At(p, "leased") \/ At(p, "running") => LeaseOf(p).stuckAt > 0)'
  <2> SUFFICES ASSUME NEW p \in Proc, (At(p, "leased") \/ At(p, "running"))'
               PROVE  LeaseOf(p)'.stuckAt > 0
    OBVIOUS
  <2> DEFINE t == proc[p].task
  <2>1. Busy(p) /\ t \in Task /\ proc'[p].task = t
    BY ExecutesSince DEF TakeLease, Busy, At, OwnInv, TypeInv, WellFormed
  <2>2. LeaseOf(p)' = view'[t]
    BY <2>1 DEF LeaseOf
  <2>3. CASE TakeLease(p)
    <3>1. view'[t] = AfterLease(view[t], AgentOf[p], proc[p].attempt, proc[p].now + LeaseTime)
      BY <1>1, <2>1, <2>3 DEF TakeLease, AppendRecord, LeaseOf
    <3>2. proc[p].now + LeaseTime > 0
      BY <1>1, ClaimAssumption DEF ProcState
    <3>3. QED  BY <1>1, <2>1, <2>2, <3>1, <3>2 DEF AfterLease, TaskView
  <2>4. CASE At(p, "leased") \/ At(p, "running")
    <3>1. view[t].stuckAt > 0
      BY <2>4 DEF Watched, LeaseOf
    <3>2. ~ \E q \in Proc : AutoReclaim(q) /\ proc[q].task = t
      BY <2>1, <2>4, SoleClaimant DEF AutoReclaim, At, Busy
    <3>3. QED  BY <1>2, <2>1, <2>2, <3>1, <3>2 DEF Sweep, Gentle
  <2>5. QED  BY <2>3, <2>4, ExecutesSince
<1>6. QED  BY <1>3, <1>4, <1>5 DEF Watched

(* With one process per agent, one agent per task and no reclaim by hand,  *)
(* every task that reads as leased or running stays in sight of the sweep  *)
(* of wtTaskFindClaimableForAgent, through crashes, cancels, renewals,     *)
(* reroutes and late results.                                              *)
THEOREM StaysRecoverable ==
  ASSUME Dedicated, ~ByHand
  PROVE  Spec => []InFlightRecoverable
<1>1. Init => Watched
  BY DEF Init, ClaimInit, Unposted, Idle, At, NoRequest, Watched, InFlight
<1>2. Watched => InFlightRecoverable
  BY DEF Watched, InFlightRecoverable
<1>3. QED  BY <1>1, <1>2, WatchedStep, OwnAlways, PTL DEF Spec
=============================================================================
