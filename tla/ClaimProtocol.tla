--------------------------- MODULE ClaimProtocol ---------------------------
(***************************************************************************)
(* How wt-agent processes take and run tasks (src/wt_agent.c, and the two  *)
(* remote handlers of src/wt_roomd.c).                                     *)
(*                                                                         *)
(* No lock spans a claim.  A process reads the ledger to find a task,      *)
(* reads it again to find the task's lease, and then appends: a reclaim    *)
(* record when the lease has run out, a lease record, a "running" record,  *)
(* and at the end a status record.  Each read and each append is a step of *)
(* its own here, so any other process, and a crash, may come in between.   *)
(***************************************************************************)
EXTENDS TaskLedger

CONSTANTS
  Worker,          \* wt-agent --loop processes on the daemon's own host
  Remote,          \* wt-agent --remote processes on other hosts
  AgentOf,         \* [Proc -> Agent]: the --agent option
  HostOf,          \* [Remote -> Host]: the --host option
  Capable,         \* <<t, a, h>>: host h advertises t's profile for agent a
  LeaseTime,       \* leaseDurationSeconds
  RenewTime,       \* leaseRenewalIntervalSeconds
  AdapterTimeout,  \* timeoutSeconds of a task package
  MaxClock,        \* bound on the clock
  MaxCrash         \* bound on the number of crashes

Proc == Worker \cup Remote

ASSUME ClaimAssumption ==
  /\ Worker \cap Remote = {}
  /\ AgentOf \in [Proc -> Agent]
  /\ HostOf \in [Remote -> Host]
  /\ Capable \subseteq Task \X Agent \X Host
  /\ LeaseTime \in Nat \ {0}
  /\ RenewTime \in Nat \ {0}
  /\ AdapterTimeout \in Nat \ {0}
  /\ MaxClock \in Nat
  /\ MaxCrash \in Nat

VARIABLES
  clock,    \* seconds since some epoch; now(2) of every process
  paused,   \* agents whose last agent_control record says "pause"
  proc,     \* what each process holds in its local variables
  crashes   \* how many processes have died so far

claimVars == <<view, clock, paused, proc, crashes>>

Outcome == {"complete", "failed", "cancelled"}

ProcState ==
  [pc : {"idle", "polling", "sweeping", "picked", "reclaiming", "leasing",
         "leased", "running", "finishing", "down"},
   task : Task \cup {0},          \* task
   now : Nat,                     \* nowUnixMs
   holder : AgentName,            \* leaseHolder
   attempt : Nat,                 \* leaseAttempt
   started : Nat, renewed : Nat,  \* start, lastRenewal
   outcome : Outcome \cup {"none"}]

Idle ==
  [pc |-> "idle", task |-> 0, now |-> 0, holder |-> NoAgent, attempt |-> 0,
   started |-> 0, renewed |-> 0, outcome |-> "none"]
Down == [Idle EXCEPT !.pc = "down"]

ClaimInit ==
  /\ view = [t \in Task |-> Unposted]
  /\ clock = 1
  /\ paused = {}
  /\ proc = [p \in Proc |-> Idle]
  /\ crashes = 0

At(p, pc) == proc[p].pc = pc
Becomes(p, state) == proc' = [proc EXCEPT ![p] = state]
Goes(p, pc) == Becomes(p, [proc[p] EXCEPT !.pc = pc])
Picks(p, t) == Becomes(p, [proc[p] EXCEPT !.pc = "picked", !.task = t])
LeaseOf(p) == view[proc[p].task]

ReadsOnly == UNCHANGED <<view, clock, paused, crashes>>
AppendsOnly == UNCHANGED <<clock, paused, crashes>>

-----------------------------------------------------------------------------
(* Finding a task.                                                         *)

(* handleAssignedTask returns at once when the agent is paused.            *)
CheckPaused(p) ==
  /\ p \in Worker
  /\ At(p, "idle")
  /\ AgentOf[p] \notin paused
  /\ Becomes(p, [Idle EXCEPT !.pc = "polling", !.now = clock])
  /\ ReadsOnly

(* wtTaskFindClaimableForAgent reads the ledger twice.                     *)
FindQueued(p) ==
  /\ At(p, "polling")
  /\ \E t \in Task : First(QueuedFor(AgentOf[p]), t) /\ Picks(p, t)
  /\ ReadsOnly

NoneQueued(p) ==
  /\ At(p, "polling")
  /\ QueuedFor(AgentOf[p]) = {}
  /\ Goes(p, "sweeping")
  /\ ReadsOnly

FindStuck(p) ==
  /\ At(p, "sweeping")
  /\ \E t \in Task : First(StuckFor(AgentOf[p], proc[p].now), t) /\ Picks(p, t)
  /\ ReadsOnly

NoneStuck(p) ==
  /\ At(p, "sweeping")
  /\ StuckFor(AgentOf[p], proc[p].now) = {}
  /\ Becomes(p, Idle)
  /\ ReadsOnly

(* The daemon finds a task for a remote process: it asks no one whether    *)
(* the agent is paused, and when the host does not advertise the profile   *)
(* of the first task it refuses the claim rather than look further.        *)
FindOnHost(p) ==
  /\ p \in Remote
  /\ At(p, "idle")
  /\ \E t \in Task :
       /\ First(ClaimableOnHost(AgentOf[p], HostOf[p], clock), t)
       /\ <<t, AgentOf[p], HostOf[p]>> \in Capable
       /\ Becomes(p, [Idle EXCEPT !.pc = "picked", !.task = t, !.now = clock])
  /\ ReadsOnly

-----------------------------------------------------------------------------
(* Taking the lease.  wtTaskFindActiveLease is read once; what it returned *)
(* then decides what the process appends.                                  *)

SkipForeignLease(p) ==
  /\ At(p, "picked")
  /\ LeaseOf(p).active
  /\ LeaseOf(p).expires > proc[p].now
  /\ LeaseOf(p).holder # AgentOf[p]
  /\ Becomes(p, Idle)
  /\ ReadsOnly

(* Mistake: reclaim whatever lease is there.                               *)
FindAnyLease(p) ==
  /\ At(p, "picked")
  /\ LeaseOf(p).active
  /\ Becomes(p, [proc[p] EXCEPT !.pc = "reclaiming",
                                !.holder = LeaseOf(p).holder,
                                !.attempt = LeaseOf(p).attempt + 1])
  /\ ReadsOnly

FindLapsedLease(p) ==
  /\ At(p, "picked")
  /\ LeaseOf(p).active
  /\ LeaseOf(p).expires <= proc[p].now
  /\ Becomes(p, [proc[p] EXCEPT !.pc = "reclaiming",
                                !.holder = LeaseOf(p).holder,
                                !.attempt = LeaseOf(p).attempt + 1])
  /\ ReadsOnly

(* Mistake: without an active lease the attempts start again at one.       *)
FindLeaseFreeFirst(p) ==
  /\ At(p, "picked")
  /\ \/ ~LeaseOf(p).active
     \/ LeaseOf(p).expires > proc[p].now /\ LeaseOf(p).holder = AgentOf[p]
  /\ Becomes(p, [proc[p] EXCEPT !.pc = "leasing",
                                !.attempt = IF LeaseOf(p).active
                                            THEN LeaseOf(p).attempt + 1 ELSE 1])
  /\ ReadsOnly

FindLeaseFree(p) ==
  /\ At(p, "picked")
  /\ \/ ~LeaseOf(p).active
     \/ LeaseOf(p).expires > proc[p].now /\ LeaseOf(p).holder = AgentOf[p]
  /\ Becomes(p, [proc[p] EXCEPT !.pc = "leasing",
                                !.attempt = LeaseOf(p).attempt + 1])
  /\ ReadsOnly

AutoReclaim(p) ==
  /\ At(p, "reclaiming")
  /\ AppendRecord(proc[p].task, AfterReclaim(LeaseOf(p), proc[p].holder))
  /\ Becomes(p, [proc[p] EXCEPT !.pc = "leasing", !.holder = NoAgent])
  /\ AppendsOnly

TakeLease(p) ==
  /\ At(p, "leasing")
  /\ AppendRecord(proc[p].task,
            AfterLease(LeaseOf(p), AgentOf[p], proc[p].attempt,
                       proc[p].now + LeaseTime))
  /\ Becomes(p, [Idle EXCEPT !.pc = "leased", !.task = proc[p].task])
  /\ AppendsOnly

-----------------------------------------------------------------------------
(* Running the task.                                                       *)

StartRun(p) ==
  /\ At(p, "leased")
  /\ AppendRecord(proc[p].task, AfterStatus(LeaseOf(p), "running"))
  /\ Becomes(p, [proc[p] EXCEPT !.pc = "running",
                                !.started = clock, !.renewed = clock])
  /\ AppendsOnly

TimedOut(p) == clock - proc[p].started >= AdapterTimeout

(* waitForAdapterChild tests, in this order: the child, the timeout, a     *)
(* cancel, the renewal.  A remote process has no such loop.                *)
Renew(p) ==
  /\ p \in Worker
  /\ At(p, "running")
  /\ ~TimedOut(p)
  /\ clock - proc[p].renewed >= RenewTime
  /\ AppendRecord(proc[p].task, AfterRenewal(LeaseOf(p), AgentOf[p], clock + LeaseTime))
  /\ Becomes(p, [proc[p] EXCEPT !.renewed = clock])
  /\ AppendsOnly

Ends(p, o) ==
  /\ Becomes(p, [Idle EXCEPT !.pc = "finishing", !.task = proc[p].task, !.outcome = o])
  /\ ReadsOnly

(* The adapter exits by itself; a remote process only ever completes.      *)
AdapterExit(p) ==
  /\ At(p, "running")
  /\ \E o \in {"complete", "failed"} : (o = "failed" => p \in Worker) /\ Ends(p, o)

TimeOut(p) ==
  /\ p \in Worker
  /\ At(p, "running")
  /\ TimedOut(p)
  /\ Ends(p, "failed")

ObserveCancel(p) ==
  /\ p \in Worker
  /\ At(p, "running")
  /\ ~TimedOut(p)
  /\ LeaseOf(p).cancel
  /\ Ends(p, "cancelled")

(* A run that did not complete ends the --loop process too: it exits 1 and *)
(* waits for systemd to start it again.                                    *)
ReportResult(p) ==
  /\ At(p, "finishing")
  /\ AppendRecord(proc[p].task, AfterStatus(LeaseOf(p), proc[p].outcome))
  /\ Becomes(p, IF proc[p].outcome = "complete" THEN Idle ELSE Down)
  /\ AppendsOnly

-----------------------------------------------------------------------------
(* A process dies at any point, or gives up on a failed append, fork or    *)
(* request.  The bound leaves the clock the time to see its lease lapse.   *)
Crash(p) ==
  /\ ~At(p, "idle") /\ ~At(p, "down")
  /\ crashes < MaxCrash
  /\ clock + LeaseTime <= MaxClock
  /\ crashes' = crashes + 1
  /\ Becomes(p, Down)
  /\ UNCHANGED <<view, clock, paused>>

(* systemd: Restart=on-failure.                                            *)
Restart(p) ==
  /\ At(p, "down")
  /\ Becomes(p, Idle)
  /\ ReadsOnly

Tick ==
  /\ clock < MaxClock
  /\ clock' = clock + 1
  /\ UNCHANGED <<view, paused, proc, crashes>>

Find(p)   == \/ CheckPaused(p) \/ FindQueued(p) \/ NoneQueued(p)
             \/ FindStuck(p) \/ NoneStuck(p) \/ FindOnHost(p)
Claim(p)  == \/ SkipForeignLease(p) \/ FindLapsedLease(p) \/ FindLeaseFree(p)
             \/ AutoReclaim(p) \/ TakeLease(p)
EndRun(p) == AdapterExit(p) \/ TimeOut(p) \/ ObserveCancel(p)
Run(p)    == StartRun(p) \/ Renew(p) \/ EndRun(p) \/ ReportResult(p)

ClaimNext == Tick \/ \E p \in Proc : Find(p) \/ Claim(p) \/ Run(p) \/ Crash(p) \/ Restart(p)

(* p may be executing its task: the adapter has been, or is about to be,   *)
(* forked.                                                                 *)
Executes(p, t) == proc[p].pc \in {"leased", "running"} /\ proc[p].task = t

=============================================================================
