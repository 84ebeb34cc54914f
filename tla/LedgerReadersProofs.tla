------------------------ MODULE LedgerReadersProofs ------------------------
(***************************************************************************)
(* That TaskLedger keeps exactly what the readers of the file return, for  *)
(* ledgers of any length, any number of task ids and tables of any size.   *)
(***************************************************************************)
EXTENDS LedgerReaders, FiniteSetTheorems, TLAPS

-----------------------------------------------------------------------------
(* Induction over the lines of a ledger, as a fact about sets.             *)

LEMMA SmallestNumber ==
  ASSUME NEW T, T \subseteq Nat, T # {}
  PROVE  \E x \in T : \A y \in T : x <= y
<1> DEFINE F == {0..n : n \in T}
<1>1. IsWellFoundedOn(StrictSubsetOrdering(Nat), FiniteSubsetsOf(Nat))
  BY FS_StrictSubsetOrderingWellFounded
<1>2. F \subseteq FiniteSubsetsOf(Nat) /\ F # {}
  <2>1. \A n \in T : IsFiniteSet(0..n)
    BY FS_Interval
  <2>2. \A n \in T : 0..n \subseteq Nat
    OBVIOUS
  <2>3. QED  BY <2>1, <2>2 DEF FiniteSubsetsOf
<1>3. PICK m \in F : \A k \in F : ~ (<<k, m>> \in StrictSubsetOrdering(Nat))
  BY <1>1, <1>2, WFMin
<1>4. PICK x \in T : m = 0..x
  BY <1>3
<1>5. ASSUME NEW y \in T, y < x PROVE FALSE
  <2>1. 0..y \in F /\ 0..y \subseteq Nat /\ 0..x \subseteq Nat
    OBVIOUS
  <2>2. 0..y \subseteq 0..x /\ 0..y # 0..x
    <3>1. x \in Nat /\ y \in Nat /\ x \in 0..x /\ x \notin 0..y
      BY <1>5
    <3>2. QED  BY <1>5, <3>1
  <2>3. <<0..y, 0..x>> \in StrictSubsetOrdering(Nat)
    BY <2>1, <2>2 DEF StrictSubsetOrdering
  <2>4. QED  BY <1>3, <1>4, <2>1, <2>3
<1>6. QED  BY <1>5

LEMMA Induction ==
  ASSUME NEW L \in Nat, NEW S, 0 \in S, \A n \in 0..L : n \in S /\ n < L => n + 1 \in S
  PROVE  0..L \subseteq S
<1> SUFFICES ASSUME (0..L) \ S # {} PROVE FALSE
  OBVIOUS
<1> DEFINE T == (0..L) \ S
<1>1. PICK x \in T : \A y \in T : x <= y
  <2>1. T \subseteq Nat /\ T # {}
    OBVIOUS
  <2> HIDE DEF T
  <2>2. QED  BY <2>1, SmallestNumber
<1>2. x - 1 \in 0..L /\ x - 1 \in S
  BY <1>1
<1>3. QED  BY <1>1, <1>2

(* What a reader has seen after each line of a file.                       *)
IsSeen(seen, reader, lines) ==
  seen = [n \in 0..Len(lines) |->
            IF n = 0 THEN Nothing(reader) ELSE ReadLine(reader, seen[n - 1], lines[n])]

LEMMA SomeSeen ==
  ASSUME NEW reader, NEW S, NEW lines \in Seq(S)
  PROVE  \E seen : IsSeen(seen, reader, lines)
<1> DEFINE Upto(n, g) ==
      g = [i \in 0..n |-> IF i = 0 THEN Nothing(reader) ELSE ReadLine(reader, g[i - 1], lines[i])]
<1> DEFINE T == {n \in Nat : \E g : Upto(n, g)}
<1>1. Len(lines) \in Nat
  OBVIOUS
<1>2. 0 \in T
  <2>1. Upto(0, [i \in 0..0 |-> Nothing(reader)])
    OBVIOUS
  <2>2. QED  BY <2>1
<1>3. ASSUME NEW n \in Nat, n \in T PROVE n + 1 \in T
  <2>1. PICK g : Upto(n, g)
    BY <1>3
  <2> DEFINE h == [i \in 0..(n + 1) |-> IF i <= n THEN g[i] ELSE ReadLine(reader, g[n], lines[n + 1])]
  <2>2. g[0] = Nothing(reader) /\ \A i \in 1..n : g[i] = ReadLine(reader, g[i - 1], lines[i])
    BY <2>1
  <2>3. \A i \in 0..n : h[i] = g[i]
    OBVIOUS
  <2>4. h[n + 1] = ReadLine(reader, g[n], lines[n + 1])
    OBVIOUS
  <2>5. ASSUME NEW i \in 0..(n + 1)
        PROVE  h[i] = IF i = 0 THEN Nothing(reader) ELSE ReadLine(reader, h[i - 1], lines[i])
    <3>1. CASE i = 0
      BY <2>2, <2>3, <3>1
    <3>2. CASE i \in 1..n
      <4>1. i \in 0..n /\ i - 1 \in 0..n /\ i # 0
        BY <3>2
      <4>2. h[i] = g[i] /\ h[i - 1] = g[i - 1]
        BY <2>3, <4>1
      <4>3. QED  BY <2>2, <3>2, <4>1, <4>2
    <3>3. CASE i = n + 1
      <4>1. h[i - 1] = g[n] /\ i # 0
        BY <2>3, <3>3
      <4>2. QED  BY <2>4, <3>3, <4>1
    <3>4. QED  BY <3>1, <3>2, <3>3
  <2>6. h = [i \in 0..(n + 1) |->
               IF i = 0 THEN Nothing(reader) ELSE ReadLine(reader, h[i - 1], lines[i])]
    <3>1. h = [i \in 0..(n + 1) |-> h[i]]
      OBVIOUS
    <3> HIDE DEF h
    <3>2. QED  BY <2>5, <3>1
  <2> HIDE DEF h
  <2>7. Upto(n + 1, h)
    BY <2>6
  <2> HIDE DEF Upto
  <2>8. QED  BY <1>3, <2>7
<1>4. 0..Len(lines) \subseteq T
  <2> HIDE DEF T
  <2>1. \A n \in 0..Len(lines) : n \in T /\ n < Len(lines) => n + 1 \in T
    BY <1>1, <1>3
  <2>2. QED  BY <1>1, <1>2, <2>1, Induction
<1>5. Len(lines) \in T
  BY <1>1, <1>4
<1>6. QED  BY <1>5 DEF IsSeen

LEMMA ScanSeen ==
  ASSUME NEW reader, NEW S, NEW lines \in Seq(S)
  PROVE  \E seen : IsSeen(seen, reader, lines) /\ Scan(reader, lines) = seen[Len(lines)]
<1>1. IsSeen(CHOOSE seen : IsSeen(seen, reader, lines), reader, lines)
  BY SomeSeen
<1>2. Scan(reader, lines) = (CHOOSE seen : IsSeen(seen, reader, lines))[Len(lines)]
  BY DEF Scan, IsSeen
<1>3. QED  BY <1>1, <1>2

LEMMA ScanEmpty ==
  ASSUME NEW reader
  PROVE  Scan(reader, <<>>) = Nothing(reader)
<1>1. <<>> \in Seq({}) /\ Len(<<>>) = 0
  OBVIOUS
<1>2. PICK seen : IsSeen(seen, reader, <<>>) /\ Scan(reader, <<>>) = seen[0]
  BY <1>1, ScanSeen
<1>3. QED  BY <1>1, <1>2 DEF IsSeen

(* A reader of a longer file sees what it saw before, and one line more.   *)
LEMMA ScanAppend ==
  ASSUME NEW reader, NEW S, NEW lines \in Seq(S), NEW line
  PROVE  Scan(reader, Append(lines, line)) = ReadLine(reader, Scan(reader, lines), line)
<1> DEFINE L == Len(lines)
           more == Append(lines, line)
<1>1. /\ L \in Nat
      /\ more \in Seq(S \cup {line}) /\ Len(more) = L + 1
      /\ more[L + 1] = line /\ \A i \in 1..L : more[i] = lines[i]
  OBVIOUS
<1>2. PICK f : IsSeen(f, reader, lines) /\ Scan(reader, lines) = f[L]
  BY ScanSeen
<1>3. PICK g : IsSeen(g, reader, more) /\ Scan(reader, more) = g[L + 1]
  BY <1>1, ScanSeen
<1> HIDE DEF more
<1>4. f[0] = Nothing(reader) /\ \A i \in 1..L : f[i] = ReadLine(reader, f[i - 1], lines[i])
  BY <1>1, <1>2 DEF IsSeen
<1>5. g[0] = Nothing(reader) /\ \A i \in 1..(L + 1) : g[i] = ReadLine(reader, g[i - 1], more[i])
  <2>1. g = [n \in 0..(L + 1) |->
               IF n = 0 THEN Nothing(reader) ELSE ReadLine(reader, g[n - 1], more[n])]
    BY <1>1, <1>3 DEF IsSeen
  <2> HIDE DEF L
  <2>2. \A n \in 0..(L + 1) :
          g[n] = IF n = 0 THEN Nothing(reader) ELSE ReadLine(reader, g[n - 1], more[n])
    BY <2>1
  <2>3. QED  BY <1>1, <2>2
<1> HIDE DEF L
<1>6. \A n \in 0..L : g[n] = f[n]
  <2> DEFINE T == {n \in 0..L : g[n] = f[n]}
  <2>1. 0 \in T
    BY <1>1, <1>4, <1>5
  <2>2. ASSUME NEW n \in 0..L, n \in T /\ n < L PROVE n + 1 \in T
    <3>1. n + 1 \in 1..L /\ (n + 1) - 1 = n
      BY <1>1, <2>2
    <3>2. f[n + 1] = ReadLine(reader, f[n], lines[n + 1])
      BY <1>4, <3>1
    <3>3. g[n + 1] = ReadLine(reader, g[n], lines[n + 1])
      BY <1>1, <1>5, <3>1
    <3>4. QED  BY <1>1, <2>2, <3>1, <3>2, <3>3
  <2>3. 0..L \subseteq T
    BY <1>1, <2>1, <2>2, Induction
  <2>4. QED  BY <2>3
<1>7. g[L + 1] = ReadLine(reader, g[L], line)
  BY <1>1, <1>5
<1>8. QED  BY <1>1, <1>2, <1>3, <1>6, <1>7 DEF more

-----------------------------------------------------------------------------
(* What a reader's row says of a task, and what the one-task readers say.  *)

Row ==
  [taskId : TaskId, status : Status, assignedAgent : AgentName, ownerAgent : AgentName,
   executionHost : Host \cup {NoHost}, leaseExpiresAt : Nat]

Shows(finder, row, v) ==
  /\ row.status = v.status
  /\ row.executionHost = v.host
  /\ finder = "queued" => row.assignedAgent = v.assigned
  /\ finder # "queued" => row.ownerAgent = v.owner
  /\ finder = "stuck" => row.leaseExpiresAt = v.stuckAt
  /\ finder = "onHost" => row.leaseExpiresAt = v.hostStuckAt

LeaseSeen(v) ==
  [active |-> v.active, holder |-> v.holder, expires |-> v.expires, attempt |-> v.attempt]

RowLine(finder, row, line) ==
  CASE line.schema = "task_package" -> Populate(row, line)
    [] line.schema = "task_event" -> OnEvent(finder, row, line)
    [] OTHER -> row

(* A line takes every reader from what v says of the task to what w says.  *)
InStep(line, v, w) ==
  /\ \A finder \in Finders, row \in Row : Shows(finder, row, v) =>
       /\ RowLine(finder, row, line) \in Row
       /\ RowLine(finder, row, line).taskId = row.taskId
       /\ Shows(finder, RowLine(finder, row, line), w)
  /\ LeaseLine(line.taskId, LeaseSeen(v), line) = LeaseSeen(w)
  /\ \A seen : (v.attempt > 0 => seen = v.cancel)
                 => (w.attempt > 0 => CancelLine(line.taskId, seen, line) = w.cancel)

LEMMA PackageInStep ==
  ASSUME NEW id \in TaskId, NEW v \in TaskView, NEW a \in AgentName, NEW h \in Host \cup {NoHost}
  PROVE  InStep(PackageLine(id, a, h), v, AfterPackage(v, a, h))
<1> DEFINE line == PackageLine(id, a, h)
           w == AfterPackage(v, a, h)
<1>1. /\ line.schema = "task_package" /\ line.taskId = id /\ line.status = "queued"
      /\ line.assignedAgent = a /\ line.executionHost = h
  BY DEF PackageLine
<1>2. /\ w.status = "queued" /\ w.assigned = a /\ w.owner = a /\ w.host = h
      /\ w.stuckAt = v.stuckAt /\ w.hostStuckAt = v.hostStuckAt /\ w.active = v.active
      /\ w.holder = v.holder /\ w.expires = v.expires /\ w.attempt = v.attempt
      /\ w.cancel = v.cancel
  BY DEF AfterPackage, TaskView
<1> HIDE DEF line, w
<1>3. ASSUME NEW finder \in Finders, NEW row \in Row, Shows(finder, row, v)
      PROVE  /\ RowLine(finder, row, line) \in Row
             /\ RowLine(finder, row, line).taskId = row.taskId
             /\ Shows(finder, RowLine(finder, row, line), w)
  BY <1>1, <1>2, <1>3 DEF RowLine, Populate, Row, Shows, Status, Claimable
<1>4. LeaseLine(line.taskId, LeaseSeen(v), line) = LeaseSeen(w)
  BY <1>1, <1>2 DEF LeaseLine, LeaseSeen
<1>5. \A seen : CancelLine(line.taskId, seen, line) = seen
  BY <1>1 DEF CancelLine
<1>6. QED  BY <1>2, <1>3, <1>4, <1>5 DEF InStep, line, w

(* An event whose fields say what changes between v and w.                 *)
LEMMA EventInStep ==
  ASSUME NEW line, NEW v \in TaskView, NEW w \in TaskView,
         line.schema = "task_event",
         \A s \in Status : Read(line, "status", s) \in Status,
         \A a \in AgentName : Read(line, "assignedAgent", a) \in AgentName,
         \A n \in Nat : line.eventType \in {"lease", "lease_renewal"}
                          => Read(line, "leaseExpiresAtUnixMs", n) \in Nat,
         w.host = v.host,
         w.status = Read(line, "status", v.status),
         w.assigned = Read(line, "assignedAgent", v.assigned),
         w.owner = IF line.eventType \in {"routing", "assignment"}
                   THEN Read(line, "assignedAgent", v.owner) ELSE v.owner,
         w.stuckAt = IF line.eventType = "lease"
                     THEN Read(line, "leaseExpiresAtUnixMs", v.stuckAt)
                     ELSE IF line.eventType = "reclaim" THEN 0 ELSE v.stuckAt,
         w.hostStuckAt = IF line.eventType \in {"lease", "lease_renewal"}
                         THEN Read(line, "leaseExpiresAtUnixMs", v.hostStuckAt)
                         ELSE IF line.eventType = "reclaim" THEN 0 ELSE v.hostStuckAt,
         LeaseLine(line.taskId, LeaseSeen(v), line) = LeaseSeen(w),
         line.eventType = "lease" => w.cancel = FALSE,
         line.eventType # "lease" => w.cancel = v.cancel /\ w.attempt = v.attempt
  PROVE  InStep(line, v, w)
<1>1. ASSUME NEW row \in Row, Shows("queued", row, v)
      PROVE  /\ QueuedEvent(row, line) \in Row
             /\ QueuedEvent(row, line).taskId = row.taskId
             /\ Shows("queued", QueuedEvent(row, line), w)
  BY <1>1 DEF QueuedEvent, Row, Shows
<1>2. ASSUME NEW row \in Row, Shows("stuck", row, v)
      PROVE  /\ StuckEvent(row, line) \in Row
             /\ StuckEvent(row, line).taskId = row.taskId
             /\ Shows("stuck", StuckEvent(row, line), w)
  BY <1>2 DEF StuckEvent, OwnerEvent, Row, Shows
<1>3. ASSUME NEW row \in Row, Shows("onHost", row, v)
      PROVE  /\ OnHostEvent(row, line) \in Row
             /\ OnHostEvent(row, line).taskId = row.taskId
             /\ Shows("onHost", OnHostEvent(row, line), w)
  BY <1>3 DEF OnHostEvent, OwnerEvent, Row, Shows
<1>4. ASSUME NEW finder \in Finders, NEW row \in Row, Shows(finder, row, v)
      PROVE  /\ RowLine(finder, row, line) \in Row
             /\ RowLine(finder, row, line).taskId = row.taskId
             /\ Shows(finder, RowLine(finder, row, line), w)
  <2>1. RowLine(finder, row, line) = OnEvent(finder, row, line)
    BY DEF RowLine
  <2>2. CASE finder = "queued"
    BY <1>1, <1>4, <2>1, <2>2 DEF OnEvent
  <2>3. CASE finder = "stuck"
    BY <1>2, <1>4, <2>1, <2>3 DEF OnEvent
  <2>4. CASE finder = "onHost"
    BY <1>3, <1>4, <2>1, <2>4 DEF OnEvent
  <2>5. QED  BY <2>2, <2>3, <2>4 DEF Finders
<1>5. ASSUME NEW seen, v.attempt > 0 => seen = v.cancel, w.attempt > 0
      PROVE  CancelLine(line.taskId, seen, line) = w.cancel
  <2>1. CancelLine(line.taskId, seen, line) = (seen /\ line.eventType # "lease")
    BY DEF CancelLine
  <2>2. CASE line.eventType = "lease"
    BY <2>1, <2>2
  <2>3. CASE line.eventType # "lease"
    BY <1>5, <2>1, <2>3 DEF TaskView
  <2>4. QED  BY <2>2, <2>3
<1>6. QED  BY <1>4, <1>5 DEF InStep

(* Every line that PostEvent appends is one.                               *)
LEMMA RoutingInStep ==
  ASSUME NEW id \in TaskId, NEW v \in TaskView, NEW type \in {"routing", "assignment"},
         NEW s \in Claimable, NEW a \in Agent
  PROVE  InStep(AgentEvent(id, type, s, a), v, AfterRouting(v, s, a))
<1> DEFINE line == AgentEvent(id, type, s, a)
           w == AfterRouting(v, s, a)
<1>1. /\ line.schema = "task_event" /\ line.taskId = id /\ line.eventType = type
      /\ \A x : Read(line, "status", x) = s
      /\ \A x : Read(line, "assignedAgent", x) = a
  BY DEF AgentEvent, Read
<1>2. s \in Status /\ a \in AgentName
  BY DEF Status, AgentName
<1>3. w \in TaskView /\ w = [v EXCEPT !.status = s, !.assigned = a, !.owner = a]
  BY <1>2 DEF AfterRouting, TaskView
<1>4. LeaseLine(line.taskId, LeaseSeen(v), line) = LeaseSeen(v)
  BY <1>1 DEF LeaseLine
<1> HIDE DEF line, w
<1>5. LeaseSeen(w) = LeaseSeen(v) /\ w.cancel = v.cancel /\ w.attempt = v.attempt
  BY <1>3 DEF LeaseSeen, TaskView
<1>6. /\ w.host = v.host /\ w.status = s /\ w.assigned = a /\ w.owner = a
      /\ w.stuckAt = v.stuckAt /\ w.hostStuckAt = v.hostStuckAt
  BY <1>3 DEF TaskView
<1>7. InStep(line, v, w)
  BY <1>1, <1>2, <1>3, <1>4, <1>5, <1>6, EventInStep
<1>8. QED  BY <1>7 DEF line, w

LEMMA LeaseInStep ==
  ASSUME NEW id \in TaskId, NEW v \in TaskView, NEW a \in Agent, NEW e \in Times
  PROVE  InStep(LeaseEvent(id, "lease", "leased", a, v.attempt + 1, e), v,
                AfterLease(v, a, v.attempt + 1, e))
<1> DEFINE line == LeaseEvent(id, "lease", "leased", a, v.attempt + 1, e)
           w == AfterLease(v, a, v.attempt + 1, e)
<1>1. /\ line.schema = "task_event" /\ line.taskId = id /\ line.eventType = "lease"
      /\ line.attempt = v.attempt + 1 /\ line.leaseExpiresAtUnixMs = e
      /\ \A x : Read(line, "status", x) = "leased"
      /\ \A x : Read(line, "assignedAgent", x) = a
      /\ \A x : Read(line, "leaseExpiresAtUnixMs", x) = e
  BY DEF LeaseEvent, Read
<1>2. "leased" \in Status /\ a \in AgentName /\ e \in Nat /\ v.attempt + 1 \in Nat
  BY ReadersAssumption DEF Status, InFlight, AgentName, TaskView
<1>3. w = [v EXCEPT !.status = "leased", !.assigned = a, !.stuckAt = e, !.hostStuckAt = e,
                    !.active = TRUE, !.holder = a, !.expires = e, !.attempt = v.attempt + 1,
                    !.cancel = FALSE]
  BY DEF AfterLease
<1> HIDE DEF line, w
<1>4. w \in TaskView
  BY <1>2, <1>3 DEF TaskView
<1>5. LeaseLine(line.taskId, LeaseSeen(v), line) = LeaseSeen(w)
  BY <1>1, <1>3 DEF LeaseLine, LeaseSeen, TaskView
<1>6. /\ w.host = v.host /\ w.status = "leased" /\ w.assigned = a /\ w.owner = v.owner
      /\ w.stuckAt = e /\ w.hostStuckAt = e /\ w.cancel = FALSE
  BY <1>3 DEF TaskView
<1>7. InStep(line, v, w)
  BY <1>1, <1>2, <1>4, <1>5, <1>6, EventInStep
<1>8. QED  BY <1>7 DEF line, w

LEMMA RenewalInStep ==
  ASSUME NEW id \in TaskId, NEW v \in TaskView, NEW a \in Agent, NEW e \in Times
  PROVE  InStep(LeaseEvent(id, "lease_renewal", "running", a, 1, e), v, AfterRenewal(v, a, e))
<1> DEFINE line == LeaseEvent(id, "lease_renewal", "running", a, 1, e)
           w == AfterRenewal(v, a, e)
<1>1. /\ line.schema = "task_event" /\ line.taskId = id /\ line.eventType = "lease_renewal"
      /\ \A x : Read(line, "status", x) = "running"
      /\ \A x : Read(line, "assignedAgent", x) = a
      /\ \A x : Read(line, "leaseExpiresAtUnixMs", x) = e
  BY DEF LeaseEvent, Read
<1>2. "running" \in Status /\ a \in AgentName /\ e \in Nat
  BY ReadersAssumption DEF Status, InFlight, AgentName
<1>3. w = [v EXCEPT !.status = "running", !.assigned = a, !.hostStuckAt = e]
  BY DEF AfterRenewal
<1>4. LeaseLine(line.taskId, LeaseSeen(v), line) = LeaseSeen(v)
  BY <1>1 DEF LeaseLine
<1> HIDE DEF line, w
<1>5. w \in TaskView
  BY <1>2, <1>3 DEF TaskView
<1>6. LeaseSeen(w) = LeaseSeen(v) /\ w.cancel = v.cancel /\ w.attempt = v.attempt
  BY <1>3 DEF LeaseSeen, TaskView
<1>7. /\ w.host = v.host /\ w.status = "running" /\ w.assigned = a /\ w.owner = v.owner
      /\ w.stuckAt = v.stuckAt /\ w.hostStuckAt = e
  BY <1>3 DEF TaskView
<1>8. InStep(line, v, w)
  BY <1>1, <1>2, <1>4, <1>5, <1>6, <1>7, EventInStep
<1>9. QED  BY <1>8 DEF line, w

LEMMA ReclaimInStep ==
  ASSUME NEW id \in TaskId, NEW v \in TaskView, NEW a \in AgentName
  PROVE  InStep(AgentEvent(id, "reclaim", "queued", a), v, AfterReclaim(v, a))
<1> DEFINE line == AgentEvent(id, "reclaim", "queued", a)
           w == AfterReclaim(v, a)
<1>1. /\ line.schema = "task_event" /\ line.taskId = id /\ line.eventType = "reclaim"
      /\ \A x : Read(line, "status", x) = "queued"
      /\ \A x : Read(line, "assignedAgent", x) = a
  BY DEF AgentEvent, Read
<1>2. "queued" \in Status
  BY DEF Status, Claimable
<1>3. w = [v EXCEPT !.status = "queued", !.assigned = a, !.stuckAt = 0, !.hostStuckAt = 0,
                    !.active = FALSE]
  BY DEF AfterReclaim
<1> HIDE DEF line, w
<1>4. w \in TaskView
  BY <1>2, <1>3 DEF TaskView
<1>5. LeaseLine(line.taskId, LeaseSeen(v), line) = LeaseSeen(w)
  BY <1>1, <1>3 DEF LeaseLine, LeaseSeen, TaskView
<1>6. /\ w.host = v.host /\ w.status = "queued" /\ w.assigned = a /\ w.owner = v.owner
      /\ w.stuckAt = 0 /\ w.hostStuckAt = 0 /\ w.cancel = v.cancel /\ w.attempt = v.attempt
  BY <1>3 DEF TaskView
<1>7. InStep(line, v, w)
  BY <1>1, <1>2, <1>4, <1>5, <1>6, EventInStep
<1>8. QED  BY <1>7 DEF line, w

LEMMA StatusInStep ==
  ASSUME NEW id \in TaskId, NEW v \in TaskView, NEW s \in Status
  PROVE  InStep(Event(id, "status", s), v, AfterStatus(v, s))
<1> DEFINE line == Event(id, "status", s)
           w == AfterStatus(v, s)
<1>1. /\ line.schema = "task_event" /\ line.taskId = id /\ line.eventType = "status"
      /\ line.status = s
      /\ \A x : Read(line, "status", x) = s
      /\ \A x : Read(line, "assignedAgent", x) = x
  BY DEF Event, Read
<1>2. w \in TaskView /\ w.status = s /\ w.active = (v.active /\ s \notin Terminal)
  BY DEF AfterStatus, TaskView
<1>3. /\ w.host = v.host /\ w.assigned = v.assigned /\ w.owner = v.owner
      /\ w.stuckAt = v.stuckAt /\ w.hostStuckAt = v.hostStuckAt /\ w.cancel = v.cancel
      /\ w.holder = v.holder /\ w.expires = v.expires /\ w.attempt = v.attempt
  BY DEF AfterStatus, TaskView
<1> HIDE DEF line, w
<1>4. LeaseLine(line.taskId, LeaseSeen(v), line) = LeaseSeen(w)
  <2>1. CASE s \in Terminal
    <3>1. LeaseLine(line.taskId, LeaseSeen(v), line) = [LeaseSeen(v) EXCEPT !.active = FALSE]
      BY <1>1, <2>1 DEF LeaseLine
    <3>2. w.active = FALSE
      BY <1>2, <2>1
    <3>3. QED  BY <1>3, <3>1, <3>2 DEF LeaseSeen
  <2>2. CASE s \notin Terminal
    <3>1. LeaseLine(line.taskId, LeaseSeen(v), line) = LeaseSeen(v)
      BY <1>1, <2>2 DEF LeaseLine
    <3>2. w.active = v.active
      BY <1>2, <2>2 DEF TaskView
    <3>3. QED  BY <1>3, <3>1, <3>2 DEF LeaseSeen
  <2>3. QED  BY <2>1, <2>2
<1>5. InStep(line, v, w)
  BY <1>1, <1>2, <1>3, <1>4, EventInStep
<1>6. QED  BY <1>5 DEF line, w

LEMMA LifecycleInStep ==
  ASSUME NEW id \in TaskId, NEW v \in TaskView, NEW s \in Status
  PROVE  InStep(Event(id, "lifecycle", s), v, AfterLifecycle(v, s))
<1> DEFINE line == Event(id, "lifecycle", s)
           w == AfterLifecycle(v, s)
<1>1. /\ line.schema = "task_event" /\ line.taskId = id /\ line.eventType = "lifecycle"
      /\ \A x : Read(line, "status", x) = s
      /\ \A x : Read(line, "assignedAgent", x) = x
  BY DEF Event, Read
<1>2. w \in TaskView /\ w.status = s
  BY DEF AfterLifecycle, TaskView
<1>3. /\ w.host = v.host /\ w.assigned = v.assigned /\ w.owner = v.owner
      /\ w.stuckAt = v.stuckAt /\ w.hostStuckAt = v.hostStuckAt /\ w.cancel = v.cancel
      /\ w.attempt = v.attempt /\ LeaseSeen(w) = LeaseSeen(v)
  BY DEF AfterLifecycle, LeaseSeen, TaskView
<1>4. LeaseLine(line.taskId, LeaseSeen(v), line) = LeaseSeen(v)
  BY <1>1 DEF LeaseLine
<1> HIDE DEF line, w
<1>5. InStep(line, v, w)
  BY <1>1, <1>2, <1>3, <1>4, EventInStep
<1>6. QED  BY <1>5 DEF line, w

LEMMA ArtifactInStep ==
  ASSUME NEW id \in TaskId, NEW v \in TaskView
  PROVE  InStep(ArtifactEvent(id), v, v)
<1> DEFINE line == ArtifactEvent(id)
<1>1. /\ line.schema = "task_event" /\ line.taskId = id /\ line.eventType = "artifact"
      /\ \A x : Read(line, "status", x) = x
      /\ \A x : Read(line, "assignedAgent", x) = x
  BY DEF ArtifactEvent, Read
<1>2. LeaseLine(line.taskId, LeaseSeen(v), line) = LeaseSeen(v)
  BY <1>1 DEF LeaseLine
<1> HIDE DEF line
<1>3. InStep(line, v, v)
  BY <1>1, <1>2, EventInStep
<1>4. QED  BY <1>3 DEF line

LEMMA KillInStep ==
  ASSUME NEW id \in TaskId, NEW v \in TaskView
  PROVE  InStep(KillLine(id), v, AfterKill(v))
<1> DEFINE line == KillLine(id)
           w == AfterKill(v)
<1>1. line.schema = "kill_event" /\ line.taskId = id
  BY DEF KillLine
<1>2. /\ w.status = v.status /\ w.host = v.host /\ w.assigned = v.assigned
      /\ w.owner = v.owner /\ w.stuckAt = v.stuckAt /\ w.hostStuckAt = v.hostStuckAt
      /\ w.cancel = TRUE /\ LeaseSeen(w) = LeaseSeen(v)
  BY DEF AfterKill, LeaseSeen, TaskView
<1> HIDE DEF line, w
<1>3. \A finder \in Finders, row \in Row : RowLine(finder, row, line) = row
  BY <1>1 DEF RowLine
<1>4. \A finder \in Finders, row \in Row : Shows(finder, row, v) => Shows(finder, row, w)
  BY <1>2 DEF Shows
<1>5. LeaseLine(line.taskId, LeaseSeen(v), line) = LeaseSeen(w)
  BY <1>1, <1>2 DEF LeaseLine
<1>6. \A seen : CancelLine(line.taskId, seen, line) = w.cancel
  BY <1>1, <1>2 DEF CancelLine
<1>7. QED  BY <1>3, <1>4, <1>5, <1>6 DEF InStep, line, w

-----------------------------------------------------------------------------
(* The finders' tables: the i-th row is task i, as long as there is room.  *)

Tabled(finder, rows, ids, v) ==
  /\ rows \in Seq(Row)
  /\ Len(rows) = IF Len(ids) <= TableSize THEN Len(ids) ELSE TableSize
  /\ \A i \in 1..Len(rows) : rows[i].taskId = ids[i] /\ Shows(finder, rows[i], v[i])

Distinct(ids) == \A i, j \in 1..Len(ids) : ids[i] = ids[j] => i = j

LEMMA SeqFromFunction ==
  ASSUME NEW n \in Nat, NEW S, NEW f \in [1..n -> S]
  PROVE  f \in Seq(S) /\ Len(f) = n
OBVIOUS

(* A line changes the rows of its task and no other.                       *)
LEMMA TableRows ==
  ASSUME NEW finder, NEW rows, NEW line,
         Admit(rows, line) \in Seq(Row)
  PROVE  LET table == Admit(rows, line)
             after == TableLine(finder, rows, line)
         IN  /\ DOMAIN after = 1..Len(table)
             /\ after = [i \in 1..Len(table) |-> after[i]]
             /\ \A i \in 1..Len(table) :
                  /\ table[i].taskId # line.taskId => after[i] = table[i]
                  /\ table[i].taskId = line.taskId => after[i] = RowLine(finder, table[i], line)
BY DEF TableLine, RowLine

LEMMA KnownTask ==
  ASSUME NEW finder \in Finders, NEW rows, NEW line, NEW ids \in Seq(TaskId), NEW v, NEW w,
         NEW t \in 1..Len(ids), Len(ids) <= NumTasks, DOMAIN v = Task,
         Distinct(ids), Tabled(finder, rows, ids, v),
         line.taskId = ids[t], InStep(line, v[t], w)
  PROVE  Tabled(finder, TableLine(finder, rows, line), ids, [v EXCEPT ![t] = w])
<1> DEFINE after == TableLine(finder, rows, line)
           n == Len(rows)
<1>1. /\ rows \in Seq(Row) /\ n \in Nat /\ Len(ids) \in Nat /\ n <= Len(ids)
      /\ n = IF Len(ids) <= TableSize THEN Len(ids) ELSE TableSize
      /\ \A i \in 1..n : rows[i] \in Row /\ rows[i].taskId = ids[i] /\ Shows(finder, rows[i], v[i])
  BY LedgerAssumption DEF Tabled
<1>2. Admit(rows, line) = rows
  <2>1. CASE t <= n
    <3>1. t \in Known(rows, line.taskId)
      BY <1>1, <2>1 DEF Known
    <3>2. QED  BY <3>1 DEF Admit
  <2>2. CASE t > n
    <3>1. ~ (Len(rows) < TableSize)
      BY <1>1, <2>2, LedgerAssumption
    <3>2. QED  BY <3>1 DEF Admit
  <2>3. QED  BY <1>1, <2>1, <2>2
<1>3. /\ after = [i \in 1..n |-> after[i]]
      /\ \A i \in 1..n :
           /\ rows[i].taskId # line.taskId => after[i] = rows[i]
           /\ rows[i].taskId = line.taskId => after[i] = RowLine(finder, rows[i], line)
  <2>1. Admit(rows, line) \in Seq(Row)
    BY <1>1, <1>2
  <2> HIDE DEF after
  <2>2. LET table == Admit(rows, line)
        IN  /\ after = [i \in 1..Len(table) |-> after[i]]
            /\ \A i \in 1..Len(table) :
                 /\ table[i].taskId # line.taskId => after[i] = table[i]
                 /\ table[i].taskId = line.taskId => after[i] = RowLine(finder, table[i], line)
    BY <2>1, TableRows DEF after
  <2>3. QED  BY <1>2, <2>2
<1> HIDE DEF after, n
<1>4. ASSUME NEW i \in 1..n
      PROVE  /\ after[i] \in Row /\ after[i].taskId = ids[i]
             /\ Shows(finder, after[i], [v EXCEPT ![t] = w][i])
  <2>1. i \in 1..Len(ids) /\ i \in Task
    BY <1>1, LedgerAssumption DEF Task
  <2>2. CASE i = t
    <3>1. after[i] = RowLine(finder, rows[i], line) /\ Shows(finder, rows[i], v[t])
      BY <1>1, <1>3, <2>2
    <3>2. [v EXCEPT ![t] = w][i] = w
      BY <2>1, <2>2
    <3>3. QED  BY <1>1, <2>2, <3>1, <3>2 DEF InStep
  <2>3. CASE i # t
    <3>1. ids[i] # ids[t]
      BY <2>1, <2>3 DEF Distinct
    <3>2. after[i] = rows[i]
      BY <1>1, <1>3, <3>1
    <3>3. [v EXCEPT ![t] = w][i] = v[i]
      BY <2>1, <2>3
    <3>4. QED  BY <1>1, <3>2, <3>3
  <2>4. QED  BY <2>2, <2>3
<1>5. after \in [1..n -> Row]
  BY <1>3, <1>4
<1>6. after \in Seq(Row) /\ Len(after) = n
  BY <1>1, <1>5, SeqFromFunction
<1>7. QED  BY <1>1, <1>4, <1>6 DEF Tabled, after

LEMMA NewTask ==
  ASSUME NEW finder \in Finders, NEW rows, NEW line, NEW ids \in Seq(TaskId), NEW v, NEW w,
         NEW id \in TaskId, \A i \in 1..Len(ids) : ids[i] # id,
         Len(ids) < NumTasks, DOMAIN v = Task, v[Len(ids) + 1] = Unposted,
         Tabled(finder, rows, ids, v),
         line.schema = "task_package", line.taskId = id, InStep(line, Unposted, w)
  PROVE  Tabled(finder, TableLine(finder, rows, line), Append(ids, id),
                [v EXCEPT ![Len(ids) + 1] = w])
<1> DEFINE after == TableLine(finder, rows, line)
           n == Len(rows)
           L == Len(ids)
           table == Admit(rows, line)
<1>1. /\ rows \in Seq(Row) /\ n \in Nat /\ L \in Nat /\ n <= L
      /\ n = IF L <= TableSize THEN L ELSE TableSize
      /\ \A i \in 1..n : rows[i] \in Row /\ rows[i].taskId = ids[i] /\ Shows(finder, rows[i], v[i])
  BY LedgerAssumption DEF Tabled
<1>2. Known(rows, line.taskId) = {}
  BY <1>1 DEF Known
<1>3. NewRow(id) \in Row /\ NewRow(id).taskId = id /\ Shows(finder, NewRow(id), Unposted)
  BY DEF NewRow, Row, Shows, Unposted, Status, AgentName
<1>4. table = IF n < TableSize THEN Append(rows, NewRow(id)) ELSE rows
  BY <1>2 DEF Admit
<1> DEFINE m == IF n < TableSize THEN n + 1 ELSE n
<1>5. /\ table \in Seq(Row) /\ Len(table) = m
      /\ \A i \in 1..n : table[i] = rows[i]
      /\ n < TableSize => table[n + 1] = NewRow(id)
  BY <1>1, <1>3, <1>4
<1>6. /\ after = [i \in 1..m |-> after[i]]
      /\ \A i \in 1..m :
           /\ table[i].taskId # line.taskId => after[i] = table[i]
           /\ table[i].taskId = line.taskId => after[i] = RowLine(finder, table[i], line)
  BY <1>5, TableRows
<1>7. /\ m \in Nat /\ Len(Append(ids, id)) = L + 1
      /\ m = IF L + 1 <= TableSize THEN L + 1 ELSE TableSize
      /\ n < TableSize => n = L
      /\ Append(ids, id)[L + 1] = id /\ \A i \in 1..L : Append(ids, id)[i] = ids[i]
      /\ L + 1 \in Task /\ 1..L \subseteq Task
  BY <1>1, LedgerAssumption DEF Task
<1> HIDE DEF after, n, m, table, L
<1>8. ASSUME NEW i \in 1..m
      PROVE  /\ after[i] \in Row /\ after[i].taskId = Append(ids, id)[i]
             /\ Shows(finder, after[i], [v EXCEPT ![L + 1] = w][i])
  <2>1. CASE i <= n
    <3>1. i \in 1..n /\ i \in 1..L /\ i # L + 1
      BY <1>1, <1>7, <2>1
    <3>2. after[i] = rows[i]
      <4>1. ids[i] # id
        BY <3>1 DEF L
      <4>2. table[i] = rows[i] /\ rows[i].taskId = ids[i]
        BY <1>1, <1>5, <3>1
      <4>3. QED  BY <1>6, <4>1, <4>2
    <3>3. [v EXCEPT ![L + 1] = w][i] = v[i]
      BY <1>7, <3>1
    <3>4. QED  BY <1>1, <1>7, <3>1, <3>2, <3>3
  <2>2. CASE i > n
    <3>1. n < TableSize /\ i = n + 1 /\ i = L + 1
      BY <1>1, <1>7, <2>2 DEF m
    <3>2. after[i] = RowLine(finder, NewRow(id), line)
      BY <1>3, <1>5, <1>6, <3>1
    <3>3. [v EXCEPT ![L + 1] = w][i] = w
      BY <1>7, <3>1
    <3>4. QED  BY <1>3, <1>7, <3>1, <3>2, <3>3 DEF InStep
  <2>3. QED  BY <1>1, <1>7, <2>1, <2>2
<1>9. after \in [1..m -> Row]
  BY <1>6, <1>8
<1>10. after \in Seq(Row) /\ Len(after) = m
  BY <1>7, <1>9, SeqFromFunction
<1>11. QED  BY <1>7, <1>8, <1>10 DEF Tabled, after, L

(* A line for a task no package has named yet.                             *)
LEMMA StrayLine ==
  ASSUME NEW finder, NEW rows, NEW line, NEW ids \in Seq(TaskId), NEW v,
         Tabled(finder, rows, ids, v), line.schema # "task_package",
         \A i \in 1..Len(ids) : ids[i] # line.taskId
  PROVE  TableLine(finder, rows, line) = rows
<1>1. /\ rows \in Seq(Row) /\ Len(rows) <= Len(ids)
      /\ \A i \in 1..Len(rows) : rows[i].taskId = ids[i]
  BY LedgerAssumption DEF Tabled
<1>2. Admit(rows, line) = rows
  BY DEF Admit
<1>3. \A i \in 1..Len(rows) : rows[i].taskId # line.taskId
  BY <1>1
<1>4. QED  BY <1>1, <1>2, <1>3, TableRows

-----------------------------------------------------------------------------
(* The invariant: every reader's loop has come to what view says.          *)

Fresh(id) == \A i \in 1..Len(names) : names[i] # id

Numbered ==
  /\ Len(names) <= NumTasks
  /\ Distinct(names)
  /\ \A t \in Task : t > Len(names) => view[t] = Unposted

ReadersInv ==
  /\ TypeOK
  /\ \E S : ledger \in Seq(S)
  /\ Numbered
  /\ \A finder \in Finders : Tabled(finder, Table(finder), names, view)
  /\ \A id \in TaskId : Fresh(id) => ActiveLease(id) = NoLease
  /\ \A t \in 1..Len(names) :
       /\ ActiveLease(names[t]) = LeaseSeen(view[t])
       /\ view[t].attempt > 0 => CancelRequested(names[t]) = view[t].cancel

LEMMA ReadersStart ==
  ASSUME ledger = <<>>
  PROVE  /\ \A finder \in Finders : Table(finder) = <<>>
         /\ \A id : ActiveLease(id) = NoLease
<1>1. ASSUME NEW finder \in Finders PROVE Table(finder) = <<>>
  <2> DEFINE reader == [of |-> finder]
  <2>1. Nothing(reader) = <<>>
    BY DEF Nothing, Finders
  <2>2. Table(finder) = Scan(reader, <<>>)
    BY DEF Table
  <2> HIDE DEF reader
  <2>3. QED  BY <2>1, <2>2, ScanEmpty
<1>2. ASSUME NEW id PROVE ActiveLease(id) = NoLease
  <2> DEFINE reader == [of |-> "lease", id |-> id]
  <2>1. Nothing(reader) = NoLease
    BY DEF Nothing, Finders
  <2>2. ActiveLease(id) = Scan(reader, <<>>)
    BY DEF ActiveLease
  <2> HIDE DEF reader
  <2>3. QED  BY <2>1, <2>2, ScanEmpty
<1>3. QED  BY <1>1, <1>2

LEMMA ReadersGoOn ==
  ASSUME NEW S, ledger \in Seq(S), NEW line, ledger' = Append(ledger, line)
  PROVE  /\ \A finder \in Finders : Table(finder)' = TableLine(finder, Table(finder), line)
         /\ \A id : /\ ActiveLease(id)' = LeaseLine(id, ActiveLease(id), line)
                    /\ CancelRequested(id)' = CancelLine(id, CancelRequested(id), line)
<1>1. \A reader : Scan(reader, ledger') = ReadLine(reader, Scan(reader, ledger), line)
  BY ScanAppend
<1>2. ASSUME NEW finder \in Finders PROVE Table(finder)' = TableLine(finder, Table(finder), line)
  <2> DEFINE reader == [of |-> finder]
  <2>1. \A seen : ReadLine(reader, seen, line) = TableLine(finder, seen, line)
    BY DEF ReadLine, Finders
  <2>2. Table(finder) = Scan(reader, ledger) /\ Table(finder)' = Scan(reader, ledger')
    BY DEF Table
  <2> HIDE DEF reader
  <2>3. QED  BY <1>1, <2>1, <2>2
<1>3. ASSUME NEW id
      PROVE  /\ ActiveLease(id)' = LeaseLine(id, ActiveLease(id), line)
             /\ CancelRequested(id)' = CancelLine(id, CancelRequested(id), line)
  <2> DEFINE asks == [of |-> "lease", id |-> id]
             obeys == [of |-> "cancel", id |-> id]
  <2>1. \A seen : ReadLine(asks, seen, line) = LeaseLine(id, seen, line)
    BY DEF ReadLine, Finders
  <2>2. \A seen : ReadLine(obeys, seen, line) = CancelLine(id, seen, line)
    BY DEF ReadLine, Finders
  <2>3. ActiveLease(id) = Scan(asks, ledger) /\ ActiveLease(id)' = Scan(asks, ledger')
    BY DEF ActiveLease
  <2>4. CancelRequested(id) = Scan(obeys, ledger) /\ CancelRequested(id)' = Scan(obeys, ledger')
    BY DEF CancelRequested
  <2> HIDE DEF asks, obeys
  <2>5. QED  BY <1>1, <2>1, <2>2, <2>3, <2>4
<1>4. QED  BY <1>2, <1>3

(* The readers of one task pass over the lines of the others.              *)
LEMMA PassOver ==
  ASSUME NEW line, NEW id, line.taskId # id
  PROVE  /\ \A lease : LeaseLine(id, lease, line) = lease
         /\ \A seen : CancelLine(id, seen, line) = seen
BY DEF LeaseLine, CancelLine

LEMMA NamedLine ==
  ASSUME ReadersInv, NEW t \in 1..Len(names), NEW line, NEW w \in TaskView,
         line.taskId = names[t], InStep(line, view[t], w),
         Writes(line), AppendRecord(t, w), UNCHANGED names
  PROVE  ReadersInv'
<1>1. /\ view \in [Task -> TaskView] /\ names \in Seq(TaskId) /\ Len(names) <= NumTasks
      /\ Distinct(names) /\ t \in Task /\ 1..Len(names) \subseteq Task
  BY LedgerAssumption DEF ReadersInv, TypeOK, Numbered, Task
<1>2. PICK S : ledger \in Seq(S)
  BY DEF ReadersInv
<1>3. ledger' = Append(ledger, line) /\ ledger' \in Seq(S \cup {line})
  BY <1>2 DEF Writes
<1>4. view' = [view EXCEPT ![t] = w] /\ view' \in [Task -> TaskView]
  BY <1>1 DEF AppendRecord
<1>5. \A finder \in Finders : Tabled(finder, Table(finder)', names, view')
  <2>1. ASSUME NEW finder \in Finders PROVE Tabled(finder, Table(finder)', names, view')
    <3>1. Tabled(finder, Table(finder), names, view)
      BY DEF ReadersInv
    <3>2. Tabled(finder, TableLine(finder, Table(finder), line), names, [view EXCEPT ![t] = w])
      BY <1>1, <3>1, KnownTask
    <3>3. Table(finder)' = TableLine(finder, Table(finder), line)
      BY <1>2, <1>3, ReadersGoOn
    <3>4. QED  BY <1>4, <3>2, <3>3
  <2>2. QED  BY <2>1
<1>6. ASSUME NEW id \in TaskId, Fresh(id) PROVE ActiveLease(id)' = NoLease
  <2>1. ActiveLease(id) = NoLease /\ line.taskId # id
    BY <1>6 DEF ReadersInv, Fresh
  <2>2. QED  BY <1>2, <1>3, <2>1, ReadersGoOn, PassOver
<1>7. ASSUME NEW u \in 1..Len(names)
      PROVE  /\ ActiveLease(names[u])' = LeaseSeen(view'[u])
             /\ view'[u].attempt > 0 => CancelRequested(names[u])' = view'[u].cancel
  <2>1. /\ ActiveLease(names[u]) = LeaseSeen(view[u])
        /\ view[u].attempt > 0 => CancelRequested(names[u]) = view[u].cancel
    BY DEF ReadersInv
  <2>2. /\ Scan([of |-> "lease", id |-> names[u]], ledger')
             = LeaseLine(names[u], ActiveLease(names[u]), line)
        /\ Scan([of |-> "cancel", id |-> names[u]], ledger')
             = CancelLine(names[u], CancelRequested(names[u]), line)
    <3>1. \A i : /\ ActiveLease(i)' = LeaseLine(i, ActiveLease(i), line)
                 /\ CancelRequested(i)' = CancelLine(i, CancelRequested(i), line)
      BY <1>2, <1>3, ReadersGoOn
    <3>2. \A i : /\ Scan([of |-> "lease", id |-> i], ledger') = LeaseLine(i, ActiveLease(i), line)
                 /\ Scan([of |-> "cancel", id |-> i], ledger')
                      = CancelLine(i, CancelRequested(i), line)
      BY <3>1 DEF ActiveLease, CancelRequested
    <3>3. QED  BY <3>2
  <2>3. /\ ActiveLease(names[u])' = LeaseLine(names[u], ActiveLease(names[u]), line)
        /\ CancelRequested(names[u])' = CancelLine(names[u], CancelRequested(names[u]), line)
    BY <2>2 DEF ActiveLease, CancelRequested
  <2>4. CASE u = t
    <3>1. view'[u] = w
      BY <1>1, <1>4, <2>4
    <3>2. QED  BY <2>1, <2>3, <2>4, <3>1 DEF InStep
  <2>5. CASE u # t
    <3>1. line.taskId # names[u]
      BY <1>1, <2>5 DEF Distinct
    <3>2. view'[u] = view[u]
      BY <1>1, <1>4, <2>5
    <3>3. QED  BY <2>1, <2>3, <3>1, <3>2, PassOver
  <2>6. QED  BY <2>4, <2>5
<1>8. TypeOK' /\ Numbered'
  <2>1. \A u \in Task : u > Len(names) => view'[u] = Unposted
    BY <1>1, <1>4 DEF ReadersInv, Numbered
  <2>2. QED  BY <1>1, <1>4, <2>1 DEF TypeOK, Numbered
<1>9. QED
  BY <1>3, <1>5, <1>6, <1>7, <1>8 DEF ReadersInv, Fresh

LEMMA NewLine ==
  ASSUME ReadersInv, NEW id \in TaskId, Fresh(id), Len(names) + 1 \in Task,
         NEW line, NEW w \in TaskView, line.schema = "task_package", line.taskId = id,
         InStep(line, Unposted, w),
         Writes(line), AppendRecord(Len(names) + 1, w), names' = Append(names, id)
  PROVE  ReadersInv'
<1> DEFINE L == Len(names)
<1>1. /\ view \in [Task -> TaskView] /\ names \in Seq(TaskId) /\ Distinct(names)
      /\ L \in Nat /\ L < NumTasks /\ 1..L \subseteq Task
      /\ \A t \in Task : t > L => view[t] = Unposted
      /\ \A i \in 1..L : names[i] # id
  <2>1. view \in [Task -> TaskView] /\ names \in Seq(TaskId)
    BY DEF ReadersInv, TypeOK
  <2>2. Distinct(names) /\ L <= NumTasks /\ \A t \in Task : t > L => view[t] = Unposted
    BY DEF ReadersInv, Numbered
  <2>3. NumTasks \in Nat /\ L \in Nat
    BY <2>1, LedgerAssumption
  <2>4. L < NumTasks /\ 1..L \subseteq Task
    BY <2>3 DEF Task
  <2>5. \A i \in 1..L : names[i] # id
    BY DEF Fresh
  <2>6. QED  BY <2>1, <2>2, <2>3, <2>4, <2>5
<1>2. PICK S : ledger \in Seq(S)
  BY DEF ReadersInv
<1>3. ledger' = Append(ledger, line) /\ ledger' \in Seq(S \cup {line})
  BY <1>2 DEF Writes
<1>4. view' = [view EXCEPT ![L + 1] = w] /\ view' \in [Task -> TaskView]
  BY <1>1 DEF AppendRecord
<1>5. /\ names' \in Seq(TaskId) /\ Len(names') = L + 1
      /\ names'[L + 1] = id /\ \A i \in 1..L : names'[i] = names[i]
  BY <1>1
<1>6. view[L + 1] = Unposted /\ view'[L + 1] = w /\ \A t \in Task : t # L + 1 => view'[t] = view[t]
  BY <1>1, <1>4
<1>7. /\ \A finder \in Finders : Table(finder)' = TableLine(finder, Table(finder), line)
      /\ \A i : /\ ActiveLease(i)' = LeaseLine(i, ActiveLease(i), line)
                /\ CancelRequested(i)' = CancelLine(i, CancelRequested(i), line)
  BY <1>2, <1>3, ReadersGoOn
<1>8. ASSUME NEW finder \in Finders PROVE Tabled(finder, Table(finder)', names', view')
  <2>1. Tabled(finder, Table(finder), names, view)
    BY DEF ReadersInv
  <2>2. Tabled(finder, TableLine(finder, Table(finder), line), Append(names, id),
               [view EXCEPT ![L + 1] = w])
    BY <1>1, <1>6, <2>1, NewTask
  <2>3. QED  BY <1>4, <1>7, <2>2
<1> HIDE DEF L
<1>9. ASSUME NEW i \in TaskId, Fresh(i)' PROVE ActiveLease(i)' = NoLease
  <2>1. Fresh(i) /\ i # id
    BY <1>1, <1>5, <1>9 DEF Fresh, L
  <2>2. ActiveLease(i) = NoLease
    BY <2>1 DEF ReadersInv
  <2>3. QED  BY <1>7, <2>1, <2>2, PassOver
<1>10. \A i : /\ Scan([of |-> "lease", id |-> i], ledger') = LeaseLine(i, ActiveLease(i), line)
              /\ Scan([of |-> "cancel", id |-> i], ledger')
                   = CancelLine(i, CancelRequested(i), line)
  BY <1>7 DEF ActiveLease, CancelRequested
<1>11. ASSUME NEW u \in 1..(L + 1)
       PROVE  /\ ActiveLease(names[u])' = LeaseSeen(view'[u])
              /\ view'[u].attempt > 0 => CancelRequested(names[u])' = view'[u].cancel
  <2>1. /\ ActiveLease(names[u])' = LeaseLine(names'[u], ActiveLease(names'[u]), line)
        /\ CancelRequested(names[u])' = CancelLine(names'[u], CancelRequested(names'[u]), line)
    BY <1>10 DEF ActiveLease, CancelRequested
  <2>2. CASE u = L + 1
    <3>1. names'[u] = id /\ view'[u] = w
      BY <1>5, <1>6, <2>2
    <3>2. ActiveLease(id) = LeaseSeen(Unposted)
      BY DEF ReadersInv, NoLease, LeaseSeen, Unposted
    <3>3. Unposted.attempt = 0
      BY DEF Unposted
    <3>4. LeaseLine(id, LeaseSeen(Unposted), line) = LeaseSeen(w)
      BY DEF InStep
    <3>5. w.attempt > 0 => CancelLine(id, CancelRequested(id), line) = w.cancel
      BY <3>3 DEF InStep
    <3>6. QED  BY <2>1, <3>1, <3>2, <3>4, <3>5
  <2>3. CASE u # L + 1
    <3>1. u \in 1..L /\ names'[u] = names[u] /\ view'[u] = view[u] /\ names[u] # id
      BY <1>1, <1>5, <1>6, <2>3
    <3>2. /\ ActiveLease(names[u]) = LeaseSeen(view[u])
          /\ view[u].attempt > 0 => CancelRequested(names[u]) = view[u].cancel
      BY <3>1 DEF ReadersInv, L
    <3>3. QED  BY <2>1, <3>1, <3>2, PassOver
  <2>4. QED  BY <2>2, <2>3
<1>12. TypeOK' /\ Numbered'
  <2>1. Distinct(names)'
    BY <1>1, <1>5 DEF Distinct, L
  <2>2. \A t \in Task : t > L + 1 => view'[t] = Unposted
    BY <1>1, <1>6 DEF Task
  <2>3. L + 1 <= NumTasks
    BY <1>1, LedgerAssumption
  <2>4. QED  BY <1>4, <1>5, <2>1, <2>2, <2>3 DEF TypeOK, Numbered
<1>13. QED
  BY <1>3, <1>5, <1>8, <1>9, <1>11, <1>12 DEF ReadersInv

LEMMA StrayStep ==
  ASSUME ReadersInv, NEW id \in TaskId, PostStray(id), UNCHANGED names
  PROVE  ReadersInv'
<1>1. PICK line : Writes(line) /\ line \in {KillLine(id), AgentEvent(id, "reclaim", "queued", NoAgent),
                                            Event(id, "status", "complete")}
  BY DEF PostStray
<1>2. Fresh(id) /\ UNCHANGED view /\ names \in Seq(TaskId)
  BY DEF PostStray, Named, Fresh, ReadersInv, TypeOK
<1>3. line.taskId = id /\ line.schema # "task_package"
  BY <1>1 DEF KillLine, AgentEvent, Event
<1>4. LeaseLine(id, NoLease, line) = NoLease
  <2>1. CASE line = KillLine(id)
    BY <2>1 DEF KillLine, LeaseLine
  <2>2. CASE line = AgentEvent(id, "reclaim", "queued", NoAgent)
    BY <2>2 DEF AgentEvent, LeaseLine, NoLease
  <2>3. CASE line = Event(id, "status", "complete")
    BY <2>3 DEF Event, LeaseLine, NoLease, Terminal
  <2>4. QED  BY <1>1, <2>1, <2>2, <2>3
<1>5. PICK S : ledger \in Seq(S)
  BY DEF ReadersInv
<1>6. ledger' = Append(ledger, line) /\ ledger' \in Seq(S \cup {line})
  BY <1>1, <1>5 DEF Writes
<1>7. /\ \A finder \in Finders : Table(finder)' = TableLine(finder, Table(finder), line)
      /\ \A i : /\ ActiveLease(i)' = LeaseLine(i, ActiveLease(i), line)
                /\ CancelRequested(i)' = CancelLine(i, CancelRequested(i), line)
  BY <1>5, <1>6, ReadersGoOn
<1>8. ASSUME NEW finder \in Finders PROVE Tabled(finder, Table(finder)', names, view)
  <2>1. Tabled(finder, Table(finder), names, view)
    BY DEF ReadersInv
  <2>2. TableLine(finder, Table(finder), line) = Table(finder)
    BY <1>2, <1>3, <2>1, StrayLine DEF Fresh
  <2>3. QED  BY <1>7, <2>1, <2>2
<1>9. ASSUME NEW i \in TaskId, Fresh(i) PROVE ActiveLease(i)' = NoLease
  <2>1. ActiveLease(i) = NoLease
    BY <1>9 DEF ReadersInv
  <2>2. QED  BY <1>3, <1>4, <1>7, <2>1, PassOver
<1>10. \A i : /\ Scan([of |-> "lease", id |-> i], ledger') = LeaseLine(i, ActiveLease(i), line)
              /\ Scan([of |-> "cancel", id |-> i], ledger')
                   = CancelLine(i, CancelRequested(i), line)
  BY <1>7 DEF ActiveLease, CancelRequested
<1>11. ASSUME NEW u \in 1..Len(names)
       PROVE  /\ ActiveLease(names[u])' = LeaseSeen(view[u])
              /\ view[u].attempt > 0 => CancelRequested(names[u])' = view[u].cancel
  <2>1. /\ ActiveLease(names[u])' = LeaseLine(names[u], ActiveLease(names[u]), line)
        /\ CancelRequested(names[u])' = CancelLine(names[u], CancelRequested(names[u]), line)
    BY <1>10 DEF ActiveLease, CancelRequested
  <2>2. line.taskId # names[u]
    BY <1>2, <1>3 DEF Fresh
  <2>3. QED  BY <2>1, <2>2, PassOver DEF ReadersInv
<1>12. TypeOK' /\ Numbered'
  BY <1>2 DEF ReadersInv, TypeOK, Numbered
<1>13. QED
  BY <1>2, <1>6, <1>8, <1>9, <1>11, <1>12 DEF ReadersInv, Fresh

LEMMA EventStep ==
  ASSUME ReadersInv, NEW t \in DOMAIN names, PostEvent(t, names[t], view[t]), UNCHANGED names
  PROVE  ReadersInv'
<1> DEFINE id == names[t]
           v == view[t]
<1>1. t \in 1..Len(names) /\ id \in TaskId /\ v \in TaskView
  BY LedgerAssumption DEF ReadersInv, TypeOK, Numbered, Task
<1> HIDE DEF id, v
<1>2. ASSUME NEW line, NEW w \in TaskView, Writes(line), AppendRecord(t, w),
             line.taskId = id, InStep(line, v, w)
      PROVE  ReadersInv'
  BY <1>1, <1>2, NamedLine DEF id, v
<1>3. PostEvent(t, id, v)
  BY DEF id, v
<1>4. /\ Claimable \subseteq Status /\ {"queued", "running", "complete", "closed"} \subseteq Status
      /\ Agent \subseteq AgentName /\ Times \subseteq Nat /\ v.attempt + 1 \in Nat
  BY <1>1, ReadersAssumption DEF Status, Claimable, InFlight, Terminal, AgentName, TaskView
<1>5. CASE \E type \in {"routing", "assignment"}, s \in Claimable, a \in Agent :
             Writes(AgentEvent(id, type, s, a)) /\ AppendRecord(t, AfterRouting(v, s, a))
  <2>1. PICK type \in {"routing", "assignment"}, s \in Claimable, a \in Agent :
          Writes(AgentEvent(id, type, s, a)) /\ AppendRecord(t, AfterRouting(v, s, a))
    BY <1>5
  <2>2. AgentEvent(id, type, s, a).taskId = id /\ AfterRouting(v, s, a) \in TaskView
    BY <1>1, <1>4 DEF AgentEvent, AfterRouting, TaskView
  <2>3. QED  BY <1>1, <1>2, <2>1, <2>2, RoutingInStep
<1>6. CASE \E a \in Agent, e \in Times :
             /\ Writes(LeaseEvent(id, "lease", "leased", a, v.attempt + 1, e))
             /\ AppendRecord(t, AfterLease(v, a, v.attempt + 1, e))
  <2>1. PICK a \in Agent, e \in Times :
             /\ Writes(LeaseEvent(id, "lease", "leased", a, v.attempt + 1, e))
             /\ AppendRecord(t, AfterLease(v, a, v.attempt + 1, e))
    BY <1>6
  <2>2. /\ LeaseEvent(id, "lease", "leased", a, v.attempt + 1, e).taskId = id
        /\ AfterLease(v, a, v.attempt + 1, e) \in TaskView
    BY <1>1, <1>4 DEF LeaseEvent, AfterLease, TaskView, Status, InFlight
  <2>3. QED  BY <1>1, <1>2, <2>1, <2>2, LeaseInStep
<1>7. CASE \E a \in Agent, e \in Times :
             /\ Writes(LeaseEvent(id, "lease_renewal", "running", a, 1, e))
             /\ AppendRecord(t, AfterRenewal(v, a, e))
  <2>1. PICK a \in Agent, e \in Times :
             /\ Writes(LeaseEvent(id, "lease_renewal", "running", a, 1, e))
             /\ AppendRecord(t, AfterRenewal(v, a, e))
    BY <1>7
  <2>2. /\ LeaseEvent(id, "lease_renewal", "running", a, 1, e).taskId = id
        /\ AfterRenewal(v, a, e) \in TaskView
    BY <1>1, <1>4 DEF LeaseEvent, AfterRenewal, TaskView, Status, InFlight
  <2>3. QED  BY <1>1, <1>2, <2>1, <2>2, RenewalInStep
<1>8. CASE \E a \in AgentName :
             /\ Writes(AgentEvent(id, "reclaim", "queued", a))
             /\ AppendRecord(t, AfterReclaim(v, a))
  <2>1. PICK a \in AgentName :
             /\ Writes(AgentEvent(id, "reclaim", "queued", a))
             /\ AppendRecord(t, AfterReclaim(v, a))
    BY <1>8
  <2>2. AgentEvent(id, "reclaim", "queued", a).taskId = id /\ AfterReclaim(v, a) \in TaskView
    BY <1>1 DEF AgentEvent, AfterReclaim, TaskView, Status, Claimable
  <2>3. QED  BY <1>1, <1>2, <2>1, <2>2, ReclaimInStep
<1>9. CASE \E s \in {"queued", "running", "complete"} :
             Writes(Event(id, "status", s)) /\ AppendRecord(t, AfterStatus(v, s))
  <2>1. PICK s \in Status : Writes(Event(id, "status", s)) /\ AppendRecord(t, AfterStatus(v, s))
    BY <1>4, <1>9
  <2>2. Event(id, "status", s).taskId = id /\ AfterStatus(v, s) \in TaskView
    BY <1>1 DEF Event, AfterStatus, TaskView
  <2>3. QED  BY <1>1, <1>2, <2>1, <2>2, StatusInStep
<1>10. CASE \E s \in {"queued", "closed"} :
             Writes(Event(id, "lifecycle", s)) /\ AppendRecord(t, AfterLifecycle(v, s))
  <2>1. PICK s \in Status :
          Writes(Event(id, "lifecycle", s)) /\ AppendRecord(t, AfterLifecycle(v, s))
    BY <1>4, <1>10
  <2>2. Event(id, "lifecycle", s).taskId = id /\ AfterLifecycle(v, s) \in TaskView
    BY <1>1 DEF Event, AfterLifecycle, TaskView
  <2>3. QED  BY <1>1, <1>2, <2>1, <2>2, LifecycleInStep
<1>11. CASE Writes(KillLine(id)) /\ AppendRecord(t, AfterKill(v))
  <2>1. KillLine(id).taskId = id /\ AfterKill(v) \in TaskView
    BY <1>1 DEF KillLine, AfterKill, TaskView
  <2>2. QED  BY <1>1, <1>2, <1>11, <2>1, KillInStep
<1>12. CASE Writes(ArtifactEvent(id)) /\ UNCHANGED view
  <2>1. ArtifactEvent(id).taskId = id
    BY DEF ArtifactEvent
  <2>2. AppendRecord(t, v)
    BY <1>12 DEF AppendRecord, v, ReadersInv, TypeOK
  <2>3. QED  BY <1>1, <1>2, <1>12, <2>1, <2>2, ArtifactInStep
<1>13. QED
  BY <1>3, <1>5, <1>6, <1>7, <1>8, <1>9, <1>10, <1>11, <1>12 DEF PostEvent

LEMMA PackageStep ==
  ASSUME ReadersInv, NEW t \in Task, NEW id \in TaskId, PostPackage(t, id)
  PROVE  ReadersInv'
<1>1. PICK a \in AgentName, h \in Host \cup {NoHost} :
        Writes(PackageLine(id, a, h)) /\ AppendRecord(t, AfterPackage(view[t], a, h))
  BY DEF PostPackage
<1> DEFINE line == PackageLine(id, a, h)
           w == AfterPackage(view[t], a, h)
<1>2. line.schema = "task_package" /\ line.taskId = id
  BY DEF PackageLine
<1>3. view[t] \in TaskView /\ names \in Seq(TaskId)
  BY DEF ReadersInv, TypeOK
<1>4. w \in TaskView
  BY <1>3 DEF AfterPackage, TaskView, Status, Claimable
<1>5. InStep(line, view[t], w)
  BY <1>3, PackageInStep
<1> HIDE DEF line, w
<1>6. CASE t \in DOMAIN names /\ id = names[t] /\ UNCHANGED names
  BY <1>1, <1>2, <1>3, <1>4, <1>5, <1>6, NamedLine DEF line, w
<1>7. CASE t = Len(names) + 1 /\ id \notin Named /\ names' = Append(names, id)
  <2>1. Fresh(id) /\ view[t] = Unposted
    BY <1>3, <1>7 DEF Fresh, Named, ReadersInv, Numbered
  <2>2. QED
    BY <1>1, <1>2, <1>4, <1>5, <1>7, <2>1, NewLine DEF line, w
<1>8. QED  BY <1>6, <1>7 DEF PostPackage

LEMMA ReadersInit == Init => ReadersInv
<1> SUFFICES ASSUME Init PROVE ReadersInv
  OBVIOUS
<1>1. ledger = <<>> /\ names = <<>> /\ view = [t \in Task |-> Unposted] /\ Len(names) = 0
  BY DEF Init
<1>2. Unposted \in TaskView
  BY DEF Unposted, TaskView, Status, AgentName
<1>3. TypeOK /\ Numbered
  BY <1>1, <1>2, LedgerAssumption DEF TypeOK, Numbered, Distinct
<1>4. ledger \in Seq({})
  BY <1>1
<1>5. \A finder \in Finders : Table(finder) = <<>> /\ Tabled(finder, <<>>, names, view)
  BY <1>1, ReadersStart, LedgerAssumption DEF Tabled
<1>6. \A id : ActiveLease(id) = NoLease
  BY <1>1, ReadersStart
<1>7. QED  BY <1>1, <1>3, <1>4, <1>5, <1>6 DEF ReadersInv

LEMMA ReadersStep == ReadersInv /\ [Next]_vars => ReadersInv'
<1> SUFFICES ASSUME ReadersInv, [Next]_vars PROVE ReadersInv'
  OBVIOUS
<1>1. CASE \E t \in Task, id \in TaskId : PostPackage(t, id)
  BY <1>1, PackageStep
<1>2. CASE \E t \in DOMAIN names : PostEvent(t, names[t], view[t]) /\ UNCHANGED names
  BY <1>2, EventStep
<1>3. CASE \E id \in TaskId : PostStray(id) /\ UNCHANGED names
  BY <1>3, StrayStep
<1>4. CASE UNCHANGED vars
  BY <1>4 DEF vars, ReadersInv, TypeOK, Numbered, Distinct, Fresh, Tabled, Table, ActiveLease,
     CancelRequested
<1>5. QED  BY <1>1, <1>2, <1>3, <1>4 DEF Next

LEMMA ReadersAlways == Spec => []ReadersInv
BY ReadersInit, ReadersStep, PTL DEF Spec

-----------------------------------------------------------------------------

(* Every line an append writes leaves the readers with values they know.   *)
THEOREM ReadersTyped == Spec => []TypeOK
<1>1. ReadersInv => TypeOK
  BY DEF ReadersInv
<1>2. QED  BY <1>1, ReadersAlways, PTL

LEMMA RowsAreTasks ==
  ASSUME ReadersInv, NEW finder \in Finders, NEW found, NEW sought,
         found \subseteq DOMAIN Table(finder), found = sought
  PROVE  FirstRow(Table(finder), found) = NameOf(sought)
<1>1. /\ DOMAIN Table(finder) \subseteq Task
      /\ \A i \in DOMAIN Table(finder) : Table(finder)[i].taskId = names[i]
  <2>1. /\ Tabled(finder, Table(finder), names, view) /\ Len(names) \in Nat
        /\ Len(names) <= NumTasks
    BY DEF ReadersInv, TypeOK, Numbered
  <2>2. QED  BY <2>1, LedgerAssumption DEF Tabled, Task
<1>2. \A i : (i \in found /\ \A k \in found : i <= k) <=> (i \in Task /\ First(sought, i))
  BY <1>1 DEF First
<1>3. QED  BY <1>1, <1>2 DEF FirstRow, NameOf

(* Row t is in the table exactly when task t is posted and fits.           *)
LEMMA RowsInTable ==
  ASSUME ReadersInv, NEW finder \in Finders
  PROVE  /\ \A i \in DOMAIN Table(finder) :
              i \in Visible /\ Table(finder)[i] \in Row /\ Shows(finder, Table(finder)[i], view[i])
         /\ \A t \in Visible : view[t].status # "none" => t \in DOMAIN Table(finder)
<1>1. /\ Tabled(finder, Table(finder), names, view) /\ Len(names) \in Nat
      /\ Len(names) <= NumTasks
      /\ \A t \in Task : t > Len(names) => view[t] = Unposted
  BY DEF ReadersInv, TypeOK, Numbered
<1>2. Unposted.status = "none"
  BY DEF Unposted
<1>3. QED  BY <1>1, <1>2, LedgerAssumption DEF Tabled, Visible, Task

(* The three finders of wt_task_store.c return from the file the task that *)
(* TaskLedger says, after any sequence of packages, events, kills and      *)
(* artifact decisions, for tasks posted or not, and for any table size.    *)
THEOREM FindersAlwaysAgree == Spec => []FindersAgree
<1>1. ASSUME ReadersInv PROVE FindersAgree
  <2> SUFFICES ASSUME NEW a \in Agent, NEW h \in Host, NEW now \in Times
               PROVE  /\ FindQueuedForAgent(a) = NameOf(QueuedFor(a))
                      /\ FindStuckForAgent(a, now) = NameOf(StuckFor(a, now))
                      /\ FindClaimableOnHost(a, h, now) = NameOf(ClaimableOnHost(a, h, now))
    BY DEF FindersAgree
  <2>1. /\ view \in [Task -> TaskView] /\ now \in Nat /\ Visible \subseteq Task
        /\ "none" \notin Claimable \cup InFlight
    BY <1>1, ReadersAssumption DEF ReadersInv, TypeOK, Visible, Claimable, InFlight
  <2>2. FindQueuedForAgent(a) = NameOf(QueuedFor(a))
    <3> DEFINE rows == Table("queued")
               found == {i \in DOMAIN rows : /\ rows[i].executionHost = NoHost
                                             /\ rows[i].assignedAgent = a
                                             /\ Waiting(rows[i])}
    <3>1. /\ \A i \in DOMAIN rows : i \in Visible /\ Shows("queued", rows[i], view[i])
          /\ \A t \in Visible : view[t].status # "none" => t \in DOMAIN rows
      BY <1>1, RowsInTable DEF Finders
    <3>2. found = QueuedFor(a)
      BY <2>1, <3>1 DEF QueuedFor, Shows, Waiting, Claimable
    <3>3. FindQueuedForAgent(a) = FirstRow(rows, found)
      BY DEF FindQueuedForAgent
    <3>4. found \subseteq DOMAIN rows
      OBVIOUS
    <3> HIDE DEF found
    <3>5. QED  BY <1>1, <3>2, <3>3, <3>4, RowsAreTasks DEF Finders
  <2>3. FindStuckForAgent(a, now) = NameOf(StuckFor(a, now))
    <3> DEFINE rows == Table("stuck")
               found == {i \in DOMAIN rows : /\ Stuck(rows[i], now)
                                             /\ rows[i].executionHost = NoHost
                                             /\ rows[i].ownerAgent = a}
    <3>1. /\ \A i \in DOMAIN rows :
               i \in Visible /\ rows[i] \in Row /\ Shows("stuck", rows[i], view[i])
          /\ \A t \in Visible : view[t].status # "none" => t \in DOMAIN rows
      BY <1>1, RowsInTable DEF Finders
    <3>2. \A i \in DOMAIN rows : Stuck(rows[i], now) <=> Lapsed(view[i], view[i].stuckAt, now)
      BY <2>1, <3>1 DEF Stuck, Lapsed, Shows, InFlight, Row
    <3>3. found = StuckFor(a, now)
      BY <2>1, <3>1, <3>2 DEF StuckFor, Shows, Lapsed
    <3>4. FindStuckForAgent(a, now) = FirstRow(rows, found)
      BY DEF FindStuckForAgent
    <3>5. found \subseteq DOMAIN rows
      OBVIOUS
    <3> HIDE DEF found
    <3>6. QED  BY <1>1, <3>3, <3>4, <3>5, RowsAreTasks DEF Finders
  <2>4. FindClaimableOnHost(a, h, now) = NameOf(ClaimableOnHost(a, h, now))
    <3> DEFINE rows == Table("onHost")
               found == {i \in DOMAIN rows : /\ Waiting(rows[i]) \/ Stuck(rows[i], now)
                                             /\ rows[i].ownerAgent = a
                                             /\ rows[i].executionHost \in {NoHost, h}}
    <3>1. /\ \A i \in DOMAIN rows :
               i \in Visible /\ rows[i] \in Row /\ Shows("onHost", rows[i], view[i])
          /\ \A t \in Visible : view[t].status # "none" => t \in DOMAIN rows
      BY <1>1, RowsInTable DEF Finders
    <3>2. \A i \in DOMAIN rows :
            /\ Stuck(rows[i], now) <=> Lapsed(view[i], view[i].hostStuckAt, now)
            /\ Waiting(rows[i]) <=> view[i].status \in Claimable
      BY <2>1, <3>1 DEF Stuck, Waiting, Lapsed, Shows, Claimable, InFlight, Row
    <3>3. found = ClaimableOnHost(a, h, now)
      BY <2>1, <3>1, <3>2 DEF ClaimableOnHost, Shows, Lapsed
    <3>4. FindClaimableOnHost(a, h, now) = FirstRow(rows, found)
      BY DEF FindClaimableOnHost
    <3>5. found \subseteq DOMAIN rows
      OBVIOUS
    <3> HIDE DEF found
    <3>6. QED  BY <1>1, <3>3, <3>4, <3>5, RowsAreTasks DEF Finders
  <2>5. QED  BY <2>2, <2>3, <2>4
<1>2. QED  BY <1>1, ReadersAlways, PTL

(* And so do wtTaskFindActiveLease and, for a task that has been leased,   *)
(* wtTaskCancelRequested.                                                  *)
THEOREM LeaseReadersAlwaysAgree == Spec => []LeaseReadersAgree
<1>1. ASSUME ReadersInv PROVE LeaseReadersAgree
  <2>1. DOMAIN names = 1..Len(names)
    BY <1>1 DEF ReadersInv, TypeOK
  <2>2. \A t \in DOMAIN names :
          /\ ActiveLease(names[t]) = LeaseSeen(view[t])
          /\ view[t].attempt > 0 => CancelRequested(names[t]) = view[t].cancel
    BY <1>1, <2>1 DEF ReadersInv
  <2>3. QED  BY <2>2 DEF LeaseReadersAgree, LeaseSeen
<1>2. QED  BY <1>1, ReadersAlways, PTL
=============================================================================
