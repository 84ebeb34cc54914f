-------------------------- MODULE AdmissionProofs --------------------------
(***************************************************************************)
(* Proofs about admission, for any number of tasks, agents, initiatives,   *)
(* families, children and requests, and any limits and budgets.            *)
(***************************************************************************)
EXTENDS Admission, FiniteSetTheorems, TLAPS

IdleChild == [pc |-> "idle"]
Steps == {"rebuild", "decide", "recount", "capacity", "request", "package", "route"}
Busy == [pc : Steps, req : Requests]

ChildTyped == child \in [Handler -> {IdleChild} \cup Busy]

LEMMA TypeParts ==
  TypeOK <=> /\ rows \in [Task -> Row] /\ db \in [Task -> Row]
             /\ window \in Nat /\ posts \in 0..MaxPosts /\ moves \in 0..MaxMoves
             /\ ChildTyped
  BY DEF TypeOK, ChildTyped, IdleChild, Busy, Steps

-----------------------------------------------------------------------------
(* The operators of the policy.                                            *)

LEMMA RequestParts ==
  ASSUME NEW r \in Requests
  PROVE  /\ r \in Request
         /\ r.kind \in {"package", "request"} /\ r.task \in Task /\ r.agent \in Agent \cup {Router}
         /\ r.role \in Agent /\ r.init \in Initiative \cup {NoInitiative}
         /\ r.model \in Family \cup {NoFamily} /\ r.tokens \in 0..MaxTokens
         /\ r.parent \in Task \cup {NoTask}
  BY AdmissionAssumption DEF Request

LEMMA Routing ==
  ASSUME NEW r \in Requests
  PROVE  RouteAgent(r) \in Agent /\ DefaultModel(r) \in Family
<1>1. RouteAgent(r) \in Agent
  BY RequestParts DEF RouteAgent
<1>2. FamilyOf[r.role] \in Family /\ FamilyOf[RouteAgent(r)] \in Family
  BY <1>1, RequestParts, AdmissionAssumption
<1>3. QED
  BY <1>1, <1>2, RequestParts DEF DefaultModel

(* The row that a package leaves.                                          *)
PackageRow(r) ==
  [agent |-> r.agent, init |-> r.init, model |-> r.model,
   tokens |-> r.tokens, parent |-> r.parent, active |-> TRUE, decided |-> DefaultModel(r)]

Written(r) ==
  IF r.kind = "package" THEN r ELSE [r EXCEPT !.agent = RouteAgent(r), !.model = DefaultModel(r)]

LEMMA WrittenParts ==
  ASSUME NEW r \in Requests
  PROVE  /\ Written(r).agent \in {r.agent, RouteAgent(r)} /\ Written(r).init = r.init
         /\ Written(r).model \in Family \cup {NoFamily}
         /\ Written(r).tokens = r.tokens /\ Written(r).parent = r.parent
         /\ DefaultModel(Written(r)) = DefaultModel(r)
<1>1. CASE r.kind = "package"
  BY <1>1, RequestParts DEF Written
<1>2. CASE r.kind # "package"
  <2>1. /\ Written(r).agent = RouteAgent(r) /\ Written(r).model = DefaultModel(r)
        /\ Written(r).init = r.init /\ Written(r).tokens = r.tokens
        /\ Written(r).parent = r.parent
    BY <1>2, RequestParts DEF Written, Request
  <2>2. RouteAgent(r) # Router /\ DefaultModel(r) # NoFamily
    BY Routing, AdmissionAssumption
  <2>3. DefaultModel(Written(r)) = DefaultModel(r)
    BY <2>1, <2>2 DEF DefaultModel
  <2>4. QED
    BY <2>1, <2>3, Routing
<1>3. QED
  BY <1>1, <1>2

LEMMA PackageTyped ==
  ASSUME NEW r \in Requests
  PROVE  PackageRow(Written(r)) \in Row
  BY WrittenParts, Routing, RequestParts DEF PackageRow, Row

(* What an event that leaves a task active makes of its row.               *)
Opened(row, a) == [row EXCEPT !.agent = a, !.active = TRUE]

LEMMA EventTyped ==
  ASSUME rows \in [Task -> Row], NEW t \in Task, NEW a \in Agent \cup {Router}, NEW b \in BOOLEAN,
         InsertEvent(t, a, b)
  PROVE  /\ rows' \in [Task -> Row]
         /\ \A u \in Task \ {t} : rows'[u] = rows[u]
         /\ rows[t] = NoRow => rows'[t] = NoRow
         /\ rows'[t].active => b /\ rows[t] # NoRow /\ rows'[t] = Opened(rows[t], a)
         /\ \A c : Opened(rows'[t], c) = Opened(rows[t], c)
<1>1. rows[t] \in Row
  OBVIOUS
<1>2. [rows[t] EXCEPT !.agent = a, !.active = b] \in Row
  BY <1>1 DEF Row
<1>3. rows' = [rows EXCEPT ![t] = IF rows[t] = NoRow THEN NoRow
                                  ELSE [rows[t] EXCEPT !.agent = a, !.active = b]]
  BY DEF InsertEvent
<1>4. rows' \in [Task -> Row] /\ \A u \in Task \ {t} : rows'[u] = rows[u]
  BY <1>1, <1>2, <1>3
<1>5. CASE rows[t] = NoRow
  <2>1. rows'[t] = NoRow /\ ~NoRow.active
    BY <1>3, <1>5 DEF NoRow
  <2>2. QED
    BY <1>4, <1>5, <2>1
<1>6. CASE rows[t] # NoRow
  <2>1. rows'[t] = [rows[t] EXCEPT !.agent = a, !.active = b]
    BY <1>3, <1>6
  <2>2. \A c : Opened(rows'[t], c) = Opened(rows[t], c)
    BY <1>1, <2>1 DEF Opened, Row
  <2>3. rows'[t].active => b /\ rows'[t] = Opened(rows[t], a)
    BY <1>1, <2>1 DEF Opened, Row
  <2>4. QED
    BY <1>4, <1>6, <2>2, <2>3
<1>7. QED
  BY <1>5, <1>6

LEMMA ProjectTyped ==
  ASSUME rows \in [Task -> Row], NEW r \in Requests, ProjectPackage(r.task, Written(r))
  PROVE  /\ rows' \in [Task -> Row] /\ rows'[r.task] = PackageRow(Written(r))
         /\ \A u \in Task \ {r.task} : rows'[u] = rows[u]
<1>1. rows' = [rows EXCEPT ![r.task] = PackageRow(Written(r))]
  BY DEF ProjectPackage, PackageRow
<1>2. QED
  BY <1>1, PackageTyped, RequestParts

-----------------------------------------------------------------------------
(* What a step of a child does to the children.                            *)

LEMMA BusyFields ==
  ASSUME ChildTyped, NEW h \in Handler, child[h].pc # "idle"
  PROVE  /\ child[h] \in Busy /\ child[h].pc \in Steps /\ child[h].req \in Requests
         /\ child[h].req.task \in Task
<1>1. child[h] \in Busy
  BY DEF ChildTyped, IdleChild
<1>2. QED
  BY <1>1, RequestParts DEF Busy

LEMMA GoesFields ==
  ASSUME ChildTyped, NEW h \in Handler, child[h].pc # "idle", NEW pc \in Steps, Goes(h, pc)
  PROVE  /\ ChildTyped' /\ child'[h].pc = pc /\ child'[h].req = child[h].req
         /\ \A k \in Handler \ {h} : child'[k] = child[k]
<1>1. child[h] \in Busy
  BY BusyFields
<1>2. [child[h] EXCEPT !.pc = pc] \in Busy
  BY <1>1 DEF Busy
<1>3. child'[h] = [child[h] EXCEPT !.pc = pc] /\ \A k \in Handler \ {h} : child'[k] = child[k]
  BY DEF Goes, ChildTyped
<1>4. ChildTyped'
  BY <1>2 DEF Goes, ChildTyped
<1>5. QED
  BY <1>1, <1>3, <1>4 DEF Busy

LEMMA EndsFields ==
  ASSUME ChildTyped, NEW h \in Handler, Ends(h)
  PROVE  /\ ChildTyped' /\ child'[h].pc = "idle"
         /\ \A k \in Handler \ {h} : child'[k] = child[k]
  BY DEF Ends, ChildTyped, IdleChild

LEMMA ReceiveFields ==
  ASSUME ChildTyped, NEW h \in Handler, Receive(h)
  PROVE  /\ ChildTyped' /\ child'[h].pc = "rebuild"
         /\ \A k \in Handler \ {h} : child'[k] = child[k]
<1>1. PICK r \in Requests : child' = [child EXCEPT ![h] = [pc |-> "rebuild", req |-> r]]
  BY DEF Receive
<1>2. [pc |-> "rebuild", req |-> r] \in Busy
  BY DEF Busy, Steps
<1>3. QED
  BY <1>1, <1>2 DEF ChildTyped

LEMMA AppendWritten ==
  ASSUME ChildTyped, NEW h \in Handler, AppendPackage(h)
  PROVE  /\ At(h, "package") /\ child[h].req \in Requests
         /\ ProjectPackage(child[h].req.task, Written(child[h].req))
         /\ Goes(h, "route") \/ Ends(h)
         /\ window' = window + child[h].req.tokens /\ UNCHANGED <<db, posts, moves>>
  BY BusyFields DEF AppendPackage, At, Written

LEMMA AdmissionTypeInit == Init => TypeOK
<1> SUFFICES ASSUME Init PROVE TypeOK
  OBVIOUS
<1>1. NoRow \in Row
  BY AdmissionAssumption DEF NoRow, Row
<1>2. QED
  BY <1>1, AdmissionAssumption, TypeParts DEF Init, ChildTyped, IdleChild

LEMMA AdmissionTypeStep == TypeOK /\ [Next]_vars => TypeOK'
<1> SUFFICES ASSUME TypeOK, [Next]_vars PROVE TypeOK'
  OBVIOUS
<1>1. /\ rows \in [Task -> Row] /\ db \in [Task -> Row]
      /\ window \in Nat /\ posts \in 0..MaxPosts /\ moves \in 0..MaxMoves
      /\ ChildTyped
  BY TypeParts
<1>2. SUFFICES /\ rows' \in [Task -> Row] /\ db' \in [Task -> Row]
               /\ window' \in Nat /\ posts' \in 0..MaxPosts /\ moves' \in 0..MaxMoves
               /\ ChildTyped'
  BY DEF TypeOK, ChildTyped, IdleChild, Busy, Steps
<1>3. ASSUME NEW h \in Handler, Step(h)
      PROVE  /\ rows' \in [Task -> Row] /\ db' \in [Task -> Row]
             /\ window' \in Nat /\ posts' \in 0..MaxPosts /\ moves' \in 0..MaxMoves
             /\ ChildTyped'
  <2>1. CASE Receive(h)
    <3>1. posts' \in 0..MaxPosts
      BY <1>1, <2>1, AdmissionAssumption DEF Receive
    <3>2. QED
      BY <1>1, <2>1, <3>1, ReceiveFields DEF Receive
  <2>2. CASE RebuildProjection(h)
    BY <1>1, <2>2, GoesFields DEF RebuildProjection, At, Steps
  <2>3. CASE Decide(h)
    BY <1>1, <2>3, GoesFields, EndsFields DEF Decide, At, Steps
  <2>4. CASE EnforceCapacity(h)
    BY <1>1, <2>4, GoesFields, EndsFields DEF EnforceCapacity, At, Steps
  <2>5. CASE AppendRequest(h)
    <3>1. ChildTyped' /\ child[h].req \in Requests /\ child[h].req.task \in Task
      BY <1>1, <2>5, GoesFields, BusyFields DEF AppendRequest, At, Steps
    <3>2. rows[child[h].req.task].active \in BOOLEAN
      BY <1>1, <3>1 DEF Row
    <3>3. rows' \in [Task -> Row]
      BY <1>1, <2>5, <3>1, <3>2, Routing, EventTyped DEF AppendRequest
    <3>4. QED
      BY <1>1, <2>5, <3>1, <3>3 DEF AppendRequest
  <2>6. CASE AppendPackage(h)
    <3>1. ChildTyped'
      BY <1>1, <2>6, AppendWritten, GoesFields, EndsFields DEF At, Steps
    <3>2. rows' \in [Task -> Row]
      BY <1>1, <2>6, AppendWritten, ProjectTyped
    <3>3. window' \in Nat
      BY <1>1, <2>6, AppendWritten, RequestParts, AdmissionAssumption
    <3>4. QED
      BY <1>1, <2>6, <3>1, <3>2, <3>3, AppendWritten
  <2>7. CASE AppendRouting(h)
    <3>1. ChildTyped' /\ child[h].req \in Requests /\ child[h].req.task \in Task
      BY <1>1, <2>7, EndsFields, BusyFields DEF AppendRouting, At
    <3>2. rows' \in [Task -> Row]
      BY <1>1, <2>7, <3>1, Routing, EventTyped DEF AppendRouting
    <3>3. QED
      BY <1>1, <2>7, <3>1, <3>2 DEF AppendRouting
  <2>8. CASE Fail(h)
    BY <1>1, <2>8, EndsFields DEF Fail
  <2>10. QED
    BY <1>3, <2>1, <2>2, <2>3, <2>4, <2>5, <2>6, <2>7, <2>8 DEF Step
<1>4. ASSUME NEW t \in Task, Finish(t)
      PROVE  rows' \in [Task -> Row] /\ UNCHANGED <<db, window, child, posts, moves>>
  <2>1. rows[t].agent \in Agent \cup {Router}
    BY <1>1 DEF Row
  <2>2. QED
    BY <1>1, <1>4, <2>1, EventTyped DEF Finish
<1>5. ASSUME NEW t \in Task, Move(t)
      PROVE  /\ rows' \in [Task -> Row] /\ moves' \in 0..MaxMoves
             /\ UNCHANGED <<db, window, child, posts>>
  <2>1. rows' \in [Task -> Row]
    BY <1>1, <1>5, EventTyped DEF Move
  <2>2. moves' \in 0..MaxMoves
    BY <1>1, <1>5, AdmissionAssumption DEF Move
  <2>3. QED
    BY <1>5, <2>1, <2>2 DEF Move
<1>6. WindowMoves => window' \in Nat /\ UNCHANGED <<rows, db, child, posts, moves>>
  BY <1>1 DEF WindowMoves
<1>7. child' = child => ChildTyped'
  BY <1>1 DEF ChildTyped
<1>8. QED
  BY <1>1, <1>3, <1>4, <1>5, <1>6, <1>7 DEF Next, vars

(* What handlePostTaskPackage and handlePostTaskRequest append and         *)
(* projectPackage and insertEvent make of it stays a row of the types, and *)
(* a child has a request in hand except when it is idle.                   *)
THEOREM AdmissionTyped == Spec => []TypeOK
  BY AdmissionTypeInit, AdmissionTypeStep, PTL DEF Spec

-----------------------------------------------------------------------------
(* Sizes.  A limit is kept of a load S, of which B was seen by the last    *)
(* rebuild, when F are the children that will decide on what they see, m   *)
(* tasks were moved and one child adds at most w.                          *)

LEMMA Times ==
  ASSUME NEW n \in Nat, NEW m \in Nat, NEW w \in Nat
  PROVE  /\ n * w \in Nat /\ (n + 1) * w = n * w + w
         /\ n <= m => n * w <= m * w
<1>1. n * w \in Nat /\ (n + 1) * w = n * w + w
  BY SMT
<1>2. ASSUME n <= m PROVE n * w <= m * w
  <2>1. PICK d \in Nat : m = n + d
    <3>1. m - n \in Nat /\ m = n + (m - n)
      BY <1>2
    <3>2. QED
      BY <3>1
  <2>2. m * w = n * w + d * w
    BY <2>1, SMT
  <2>3. d * w \in Nat
    BY SMT
  <2>4. QED
    BY <1>1, <2>2, <2>3
<1>3. QED
  BY <1>1, <1>2

LEMMA Sizes ==
  ASSUME NEW S, IsFiniteSet(S), NEW T, T \subseteq S
  PROVE  /\ IsFiniteSet(T) /\ Cardinality(T) \in Nat /\ Cardinality(S) \in Nat
         /\ Cardinality(T) <= Cardinality(S)
<1>1. IsFiniteSet(T) /\ Cardinality(T) <= Cardinality(S)
  BY FS_Subset
<1>2. QED
  BY <1>1, FS_CardinalityType

LEMMA Sums ==
  ASSUME NEW S, IsFiniteSet(S), NEW T, IsFiniteSet(T)
  PROVE  /\ IsFiniteSet(S \cup T)
         /\ Cardinality(S \cup T) \in Nat /\ Cardinality(S) \in Nat /\ Cardinality(T) \in Nat
         /\ Cardinality(S \cup T) <= Cardinality(S) + Cardinality(T)
<1>1. /\ IsFiniteSet(S \cup T)
      /\ Cardinality(S \cup T) = Cardinality(S) + Cardinality(T) - Cardinality(S \cap T)
  BY FS_Union
<1>2. IsFiniteSet(S \cap T)
  <2>1. S \cap T \in SUBSET S
    OBVIOUS
  <2>2. QED
    BY <2>1, FS_Subset
<1>3. /\ Cardinality(S \cup T) \in Nat /\ Cardinality(S) \in Nat /\ Cardinality(T) \in Nat
      /\ Cardinality(S \cap T) \in Nat
  BY <1>1, <1>2, FS_CardinalityType
<1>4. QED
  BY <1>1, <1>3

LEMMA RacingNat ==
  /\ Racing \in Nat /\ Cardinality(Handler) = Racing + 1
  /\ \A F \in SUBSET Handler :
       /\ IsFiniteSet(Handler \ F) /\ Cardinality(Handler \ F) \in Nat
       /\ Cardinality(Handler \ F) <= Racing + 1
       /\ F # {} => Cardinality(Handler \ F) <= Racing
  /\ \A F \in SUBSET Handler, h \in Handler : h \in F =>
       Cardinality(Handler \ (F \ {h})) = Cardinality(Handler \ F) + 1
<1>1. IsFiniteSet(Handler) /\ Handler # {}
  BY AdmissionAssumption
<1>2. Cardinality(Handler) \in Nat /\ Cardinality(Handler) # 0
  BY <1>1, FS_CardinalityType, FS_EmptySet
<1>3. Racing \in Nat /\ Cardinality(Handler) = Racing + 1
  BY <1>2 DEF Racing
<1>4. ASSUME NEW F \in SUBSET Handler
      PROVE  /\ IsFiniteSet(Handler \ F) /\ Cardinality(Handler \ F) \in Nat
             /\ Cardinality(Handler \ F) <= Racing + 1
             /\ F # {} => Cardinality(Handler \ F) <= Racing
  <2>1. /\ IsFiniteSet(Handler \ F) /\ Cardinality(Handler \ F) \in Nat
        /\ Cardinality(Handler \ F) <= Cardinality(Handler)
    <3>1. Handler \ F \subseteq Handler
      OBVIOUS
    <3>2. QED
      BY <1>1, <3>1, Sizes
  <2>2. ASSUME F # {} PROVE Cardinality(Handler \ F) <= Racing
    <3>1. PICK h \in Handler : h \in F
      BY <2>2
    <3>2. IsFiniteSet(Handler \ {h}) /\ Cardinality(Handler \ {h}) = Cardinality(Handler) - 1
      BY <1>1, FS_RemoveElement
    <3>3. Handler \ F \subseteq Handler \ {h}
      BY <3>1
    <3>4. /\ Cardinality(Handler \ F) <= Cardinality(Handler \ {h})
          /\ Cardinality(Handler \ {h}) \in Nat
      BY <3>2, <3>3, Sizes
    <3>5. QED
      BY <1>3, <2>1, <3>2, <3>4
  <2>3. QED
    BY <1>3, <2>1, <2>2
<1>5. ASSUME NEW F \in SUBSET Handler, NEW h \in Handler, h \in F
      PROVE  Cardinality(Handler \ (F \ {h})) = Cardinality(Handler \ F) + 1
  <2>1. IsFiniteSet(Handler \ F)
    BY <1>4
  <2>2. Handler \ (F \ {h}) = (Handler \ F) \cup {h} /\ h \notin Handler \ F
    BY <1>5
  <2>3. QED
    BY <2>1, <2>2, FS_AddElement
<1>6. QED
  BY <1>3, <1>4, <1>5

LimitKept(S, B, F, m, w, limit) ==
  /\ Cardinality(S) <= limit + (Racing + m) * w
  /\ Cardinality(S \ B) <= (Cardinality(Handler \ F) + m) * w

LEMMA KeptQuiet ==
  ASSUME NEW S, IsFiniteSet(S), NEW T, T \subseteq S, NEW B,
         NEW F \in SUBSET Handler, NEW G, G \subseteq F,
         NEW m \in Nat, NEW w \in Nat, NEW limit \in Nat, LimitKept(S, B, F, m, w, limit)
  PROVE  LimitKept(T, B, G, m, w, limit)
<1>1. Cardinality(T) <= Cardinality(S) /\ Cardinality(T) \in Nat /\ Cardinality(S) \in Nat
  BY Sizes
<1>2. /\ Cardinality(T \ B) <= Cardinality(S \ B)
      /\ Cardinality(T \ B) \in Nat /\ Cardinality(S \ B) \in Nat
  <2>1. S \ B \subseteq S /\ T \ B \subseteq S \ B
    OBVIOUS
  <2>2. IsFiniteSet(S \ B)
    BY <2>1, Sizes
  <2>3. QED
    BY <2>1, <2>2, Sizes
<1> DEFINE f == Cardinality(Handler \ F)
           g == Cardinality(Handler \ G)
<1>3. f \in Nat /\ g \in Nat /\ f <= g
  <2>1. G \in SUBSET Handler /\ Handler \ F \subseteq Handler \ G
    OBVIOUS
  <2>2. IsFiniteSet(Handler \ G)
    BY <2>1, RacingNat
  <2>3. QED
    BY <2>1, <2>2, Sizes
<1>4. (f + m) * w <= (g + m) * w /\ (f + m) * w \in Nat /\ (g + m) * w \in Nat
  <2>1. f + m \in Nat /\ g + m \in Nat /\ f + m <= g + m
    BY <1>3
  <2> HIDE DEF f, g
  <2>2. QED
    BY <2>1, Times
<1>5. (Racing + m) * w \in Nat
  BY RacingNat, Times
<1>6. QED
  BY <1>1, <1>2, <1>4, <1>5 DEF LimitKept

LEMMA KeptRebuild ==
  ASSUME NEW S, IsFiniteSet(S), NEW T, T \subseteq S, NEW A, NEW B,
         NEW F, NEW G \in SUBSET Handler,
         NEW m \in Nat, NEW w \in Nat, NEW limit \in Nat, LimitKept(S, A, F, m, w, limit),
         Cardinality(T \ B) <= Cardinality(Handler \ G) * w
  PROVE  LimitKept(T, B, G, m, w, limit)
<1>1. Cardinality(T) <= Cardinality(S) /\ Cardinality(T) \in Nat /\ Cardinality(S) \in Nat
  BY Sizes
<1>2. Cardinality(T \ B) \in Nat
  <2>1. T \ B \subseteq S
    OBVIOUS
  <2>2. QED
    BY <2>1, Sizes
<1> DEFINE g == Cardinality(Handler \ G)
<1>3. g \in Nat
  BY RacingNat
<1>4. g * w <= (g + m) * w /\ g * w \in Nat /\ (g + m) * w \in Nat
  <2>1. g + m \in Nat /\ g <= g + m
    BY <1>3
  <2> HIDE DEF g
  <2>2. QED
    BY <1>3, <2>1, Times
<1>5. (Racing + m) * w \in Nat
  BY RacingNat, Times
<1>6. QED
  BY <1>1, <1>2, <1>4, <1>5 DEF LimitKept

LEMMA KeptDecided ==
  ASSUME NEW S, IsFiniteSet(S), NEW T, NEW X, IsFiniteSet(X), T \subseteq S \cup X,
         NEW B, IsFiniteSet(B), NEW F \in SUBSET Handler, NEW h \in Handler, h \in F,
         NEW m \in Nat, NEW w \in Nat, NEW limit \in Nat, LimitKept(S, B, F, m, w, limit),
         Cardinality(X) <= w, Cardinality(B) + Cardinality(X) <= limit
  PROVE  LimitKept(T, B, F \ {h}, m, w, limit)
<1> DEFINE f == Cardinality(Handler \ F)
           d == Cardinality(S \ B)
           x == Cardinality(X)
           b == Cardinality(B)
<1>1. /\ IsFiniteSet(S \ B) /\ d \in Nat /\ x \in Nat /\ b \in Nat
  <2>1. S \ B \subseteq S
    OBVIOUS
  <2>2. IsFiniteSet(S \ B)
    BY <2>1, Sizes
  <2>3. QED
    BY <2>2, FS_CardinalityType
<1>2. f \in Nat /\ f <= Racing /\ Cardinality(Handler \ (F \ {h})) = f + 1
  BY RacingNat
<1>3. /\ (f + m) * w <= (Racing + m) * w /\ (f + m) * w \in Nat /\ (Racing + m) * w \in Nat
      /\ ((f + 1) + m) * w = (f + m) * w + w
  <2>0. f \in Nat /\ Racing \in Nat /\ f <= Racing
    BY <1>2, RacingNat
  <2> HIDE DEF f
  <2>1. f + m \in Nat /\ Racing + m \in Nat /\ f + m <= Racing + m /\ (f + 1) + m = (f + m) + 1
    BY <2>0
  <2>2. QED
    BY <2>1, Times
<1>4. d <= (f + m) * w
  BY DEF LimitKept
<1>5. Cardinality(T \ B) \in Nat /\ Cardinality(T \ B) <= d + x
  <2>1. T \ B \subseteq (S \ B) \cup X
    OBVIOUS
  <2>2. IsFiniteSet((S \ B) \cup X) /\ Cardinality((S \ B) \cup X) <= d + x
    BY <1>1, Sums
  <2>3. /\ Cardinality(T \ B) <= Cardinality((S \ B) \cup X)
        /\ Cardinality(T \ B) \in Nat /\ Cardinality((S \ B) \cup X) \in Nat
    BY <2>1, <2>2, Sizes
  <2>4. QED
    BY <1>1, <2>2, <2>3
<1>6. Cardinality(T) \in Nat /\ Cardinality(T) <= b + (d + x)
  <2>1. T \subseteq B \cup ((S \ B) \cup X)
    OBVIOUS
  <2>2. /\ IsFiniteSet((S \ B) \cup X) /\ Cardinality((S \ B) \cup X) <= d + x
        /\ Cardinality((S \ B) \cup X) \in Nat
    BY <1>1, Sums
  <2>3. /\ IsFiniteSet(B \cup ((S \ B) \cup X))
        /\ Cardinality(B \cup ((S \ B) \cup X)) <= b + Cardinality((S \ B) \cup X)
    BY <2>2, Sums
  <2>4. /\ Cardinality(T) <= Cardinality(B \cup ((S \ B) \cup X))
        /\ Cardinality(T) \in Nat /\ Cardinality(B \cup ((S \ B) \cup X)) \in Nat
    BY <2>1, <2>3, Sizes
  <2>5. QED
    BY <1>1, <2>2, <2>3, <2>4
<1> HIDE DEF f, d, x, b
<1>7. Cardinality(T) <= limit + (Racing + m) * w
  <2>1. b + x <= limit
    BY DEF b, x
  <2>2. QED
    BY <1>1, <1>3, <1>4, <1>6, <2>1
<1>8. Cardinality(T \ B) <= ((f + 1) + m) * w
  <2>1. x <= w
    BY DEF x
  <2>2. QED
    BY <1>1, <1>3, <1>4, <1>5, <2>1
<1>9. QED
  BY <1>2, <1>7, <1>8 DEF LimitKept

LEMMA KeptMoved ==
  ASSUME NEW S, IsFiniteSet(S), NEW T, NEW X, IsFiniteSet(X), T \subseteq S \cup X,
         NEW B, NEW F \in SUBSET Handler,
         NEW m \in Nat, NEW w \in Nat, NEW limit \in Nat, LimitKept(S, B, F, m, w, limit),
         Cardinality(X) <= w
  PROVE  LimitKept(T, B, F, m + 1, w, limit)
<1> DEFINE f == Cardinality(Handler \ F)
           d == Cardinality(S \ B)
           s == Cardinality(S)
           x == Cardinality(X)
<1>1. IsFiniteSet(S \ B) /\ d \in Nat /\ x \in Nat /\ s \in Nat /\ f \in Nat /\ x <= w
  <2>1. S \ B \subseteq S
    OBVIOUS
  <2>2. IsFiniteSet(S \ B)
    BY <2>1, Sizes
  <2>3. QED
    BY <2>2, FS_CardinalityType, RacingNat
<1>2. /\ (f + m) * w \in Nat /\ (Racing + m) * w \in Nat
      /\ (f + (m + 1)) * w = (f + m) * w + w
      /\ (Racing + (m + 1)) * w = (Racing + m) * w + w
  <2>1. /\ f + m \in Nat /\ Racing + m \in Nat /\ f + (m + 1) = (f + m) + 1
        /\ Racing + (m + 1) = (Racing + m) + 1
    BY <1>1, RacingNat
  <2> HIDE DEF f
  <2>2. QED
    BY <2>1, Times
<1>3. d <= (f + m) * w /\ s <= limit + (Racing + m) * w
  BY DEF LimitKept
<1>4. Cardinality(T \ B) \in Nat /\ Cardinality(T \ B) <= d + x
  <2>1. T \ B \subseteq (S \ B) \cup X
    OBVIOUS
  <2>2. IsFiniteSet((S \ B) \cup X) /\ Cardinality((S \ B) \cup X) <= d + x
    BY <1>1, Sums
  <2>3. /\ Cardinality(T \ B) <= Cardinality((S \ B) \cup X)
        /\ Cardinality(T \ B) \in Nat /\ Cardinality((S \ B) \cup X) \in Nat
    BY <2>1, <2>2, Sizes
  <2>4. QED
    BY <1>1, <2>2, <2>3
<1>5. Cardinality(T) \in Nat /\ Cardinality(T) <= s + x
  <2>1. IsFiniteSet(S \cup X) /\ Cardinality(S \cup X) <= s + x
    BY Sums
  <2>2. /\ Cardinality(T) <= Cardinality(S \cup X)
        /\ Cardinality(T) \in Nat /\ Cardinality(S \cup X) \in Nat
    BY <2>1, Sizes
  <2>3. QED
    BY <1>1, <2>1, <2>2
<1> HIDE DEF f, d, s, x
<1>6. /\ Cardinality(T) <= limit + (Racing + (m + 1)) * w
      /\ Cardinality(T \ B) <= (f + (m + 1)) * w
  BY <1>1, <1>2, <1>3, <1>4, <1>5
<1>7. QED
  BY <1>6 DEF LimitKept, f

LEMMA FromChildren ==
  ASSUME NEW P, IsFiniteSet(P), NEW w \in Nat, NEW f,
         NEW T, \A u \in T : \E h \in P, n \in 1..w : u = <<f[h], n>>
  PROVE  IsFiniteSet(T) /\ Cardinality(T) <= Cardinality(P) * w
<1> DEFINE D == P \X (1..w)
           g == [v \in D |-> <<f[v[1]], v[2]>>]
           R == {g[v] : v \in D}
<1>1. IsFiniteSet(D) /\ Cardinality(D) = Cardinality(P) * w
  <2>1. IsFiniteSet(1..w) /\ Cardinality(1..w) = w
    <3>1. IsFiniteSet(1..w) /\ Cardinality(1..w) = IF 1 > w THEN 0 ELSE (w - 1) + 1
      BY FS_Interval
    <3>2. QED
      BY <3>1
  <2>2. QED
    BY <2>1, FS_Product
<1>2. g \in Surjection(D, R)
  BY DEF Surjection
<1>3. IsFiniteSet(R) /\ Cardinality(R) <= Cardinality(D)
  BY <1>1, <1>2, FS_Surjection
<1>4. T \subseteq R
  <2> SUFFICES ASSUME NEW u \in T PROVE u \in R
    OBVIOUS
  <2>1. PICK h \in P : \E n \in 1..w : u = <<f[h], n>>
    OBVIOUS
  <2>2. PICK n \in 1..w : u = <<f[h], n>>
    BY <2>1
  <2>3. <<h, n>> \in D /\ g[<<h, n>>] = u
    BY <2>2
  <2>4. QED
    BY <2>3
<1>5. IsFiniteSet(T) /\ Cardinality(T) <= Cardinality(R)
      /\ Cardinality(T) \in Nat /\ Cardinality(R) \in Nat
  BY <1>3, <1>4, Sizes
<1>6. Cardinality(D) \in Nat
  BY <1>1, FS_CardinalityType
<1>7. QED
  BY <1>1, <1>3, <1>5, <1>6

-----------------------------------------------------------------------------
(* Quotas.  Each limit and each budget of an agent, an initiative, a       *)
(* parent or a family is a quota of its own: a row counts for it with      *)
(* units 1..weight (one for a limit, the tokens for a budget), a decision  *)
(* sees the units of the last rebuild, and a request asks for units.  A    *)
(* child claims what it was granted until its records are in the ledger,   *)
(* and at its routing record what that makes of the row.                   *)

IsQuota(l) ==
  /\ l.weight \in Nat /\ l.limit \in Nat
  /\ l.waits \in {{"decide"}, {"decide", "capacity"}}
  /\ \A n \in 1..l.weight :
       /\ l.counts[n] \subseteq l.seen[n]
       /\ \A r \in Requests : PackageRow(Written(r)) \in l.counts[n] => r \in l.asks[n]
       /\ \/ \A row \in Row, a \in Agent : Opened(row, a) \in l.counts[n] <=> row \in l.counts[n]
          \/ \A row \in Row, r \in Requests : Opened(row, RouteAgent(r)) \in l.counts[n] <=> r \in l.asks[n]

(* Where a child has passed the decision, and is to append what it asked.  *)
Granted(l) ==
  IF "capacity" \in l.waits THEN {"request", "package"}
  ELSE {"recount", "capacity", "request", "package"}

Units(l) == Task \X (1..l.weight)
Routed(h) == Opened(rows[child[h].req.task], RouteAgent(child[h].req))

Counted(l, u) == rows[u[1]].active /\ rows[u[1]] \in l.counts[u[2]]
Claimed(l, h, u) ==
  /\ child[h].pc \in Granted(l) \cup {"route"}
  /\ child[h].req.task = u[1]
  /\ \/ child[h].pc \in Granted(l) /\ child[h].req \in l.asks[u[2]]
     \/ child[h].pc = "route" /\ Routed(h) \in l.counts[u[2]]

Load(l) == {u \in Units(l) : Counted(l, u) \/ \E h \in Handler : Claimed(l, h, u)}
Base(l) == {u \in Units(l) : db[u[1]].active /\ db[u[1]] \in l.seen[u[2]]}
Waiting(l) == {h \in Handler : child[h].pc \in l.waits}

QuotaKept(l) == LimitKept(Load(l), Base(l), Waiting(l), moves, l.weight, l.limit)

Asked(l, r) == {u \in Units(l) : u[1] = r.task /\ r \in l.asks[u[2]]}
Admits(l, r) == Asked(l, r) = {} \/ Cardinality(Base(l)) + Cardinality(Asked(l, r)) <= l.limit

LEMMA GrantedSteps ==
  ASSUME NEW l, IsQuota(l)
  PROVE  /\ "request" \in Granted(l) /\ "package" \in Granted(l)
         /\ Granted(l) \subseteq {"recount", "capacity", "request", "package"}
         /\ Granted(l) \cap l.waits = {} /\ "decide" \in l.waits
         /\ "capacity" \in l.waits <=> "capacity" \notin Granted(l)
         /\ "recount" \in Granted(l) <=> "capacity" \in Granted(l)
         /\ l.waits \subseteq {"decide", "capacity"}
<1>1. CASE l.waits = {"decide"}
  BY <1>1 DEF Granted
<1>2. CASE l.waits = {"decide", "capacity"}
  BY <1>2 DEF Granted
<1>3. QED
  BY <1>1, <1>2 DEF IsQuota

LEMMA UnitsFinite ==
  ASSUME NEW l, IsQuota(l)
  PROVE  /\ IsFiniteSet(Load(l)) /\ IsFiniteSet(Base(l))
         /\ \A T \in SUBSET Units(l) : IsFiniteSet(T)
         /\ \A t \in Task : \A T \in SUBSET Units(l) :
              (\A u \in T : u[1] = t) => Cardinality(T) <= l.weight
<1>1. IsFiniteSet(1..l.weight) /\ IsFiniteSet(Task) /\ l.weight \in Nat
  <2>1. l.weight \in Nat /\ IsFiniteSet(Task)
    BY AdmissionAssumption DEF IsQuota
  <2>2. 1 \in Int /\ l.weight \in Int
    BY <2>1
  <2>3. IsFiniteSet(1..l.weight)
    BY <2>2, FS_Interval
  <2>4. QED
    BY <2>1, <2>3
<1>2. IsFiniteSet(Units(l))
  BY <1>1, FS_Product DEF Units
<1>3. \A T \in SUBSET Units(l) : IsFiniteSet(T)
  BY <1>2, FS_Subset
<1>4. ASSUME NEW t \in Task, NEW T \in SUBSET Units(l), \A u \in T : u[1] = t
      PROVE  Cardinality(T) <= l.weight
  <2>1. \A u \in T : \E h \in {t}, n \in 1..l.weight : u = <<[x \in {t} |-> x][h], n>>
    BY <1>4 DEF Units
  <2>2. IsFiniteSet({t}) /\ Cardinality({t}) = 1
    BY FS_Singleton
  <2>3. Cardinality(T) <= Cardinality({t}) * l.weight
    BY <1>1, <2>1, <2>2, FromChildren
  <2>4. QED
    BY <1>1, <2>2, <2>3
<1>5. Load(l) \in SUBSET Units(l) /\ Base(l) \in SUBSET Units(l)
  BY DEF Load, Base
<1>6. QED
  BY <1>3, <1>4, <1>5

LEMMA QuotaFacts ==
  ASSUME TypeOK, NEW l, IsQuota(l)
  PROVE  /\ IsFiniteSet(Load(l)) /\ IsFiniteSet(Base(l)) /\ Waiting(l) \in SUBSET Handler
         /\ moves \in Nat /\ l.weight \in Nat /\ l.limit \in Nat
         /\ db' = db => Base(l)' = Base(l)
<1>1. IsFiniteSet(Load(l)) /\ IsFiniteSet(Base(l))
  BY UnitsFinite
<1>2. Waiting(l) \in SUBSET Handler
  BY DEF Waiting
<1>3. moves \in Nat
  BY AdmissionAssumption DEF TypeOK
<1>4. l.weight \in Nat /\ l.limit \in Nat
  BY DEF IsQuota
<1>5. ASSUME db' = db PROVE Base(l)' = Base(l)
  BY <1>5 DEF Base, Units
<1>6. QED
  BY <1>1, <1>2, <1>3, <1>4, <1>5

(* A step that adds to no load and decides nothing.                        *)
LEMMA QuotaQuiet ==
  ASSUME TypeOK, NEW l, IsQuota(l), QuotaKept(l), UNCHANGED <<db, moves>>,
         Load(l)' \subseteq Load(l), Waiting(l)' \subseteq Waiting(l)
  PROVE  QuotaKept(l)'
<1>1. /\ IsFiniteSet(Load(l)) /\ Base(l)' = Base(l) /\ Waiting(l) \in SUBSET Handler
      /\ moves \in Nat /\ l.weight \in Nat /\ l.limit \in Nat
  BY QuotaFacts
<1>2. LimitKept(Load(l)', Base(l), Waiting(l)', moves, l.weight, l.limit)
  BY <1>1, KeptQuiet DEF QuotaKept
<1>3. QED
  BY <1>1, <1>2 DEF QuotaKept

(* A child that decides takes what it asks for, if the quota admits it.    *)
LEMMA QuotaDecided ==
  ASSUME TypeOK, NEW l, IsQuota(l), QuotaKept(l), UNCHANGED <<db, moves>>,
         NEW h \in Handler, h \in Waiting(l), Waiting(l)' = Waiting(l) \ {h},
         NEW r \in Requests, Admits(l, r), Load(l)' \subseteq Load(l) \cup Asked(l, r)
  PROVE  QuotaKept(l)'
<1>1. CASE Asked(l, r) = {}
  BY <1>1, QuotaQuiet
<1>2. CASE Asked(l, r) # {}
  <2>1. /\ IsFiniteSet(Load(l)) /\ IsFiniteSet(Base(l)) /\ Base(l)' = Base(l)
        /\ Waiting(l) \in SUBSET Handler
        /\ moves \in Nat /\ l.weight \in Nat /\ l.limit \in Nat
    BY QuotaFacts
  <2>2. Asked(l, r) \in SUBSET Units(l) /\ \A u \in Asked(l, r) : u[1] = r.task
    BY DEF Asked
  <2>3. IsFiniteSet(Asked(l, r)) /\ Cardinality(Asked(l, r)) <= l.weight
    BY <2>2, UnitsFinite, RequestParts
  <2>4. Cardinality(Base(l)) + Cardinality(Asked(l, r)) <= l.limit
    BY <1>2 DEF Admits
  <2>5. LimitKept(Load(l)', Base(l), Waiting(l) \ {h}, moves, l.weight, l.limit)
    BY <2>1, <2>3, <2>4, KeptDecided DEF QuotaKept
  <2>6. QED
    BY <2>1, <2>5 DEF QuotaKept
<1>3. QED
  BY <1>1, <1>2

(* A task that is moved may take what it has to another quota.             *)
LEMMA QuotaMoved ==
  ASSUME TypeOK, NEW l, IsQuota(l), QuotaKept(l), db' = db, moves' = moves + 1,
         Waiting(l)' = Waiting(l), NEW t \in Task,
         Load(l)' \subseteq Load(l) \cup {u \in Units(l) : u[1] = t}
  PROVE  QuotaKept(l)'
<1> DEFINE X == {u \in Units(l) : u[1] = t}
<1>1. /\ IsFiniteSet(Load(l)) /\ Base(l)' = Base(l) /\ Waiting(l) \in SUBSET Handler
      /\ moves \in Nat /\ l.weight \in Nat /\ l.limit \in Nat
  BY QuotaFacts
<1>2. X \in SUBSET Units(l) /\ \A u \in X : u[1] = t
  OBVIOUS
<1>3. IsFiniteSet(X) /\ Cardinality(X) <= l.weight
  BY <1>2, UnitsFinite
<1>4. LimitKept(Load(l)', Base(l), Waiting(l), moves + 1, l.weight, l.limit)
  BY <1>1, <1>3, KeptMoved DEF QuotaKept
<1>5. QED
  BY <1>1, <1>4 DEF QuotaKept

(* A rebuild sees all but what children claim, and each claims at most     *)
(* what one adds.                                                          *)
LEMMA QuotaRebuilt ==
  ASSUME TypeOK, TypeOK', NEW l, IsQuota(l), QuotaKept(l), db' = rows, UNCHANGED <<rows, moves>>,
         Load(l)' \subseteq Load(l)
  PROVE  QuotaKept(l)'
<1>1. /\ IsFiniteSet(Load(l)) /\ Waiting(l)' \in SUBSET Handler
      /\ moves \in Nat /\ l.weight \in Nat /\ l.limit \in Nat
  <2>1. Waiting(l)' \in SUBSET Handler
    BY DEF Waiting
  <2>2. QED
    BY <2>1, QuotaFacts
<1> DEFINE P == Handler \ Waiting(l)'
           f == [h \in Handler |-> child'[h].req.task]
           T == Load(l)' \ Base(l)'
<1>2. IsFiniteSet(P)
  BY <1>1, RacingNat
<1>3. \A u \in T : \E h \in P, n \in 1..l.weight : u = <<f[h], n>>
  <2> SUFFICES ASSUME NEW u \in T PROVE \E h \in P, n \in 1..l.weight : u = <<f[h], n>>
    OBVIOUS
  <2>1. u \in Units(l) /\ u \notin Base(l)'
    BY DEF Load, Units
  <2>2. u[1] \in Task /\ u[2] \in 1..l.weight /\ u = <<u[1], u[2]>>
    BY <2>1 DEF Units
  <2>3. ~Counted(l, u)'
    BY <2>1, <2>2 DEF Base, Counted, IsQuota, Units
  <2>4. PICK h \in Handler : Claimed(l, h, u)'
    BY <2>3 DEF Load
  <2>5. /\ child'[h].pc \in Granted(l) \cup {"route"}
        /\ f[h] = u[1]
    BY <2>4 DEF Claimed, Granted
  <2>6. h \in P
    BY <2>5, GrantedSteps DEF Waiting
  <2>7. QED
    BY <2>2, <2>5, <2>6
<1>4. Cardinality(T) <= Cardinality(P) * l.weight
  <2> HIDE DEF P, f, T
  <2>1. QED
    BY <1>1, <1>2, <1>3, FromChildren
<1>5. LimitKept(Load(l)', Base(l)', Waiting(l)', moves, l.weight, l.limit)
  BY <1>1, <1>4, KeptRebuild DEF QuotaKept
<1>6. QED
  BY <1>5 DEF QuotaKept

(* The claims of the children that do not move, and what an event makes of *)
(* the rows that others are to route.                                      *)
LEMMA ClaimKept ==
  ASSUME NEW l, NEW k \in Handler, NEW u, child'[k] = child[k],
         child[k].pc = "route" => Routed(k)' = Routed(k), Claimed(l, k, u)'
  PROVE  Claimed(l, k, u)
  BY GrantedSteps DEF Claimed, Granted

LEMMA EventRouted ==
  ASSUME NEW t \in Task, \A u \in Task \ {t} : rows'[u] = rows[u],
         \A c : Opened(rows'[t], c) = Opened(rows[t], c),
         NEW k \in Handler, child[k].pc # "idle", ChildTyped, child'[k] = child[k]
  PROVE  Routed(k)' = Routed(k)
<1>1. child[k].req.task \in Task
  BY BusyFields
<1>2. \A u \in Task : \A c : Opened(rows'[u], c) = Opened(rows[u], c)
  OBVIOUS
<1>3. QED
  BY <1>1, <1>2 DEF Routed

LEMMA LoadOfChild ==
  ASSUME NEW l, IsQuota(l), rows' = rows, NEW h \in Handler,
         \A k \in Handler \ {h} : child'[k] = child[k],
         NEW X, \A u \in Units(l) : Claimed(l, h, u)' => Claimed(l, h, u) \/ u \in X
  PROVE  Load(l)' \subseteq Load(l) \cup X
<1> SUFFICES ASSUME NEW u \in Load(l)', u \notin X PROVE u \in Load(l)
  OBVIOUS
<1>1. u \in Units(l) /\ (Counted(l, u)' \/ \E k \in Handler : Claimed(l, k, u)')
  BY DEF Load, Units
<1>2. CASE Counted(l, u)'
  BY <1>1, <1>2 DEF Load, Counted
<1>3. ASSUME NEW k \in Handler, Claimed(l, k, u)' PROVE Claimed(l, k, u)
  <2>1. CASE k = h
    BY <1>1, <1>3, <2>1
  <2>2. CASE k # h
    <3>1. child'[k] = child[k] /\ Routed(k)' = Routed(k)
      BY <2>2 DEF Routed
    <3>2. QED
      BY <1>3, <3>1, ClaimKept
  <2>3. QED
    BY <2>1, <2>2
<1>4. QED
  BY <1>1, <1>2, <1>3 DEF Load

(* An event on a task adds at most its units; every other one is as it was. *)
LEMMA ClaimOfEvent ==
  ASSUME NEW l, IsQuota(l), ChildTyped,
         NEW t \in Task, \A u \in Task \ {t} : rows'[u] = rows[u],
         \A c : Opened(rows'[t], c) = Opened(rows[t], c),
         NEW k \in Handler, child'[k] = child[k], NEW u, Claimed(l, k, u)'
  PROVE  Claimed(l, k, u)
<1>1. child[k].pc # "idle"
  BY GrantedSteps DEF Claimed, Granted
<1>2. Routed(k)' = Routed(k)
  BY <1>1, EventRouted
<1>3. QED
  BY <1>2, ClaimKept

LEMMA LoadOfEvent ==
  ASSUME NEW l, IsQuota(l), NEW t \in Task, \A u \in Task \ {t} : rows'[u] = rows[u],
         NEW X,
         \A u \in Units(l), k \in Handler : Claimed(l, k, u)' => Claimed(l, k, u),
         \A n \in 1..l.weight :
           (rows'[t].active /\ rows'[t] \in l.counts[n]) => <<t, n>> \in Load(l) \cup X
  PROVE  Load(l)' \subseteq Load(l) \cup X
<1> SUFFICES ASSUME NEW u \in Load(l)', u \notin X PROVE u \in Load(l)
  OBVIOUS
<1>1. u \in Units(l) /\ (Counted(l, u)' \/ \E k \in Handler : Claimed(l, k, u)')
  BY DEF Load, Units
<1>2. CASE Counted(l, u)'
  <2>1. CASE u[1] # t
    <3>1. u[1] \in Task
      BY <1>1 DEF Units
    <3>2. rows'[u[1]] = rows[u[1]]
      BY <2>1, <3>1
    <3>3. QED
      BY <1>1, <1>2, <3>2 DEF Load, Counted
  <2>2. CASE u[1] = t
    <3>1. u = <<t, u[2]>> /\ u[2] \in 1..l.weight
      BY <1>1, <2>2 DEF Units
    <3>2. rows'[t].active /\ rows'[t] \in l.counts[u[2]]
      BY <1>2, <2>2 DEF Counted
    <3>3. QED
      BY <3>1, <3>2
  <2>3. QED
    BY <2>1, <2>2
<1>3. CASE \E k \in Handler : Claimed(l, k, u)'
  BY <1>1, <1>3 DEF Load
<1>4. QED
  BY <1>1, <1>2, <1>3

(* The records of a child move its claim into the rows.                    *)
LEMMA LoadOfRequest ==
  ASSUME TypeOK, NEW l, IsQuota(l), NEW h \in Handler, AppendRequest(h)
  PROVE  Load(l)' \subseteq Load(l)
<1> DEFINE r == child[h].req
<1>1. rows \in [Task -> Row] /\ ChildTyped
  BY TypeParts
<1>2. /\ child[h].pc = "request" /\ r \in Requests /\ r.task \in Task /\ RouteAgent(r) \in Agent
      /\ child'[h].pc = "package" /\ child'[h].req = r
      /\ \A k \in Handler \ {h} : child'[k] = child[k]
  BY <1>1, BusyFields, GoesFields, Routing DEF AppendRequest, At, Steps
<1>3. "request" \in Granted(l) /\ "package" \in Granted(l) /\ "request" # "route" /\ "package" # "route"
  BY GrantedSteps
<1>4. \A u \in Units(l) : Claimed(l, h, u)' => Claimed(l, h, u)
  BY <1>2, <1>3 DEF Claimed, Granted
<1>0. /\ \A u \in Task \ {r.task} : rows'[u] = rows[u]
      /\ \A c : Opened(rows'[r.task], c) = Opened(rows[r.task], c)
      /\ rows'[r.task].active =>
           rows[r.task].active /\ rows'[r.task] = Opened(rows[r.task], RouteAgent(r))
  <2>1. InsertEvent(r.task, RouteAgent(r), rows[r.task].active) /\ rows[r.task].active \in BOOLEAN
    BY <1>1, <1>2 DEF AppendRequest, Row
  <2>2. QED
    BY <1>1, <1>2, <2>1, EventTyped
<1>5. ASSUME NEW n \in 1..l.weight, rows'[r.task].active, rows'[r.task] \in l.counts[n]
      PROVE  <<r.task, n>> \in Load(l) \cup {}
  <2>1. rows[r.task] \in Row /\ <<r.task, n>> \in Units(l)
    BY <1>1, <1>2 DEF Units
  <2>2. rows[r.task] \in l.counts[n] \/ r \in l.asks[n]
    BY <1>0, <1>2, <1>5, <2>1 DEF IsQuota
  <2>3. Counted(l, <<r.task, n>>) \/ Claimed(l, h, <<r.task, n>>)
    BY <1>0, <1>2, <1>3, <1>5, <2>2 DEF Counted, Claimed
  <2>4. QED
    BY <2>1, <2>3 DEF Load
<1>6. \A u \in Units(l), k \in Handler : Claimed(l, k, u)' => Claimed(l, k, u)
  BY <1>0, <1>1, <1>2, <1>4, ClaimOfEvent
<1> HIDE DEF r
<1>7. Load(l)' \subseteq Load(l) \cup {}
  BY <1>0, <1>1, <1>2, <1>5, <1>6, LoadOfEvent
<1>8. QED
  BY <1>7

LEMMA LoadOfRouting ==
  ASSUME TypeOK, NEW l, IsQuota(l), NEW h \in Handler, AppendRouting(h)
  PROVE  Load(l)' \subseteq Load(l)
<1> DEFINE r == child[h].req
<1>1. rows \in [Task -> Row] /\ ChildTyped
  BY TypeParts
<1>2. /\ child[h].pc = "route" /\ r \in Requests /\ r.task \in Task /\ RouteAgent(r) \in Agent
      /\ child'[h].pc = "idle" /\ \A k \in Handler \ {h} : child'[k] = child[k]
  BY <1>1, BusyFields, EndsFields, Routing DEF AppendRouting, At, Steps
<1>3. \A u \in Units(l) : Claimed(l, h, u)' => Claimed(l, h, u)
  BY <1>2, GrantedSteps DEF Claimed, Granted
<1>0. /\ \A u \in Task \ {r.task} : rows'[u] = rows[u]
      /\ \A c : Opened(rows'[r.task], c) = Opened(rows[r.task], c)
      /\ rows'[r.task].active => rows'[r.task] = Opened(rows[r.task], RouteAgent(r))
  <2>1. InsertEvent(r.task, RouteAgent(r), TRUE) /\ TRUE \in BOOLEAN
    BY DEF AppendRouting
  <2>2. QED
    BY <1>1, <1>2, <2>1, EventTyped
<1>4. ASSUME NEW n \in 1..l.weight, rows'[r.task].active, rows'[r.task] \in l.counts[n]
      PROVE  <<r.task, n>> \in Load(l) \cup {}
  <2>1. Claimed(l, h, <<r.task, n>>)
    BY <1>0, <1>2, <1>4 DEF Claimed, Routed
  <2>2. QED
    BY <1>2, <2>1 DEF Load, Units
<1>5. \A u \in Units(l), k \in Handler : Claimed(l, k, u)' => Claimed(l, k, u)
  BY <1>0, <1>1, <1>2, <1>3, ClaimOfEvent
<1> HIDE DEF r
<1>6. Load(l)' \subseteq Load(l) \cup {}
  BY <1>0, <1>1, <1>2, <1>4, <1>5, LoadOfEvent
<1>7. QED
  BY <1>6

LEMMA LoadOfPackage ==
  ASSUME TypeOK, NEW l, IsQuota(l), NEW h \in Handler, AppendPackage(h)
  PROVE  Load(l)' \subseteq Load(l)
<1> DEFINE r == child[h].req
           row == PackageRow(Written(r))
<1>1. rows \in [Task -> Row] /\ ChildTyped
  BY TypeParts
<1>2. /\ child[h].pc = "package" /\ r \in Requests /\ r.task \in Task
      /\ rows'[r.task] = row /\ row \in Row
      /\ \A u \in Task \ {r.task} : rows'[u] = rows[u]
  BY <1>1, BusyFields, AppendWritten, ProjectTyped, PackageTyped DEF At
<1>3. /\ child'[h].pc = "idle" \/ (child'[h].pc = "route" /\ child'[h].req = r)
      /\ \A k \in Handler \ {h} : child'[k] = child[k]
  BY <1>1, <1>2, AppendWritten, GoesFields, EndsFields DEF Steps
<1>4. ASSUME NEW u \in Units(l), r \in l.asks[u[2]], u[1] = r.task PROVE u \in Load(l)
  <2>1. Claimed(l, h, u)
    BY <1>2, <1>4, GrantedSteps DEF Claimed
  <2>2. QED
    BY <2>1 DEF Load
<1> SUFFICES ASSUME NEW u \in Load(l)' PROVE u \in Load(l)
  OBVIOUS
<1>5. /\ u \in Units(l) /\ u[1] \in Task /\ u[2] \in 1..l.weight
      /\ Counted(l, u)' \/ \E k \in Handler : Claimed(l, k, u)'
  BY DEF Load, Units
<1>6. row \in l.counts[u[2]] => r \in l.asks[u[2]]
  BY <1>2, <1>5 DEF IsQuota
<1>7. CASE Counted(l, u)'
  <2>1. CASE u[1] = r.task
    <3>1. row \in l.counts[u[2]]
      BY <1>2, <1>7, <2>1 DEF Counted
    <3>2. QED
      BY <1>4, <1>5, <1>6, <2>1, <3>1
  <2>2. CASE u[1] # r.task
    <3>1. rows'[u[1]] = rows[u[1]]
      BY <1>2, <1>5, <2>2
    <3>2. QED
      BY <1>5, <1>7, <3>1 DEF Counted, Load
  <2>3. QED
    BY <2>1, <2>2
<1>8. ASSUME NEW k \in Handler, Claimed(l, k, u)' PROVE u \in Load(l)
  <2>1. CASE k = h
    <3>1. u[1] = r.task /\ Routed(h)' \in l.counts[u[2]] /\ child'[h].req = r
      BY <1>3, <1>8, <2>1, GrantedSteps DEF Claimed, Granted
    <3>2. Routed(h)' = Opened(row, RouteAgent(r))
      BY <1>2, <3>1 DEF Routed
    <3>3. row \in l.counts[u[2]] \/ r \in l.asks[u[2]]
      BY <1>2, <1>5, <3>1, <3>2, Routing DEF IsQuota
    <3>4. QED
      BY <1>4, <1>5, <1>6, <3>1, <3>3
  <2>2. CASE k # h /\ child[k].pc = "route" /\ child[k].req.task = r.task
    <3>1. child'[k] = child[k] /\ child[k].req \in Requests /\ RouteAgent(child[k].req) \in Agent
      BY <1>1, <1>3, <2>2, BusyFields, Routing
    <3>2. u[1] = r.task /\ Routed(k)' \in l.counts[u[2]]
      BY <1>8, <2>2, <3>1, GrantedSteps DEF Claimed, Granted
    <3>3. /\ Routed(k)' = Opened(row, RouteAgent(child[k].req))
          /\ Routed(k) = Opened(rows[r.task], RouteAgent(child[k].req))
      BY <1>2, <2>2, <3>1 DEF Routed
    <3>4. row \in l.counts[u[2]] \/ Routed(k) \in l.counts[u[2]]
      BY <1>1, <1>2, <1>5, <3>1, <3>2, <3>3 DEF IsQuota
    <3>5. CASE Routed(k) \in l.counts[u[2]]
      <4>1. Claimed(l, k, u)
        BY <2>2, <3>2, <3>5 DEF Claimed
      <4>2. QED
        BY <1>5, <4>1 DEF Load
    <3>6. QED
      BY <1>4, <1>5, <1>6, <3>2, <3>4, <3>5
  <2>3. CASE k # h /\ ~(child[k].pc = "route" /\ child[k].req.task = r.task)
    <3>1. child'[k] = child[k]
      BY <1>3, <2>3
    <3>2. child[k].pc = "route" => Routed(k)' = Routed(k)
      <4>1. SUFFICES ASSUME child[k].pc = "route" PROVE Routed(k)' = Routed(k)
        OBVIOUS
      <4>2. child[k].req.task \in Task \ {r.task}
        BY <1>1, <2>3, <4>1, BusyFields
      <4>3. QED
        BY <1>2, <3>1, <4>2 DEF Routed
    <3>3. Claimed(l, k, u)
      BY <1>8, <3>1, <3>2, ClaimKept
    <3>4. QED
      BY <1>5, <3>3 DEF Load
  <2>4. QED
    BY <2>1, <2>2, <2>3
<1>9. QED
  BY <1>5, <1>7, <1>8

-----------------------------------------------------------------------------
(* A quota is kept by every step in which those who take from it were      *)
(* admitted.                                                               *)

LEMMA ChildStepKeepsQuota ==
  ASSUME TypeOK, TypeOK', NEW l, IsQuota(l), QuotaKept(l), NEW h \in Handler, Step(h),
         (h \in Waiting(l) /\ child'[h].pc \in Granted(l)) => Admits(l, child[h].req)
  PROVE  QuotaKept(l)'
<1>1. rows \in [Task -> Row] /\ ChildTyped
  BY TypeParts
<1>2. ASSUME UNCHANGED <<rows, db, moves>>, child'[h].pc \notin Granted(l) \cup {"route"} \cup l.waits,
             \A k \in Handler \ {h} : child'[k] = child[k]
      PROVE  QuotaKept(l)'
  <2>1. \A u \in Units(l) : Claimed(l, h, u)' => Claimed(l, h, u) \/ u \in {}
    BY <1>2 DEF Claimed, Granted
  <2>2. Load(l)' \subseteq Load(l) \cup {}
    BY <1>2, <2>1, LoadOfChild
  <2>3. Waiting(l)' \subseteq Waiting(l)
    BY <1>2 DEF Waiting
  <2>4. QED
    BY <1>2, <2>2, <2>3, QuotaQuiet
<1>3. ASSUME UNCHANGED <<rows, db, moves>>, h \in Waiting(l), child'[h].pc \in Granted(l),
             child[h].req \in Requests, child'[h].req = child[h].req,
             \A k \in Handler \ {h} : child'[k] = child[k]
      PROVE  QuotaKept(l)'
  <2>1. child'[h].pc # "route" /\ child'[h].pc \notin l.waits
    BY <1>3, GrantedSteps
  <2>2. \A u \in Units(l) : Claimed(l, h, u)' => Claimed(l, h, u) \/ u \in Asked(l, child[h].req)
    BY <1>3, <2>1 DEF Claimed, Granted, Asked
  <2>3. Load(l)' \subseteq Load(l) \cup Asked(l, child[h].req)
    BY <1>3, <2>2, LoadOfChild
  <2>4. Waiting(l)' = Waiting(l) \ {h}
    BY <1>3, <2>1 DEF Waiting
  <2>5. QED
    BY <1>3, <2>3, <2>4, QuotaDecided
<1>4. ASSUME Load(l)' \subseteq Load(l), UNCHANGED <<db, moves>>,
             child'[h].pc \notin l.waits, \A k \in Handler \ {h} : child'[k] = child[k]
      PROVE  QuotaKept(l)'
  <2>1. Waiting(l)' \subseteq Waiting(l)
    BY <1>4 DEF Waiting
  <2>2. QED
    BY <1>4, <2>1, QuotaQuiet
<1>5. CASE Receive(h)
  <2>1. child'[h].pc \notin Granted(l) \cup {"route"} \cup l.waits
    BY <1>1, <1>5, ReceiveFields, GrantedSteps
  <2>2. QED
    BY <1>1, <1>2, <1>5, <2>1, ReceiveFields DEF Receive
<1>6. CASE RebuildProjection(h)
  <2>1. /\ child'[h].req = child[h].req
        /\ \/ child[h].pc = "rebuild" /\ child'[h].pc = "decide"
           \/ child[h].pc = "recount" /\ child'[h].pc = "capacity"
        /\ \A k \in Handler \ {h} : child'[k] = child[k]
    BY <1>1, <1>6, GoesFields DEF RebuildProjection, At, Steps
  <2>2. child'[h].pc # "route" /\ child'[h].pc \in Granted(l) => child[h].pc \in Granted(l)
    BY <2>1, GrantedSteps
  <2>3. \A u \in Units(l) : Claimed(l, h, u)' => Claimed(l, h, u) \/ u \in {}
    BY <2>1, <2>2 DEF Claimed, Granted
  <2>4. Load(l)' \subseteq Load(l) \cup {}
    BY <1>6, <2>1, <2>3, LoadOfChild DEF RebuildProjection
  <2>5. QED
    BY <1>6, <2>4, QuotaRebuilt DEF RebuildProjection
<1>7. CASE Decide(h)
  <2>1. /\ child[h].pc = "decide" /\ child[h].req \in Requests
        /\ UNCHANGED <<rows, db, window, moves>>
    BY <1>1, <1>7, BusyFields DEF Decide, At
  <2>2. /\ child'[h].pc = "idle" \/ (child'[h].pc \in {"package", "recount"} /\ child'[h].req = child[h].req)
        /\ \A k \in Handler \ {h} : child'[k] = child[k]
    BY <1>1, <1>7, <2>1, GoesFields, EndsFields DEF Decide, Steps
  <2>3. h \in Waiting(l)
    BY <2>1, GrantedSteps DEF Waiting
  <2>4. CASE child'[h].pc \in Granted(l)
    <3>1. child'[h].req = child[h].req
      BY <2>2, <2>4, GrantedSteps
    <3>2. QED
      BY <1>3, <2>1, <2>2, <2>3, <2>4, <3>1
  <2>5. CASE child'[h].pc \notin Granted(l)
    <3>1. child'[h].pc \notin Granted(l) \cup {"route"} \cup l.waits
      BY <2>2, <2>5, GrantedSteps
    <3>2. QED
      BY <1>2, <2>1, <2>2, <3>1
  <2>6. QED
    BY <2>4, <2>5
<1>8. CASE EnforceCapacity(h)
  <2>1. /\ child[h].pc = "capacity" /\ child[h].req \in Requests
        /\ UNCHANGED <<rows, db, window, moves>>
    BY <1>1, <1>8, BusyFields DEF EnforceCapacity, At
  <2>2. /\ child'[h].pc = "idle" \/ (child'[h].pc = "request" /\ child'[h].req = child[h].req)
        /\ \A k \in Handler \ {h} : child'[k] = child[k]
    BY <1>1, <1>8, <2>1, GoesFields, EndsFields DEF EnforceCapacity, Steps
  <2>3. CASE child'[h].pc = "idle"
    <3>1. child'[h].pc \notin Granted(l) \cup {"route"} \cup l.waits
      BY <2>3, GrantedSteps
    <3>2. QED
      BY <1>2, <2>1, <2>2, <3>1
  <2>4. CASE child'[h].pc = "request" /\ "capacity" \in l.waits
    <3>1. h \in Waiting(l) /\ child'[h].pc \in Granted(l) /\ child'[h].req = child[h].req
      BY <2>1, <2>2, <2>4, GrantedSteps DEF Waiting
    <3>2. QED
      BY <1>3, <2>1, <2>2, <3>1
  <2>5. CASE child'[h].pc = "request" /\ "capacity" \notin l.waits
    <3>1. "capacity" \in Granted(l) /\ child'[h].req = child[h].req /\ child'[h].pc \notin l.waits
      BY <2>2, <2>5, GrantedSteps
    <3>2. \A u \in Units(l) : Claimed(l, h, u)' => Claimed(l, h, u) \/ u \in {}
      BY <2>1, <2>5, <3>1 DEF Claimed, Granted
    <3>3. Load(l)' \subseteq Load(l) \cup {}
      BY <2>1, <2>2, <3>2, LoadOfChild
    <3>4. QED
      BY <1>4, <2>1, <2>2, <3>1, <3>3
  <2>6. QED
    BY <2>2, <2>3, <2>4, <2>5
<1>9. CASE AppendRequest(h)
  <2>1. child'[h].pc = "package" /\ \A k \in Handler \ {h} : child'[k] = child[k]
    BY <1>1, <1>9, GoesFields DEF AppendRequest, At, Steps
  <2>2. child'[h].pc \notin l.waits
    BY <2>1, GrantedSteps
  <2>3. QED
    BY <1>4, <1>9, <2>1, <2>2, LoadOfRequest DEF AppendRequest
<1>10. CASE AppendPackage(h)
  <2>1. /\ child'[h].pc \in {"idle", "route"} /\ \A k \in Handler \ {h} : child'[k] = child[k]
        /\ UNCHANGED <<db, moves>>
    BY <1>1, <1>10, AppendWritten, GoesFields, EndsFields DEF At, Steps
  <2>2. child'[h].pc \notin l.waits
    BY <2>1, GrantedSteps
  <2>3. QED
    BY <1>4, <1>10, <2>1, <2>2, LoadOfPackage
<1>11. CASE AppendRouting(h)
  <2>1. child'[h].pc = "idle" /\ \A k \in Handler \ {h} : child'[k] = child[k]
    BY <1>1, <1>11, EndsFields DEF AppendRouting
  <2>2. child'[h].pc \notin l.waits
    BY <2>1, GrantedSteps
  <2>3. QED
    BY <1>4, <1>11, <2>1, <2>2, LoadOfRouting DEF AppendRouting
<1>12. CASE Fail(h)
  <2>1. child'[h].pc = "idle" /\ \A k \in Handler \ {h} : child'[k] = child[k]
    BY <1>1, <1>12, EndsFields DEF Fail
  <2>2. child'[h].pc \notin Granted(l) \cup {"route"} \cup l.waits
    BY <2>1, GrantedSteps
  <2>3. QED
    BY <1>2, <1>12, <2>1, <2>2 DEF Fail
<1>13. QED
  BY <1>5, <1>6, <1>7, <1>8, <1>9, <1>10, <1>11, <1>12 DEF Step

LEMMA OtherStepsKeepQuota ==
  ASSUME TypeOK, NEW l, IsQuota(l), QuotaKept(l),
         (\E t \in Task : Finish(t) \/ Move(t)) \/ WindowMoves \/ UNCHANGED vars
  PROVE  QuotaKept(l)'
<1>1. rows \in [Task -> Row] /\ ChildTyped
  BY TypeParts
<1>2. ASSUME NEW t \in Task, Finish(t) PROVE QuotaKept(l)'
  <2>1. rows[t].agent \in Agent \cup {Router}
    BY <1>1 DEF Row
  <2>2. /\ \A u \in Task \ {t} : rows'[u] = rows[u]
        /\ \A c : Opened(rows'[t], c) = Opened(rows[t], c)
        /\ ~rows'[t].active
    BY <1>1, <1>2, <2>1, EventTyped DEF Finish
  <2>3. \A u \in Units(l), k \in Handler : Claimed(l, k, u)' => Claimed(l, k, u)
    BY <1>1, <1>2, <2>2, ClaimOfEvent DEF Finish
  <2>10. \A n \in 1..l.weight :
           (rows'[t].active /\ rows'[t] \in l.counts[n]) => <<t, n>> \in Load(l) \cup {}
    BY <2>2
  <2>4. Load(l)' \subseteq Load(l) \cup {}
    BY <1>1, <2>2, <2>3, <2>10, LoadOfEvent
  <2>5. Waiting(l)' = Waiting(l)
    BY <1>2 DEF Finish, Waiting
  <2>6. QED
    BY <1>2, <2>4, <2>5, QuotaQuiet DEF Finish
<1>3. ASSUME NEW t \in Task, Move(t) PROVE QuotaKept(l)'
  <2> DEFINE X == {u \in Units(l) : u[1] = t}
  <2>1. PICK a \in Agent : InsertEvent(t, a, TRUE)
    BY <1>3 DEF Move
  <2>2. /\ \A u \in Task \ {t} : rows'[u] = rows[u]
        /\ \A c : Opened(rows'[t], c) = Opened(rows[t], c)
    BY <1>1, <2>1, EventTyped
  <2>3. \A u \in Units(l), k \in Handler : Claimed(l, k, u)' => Claimed(l, k, u)
    BY <1>1, <1>3, <2>2, ClaimOfEvent DEF Move
  <2>4. \A n \in 1..l.weight : <<t, n>> \in X
    BY DEF Units
  <2>5. Load(l)' \subseteq Load(l) \cup X
    <3> HIDE DEF X
    <3>1. \A n \in 1..l.weight :
             (rows'[t].active /\ rows'[t] \in l.counts[n]) => <<t, n>> \in Load(l) \cup X
      BY <2>4
    <3>2. QED
      BY <1>1, <2>2, <2>3, <3>1, LoadOfEvent
  <2>6. Waiting(l)' = Waiting(l) /\ db' = db /\ moves' = moves + 1
    BY <1>3 DEF Move, Waiting
  <2>7. QED
    BY <2>5, <2>6, QuotaMoved
<1>4. ASSUME UNCHANGED <<rows, db, child, moves>> PROVE QuotaKept(l)'
  <2>1. Load(l)' \subseteq Load(l) /\ Waiting(l)' \subseteq Waiting(l)
    BY <1>4 DEF Load, Waiting, Counted, Claimed, Granted, Routed, Units
  <2>2. QED
    BY <1>4, <2>1, QuotaQuiet
<1>5. QED
  BY <1>2, <1>3, <1>4 DEF WindowMoves, vars

LEMMA QuotaStep ==
  ASSUME TypeOK, TypeOK', [Next]_vars, NEW l, IsQuota(l), QuotaKept(l),
         \A h \in Handler : (Step(h) /\ h \in Waiting(l) /\ child'[h].pc \in Granted(l))
                              => Admits(l, child[h].req)
  PROVE  QuotaKept(l)'
<1>1. ASSUME NEW h \in Handler, Step(h) PROVE QuotaKept(l)'
  BY <1>1, ChildStepKeepsQuota
<1>2. CASE (\E t \in Task : Finish(t) \/ Move(t)) \/ WindowMoves \/ UNCHANGED vars
  BY <1>2, OtherStepsKeepQuota
<1>3. QED
  BY <1>1, <1>2 DEF Next

LEMMA QuotaInit ==
  ASSUME Init, NEW l, IsQuota(l)
  PROVE  QuotaKept(l)
<1>1. /\ \A t \in Task : ~rows[t].active
      /\ \A h \in Handler : child[h].pc = "idle"
      /\ moves = 0
  BY DEF Init, NoRow
<1>2. Load(l) = {}
  BY <1>1, GrantedSteps DEF Load, Units, Counted, Claimed, Granted
<1>3. Load(l) \ Base(l) = {} /\ Cardinality({}) = 0
  BY <1>2, FS_EmptySet
<1>4. l.weight \in Nat /\ l.limit \in Nat
  BY DEF IsQuota
<1> DEFINE f == Cardinality(Handler \ Waiting(l))
<1>5. f \in Nat /\ Racing \in Nat
  <2>1. Waiting(l) \in SUBSET Handler
    BY DEF Waiting
  <2>2. QED
    BY <2>1, RacingNat
<1>6. (f + 0) * l.weight \in Nat /\ (Racing + 0) * l.weight \in Nat
  <2>1. f + 0 \in Nat /\ Racing + 0 \in Nat
    BY <1>5
  <2> HIDE DEF f
  <2>2. QED
    BY <1>4, <2>1, Times
<1>7. QED
  BY <1>1, <1>2, <1>3, <1>4, <1>6 DEF QuotaKept, LimitKept

(* When a child takes from a quota, the policy or enforceCapacity has just  *)
(* agreed.                                                                 *)
LEMMA WhoTakes ==
  ASSUME TypeOK, NEW l, IsQuota(l), NEW h \in Handler, Step(h), h \in Waiting(l),
         child'[h].pc \in Granted(l)
  PROVE  /\ child[h].req \in Requests
         /\ \/ /\ EvaluateTaskPackage(child[h].req)
               /\ "capacity" \in l.waits => child[h].req.parent = NoTask
            \/ /\ "capacity" \in l.waits /\ WithinCapacity(child[h].req)
               /\ child[h].req.parent # NoTask =>
                    Under(MaxSubtasksPerParent, Cardinality(ActiveForParent(db, child[h].req.parent)))
<1>1. ChildTyped /\ child[h].pc \in {"decide", "capacity"} /\ child[h].pc \in l.waits
  BY TypeParts, GrantedSteps DEF Waiting
<1>2. child[h].req \in Requests
  BY <1>1, BusyFields
<1>3. Decide(h) \/ EnforceCapacity(h) \/ Fail(h)
  BY <1>1 DEF Step, Receive, RebuildProjection, AppendRequest, AppendPackage, AppendRouting, At
<1>4. "idle" \notin Granted(l)
  BY GrantedSteps
<1>5. CASE Fail(h)
  <2>1. child'[h].pc = "idle"
    BY <1>1, <1>5, EndsFields DEF Fail
  <2>2. QED
    BY <1>4, <2>1
<1>6. CASE Decide(h)
  <2>1. CASE ~EvaluateTaskPackage(child[h].req)
    <3>1. child'[h].pc = "idle"
      BY <1>1, <1>6, <2>1, EndsFields DEF Decide
    <3>2. QED
      BY <1>4, <3>1
  <2>2. CASE EvaluateTaskPackage(child[h].req) /\ child[h].req.kind = "package"
    BY <1>2, <2>2, AdmissionAssumption
  <2>3. CASE EvaluateTaskPackage(child[h].req) /\ child[h].req.kind # "package"
    <3>1. child'[h].pc = "recount"
      BY <1>1, <1>6, <2>3, GoesFields DEF Decide, Steps
    <3>2. "capacity" \notin l.waits
      BY <3>1, GrantedSteps
    <3>3. QED
      BY <1>2, <2>3, <3>2
  <2>4. QED
    BY <2>1, <2>2, <2>3
<1>7. CASE EnforceCapacity(h)
  <2>1. child[h].pc = "capacity"
    BY <1>7 DEF EnforceCapacity, At
  <2>2. CASE Ends(h)
    <3>1. child'[h].pc = "idle"
      BY <1>1, <2>2, EndsFields
    <3>2. QED
      BY <1>4, <3>1
  <2>3. CASE ~Ends(h)
    BY <1>1, <1>2, <1>7, <2>1, <2>3 DEF EnforceCapacity
  <2>4. QED
    BY <2>2, <2>3
<1>8. QED
  BY <1>3, <1>5, <1>6, <1>7

(* What is counted task by task, and what a request asks for.              *)
LEMMA OneEach ==
  ASSUME NEW T \in SUBSET Task
  PROVE  /\ IsFiniteSet(T \X (1..1)) /\ Cardinality(T) \in Nat
         /\ Cardinality(T \X (1..1)) = Cardinality(T)
<1>1. IsFiniteSet(T)
  BY AdmissionAssumption, FS_Subset
<1>2. Cardinality(T) \in Nat
  BY <1>1, FS_CardinalityType
<1>3. 1..1 = {1}
  OBVIOUS
<1>4. IsFiniteSet({1}) /\ Cardinality({1}) = 1
  BY FS_Singleton
<1>5. IsFiniteSet(T \X {1}) /\ Cardinality(T \X {1}) = Cardinality(T) * Cardinality({1})
  BY <1>1, <1>4, FS_Product
<1>6. Cardinality(T) * 1 = Cardinality(T)
  BY <1>2
<1>7. QED
  BY <1>2, <1>3, <1>4, <1>5, <1>6

LEMMA AskedAtMost ==
  ASSUME NEW l, IsQuota(l), NEW r \in Requests, NEW x \in Nat,
         \A u \in Asked(l, r) : u[2] <= x
  PROVE  Cardinality(Asked(l, r)) \in Nat /\ Cardinality(Asked(l, r)) <= x
<1> DEFINE f == [t \in Task |-> t]
<1>1. \A u \in Asked(l, r) : \E t \in {r.task}, n \in 1..x : u = <<f[t], n>>
  <2> SUFFICES ASSUME NEW u \in Asked(l, r)
               PROVE  \E t \in {r.task}, n \in 1..x : u = <<f[t], n>>
    OBVIOUS
  <2>1. u \in Units(l) /\ u[1] = r.task /\ u[2] <= x
    BY DEF Asked
  <2>2. u = <<u[1], u[2]>> /\ u[2] \in 1..l.weight /\ l.weight \in Nat
    BY <2>1 DEF Units, IsQuota
  <2>3. u[2] \in 1..x /\ f[r.task] = r.task
    BY <2>1, <2>2, RequestParts
  <2>4. QED
    BY <2>1, <2>2, <2>3
<1>2. IsFiniteSet({r.task}) /\ Cardinality({r.task}) = 1
  BY FS_Singleton
<1>3. IsFiniteSet(Asked(l, r)) /\ Cardinality(Asked(l, r)) <= Cardinality({r.task}) * x
  <2> HIDE DEF f
  <2>1. QED
    BY <1>1, <1>2, FromChildren
<1>4. Cardinality(Asked(l, r)) \in Nat
  BY <1>3, FS_CardinalityType
<1>5. 1 * x = x
  OBVIOUS
<1>6. QED
  BY <1>2, <1>3, <1>4, <1>5

-----------------------------------------------------------------------------
(* The quotas that preparePolicyInput and enforceCapacity read.            *)

TaskQuota(R, A, limit) ==
  [counts |-> [n \in 1..1 |-> R], seen |-> [n \in 1..1 |-> R], asks |-> [n \in 1..1 |-> A],
   weight |-> 1, limit |-> limit, waits |-> {"decide", "capacity"}]

RowsOfAgent(a) == {row \in Row : row.agent = a}
RowsOfInitiative(i) == {row \in Row : row.init = i}
RowsOfParent(p) == {row \in Row : row.parent = p}

AgentQuota(a) ==
  TaskQuota(RowsOfAgent(a), {r \in Requests : RouteAgent(r) = a}, MaxActiveTasksPerAgent)
InitiativeQuota(i) ==
  TaskQuota(RowsOfInitiative(i), {r \in Requests : r.init = i}, MaxTasksPerInitiative)
ParentQuota(p) ==
  TaskQuota(RowsOfParent(p), {r \in Requests : r.parent = p}, MaxSubtasksPerParent)

InitiativeBudget(i) ==
  [counts |-> [n \in 1..MaxTokens |-> {row \in Row : row.init = i /\ n <= row.tokens}],
   seen |-> [n \in 1..MaxTokens |-> {row \in Row : row.init = i /\ n <= row.tokens}],
   asks |-> [n \in 1..MaxTokens |-> {r \in Requests : r.init = i /\ n <= r.tokens}],
   weight |-> MaxTokens, limit |-> TokenBudgetPerInitiative, waits |-> {"decide"}]

FamilyBudget(f) ==
  [counts |-> [n \in 1..MaxTokens |->
                 {row \in Row : row.model = f /\ row.decided = f /\ n <= row.tokens}],
   seen |-> [n \in 1..MaxTokens |-> {row \in Row : row.model = f /\ n <= row.tokens}],
   asks |-> [n \in 1..MaxTokens |-> {r \in Requests : DefaultModel(r) = f /\ n <= r.tokens}],
   weight |-> MaxTokens, limit |-> TokenBudgetPerModelFamily, waits |-> {"decide"}]

LEMMA LimitsNat ==
  /\ MaxActiveTasksPerAgent \in Nat /\ MaxTasksPerInitiative \in Nat
  /\ MaxSubtasksPerParent \in Nat /\ TokenBudgetPerInitiative \in Nat
  /\ TokenBudgetPerModelFamily \in Nat /\ TokenDailyBudget \in Nat /\ MaxTokens \in Nat
  BY AdmissionAssumption DEF Limits

LEMMA TaskQuotaParts ==
  ASSUME NEW R, NEW A, NEW limit
  PROVE  LET l == TaskQuota(R, A, limit)
         IN  /\ l.weight = 1 /\ l.limit = limit /\ l.waits = {"decide", "capacity"}
             /\ \A n \in 1..l.weight : l.counts[n] = R /\ l.seen[n] = R /\ l.asks[n] = A
             /\ l.seen[1] = R /\ l.asks[1] = A /\ l.counts[1] = R
  BY DEF TaskQuota

LEMMA TaskQuotaIsQuota ==
  ASSUME NEW R, NEW A, NEW limit \in Nat,
         \A r \in Requests : PackageRow(Written(r)) \in R => r \in A,
         \/ \A row \in Row, a \in Agent : Opened(row, a) \in R <=> row \in R
         \/ \A row \in Row, r \in Requests : Opened(row, RouteAgent(r)) \in R <=> r \in A
  PROVE  IsQuota(TaskQuota(R, A, limit))
<1> DEFINE l == TaskQuota(R, A, limit)
<1>1. /\ l.weight = 1 /\ l.limit = limit /\ l.waits = {"decide", "capacity"}
      /\ \A n \in 1..l.weight : l.counts[n] = R /\ l.seen[n] = R /\ l.asks[n] = A
  BY TaskQuotaParts
<1> HIDE DEF l
<1>2. IsQuota(l)
  BY <1>1 DEF IsQuota
<1>3. QED
  BY <1>2 DEF l

LEMMA OpenedParts ==
  ASSUME NEW row \in Row, NEW a \in Agent
  PROVE  /\ Opened(row, a) \in Row /\ Opened(row, a).agent = a
         /\ Opened(row, a).init = row.init /\ Opened(row, a).parent = row.parent
         /\ Opened(row, a).model = row.model /\ Opened(row, a).decided = row.decided
         /\ Opened(row, a).tokens = row.tokens
  BY DEF Opened, Row

LEMMA PackageParts ==
  ASSUME NEW r \in Requests
  PROVE  /\ PackageRow(Written(r)) \in Row
         /\ PackageRow(Written(r)).agent \in {r.agent, RouteAgent(r)}
         /\ PackageRow(Written(r)).init = r.init /\ PackageRow(Written(r)).parent = r.parent
         /\ PackageRow(Written(r)).tokens = r.tokens
         /\ PackageRow(Written(r)).decided = DefaultModel(r)
  BY WrittenParts, PackageTyped DEF PackageRow

LEMMA QuotasAreQuotas ==
  /\ \A a \in Agent : IsQuota(AgentQuota(a))
  /\ \A i \in Initiative : IsQuota(InitiativeQuota(i)) /\ IsQuota(InitiativeBudget(i))
  /\ \A p \in Task : IsQuota(ParentQuota(p))
  /\ \A f \in Family : IsQuota(FamilyBudget(f))
<1>1. ASSUME NEW a \in Agent PROVE IsQuota(AgentQuota(a))
  <2> DEFINE A == {r \in Requests : RouteAgent(r) = a}
  <2>1. \A r \in Requests : PackageRow(Written(r)) \in RowsOfAgent(a) => r \in A
    <3> SUFFICES ASSUME NEW r \in Requests, PackageRow(Written(r)).agent = a PROVE RouteAgent(r) = a
      BY DEF RowsOfAgent
    <3>1. a # Router
      BY AdmissionAssumption
    <3>2. QED
      BY <3>1, PackageParts DEF RouteAgent
  <2>2. \A row \in Row, r \in Requests : Opened(row, RouteAgent(r)) \in RowsOfAgent(a) <=> r \in A
    BY Routing, OpenedParts DEF RowsOfAgent
  <2> HIDE DEF A
  <2>3. IsQuota(TaskQuota(RowsOfAgent(a), A, MaxActiveTasksPerAgent))
    BY <2>1, <2>2, LimitsNat, TaskQuotaIsQuota
  <2>4. QED
    BY <2>3 DEF AgentQuota, A
<1>2. ASSUME NEW i \in Initiative PROVE IsQuota(InitiativeQuota(i))
  <2> DEFINE A == {r \in Requests : r.init = i}
  <2>1. \A r \in Requests : PackageRow(Written(r)) \in RowsOfInitiative(i) => r \in A
    BY PackageParts DEF RowsOfInitiative
  <2>2. \A row \in Row, a \in Agent :
          Opened(row, a) \in RowsOfInitiative(i) <=> row \in RowsOfInitiative(i)
    BY OpenedParts DEF RowsOfInitiative
  <2> HIDE DEF A
  <2>3. IsQuota(TaskQuota(RowsOfInitiative(i), A, MaxTasksPerInitiative))
    BY <2>1, <2>2, LimitsNat, TaskQuotaIsQuota
  <2>4. QED
    BY <2>3 DEF InitiativeQuota, A
<1>3. ASSUME NEW p \in Task PROVE IsQuota(ParentQuota(p))
  <2> DEFINE A == {r \in Requests : r.parent = p}
  <2>1. \A r \in Requests : PackageRow(Written(r)) \in RowsOfParent(p) => r \in A
    BY PackageParts DEF RowsOfParent
  <2>2. \A row \in Row, a \in Agent :
          Opened(row, a) \in RowsOfParent(p) <=> row \in RowsOfParent(p)
    BY OpenedParts DEF RowsOfParent
  <2> HIDE DEF A
  <2>3. IsQuota(TaskQuota(RowsOfParent(p), A, MaxSubtasksPerParent))
    BY <2>1, <2>2, LimitsNat, TaskQuotaIsQuota
  <2>4. QED
    BY <2>3 DEF ParentQuota, A
<1>4. ASSUME NEW i \in Initiative PROVE IsQuota(InitiativeBudget(i))
  <2> DEFINE l == InitiativeBudget(i)
  <2>1. l.weight \in Nat /\ l.limit \in Nat /\ l.waits = {"decide"}
    BY LimitsNat DEF InitiativeBudget
  <2>2. ASSUME NEW n \in 1..l.weight
        PROVE  /\ l.counts[n] = {row \in Row : row.init = i /\ n <= row.tokens}
               /\ l.seen[n] = l.counts[n]
               /\ l.asks[n] = {r \in Requests : r.init = i /\ n <= r.tokens}
    BY DEF InitiativeBudget
  <2>3. ASSUME NEW n \in 1..l.weight, NEW r \in Requests, PackageRow(Written(r)) \in l.counts[n]
        PROVE  r \in l.asks[n]
    BY <2>2, <2>3, PackageParts
  <2>4. ASSUME NEW n \in 1..l.weight, NEW row \in Row, NEW a \in Agent
        PROVE  Opened(row, a) \in l.counts[n] <=> row \in l.counts[n]
    BY <2>2, OpenedParts
  <2> HIDE DEF l
  <2>5. IsQuota(l)
    BY <2>1, <2>2, <2>3, <2>4 DEF IsQuota
  <2>6. QED
    BY <2>5 DEF l
<1>5. ASSUME NEW f \in Family PROVE IsQuota(FamilyBudget(f))
  <2> DEFINE l == FamilyBudget(f)
  <2>1. l.weight \in Nat /\ l.limit \in Nat /\ l.waits = {"decide"}
    BY LimitsNat DEF FamilyBudget
  <2>2. ASSUME NEW n \in 1..l.weight
        PROVE  /\ l.counts[n] = {row \in Row : row.model = f /\ row.decided = f /\ n <= row.tokens}
               /\ l.seen[n] = {row \in Row : row.model = f /\ n <= row.tokens}
               /\ l.asks[n] = {r \in Requests : DefaultModel(r) = f /\ n <= r.tokens}
    BY DEF FamilyBudget
  <2>3. ASSUME NEW n \in 1..l.weight, NEW r \in Requests, PackageRow(Written(r)) \in l.counts[n]
        PROVE  r \in l.asks[n]
    BY <2>2, <2>3, PackageParts
  <2>4. ASSUME NEW n \in 1..l.weight, NEW row \in Row, NEW a \in Agent
        PROVE  Opened(row, a) \in l.counts[n] <=> row \in l.counts[n]
    BY <2>2, OpenedParts
  <2>5. ASSUME NEW n \in 1..l.weight PROVE l.counts[n] \subseteq l.seen[n]
    BY <2>2
  <2> HIDE DEF l
  <2>6. IsQuota(l)
    BY <2>1, <2>3, <2>4, <2>5 DEF IsQuota
  <2>7. QED
    BY <2>6 DEF l
<1>6. QED
  BY <1>1, <1>2, <1>3, <1>4, <1>5

(* A limit admits what was under it, and a budget what fits in it.         *)
LEMMA TaskQuotaAdmits ==
  ASSUME TypeOK, NEW R, NEW A, NEW limit \in Nat, limit > 0, IsQuota(TaskQuota(R, A, limit)),
         NEW T \in SUBSET Task, \A t \in Task : t \in T <=> (db[t].active /\ db[t] \in R),
         NEW r \in Requests, r \in A => Under(limit, Cardinality(T))
  PROVE  Admits(TaskQuota(R, A, limit), r)
<1> DEFINE l == TaskQuota(R, A, limit)
<1>1. /\ l.weight = 1 /\ l.limit = limit /\ l.seen[1] = R /\ l.asks[1] = A
      /\ Units(l) = Task \X (1..1)
  BY TaskQuotaParts DEF Units
<1> HIDE DEF l
<1>2. Base(l) = T \X (1..1)
  <2>1. \A u \in Units(l) : u[2] = 1
    BY <1>1
  <2>2. \A u \in Units(l) : u \in Base(l) <=> u[1] \in T
    BY <1>1, <2>1 DEF Base
  <2>3. \A u \in Units(l) : u \in T \X (1..1) <=> u[1] \in T
    BY <1>1
  <2>4. Base(l) \subseteq Units(l) /\ T \X (1..1) \subseteq Units(l)
    BY <1>1 DEF Base
  <2>5. QED
    BY <2>2, <2>3, <2>4
<1>3. Cardinality(Base(l)) = Cardinality(T) /\ Cardinality(T) \in Nat
  BY <1>2, OneEach
<1>4. IsQuota(l)
  BY DEF l
<1>5. \A u \in Asked(l, r) : u[2] <= 1 /\ r \in A
  BY <1>1 DEF Asked
<1>6. Cardinality(Asked(l, r)) \in Nat /\ Cardinality(Asked(l, r)) <= 1
  BY <1>4, <1>5, AskedAtMost
<1>7. CASE r \in A
  <2>1. Cardinality(T) < limit
    BY <1>7 DEF Under
  <2>2. QED
    BY <1>1, <1>3, <1>6, <2>1 DEF Admits, l
<1>8. CASE r \notin A
  <2>1. Asked(l, r) = {}
    BY <1>5, <1>8
  <2>2. QED
    BY <2>1 DEF Admits, l
<1>9. QED
  BY <1>7, <1>8

LEMMA BudgetAdmits ==
  ASSUME NEW l, IsQuota(l), l.limit > 0, NEW r \in Requests, NEW n \in Nat,
         Cardinality(Base(l)) = n,
         \A u \in Asked(l, r) : u[2] <= r.tokens /\ Fits(l.limit, n, r.tokens)
  PROVE  Admits(l, r)
<1>1. r.tokens \in Nat
  BY RequestParts, AdmissionAssumption
<1>2. Cardinality(Asked(l, r)) \in Nat /\ Cardinality(Asked(l, r)) <= r.tokens
  BY <1>1, AskedAtMost
<1>3. CASE Asked(l, r) # {}
  <2>1. n + r.tokens <= l.limit /\ l.limit \in Nat
    BY <1>3 DEF Fits, IsQuota
  <2>2. QED
    BY <1>1, <1>2, <2>1 DEF Admits
<1>4. CASE Asked(l, r) = {}
  BY <1>4 DEF Admits
<1>5. QED
  BY <1>3, <1>4

AgentsKept == \A a \in Agent : MaxActiveTasksPerAgent > 0 => QuotaKept(AgentQuota(a))
InitiativesKept == \A i \in Initiative : MaxTasksPerInitiative > 0 => QuotaKept(InitiativeQuota(i))
ParentsKept == \A p \in Task : MaxSubtasksPerParent > 0 => QuotaKept(ParentQuota(p))
InitiativeBudgetsKept ==
  \A i \in Initiative : TokenBudgetPerInitiative > 0 => QuotaKept(InitiativeBudget(i))
FamilyBudgetsKept ==
  \A f \in Family : TokenBudgetPerModelFamily > 0 => QuotaKept(FamilyBudget(f))

LEMMA AgentsStep ==
  ASSUME TypeOK, TypeOK', [Next]_vars, AgentsKept
  PROVE  AgentsKept'
<1> SUFFICES ASSUME NEW a \in Agent, MaxActiveTasksPerAgent > 0
             PROVE  QuotaKept(AgentQuota(a))'
  BY DEF AgentsKept
<1> DEFINE R == RowsOfAgent(a)
           A == {r \in Requests : RouteAgent(r) = a}
           T == ActiveForAgent(db, a)
<1>1. IsQuota(AgentQuota(a)) /\ QuotaKept(AgentQuota(a))
  BY QuotasAreQuotas DEF AgentsKept
<1>2. T \in SUBSET Task /\ \A t \in Task : t \in T <=> (db[t].active /\ db[t] \in R)
  BY DEF ActiveForAgent, Active, RowsOfAgent, TypeOK
<1>3. ASSUME NEW h \in Handler, Step(h), h \in Waiting(AgentQuota(a)),
             child'[h].pc \in Granted(AgentQuota(a))
      PROVE  Admits(AgentQuota(a), child[h].req)
  <2> DEFINE r == child[h].req
  <2>1. r \in Requests /\ WithinCapacity(r)
    BY <1>1, <1>3, WhoTakes DEF EvaluateTaskPackage
  <2>2. r \in A => Under(MaxActiveTasksPerAgent, Cardinality(T))
    BY <2>1 DEF WithinCapacity
  <2>3. IsQuota(TaskQuota(R, A, MaxActiveTasksPerAgent))
    BY <1>1 DEF AgentQuota
  <2> HIDE DEF R, A, T, r
  <2>4. Admits(TaskQuota(R, A, MaxActiveTasksPerAgent), r)
    BY <1>2, <2>1, <2>2, <2>3, LimitsNat, TaskQuotaAdmits
  <2>5. QED
    BY <2>4 DEF AgentQuota, R, A, r
<1>4. QED
  BY <1>1, <1>3, QuotaStep

LEMMA InitiativesStep ==
  ASSUME TypeOK, TypeOK', [Next]_vars, InitiativesKept
  PROVE  InitiativesKept'
<1> SUFFICES ASSUME NEW i \in Initiative, MaxTasksPerInitiative > 0
             PROVE  QuotaKept(InitiativeQuota(i))'
  BY DEF InitiativesKept
<1> DEFINE R == RowsOfInitiative(i)
           A == {r \in Requests : r.init = i}
           T == ActiveForInitiative(db, i)
<1>1. IsQuota(InitiativeQuota(i)) /\ QuotaKept(InitiativeQuota(i))
  BY QuotasAreQuotas DEF InitiativesKept
<1>2. T \in SUBSET Task /\ \A t \in Task : t \in T <=> (db[t].active /\ db[t] \in R)
  BY DEF ActiveForInitiative, Active, RowsOfInitiative, TypeOK
<1>3. ASSUME NEW h \in Handler, Step(h), h \in Waiting(InitiativeQuota(i)),
             child'[h].pc \in Granted(InitiativeQuota(i))
      PROVE  Admits(InitiativeQuota(i), child[h].req)
  <2> DEFINE r == child[h].req
  <2>1. r \in Requests /\ WithinCapacity(r)
    BY <1>1, <1>3, WhoTakes DEF EvaluateTaskPackage
  <2>2. r \in A => Under(MaxTasksPerInitiative, Cardinality(T))
    BY <2>1, AdmissionAssumption DEF WithinCapacity
  <2>3. IsQuota(TaskQuota(R, A, MaxTasksPerInitiative))
    BY <1>1 DEF InitiativeQuota
  <2> HIDE DEF R, A, T, r
  <2>4. Admits(TaskQuota(R, A, MaxTasksPerInitiative), r)
    BY <1>2, <2>1, <2>2, <2>3, LimitsNat, TaskQuotaAdmits
  <2>5. QED
    BY <2>4 DEF InitiativeQuota, R, A, r
<1>4. QED
  BY <1>1, <1>3, QuotaStep

LEMMA ParentsStep ==
  ASSUME TypeOK, TypeOK', [Next]_vars, ParentsKept
  PROVE  ParentsKept'
<1> SUFFICES ASSUME NEW p \in Task, MaxSubtasksPerParent > 0
             PROVE  QuotaKept(ParentQuota(p))'
  BY DEF ParentsKept
<1> DEFINE R == RowsOfParent(p)
           A == {r \in Requests : r.parent = p}
           T == ActiveForParent(db, p)
<1>1. IsQuota(ParentQuota(p)) /\ QuotaKept(ParentQuota(p))
  BY QuotasAreQuotas DEF ParentsKept
<1>2. T \in SUBSET Task /\ \A t \in Task : t \in T <=> (db[t].active /\ db[t] \in R)
  BY DEF ActiveForParent, Active, RowsOfParent, TypeOK
<1>3. ASSUME NEW h \in Handler, Step(h), h \in Waiting(ParentQuota(p)),
             child'[h].pc \in Granted(ParentQuota(p))
      PROVE  Admits(ParentQuota(p), child[h].req)
  <2> DEFINE r == child[h].req
  <2>1. "capacity" \in ParentQuota(p).waits
    BY TaskQuotaParts DEF ParentQuota
  <2>2. /\ r \in Requests
        /\ r.parent # NoTask => Under(MaxSubtasksPerParent, Cardinality(ActiveForParent(db, r.parent)))
    BY <1>1, <1>3, <2>1, WhoTakes
  <2>3. r \in A => Under(MaxSubtasksPerParent, Cardinality(T))
    BY <2>2, AdmissionAssumption
  <2>4. IsQuota(TaskQuota(R, A, MaxSubtasksPerParent))
    BY <1>1 DEF ParentQuota
  <2> HIDE DEF R, A, T, r
  <2>5. Admits(TaskQuota(R, A, MaxSubtasksPerParent), r)
    BY <1>2, <2>2, <2>3, <2>4, LimitsNat, TaskQuotaAdmits
  <2>6. QED
    BY <2>5 DEF ParentQuota, R, A, r
<1>4. QED
  BY <1>1, <1>3, QuotaStep

LEMMA InitiativeBudgetsStep ==
  ASSUME TypeOK, TypeOK', [Next]_vars, InitiativeBudgetsKept
  PROVE  InitiativeBudgetsKept'
<1> SUFFICES ASSUME NEW i \in Initiative, TokenBudgetPerInitiative > 0
             PROVE  QuotaKept(InitiativeBudget(i))'
  BY DEF InitiativeBudgetsKept
<1> DEFINE l == InitiativeBudget(i)
           T == ActiveForInitiative(db, i)
<1>1. IsQuota(l) /\ QuotaKept(l)
  BY QuotasAreQuotas DEF InitiativeBudgetsKept
<1>2. /\ l.limit = TokenBudgetPerInitiative /\ l.waits = {"decide"} /\ l.weight = MaxTokens
      /\ \A n \in 1..MaxTokens : /\ l.seen[n] = {row \in Row : row.init = i /\ n <= row.tokens}
                                 /\ l.asks[n] = {r \in Requests : r.init = i /\ n <= r.tokens}
  BY DEF InitiativeBudget
<1> HIDE DEF l
<1>3. Cardinality(Base(l)) = AllocatedTokens(db, T) /\ AllocatedTokens(db, T) \in Nat
  <2> DEFINE U == {u \in T \X (1..MaxTokens) : u[2] <= db[u[1]].tokens}
  <2>1. \A t \in Task : db[t] \in Row
    BY DEF TypeOK
  <2>2. \A u \in Task \X (1..MaxTokens) : u \in Base(l) <=> u \in U
    BY <1>2, <2>1 DEF Base, Units, ActiveForInitiative, Active
  <2>3. Base(l) \subseteq Task \X (1..MaxTokens) /\ U \subseteq Task \X (1..MaxTokens)
    BY <1>2 DEF Base, Units, ActiveForInitiative, Active
  <2>4. Base(l) = U
    BY <2>2, <2>3
  <2>5. Cardinality(Base(l)) \in Nat
    BY <1>1, UnitsFinite, FS_CardinalityType
  <2>6. QED
    BY <2>4, <2>5 DEF AllocatedTokens
<1>4. ASSUME NEW h \in Handler, Step(h), h \in Waiting(l), child'[h].pc \in Granted(l)
      PROVE  Admits(l, child[h].req)
  <2> DEFINE r == child[h].req
             n == AllocatedTokens(db, T)
  <2>1. r \in Requests /\ WithinBudgets(r)
    BY <1>1, <1>2, <1>4, WhoTakes DEF EvaluateTaskPackage
  <2>2. r.tokens \in Nat
    BY <2>1, RequestParts, AdmissionAssumption
  <2>3. (r.tokens > 0 /\ r.init = i) => Fits(l.limit, n, r.tokens)
    BY <1>2, <2>1, AdmissionAssumption DEF WithinBudgets
  <2>4. \A u \in Asked(l, r) : u[2] <= r.tokens /\ r.init = i /\ r.tokens > 0
    BY <1>2, <2>2 DEF Asked, Units
  <2>5. \A u \in Asked(l, r) : u[2] <= r.tokens /\ Fits(l.limit, n, r.tokens)
    BY <2>3, <2>4
  <2>6. n \in Nat /\ l.limit > 0
    BY <1>2, <1>3
  <2> HIDE DEF r, n
  <2>7. Cardinality(Base(l)) = n
    BY <1>3 DEF n
  <2>8. Admits(l, r)
    BY <1>1, <2>1, <2>5, <2>6, <2>7, BudgetAdmits
  <2>9. QED
    BY <2>8 DEF r
<1>5. QuotaKept(l)'
  BY <1>1, <1>4, QuotaStep
<1>6. QED
  BY <1>5 DEF l

LEMMA FamilyBudgetsStep ==
  ASSUME TypeOK, TypeOK', [Next]_vars, FamilyBudgetsKept
  PROVE  FamilyBudgetsKept'
<1> SUFFICES ASSUME NEW f \in Family, TokenBudgetPerModelFamily > 0
             PROVE  QuotaKept(FamilyBudget(f))'
  BY DEF FamilyBudgetsKept
<1> DEFINE l == FamilyBudget(f)
           T == ActiveForModelFamily(db, f)
<1>1. IsQuota(l) /\ QuotaKept(l)
  BY QuotasAreQuotas DEF FamilyBudgetsKept
<1>2. /\ l.limit = TokenBudgetPerModelFamily /\ l.waits = {"decide"} /\ l.weight = MaxTokens
      /\ \A n \in 1..MaxTokens :
           /\ l.seen[n] = {row \in Row : row.model = f /\ n <= row.tokens}
           /\ l.asks[n] = {r \in Requests : DefaultModel(r) = f /\ n <= r.tokens}
  BY DEF FamilyBudget
<1> HIDE DEF l
<1>3. Cardinality(Base(l)) = AllocatedTokens(db, T) /\ AllocatedTokens(db, T) \in Nat
  <2> DEFINE U == {u \in T \X (1..MaxTokens) : u[2] <= db[u[1]].tokens}
  <2>1. \A t \in Task : db[t] \in Row
    BY DEF TypeOK
  <2>2. \A u \in Task \X (1..MaxTokens) : u \in Base(l) <=> u \in U
    BY <1>2, <2>1 DEF Base, Units, ActiveForModelFamily, Active
  <2>3. Base(l) \subseteq Task \X (1..MaxTokens) /\ U \subseteq Task \X (1..MaxTokens)
    BY <1>2 DEF Base, Units, ActiveForModelFamily, Active
  <2>4. Base(l) = U
    BY <2>2, <2>3
  <2>5. Cardinality(Base(l)) \in Nat
    BY <1>1, UnitsFinite, FS_CardinalityType
  <2>6. QED
    BY <2>4, <2>5 DEF AllocatedTokens
<1>4. ASSUME NEW h \in Handler, Step(h), h \in Waiting(l), child'[h].pc \in Granted(l)
      PROVE  Admits(l, child[h].req)
  <2> DEFINE r == child[h].req
             n == AllocatedTokens(db, T)
  <2>1. r \in Requests /\ WithinBudgets(r)
    BY <1>1, <1>2, <1>4, WhoTakes DEF EvaluateTaskPackage
  <2>2. r.tokens \in Nat
    BY <2>1, RequestParts, AdmissionAssumption
  <2>3. (r.tokens > 0 /\ DefaultModel(r) = f) => Fits(l.limit, n, r.tokens)
    BY <1>2, <2>1 DEF WithinBudgets
  <2>4. \A u \in Asked(l, r) : u[2] <= r.tokens /\ DefaultModel(r) = f /\ r.tokens > 0
    BY <1>2, <2>2 DEF Asked, Units
  <2>5. \A u \in Asked(l, r) : u[2] <= r.tokens /\ Fits(l.limit, n, r.tokens)
    BY <2>3, <2>4
  <2>6. n \in Nat /\ l.limit > 0
    BY <1>2, <1>3
  <2> HIDE DEF r, n
  <2>7. Cardinality(Base(l)) = n
    BY <1>3 DEF n
  <2>8. Admits(l, r)
    BY <1>1, <2>1, <2>5, <2>6, <2>7, BudgetAdmits
  <2>9. QED
    BY <2>8 DEF r
<1>5. QuotaKept(l)'
  BY <1>1, <1>4, QuotaStep
<1>6. QED
  BY <1>5 DEF l

LEMMA TaskQuotaBounds ==
  ASSUME TypeOK, NEW R, NEW A, NEW limit \in Nat, IsQuota(TaskQuota(R, A, limit)),
         QuotaKept(TaskQuota(R, A, limit)),
         NEW T \in SUBSET Task, \A t \in T : rows[t].active /\ rows[t] \in R
  PROVE  Cardinality(T) <= limit + (Racing + moves)
<1> DEFINE l == TaskQuota(R, A, limit)
<1>1. /\ l.weight = 1 /\ l.limit = limit /\ l.counts[1] = R /\ Units(l) = Task \X (1..1)
  BY TaskQuotaParts DEF Units
<1> HIDE DEF l
<1>2. T \X (1..1) \subseteq Load(l)
  BY <1>1 DEF Load, Counted
<1>3. IsFiniteSet(Load(l))
  BY UnitsFinite DEF l
<1>4. /\ Cardinality(T \X (1..1)) <= Cardinality(Load(l)) /\ Cardinality(Load(l)) \in Nat
      /\ Cardinality(T) \in Nat /\ Cardinality(T \X (1..1)) = Cardinality(T)
  BY <1>2, <1>3, Sizes, OneEach
<1>5. Cardinality(Load(l)) <= limit + (Racing + moves) * 1
  BY <1>1 DEF QuotaKept, LimitKept, l
<1>6. Racing \in Nat /\ moves \in Nat
  BY RacingNat, AdmissionAssumption DEF TypeOK
<1>7. (Racing + moves) * 1 = Racing + moves
  BY <1>6
<1>8. QED
  BY <1>4, <1>5, <1>6, <1>7

LEMMA BudgetBounds ==
  ASSUME TypeOK, NEW l, IsQuota(l), QuotaKept(l), l.weight = MaxTokens,
         NEW T \in SUBSET Task,
         \A t \in T, n \in 1..MaxTokens :
           n <= rows[t].tokens => rows[t].active /\ rows[t] \in l.counts[n]
  PROVE  AllocatedTokens(rows, T) <= l.limit + (Racing + moves) * MaxTokens
<1> DEFINE U == {u \in T \X (1..MaxTokens) : u[2] <= rows[u[1]].tokens}
<1>1. U \subseteq Load(l)
  BY DEF Load, Units, Counted
<1>2. IsFiniteSet(Load(l))
  BY UnitsFinite
<1>3. /\ Cardinality(U) <= Cardinality(Load(l)) /\ Cardinality(U) \in Nat
      /\ Cardinality(Load(l)) \in Nat
  <2> HIDE DEF U
  <2>1. QED
    BY <1>1, <1>2, Sizes
<1>4. Cardinality(Load(l)) <= l.limit + (Racing + moves) * MaxTokens /\ l.limit \in Nat
  BY DEF QuotaKept, LimitKept, IsQuota
<1>5. (Racing + moves) * MaxTokens \in Nat
  <2>1. Racing + moves \in Nat /\ MaxTokens \in Nat
    BY RacingNat, AdmissionAssumption DEF TypeOK
  <2>2. QED
    BY <2>1, Times
<1>6. Cardinality(U) <= l.limit + (Racing + moves) * MaxTokens
  <2> HIDE DEF U
  <2>1. QED
    BY <1>3, <1>4, <1>5
<1>7. QED
  BY <1>6 DEF AllocatedTokens

TasksKept == AgentsKept /\ InitiativesKept /\ ParentsKept

LEMMA QuotasInit == Init => TasksKept /\ InitiativeBudgetsKept /\ FamilyBudgetsKept
  BY QuotasAreQuotas, QuotaInit
  DEF TasksKept, AgentsKept, InitiativesKept, ParentsKept, InitiativeBudgetsKept, FamilyBudgetsKept

LEMMA TasksStep == TypeOK /\ TasksKept /\ [Next]_vars => TasksKept'
<1> SUFFICES ASSUME TypeOK, TasksKept, [Next]_vars PROVE TasksKept'
  OBVIOUS
<1>1. TypeOK'
  BY AdmissionTypeStep
<1>2. AgentsKept' /\ InitiativesKept' /\ ParentsKept'
  BY <1>1, AgentsStep, InitiativesStep, ParentsStep DEF TasksKept
<1>3. QED
  BY <1>2 DEF TasksKept

LEMMA TasksKeptBounded == TypeOK /\ TasksKept => CapacityBounded
<1> SUFFICES ASSUME TypeOK, TasksKept PROVE CapacityBounded
  OBVIOUS
<1>1. ASSUME NEW a \in Agent, MaxActiveTasksPerAgent > 0
      PROVE  Cardinality(ActiveForAgent(rows, a)) <= MaxActiveTasksPerAgent + (Racing + moves)
  <2> DEFINE A == {r \in Requests : RouteAgent(r) = a}
             T == ActiveForAgent(rows, a)
  <2>1. /\ IsQuota(TaskQuota(RowsOfAgent(a), A, MaxActiveTasksPerAgent))
        /\ QuotaKept(TaskQuota(RowsOfAgent(a), A, MaxActiveTasksPerAgent))
    BY <1>1, QuotasAreQuotas DEF TasksKept, AgentsKept, AgentQuota
  <2>2. T \in SUBSET Task /\ \A t \in T : rows[t].active /\ rows[t] \in RowsOfAgent(a)
    BY DEF ActiveForAgent, Active, RowsOfAgent, TypeOK
  <2> HIDE DEF A, T
  <2>3. Cardinality(T) <= MaxActiveTasksPerAgent + (Racing + moves)
    BY <2>1, <2>2, LimitsNat, TaskQuotaBounds
  <2>4. QED
    BY <2>3 DEF T
<1>2. ASSUME NEW i \in Initiative, MaxTasksPerInitiative > 0
      PROVE  Cardinality(ActiveForInitiative(rows, i)) <= MaxTasksPerInitiative + (Racing + moves)
  <2> DEFINE A == {r \in Requests : r.init = i}
             T == ActiveForInitiative(rows, i)
  <2>1. /\ IsQuota(TaskQuota(RowsOfInitiative(i), A, MaxTasksPerInitiative))
        /\ QuotaKept(TaskQuota(RowsOfInitiative(i), A, MaxTasksPerInitiative))
    BY <1>2, QuotasAreQuotas DEF TasksKept, InitiativesKept, InitiativeQuota
  <2>2. T \in SUBSET Task /\ \A t \in T : rows[t].active /\ rows[t] \in RowsOfInitiative(i)
    BY DEF ActiveForInitiative, Active, RowsOfInitiative, TypeOK
  <2> HIDE DEF A, T
  <2>3. Cardinality(T) <= MaxTasksPerInitiative + (Racing + moves)
    BY <2>1, <2>2, LimitsNat, TaskQuotaBounds
  <2>4. QED
    BY <2>3 DEF T
<1>3. ASSUME NEW p \in Task, MaxSubtasksPerParent > 0
      PROVE  Cardinality(ActiveForParent(rows, p)) <= MaxSubtasksPerParent + (Racing + moves)
  <2> DEFINE A == {r \in Requests : r.parent = p}
             T == ActiveForParent(rows, p)
  <2>1. /\ IsQuota(TaskQuota(RowsOfParent(p), A, MaxSubtasksPerParent))
        /\ QuotaKept(TaskQuota(RowsOfParent(p), A, MaxSubtasksPerParent))
    BY <1>3, QuotasAreQuotas DEF TasksKept, ParentsKept, ParentQuota
  <2>2. T \in SUBSET Task /\ \A t \in T : rows[t].active /\ rows[t] \in RowsOfParent(p)
    BY DEF ActiveForParent, Active, RowsOfParent, TypeOK
  <2> HIDE DEF A, T
  <2>3. Cardinality(T) <= MaxSubtasksPerParent + (Racing + moves)
    BY <2>1, <2>2, LimitsNat, TaskQuotaBounds
  <2>4. QED
    BY <2>3 DEF T
<1>4. QED
  BY <1>1, <1>2, <1>3 DEF CapacityBounded

(* handlePostTaskPackage and handlePostTaskRequest, whatever children read  *)
(* and append at the same time: an agent, an initiative and a parent have   *)
(* at most one task over their limit for each further child, and for each   *)
(* task that an operator moved.                                            *)
THEOREM CapacityAlwaysBounded == Spec => []CapacityBounded
<1>1. Init => TypeOK /\ TasksKept
  BY AdmissionTypeInit, QuotasInit
<1>2. TypeOK /\ TasksKept /\ [Next]_vars => TypeOK' /\ TasksKept'
  BY AdmissionTypeStep, TasksStep
<1>3. TypeOK /\ TasksKept => CapacityBounded
  BY TasksKeptBounded
<1>4. QED
  BY <1>1, <1>2, <1>3, PTL DEF Spec

-----------------------------------------------------------------------------
(* The daily window: what it holds and what children will add to it.       *)

Owes == {"recount", "capacity", "request", "package"}
Owed(c) ==
  {u \in Handler \X (1..MaxTokens) : c[u[1]].pc \in Owes /\ u[2] <= c[u[1]].req.tokens}
OwedByOthers(c, h) == {u \in Owed(c) : u[1] # h}

WindowKept ==
  TokenDailyBudget > 0 => window + Cardinality(Owed(child)) <= TokenDailyBudget + Racing * MaxTokens

LEMMA OwedParts ==
  ASSUME NEW c \in [Handler -> {IdleChild} \cup Busy], NEW h \in Handler
  PROVE  /\ Cardinality(Owed(c)) \in Nat /\ Cardinality(OwedByOthers(c, h)) \in Nat
         /\ Cardinality(OwedByOthers(c, h)) <= Racing * MaxTokens
         /\ c[h].pc \notin Owes => Cardinality(Owed(c)) = Cardinality(OwedByOthers(c, h))
         /\ c[h].pc \in Owes =>
              Cardinality(Owed(c)) = Cardinality(OwedByOthers(c, h)) + c[h].req.tokens
<1> DEFINE O == OwedByOthers(c, h)
           P == Handler \ {h}
           f == [k \in Handler |-> k]
<1>1. MaxTokens \in Nat /\ IsFiniteSet(P) /\ Cardinality(P) \in Nat /\ Cardinality(P) <= Racing
  <2>1. {h} \in SUBSET Handler /\ {h} # {}
    OBVIOUS
  <2>2. QED
    BY <2>1, RacingNat, AdmissionAssumption
<1>2. \A u \in O : \E k \in P, n \in 1..MaxTokens : u = <<f[k], n>>
  <2> SUFFICES ASSUME NEW u \in O PROVE \E k \in P, n \in 1..MaxTokens : u = <<f[k], n>>
    OBVIOUS
  <2>1. u[1] \in P /\ u[2] \in 1..MaxTokens /\ u = <<u[1], u[2]>>
    BY DEF OwedByOthers, Owed
  <2>2. f[u[1]] = u[1]
    BY <2>1
  <2>3. QED
    BY <2>1, <2>2
<1>3. IsFiniteSet(O) /\ Cardinality(O) <= Cardinality(P) * MaxTokens
  <2> HIDE DEF O, P, f
  <2>1. QED
    BY <1>1, <1>2, FromChildren
<1>4. Cardinality(O) \in Nat
  BY <1>3, FS_CardinalityType
<1>5. Cardinality(O) <= Racing * MaxTokens
  <2>1. /\ Cardinality(P) * MaxTokens <= Racing * MaxTokens
        /\ Cardinality(P) * MaxTokens \in Nat /\ Racing * MaxTokens \in Nat
    BY <1>1, RacingNat, Times
  <2>2. QED
    BY <1>3, <1>4, <2>1
<1>6. CASE c[h].pc \notin Owes
  <2>1. Owed(c) = O
    BY <1>6 DEF OwedByOthers, Owed
  <2>2. QED
    BY <1>4, <1>5, <1>6, <2>1
<1>7. CASE c[h].pc \in Owes
  <2> DEFINE k == c[h].req.tokens
             M == {h} \X (1..k)
  <2>1. k \in Nat /\ k <= MaxTokens
    <3>1. c[h] \in Busy
      BY <1>7 DEF IdleChild, Owes
    <3>2. c[h].req \in Requests
      BY <3>1 DEF Busy
    <3>3. QED
      BY <1>1, <3>2, RequestParts
  <2>2. Owed(c) = O \cup M
    <3>1. \A u \in Handler \X (1..MaxTokens) : u \in Owed(c) <=> u \in O \cup M
      BY <1>1, <1>7, <2>1 DEF OwedByOthers, Owed
    <3>2. Owed(c) \subseteq Handler \X (1..MaxTokens)
      BY DEF Owed
    <3>3. O \subseteq Handler \X (1..MaxTokens)
      BY DEF OwedByOthers, Owed
    <3>4. M \subseteq Handler \X (1..MaxTokens)
      BY <1>1, <2>1
    <3>5. QED
      BY <3>1, <3>2, <3>3, <3>4
  <2>3. O \cap M = {}
    BY DEF OwedByOthers
  <2>4. IsFiniteSet(1..k) /\ Cardinality(1..k) = k
    <3>1. 1 \in Int /\ k \in Int
      BY <2>1
    <3> HIDE DEF k
    <3>2. IsFiniteSet(1..k) /\ Cardinality(1..k) = IF 1 > k THEN 0 ELSE (k - 1) + 1
      BY <3>1, FS_Interval
    <3>3. QED
      BY <2>1, <3>2
  <2>5. IsFiniteSet({h}) /\ Cardinality({h}) = 1
    BY FS_Singleton
  <2>6. IsFiniteSet(M) /\ Cardinality(M) = k
    <3> HIDE DEF k
    <3>1. IsFiniteSet(M) /\ Cardinality(M) = Cardinality({h}) * Cardinality(1..k)
      BY <2>4, <2>5, FS_Product
    <3>2. 1 * k = k
      BY <2>1
    <3>3. QED
      BY <2>4, <2>5, <3>1, <3>2
  <2> HIDE DEF O, M, k
  <2>7. Cardinality(O \cup M) = Cardinality(O) + Cardinality(M) - Cardinality(O \cap M)
    BY <1>3, <2>6, FS_Union
  <2>8. Cardinality(O \cap M) = 0
    BY <2>3, FS_EmptySet
  <2>9. Cardinality(Owed(c)) = Cardinality(O) + k
    BY <1>4, <2>1, <2>2, <2>6, <2>7, <2>8
  <2>10. QED
    BY <1>4, <1>5, <1>7, <2>1, <2>9 DEF O, k
<1>8. QED
  BY <1>6, <1>7

LEMMA OthersSame ==
  ASSUME NEW c, NEW d, NEW h \in Handler, \A k \in Handler \ {h} : d[k] = c[k]
  PROVE  OwedByOthers(d, h) = OwedByOthers(c, h)
<1>1. \A u \in Handler \X (1..MaxTokens) : u \in OwedByOthers(d, h) <=> u \in OwedByOthers(c, h)
  BY DEF OwedByOthers, Owed
<1>2. /\ OwedByOthers(d, h) \subseteq Handler \X (1..MaxTokens)
      /\ OwedByOthers(c, h) \subseteq Handler \X (1..MaxTokens)
  BY DEF OwedByOthers, Owed
<1>3. QED
  BY <1>1, <1>2

LEMMA WindowChildStep ==
  ASSUME TypeOK, TypeOK', WindowKept, NEW h \in Handler, Step(h)
  PROVE  WindowKept'
<1> DEFINE n == Cardinality(OwedByOthers(child, h))
<1>1. ChildTyped /\ window \in Nat /\ TokenDailyBudget \in Nat
  BY TypeParts, LimitsNat
<1>2. child' \in [Handler -> {IdleChild} \cup Busy]
  BY DEF TypeOK, IdleChild, Busy, Steps
<1>3. /\ Cardinality(Owed(child)) \in Nat /\ n \in Nat /\ n <= Racing * MaxTokens
      /\ child[h].pc \notin Owes => Cardinality(Owed(child)) = n
      /\ child[h].pc \in Owes => Cardinality(Owed(child)) = n + child[h].req.tokens
  BY <1>1, OwedParts DEF ChildTyped
<1>4. /\ Cardinality(Owed(child')) \in Nat
      /\ (\A k \in Handler \ {h} : child'[k] = child[k]) =>
           /\ child'[h].pc \notin Owes => Cardinality(Owed(child')) = n
           /\ child'[h].pc \in Owes => Cardinality(Owed(child')) = n + child'[h].req.tokens
  <2>1. /\ Cardinality(Owed(child')) \in Nat
        /\ child'[h].pc \notin Owes => Cardinality(Owed(child')) = Cardinality(OwedByOthers(child', h))
        /\ child'[h].pc \in Owes =>
             Cardinality(Owed(child')) = Cardinality(OwedByOthers(child', h)) + child'[h].req.tokens
    BY <1>2, OwedParts
  <2>2. (\A k \in Handler \ {h} : child'[k] = child[k])
          => OwedByOthers(child', h) = OwedByOthers(child, h)
    BY OthersSame
  <2>3. QED
    BY <2>1, <2>2
<1>5. Racing * MaxTokens \in Nat
  BY RacingNat, LimitsNat, Times
<1> HIDE DEF n
<1>6. ASSUME Cardinality(Owed(child')) <= Cardinality(Owed(child)), window' = window
      PROVE  WindowKept'
  <2>1. TokenDailyBudget > 0 =>
          window' + Cardinality(Owed(child')) <= TokenDailyBudget + Racing * MaxTokens
    BY <1>1, <1>3, <1>4, <1>5, <1>6 DEF WindowKept
  <2>2. QED
    BY <2>1 DEF WindowKept
<1>7. child[h].pc \in Owes => child[h].req.tokens \in Nat
  BY <1>1, BusyFields, RequestParts, LimitsNat DEF Owes
<1>8. ASSUME \A k \in Handler \ {h} : child'[k] = child[k], window' = window,
             child'[h].pc \in Owes => child[h].pc \in Owes /\ child'[h].req = child[h].req
      PROVE  WindowKept'
  <2>1. Cardinality(Owed(child')) <= Cardinality(Owed(child))
    BY <1>3, <1>4, <1>7, <1>8
  <2>2. QED
    BY <1>6, <1>8, <2>1
<1>9. CASE Receive(h)
  BY <1>1, <1>8, <1>9, ReceiveFields DEF Receive, Owes
<1>10. CASE RebuildProjection(h)
  BY <1>1, <1>8, <1>10, GoesFields DEF RebuildProjection, At, Steps, Owes
<1>11. CASE Decide(h)
  <2>1. /\ child[h].pc = "decide" /\ child[h].req \in Requests /\ window' = window
        /\ child[h].pc \notin Owes
    BY <1>1, <1>11, BusyFields DEF Decide, At, Owes
  <2>2. CASE ~EvaluateTaskPackage(child[h].req)
    BY <1>1, <1>8, <1>11, <2>1, <2>2, EndsFields DEF Decide, Owes
  <2>3. CASE EvaluateTaskPackage(child[h].req)
    <3> DEFINE k == child[h].req.tokens
    <3>1. /\ child'[h].pc \in Owes /\ child'[h].req = child[h].req
          /\ \A x \in Handler \ {h} : child'[x] = child[x]
      BY <1>1, <1>11, <2>1, <2>3, GoesFields DEF Decide, Owes, Steps
    <3>2. Cardinality(Owed(child')) = n + k /\ Cardinality(Owed(child)) = n
      BY <1>3, <1>4, <2>1, <3>1
    <3>3. k \in Nat
      BY <2>1, RequestParts, LimitsNat
    <3>4. k > 0 => Fits(TokenDailyBudget, window, k)
      BY <2>3 DEF EvaluateTaskPackage, WithinBudgets
    <3> HIDE DEF k
    <3>5. CASE k = 0
      BY <1>3, <1>6, <2>1, <3>2, <3>5
    <3>6. CASE k > 0
      <4>1. TokenDailyBudget > 0 => window + k <= TokenDailyBudget
        BY <3>4, <3>6, <1>1 DEF Fits
      <4>2. TokenDailyBudget > 0 =>
              window' + Cardinality(Owed(child')) <= TokenDailyBudget + Racing * MaxTokens
        BY <1>1, <1>3, <1>5, <2>1, <3>2, <3>3, <4>1
      <4>3. QED
        BY <4>2 DEF WindowKept
    <3>7. QED
      BY <3>3, <3>5, <3>6
  <2>4. QED
    BY <2>2, <2>3
<1>12. CASE EnforceCapacity(h)
  <2>1. child[h].pc = "capacity" /\ window' = window
    BY <1>12 DEF EnforceCapacity, At
  <2>2. Goes(h, "request") \/ Ends(h)
    BY <1>12 DEF EnforceCapacity
  <2>3. QED
    BY <1>1, <1>8, <2>1, <2>2, GoesFields, EndsFields DEF Steps, Owes
<1>13. CASE AppendRequest(h)
  BY <1>1, <1>8, <1>13, GoesFields DEF AppendRequest, At, Steps, Owes
<1>14. CASE AppendPackage(h)
  <2>1. /\ child[h].pc \in Owes /\ child'[h].pc \notin Owes
        /\ \A x \in Handler \ {h} : child'[x] = child[x]
        /\ window' = window + child[h].req.tokens
    BY <1>1, <1>14, AppendWritten, GoesFields, EndsFields DEF At, Steps, Owes
  <2>2. /\ Cardinality(Owed(child')) = n
        /\ Cardinality(Owed(child)) = n + child[h].req.tokens /\ child[h].req.tokens \in Nat
    BY <1>3, <1>4, <1>7, <2>1
  <2>3. window' + Cardinality(Owed(child')) = window + Cardinality(Owed(child))
    BY <1>1, <1>3, <2>1, <2>2
  <2>4. QED
    BY <2>3 DEF WindowKept
<1>15. CASE AppendRouting(h)
  BY <1>1, <1>8, <1>15, EndsFields DEF AppendRouting, Owes
<1>16. CASE Fail(h)
  BY <1>1, <1>8, <1>16, EndsFields DEF Fail, Owes
<1>17. QED
  BY <1>9, <1>10, <1>11, <1>12, <1>13, <1>14, <1>15, <1>16 DEF Step

LEMMA WindowStep == TypeOK /\ WindowKept /\ [Next]_vars => WindowKept'
<1> SUFFICES ASSUME TypeOK, WindowKept, [Next]_vars PROVE WindowKept'
  OBVIOUS
<1>1. TypeOK'
  BY AdmissionTypeStep
<1>2. ASSUME NEW h \in Handler, Step(h) PROVE WindowKept'
  BY <1>1, <1>2, WindowChildStep
<1>3. ASSUME child' = child, window' \in Nat, window' <= window PROVE WindowKept'
  <2>1. Cardinality(Owed(child)) \in Nat
    <3>1. PICK h \in Handler : TRUE
      BY AdmissionAssumption
    <3>2. child \in [Handler -> {IdleChild} \cup Busy]
      BY TypeParts DEF ChildTyped
    <3>3. QED
      BY <3>1, <3>2, OwedParts
  <2>2. window \in Nat /\ TokenDailyBudget + Racing * MaxTokens \in Nat
    <3>1. Racing * MaxTokens \in Nat
      BY RacingNat, LimitsNat, Times
    <3>2. QED
      BY <3>1, LimitsNat DEF TypeOK
  <2>3. TokenDailyBudget > 0 =>
          window' + Cardinality(Owed(child')) <= TokenDailyBudget + Racing * MaxTokens
    BY <1>3, <2>1, <2>2 DEF WindowKept
  <2>4. QED
    BY <2>3 DEF WindowKept
<1>4. CASE \E t \in Task : Finish(t) \/ Move(t)
  <2>1. child' = child /\ window' = window /\ window \in Nat
    BY <1>4 DEF Finish, Move, TypeOK
  <2>2. QED
    BY <1>3, <2>1
<1>5. CASE WindowMoves
  <2>1. child' = child /\ window' \in Nat /\ window' <= window
    BY <1>5 DEF WindowMoves, TypeOK
  <2>2. QED
    BY <1>3, <2>1
<1>6. CASE UNCHANGED vars
  <2>1. child' = child /\ window' = window /\ window \in Nat
    BY <1>6 DEF vars, TypeOK
  <2>2. QED
    BY <1>3, <2>1
<1>7. QED
  BY <1>2, <1>4, <1>5, <1>6 DEF Next

LEMMA WindowInit == Init => WindowKept
<1> SUFFICES ASSUME Init PROVE WindowKept
  OBVIOUS
<1>1. Owed(child) = {}
  BY DEF Init, Owed, Owes
<1>2. Cardinality(Owed(child)) = 0
  BY <1>1, FS_EmptySet
<1>3. Racing * MaxTokens \in Nat
  BY RacingNat, LimitsNat, Times
<1>4. QED
  BY <1>2, <1>3, LimitsNat DEF Init, WindowKept

TokensKept == InitiativeBudgetsKept /\ FamilyBudgetsKept /\ WindowKept

LEMMA TokensKeptBounded == TypeOK /\ TokensKept => BudgetsBounded
<1> SUFFICES ASSUME TypeOK, TokensKept PROVE BudgetsBounded
  OBVIOUS
<1>0. \A t \in Task : rows[t] \in Row
  BY DEF TypeOK
<1>1. ASSUME NEW i \in Initiative, TokenBudgetPerInitiative > 0
      PROVE  AllocatedTokens(rows, ActiveForInitiative(rows, i))
               <= TokenBudgetPerInitiative + (Racing + moves) * MaxTokens
  <2> DEFINE l == InitiativeBudget(i)
             T == ActiveForInitiative(rows, i)
  <2>1. IsQuota(l) /\ QuotaKept(l)
    BY <1>1, QuotasAreQuotas DEF TokensKept, InitiativeBudgetsKept
  <2>2. /\ l.weight = MaxTokens /\ l.limit = TokenBudgetPerInitiative
        /\ \A n \in 1..MaxTokens : l.counts[n] = {row \in Row : row.init = i /\ n <= row.tokens}
    BY DEF InitiativeBudget
  <2> HIDE DEF l
  <2>3. /\ T \in SUBSET Task
        /\ \A t \in T, n \in 1..MaxTokens :
             n <= rows[t].tokens => rows[t].active /\ rows[t] \in l.counts[n]
    BY <1>0, <2>2 DEF ActiveForInitiative, Active
  <2> HIDE DEF T
  <2>4. AllocatedTokens(rows, T) <= l.limit + (Racing + moves) * MaxTokens
    BY <2>1, <2>2, <2>3, BudgetBounds
  <2>5. QED
    BY <2>2, <2>4 DEF T
<1>2. ASSUME NEW f \in Family, TokenBudgetPerModelFamily > 0
      PROVE  AllocatedTokens(rows, ChargedToModelFamily(f))
               <= TokenBudgetPerModelFamily + (Racing + moves) * MaxTokens
  <2> DEFINE l == FamilyBudget(f)
             T == ChargedToModelFamily(f)
  <2>1. IsQuota(l) /\ QuotaKept(l)
    BY <1>2, QuotasAreQuotas DEF TokensKept, FamilyBudgetsKept
  <2>2. /\ l.weight = MaxTokens /\ l.limit = TokenBudgetPerModelFamily
        /\ \A n \in 1..MaxTokens :
             l.counts[n] = {row \in Row : row.model = f /\ row.decided = f /\ n <= row.tokens}
    BY DEF FamilyBudget
  <2> HIDE DEF l
  <2>3. /\ T \in SUBSET Task
        /\ \A t \in T, n \in 1..MaxTokens :
             n <= rows[t].tokens => rows[t].active /\ rows[t] \in l.counts[n]
    BY <1>0, <2>2 DEF ChargedToModelFamily, ActiveForModelFamily, Active
  <2> HIDE DEF T
  <2>4. AllocatedTokens(rows, T) <= l.limit + (Racing + moves) * MaxTokens
    BY <2>1, <2>2, <2>3, BudgetBounds
  <2>5. QED
    BY <2>2, <2>4 DEF T
<1>3. TokenDailyBudget > 0 => window <= TokenDailyBudget + Racing * MaxTokens
  <2>1. PICK h \in Handler : TRUE
    BY AdmissionAssumption
  <2>2. child \in [Handler -> {IdleChild} \cup Busy]
    BY TypeParts DEF ChildTyped
  <2>3. Cardinality(Owed(child)) \in Nat
    BY <2>1, <2>2, OwedParts
  <2>4. window \in Nat /\ TokenDailyBudget + Racing * MaxTokens \in Nat
    <3>1. Racing * MaxTokens \in Nat
      BY RacingNat, LimitsNat, Times
    <3>2. QED
      BY <3>1, LimitsNat DEF TypeOK
  <2>5. QED
    BY <2>3, <2>4 DEF TokensKept, WindowKept
<1>4. QED
  BY <1>1, <1>2, <1>3 DEF BudgetsBounded

(* Budgets: the tokens that the tasks of an initiative or a model family    *)
(* hold, and the packages of a day, go over the budget by what each further *)
(* child and each moved task may hold, and no further.                      *)
THEOREM BudgetsAlwaysBounded == Spec => []BudgetsBounded
<1>1. Init => TypeOK /\ TokensKept
  BY AdmissionTypeInit, QuotasInit, WindowInit DEF TokensKept
<1>2. TypeOK /\ TokensKept /\ [Next]_vars => TypeOK' /\ TokensKept'
  <2> SUFFICES ASSUME TypeOK, TokensKept, [Next]_vars PROVE TypeOK' /\ TokensKept'
    OBVIOUS
  <2>1. TypeOK'
    BY AdmissionTypeStep
  <2>2. InitiativeBudgetsKept' /\ FamilyBudgetsKept' /\ WindowKept'
    BY <2>1, InitiativeBudgetsStep, FamilyBudgetsStep, WindowStep DEF TokensKept
  <2>3. QED
    BY <2>1, <2>2 DEF TokensKept
<1>3. TypeOK /\ TokensKept => BudgetsBounded
  BY TokensKeptBounded
<1>4. QED
  BY <1>1, <1>2, <1>3, PTL DEF Spec
=============================================================================
