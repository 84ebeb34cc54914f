--------------------------- MODULE DeliveryProofs ---------------------------
(***************************************************************************)
(* Proofs about deliveries, for any number of artifacts, initiatives,      *)
(* children, requests and failures, and any contents and patterns.         *)
(***************************************************************************)
EXTENDS Delivery, TLAPS

-----------------------------------------------------------------------------
(* Types.                                                                  *)

LEMMA ModeKinds ==
  /\ "copy" \in Mode /\ "tarball" \in Mode
  /\ \A m \in Mode : m \in GitMode \/ m \in {"copy", "tarball"}
  BY DEF Mode, GitMode

ShipPc == {"resolve", "digest", "scan", "checkout", "open", "fill", "add", "commit", "push",
           "pr", "record"}

(* A child of a delivery has all that a ship has in hand.                  *)
LEMMA ShipFields ==
  ASSUME child \in [Child -> Ship \cup {Idle}], NEW c \in Child, ~At(c, "idle")
  PROVE  /\ child[c] \in Ship
         /\ child[c].pc \in ShipPc /\ child[c].task \in Artifact /\ child[c].mode \in Mode
         /\ child[c].digest \in Bytes \cup {Nothing} /\ child[c].scanned \in Bytes \cup {Nothing}
         /\ child[c].shared \in BOOLEAN
         /\ InitiativeAt(c) \in Initiative /\ PlaceOf(c) \in Place
<1>1. child[c] \in Ship
  BY DEF At, Idle
<1>2. /\ child[c].pc \in ShipPc /\ child[c].task \in Artifact /\ child[c].mode \in Mode
      /\ child[c].digest \in Bytes \cup {Nothing} /\ child[c].scanned \in Bytes \cup {Nothing}
      /\ child[c].shared \in BOOLEAN
  BY <1>1 DEF Ship, ShipPc
<1>3. InitiativeAt(c) \in Initiative
  BY <1>2, DeliveryAssumption DEF InitiativeAt
<1>4. PlaceOf(c) \in Place
  BY <1>2, <1>3, ModeKinds DEF PlaceOf, OnGit, Place
<1>5. QED
  BY <1>1, <1>2, <1>3, <1>4

(* Going on, ending and starting leave a child that has a ship in hand or  *)
(* is idle.                                                                *)
LEMMA GoesTyped ==
  ASSUME child \in [Child -> Ship \cup {Idle}], NEW c \in Child, ~At(c, "idle"),
         NEW pc \in ShipPc, Goes(c, pc)
  PROVE  child' \in [Child -> Ship \cup {Idle}]
<1>1. child[c] \in Ship
  BY ShipFields
<1>2. [child[c] EXCEPT !.pc = pc] \in Ship
  BY <1>1 DEF Ship, ShipPc
<1>3. QED
  BY <1>2 DEF Goes

LEMMA BecomesTyped ==
  ASSUME child \in [Child -> Ship \cup {Idle}], NEW c \in Child, NEW r \in Ship \cup {Idle},
         Becomes(c, r)
  PROVE  child' \in [Child -> Ship \cup {Idle}]
  BY DEF Becomes

LEMMA EndsTyped ==
  ASSUME child \in [Child -> Ship \cup {Idle}], NEW c \in Child, Ends(c)
  PROVE  child' \in [Child -> Ship \cup {Idle}]
  BY DEF Ends, Becomes

LEMMA DeliveryTypeInit == Init => TypeOK
<1> SUFFICES ASSUME Init PROVE TypeOK
  OBVIOUS
<1>1. child \in [Child -> Ship \cup {Idle}] /\ requests \in Nat /\ faults \in Nat
  BY DEF Init, RequestsInit
<1>2. /\ branches \subseteq Branch
      /\ tip \in [Branch -> [Initiative -> Content]]
  <2>1. PICK shipped \in SUBSET Initiative :
          /\ branches = {Main} \cup shipped
          /\ tip = [b \in Branch |->
                      [i \in Initiative |-> IF i = b /\ i \in shipped THEN Old ELSE Nothing]]
    BY DEF Init
  <2>2. Old \in Content /\ Nothing \in Content
    BY DeliveryAssumption DEF Content
  <2>3. QED
    BY <2>1, <2>2 DEF Branch
<1>3. QED
  BY <1>1, <1>2 DEF Init, TypeOK, NoFiles, Content, Branch

LEMMA TypeWrite ==
  ASSUME TypeOK, NEW t \in Artifact, WriteResult(t)
  PROVE  TypeOK'
<1>1. source' \in [Artifact -> Bytes \cup {Nothing}] /\ writes' \in Nat
  BY DEF WriteResult, TypeOK
<1>2. disturbed' \subseteq Child
  BY DEF WriteResult, TypeOK
<1>3. QED
  BY <1>1, <1>2 DEF WriteResult, repoVars, TypeOK

LEMMA TypeRequest ==
  ASSUME TypeOK, NEW c \in Child, NEW t \in Artifact, DeliveryRequest(c, t)
  PROVE  TypeOK'
<1> child \in [Child -> Ship \cup {Idle}]
  BY DEF TypeOK
<1>1. CASE PostTaskArtifact(c, t)
  <2>1. /\ child' \in [Child -> Ship \cup {Idle}] /\ requests' \in Nat /\ faults' \in Nat
    BY <1>1, BecomesTyped DEF PostTaskArtifact, Accept, TypeOK
  <2>2. review' \in [Artifact -> [accepted : BOOLEAN, path : BOOLEAN]]
    <3>1. PICK accepted \in BOOLEAN, path \in BOOLEAN :
            review' = [review EXCEPT ![t] =
                         [accepted |-> accepted, path |-> @.path \/ (accepted /\ path)]]
      BY <1>1 DEF PostTaskArtifact
    <3>2. PICK b \in BOOLEAN : b = (review[t].path \/ (accepted /\ path))
      OBVIOUS
    <3>3. review' = [review EXCEPT ![t] = [accepted |-> accepted, path |-> b]]
      BY <3>1, <3>2
    <3>4. QED
      BY <3>3 DEF TypeOK
  <2>3. QED
    BY <1>1, <2>1, <2>2 DEF PostTaskArtifact, repoVars, history, TypeOK
<1>2. CASE PostTaskDeliverable(c, t)
  <2>1. PICK m \in Offered :
          Accept(c, [pc |-> "resolve", task |-> t, mode |-> m,
                     digest |-> Nothing, scanned |-> Nothing, shared |-> FALSE])
    BY <1>2 DEF PostTaskDeliverable
  <2>2. [pc |-> "resolve", task |-> t, mode |-> m,
         digest |-> Nothing, scanned |-> Nothing, shared |-> FALSE] \in Ship
    BY DeliveryAssumption DEF Ship
  <2>3. /\ child' \in [Child -> Ship \cup {Idle}] /\ requests' \in Nat /\ faults' \in Nat
    BY <2>1, <2>2, BecomesTyped DEF Accept, TypeOK
  <2>4. QED
    BY <1>2, <2>3 DEF PostTaskDeliverable, deliveryState, repoVars, history, TypeOK
<1>3. QED
  BY <1>1, <1>2 DEF DeliveryRequest

LEMMA TypeStep ==
  ASSUME TypeOK, NEW c \in Child, DeliveryStep(c)
  PROVE  TypeOK'
<1> child \in [Child -> Ship \cup {Idle}]
  BY DEF TypeOK
<1> DEFINE ChildTyped == child' \in [Child -> Ship \cup {Idle}]
<1>1. CASE Resolve(c)
  <2>1. ChildTyped
    BY <1>1, GoesTyped, EndsTyped DEF Resolve, At, ShipPc
  <2>2. QED
    BY <1>1, <2>1 DEF Resolve, Proceeds, deliveryState, repoVars, history, TypeOK
<1>2. CASE Digest(c)
  <2>1. ChildTyped
    <3>1. CASE ArtifactOf(c) = Nothing
      BY <1>2, <3>1, EndsTyped DEF Digest
    <3>2. CASE ArtifactOf(c) # Nothing
      <4>1. child[c] \in Ship /\ child[c].task \in Artifact
        BY <1>2, ShipFields DEF Digest, At
      <4>2. ArtifactOf(c) \in Bytes \cup {Nothing}
        BY <4>1 DEF ArtifactOf, TypeOK
      <4>3. [child[c] EXCEPT !.pc = "scan", !.digest = ArtifactOf(c)] \in Ship
        BY <4>1, <4>2 DEF Ship
      <4>4. QED
        BY <1>2, <3>2, <4>3, BecomesTyped DEF Digest
    <3>3. QED
      BY <3>1, <3>2
  <2>2. QED
    BY <1>2, <2>1 DEF Digest, Proceeds, repoVars, TypeOK
<1>3. CASE Scan(c)
  <2>1. ChildTyped
    <3>1. child[c] \in Ship /\ child[c].task \in Artifact
      BY <1>3, ShipFields DEF Scan, At
    <3>2. ArtifactOf(c) \in Bytes \cup {Nothing}
      BY <3>1 DEF ArtifactOf, TypeOK
    <3>3. \A p \in {"checkout", "open"} :
            [child[c] EXCEPT !.pc = p, !.scanned = ArtifactOf(c)] \in Ship
      BY <3>1, <3>2 DEF Ship
    <3>4. Ends(c) \/ \E p \in {"checkout", "open"} :
                       Becomes(c, [child[c] EXCEPT !.pc = p, !.scanned = ArtifactOf(c)])
      BY <1>3 DEF Scan
    <3>5. QED
      BY <3>3, <3>4, EndsTyped, BecomesTyped
  <2>2. QED
    BY <1>3, <2>1 DEF Scan, Proceeds, deliveryState, repoVars, history, TypeOK
<1>4. CASE Checkout(c)
  <2>1. ChildTyped
    BY <1>4, GoesTyped, EndsTyped DEF Checkout, At, ShipPc
  <2>2. InitiativeAt(c) \in Initiative
    BY <1>4, ShipFields DEF Checkout, At
  <2>3. InitiativeAt(c) \in Branch
    BY <2>2 DEF Branch
  <2>4. /\ current' \in Branch /\ branches' \subseteq Branch
        /\ tip' \in [Branch -> [Initiative -> Content]]
    <3>1. current' \in Branch /\ branches' \subseteq Branch
      BY <1>4, <2>3 DEF Checkout, TypeOK
    <3>2. tip' \in [Branch -> [Initiative -> Content]]
      <4>1. tip \in [Branch -> [Initiative -> Content]] /\ current \in Branch
        BY DEF TypeOK
      <4>2. tip' = tip \/ tip' = [tip EXCEPT ![InitiativeAt(c)] = tip[current]]
        BY <1>4 DEF Checkout
      <4>3. QED
        BY <2>3, <4>1, <4>2
    <3>3. QED
      BY <3>1, <3>2
  <2>5. index' \in [Initiative -> Content]
    <3>1. /\ tip \in [Branch -> [Initiative -> Content]]
          /\ index \in [Initiative -> Content]
      BY DEF TypeOK
    <3>2. \/ index' = index
          \/ index' = [i \in Initiative |->
                         IF Same(InitiativeAt(c), i) THEN index[i] ELSE tip[InitiativeAt(c)][i]]
      BY <1>4 DEF Checkout
    <3>3. QED
      BY <2>3, <3>1, <3>2
  <2>6. shelf' \in [Place -> Content]
    <3>1. \A p \in Place : tip[InitiativeAt(c)][p[2]] \in Content
      BY <2>3 DEF Place, TypeOK
    <3>2. QED
      BY <1>4, <3>1 DEF Checkout, TypeOK
  <2>7. disturbed' \subseteq Child
    BY <1>4 DEF Checkout, TypeOK
  <2>8. QED
    BY <1>4, <2>1, <2>4, <2>5, <2>6, <2>7 DEF Checkout, Proceeds, TypeOK
<1>5. CASE OpenDest(c)
  <2>1. ChildTyped
    <3> DEFINE others == {k \in Child \ {c} :
                            Past(k, {"resolve", "digest", "scan", "checkout", "open"})
                            /\ PlaceOf(k) = PlaceOf(c)}
    <3>1. PICK b \in BOOLEAN : b = (\E o \in others : At(o, "fill"))
      OBVIOUS
    <3>2. child' = [k \in Child |->
                      IF k = c THEN [child[c] EXCEPT !.pc = "fill", !.shared = b]
                      ELSE IF k \in others /\ At(k, "fill") THEN [child[k] EXCEPT !.shared = TRUE]
                      ELSE child[k]]
      BY <1>5, <3>1 DEF OpenDest
    <3>3. [child[c] EXCEPT !.pc = "fill", !.shared = b] \in Ship
      <4>1. child[c] \in Ship
        BY <1>5, ShipFields DEF OpenDest, At
      <4>2. QED
        BY <4>1 DEF Ship
    <3>4. \A k \in Child : At(k, "fill") => [child[k] EXCEPT !.shared = TRUE] \in Ship
      <4>1. \A k \in Child : At(k, "fill") => child[k] \in Ship
        BY ShipFields DEF At
      <4>2. QED
        BY <4>1 DEF Ship
    <3>5. QED
      BY <3>2, <3>3, <3>4
  <2>2. PlaceOf(c) \in Place /\ Torn \in Content
    BY <1>5, ShipFields DEF OpenDest, At, Content
  <2>3. shelf' \in [Place -> Content] /\ disturbed' \subseteq Child /\ clean' \subseteq Place
    BY <1>5, <2>2 DEF OpenDest, TypeOK
  <2>4. QED
    BY <1>5, <2>1, <2>3 DEF OpenDest, Proceeds, repoVars, TypeOK
<1>6. CASE FillDest(c)
  <2>1. ChildTyped
    BY <1>6, GoesTyped DEF FillDest, At, ShipPc
  <2>2. /\ PlaceOf(c) \in Place /\ child[c].task \in Artifact /\ InitiativeAt(c) \in Initiative
    BY <1>6, ShipFields DEF FillDest, At
  <2>3. ArtifactOf(c) \in Content /\ Torn \in Content
    BY <2>2 DEF ArtifactOf, Content, TypeOK
  <2>4. shelf' \in [Place -> Content]
    BY <1>6, <2>2, <2>3 DEF FillDest, TypeOK
  <2>5. unscanned' \subseteq Initiative
    BY <1>6, <2>2 DEF FillDest, TypeOK
  <2>6. QED
    BY <1>6, <2>1, <2>4, <2>5 DEF FillDest, Proceeds, repoVars, TypeOK
<1>7. CASE CopyFails(c)
  <2>1. ChildTyped
    BY <1>7, EndsTyped DEF CopyFails
  <2>2. shelf' \in [Place -> Content]
    BY <1>7 DEF CopyFails, Content, TypeOK
  <2>3. QED
    BY <1>7, <2>1, <2>2 DEF CopyFails, Fault, repoVars, history, TypeOK
<1>8. CASE Add(c)
  <2>1. ChildTyped
    BY <1>8, GoesTyped, EndsTyped DEF Add, At, ShipPc
  <2>2. InitiativeAt(c) \in Initiative
    BY <1>8, ShipFields DEF Add, At
  <2>3. Tree(InitiativeAt(c)) \in Content
    BY <2>2 DEF Tree, Place, TypeOK
  <2>4. index' \in [Initiative -> Content]
    BY <1>8, <2>3 DEF Add, TypeOK
  <2>5. QED
    BY <1>8, <2>1, <2>4 DEF Add, Proceeds, history, TypeOK
<1>9. CASE Commit(c)
  <2>1. ChildTyped
    BY <1>9, GoesTyped, EndsTyped DEF Commit, At, ShipPc
  <2>2. tip' \in [Branch -> [Initiative -> Content]]
    BY <1>9 DEF Commit, TypeOK
  <2>3. QED
    BY <1>9, <2>1, <2>2 DEF Commit, Proceeds, history, TypeOK
<1>10. CASE Push(c)
  <2>1. ChildTyped
    BY <1>10, GoesTyped DEF Push, At, ShipPc
  <2>2. InitiativeAt(c) \in Branch
    BY <1>10, ShipFields DEF Push, At, Branch
  <2>3. remote' \in [Branch -> [Initiative -> Content]]
    BY <1>10, <2>2 DEF Push, TypeOK
  <2>4. QED
    BY <1>10, <2>1, <2>3 DEF Push, Proceeds, history, TypeOK
<1>11. CASE OpenPullRequest(c)
  <2>1. ChildTyped
    BY <1>11, GoesTyped DEF OpenPullRequest, At, ShipPc
  <2>2. QED
    BY <1>11, <2>1 DEF OpenPullRequest, Proceeds, deliveryState, repoVars, history, TypeOK
<1>12. CASE Record(c)
  <2>1. ChildTyped
    BY <1>12, EndsTyped DEF Record
  <2>2. PlaceOf(c) \in Place /\ child[c].digest \in Bytes \cup {Nothing}
    BY <1>12, ShipFields DEF Record, At
  <2>3. manifest' \in [Place -> Bytes \cup {Nothing}] /\ clean' \subseteq Place
    BY <1>12, <2>2 DEF Record, TypeOK
  <2>4. QED
    BY <1>12, <2>1, <2>3 DEF Record, Proceeds, repoVars, TypeOK
<1>13. CASE ShipBreaks(c)
  <2>1. ChildTyped
    BY <1>13, EndsTyped DEF ShipBreaks
  <2>2. QED
    BY <1>13, <2>1 DEF ShipBreaks, Fault, deliveryState, repoVars, history, TypeOK
<1>14. QED
  BY <1>1, <1>2, <1>3, <1>4, <1>5, <1>6, <1>7, <1>8, <1>9, <1>10, <1>11, <1>12, <1>13
     DEF DeliveryStep

LEMMA DeliveryTypeStep == TypeOK /\ [Next]_vars => TypeOK'
<1> SUFFICES ASSUME TypeOK, [Next]_vars PROVE TypeOK'
  OBVIOUS
<1>1. CASE UNCHANGED vars
  BY <1>1 DEF vars, deliveryState, repoVars, history, TypeOK
<1>2. QED
  BY <1>1, TypeWrite, TypeRequest, TypeStep DEF Next

(* handlePostTaskArtifact, handlePostTaskDeliverable and wtDeliverableShip *)
(* leave every variable within its type, whatever ships overlap: in        *)
(* particular a deliverable record never holds the digest of a file that   *)
(* was torn.                                                               *)
THEOREM DeliveryTyped == Spec => []TypeOK
  BY DeliveryTypeInit, DeliveryTypeStep, PTL DEF Spec

-----------------------------------------------------------------------------
(* What a step of a ship does to the children.                             *)

LEMMA GoesFields ==
  ASSUME child \in [Child -> Ship \cup {Idle}], NEW c \in Child, ~At(c, "idle"),
         NEW pc \in ShipPc, Goes(c, pc)
  PROVE  /\ child'[c].pc = pc
         /\ child'[c].task = child[c].task /\ child'[c].mode = child[c].mode
         /\ child'[c].digest = child[c].digest /\ child'[c].scanned = child[c].scanned
         /\ child'[c].shared = child[c].shared
         /\ \A d \in Child \ {c} : child'[d] = child[d]
<1>1. child[c] \in Ship
  BY ShipFields
<1>2. child'[c] = [child[c] EXCEPT !.pc = pc] /\ \A d \in Child \ {c} : child'[d] = child[d]
  BY DEF Goes
<1>3. QED
  BY <1>1, <1>2 DEF Ship

LEMMA EndsFields ==
  ASSUME child \in [Child -> Ship \cup {Idle}], NEW c \in Child, Ends(c)
  PROVE  child'[c].pc = "idle" /\ \A d \in Child \ {c} : child'[d] = child[d]
  BY DEF Ends, Becomes, Idle

LEMMA DigestFields ==
  ASSUME child \in [Child -> Ship \cup {Idle}], NEW c \in Child, ~At(c, "idle"),
         Becomes(c, [child[c] EXCEPT !.pc = "scan", !.digest = ArtifactOf(c)])
  PROVE  /\ child'[c].pc = "scan" /\ child'[c].digest = ArtifactOf(c)
         /\ child'[c].task = child[c].task /\ child'[c].mode = child[c].mode
         /\ \A d \in Child \ {c} : child'[d] = child[d]
<1>1. child[c] \in Ship
  BY ShipFields
<1>2. QED
  BY <1>1 DEF Becomes, Ship

LEMMA ScanFields ==
  ASSUME child \in [Child -> Ship \cup {Idle}], NEW c \in Child, ~At(c, "idle"),
         NEW pc \in {"checkout", "open"},
         Becomes(c, [child[c] EXCEPT !.pc = pc, !.scanned = ArtifactOf(c)])
  PROVE  /\ child'[c].pc = pc /\ child'[c].scanned = ArtifactOf(c)
         /\ child'[c].task = child[c].task /\ child'[c].mode = child[c].mode
         /\ child'[c].digest = child[c].digest
         /\ \A d \in Child \ {c} : child'[d] = child[d]
<1>1. child[c] \in Ship
  BY ShipFields
<1>2. QED
  BY <1>1 DEF Becomes, Ship

(* The ships that have the file of c open, or had it since.                *)
Meets(c) ==
  {k \in Child \ {c} : Past(k, {"resolve", "digest", "scan", "checkout", "open"})
                         /\ PlaceOf(k) = PlaceOf(c)}

LEMMA OpenFields ==
  ASSUME child \in [Child -> Ship \cup {Idle}], NEW c \in Child, OpenDest(c)
  PROVE  /\ child'[c].pc = "fill"
         /\ child'[c].shared = \E o \in Meets(c) : At(o, "fill")
         /\ \A d \in Child :
              /\ child'[d].task = child[d].task /\ child'[d].mode = child[d].mode
              /\ child'[d].digest = child[d].digest /\ child'[d].scanned = child[d].scanned
         /\ \A d \in Child \ {c} :
              /\ child'[d].pc = child[d].pc
              /\ d \in Meets(c) \/ child'[d] = child[d]
<1>1. child[c] \in Ship
  BY ShipFields DEF OpenDest, At
<1>2. child'[c] = [child[c] EXCEPT !.pc = "fill", !.shared = \E o \in Meets(c) : At(o, "fill")]
  BY DEF OpenDest, Meets
<1>3. \A d \in Child \ {c} :
        child'[d] = child[d]
          \/ (d \in Meets(c) /\ At(d, "fill") /\ child'[d] = [child[d] EXCEPT !.shared = TRUE])
  BY DEF OpenDest, Meets
<1>4. \A d \in Child : At(d, "fill") => child[d] \in Ship
  BY ShipFields DEF At
<1>5. /\ child'[c].pc = "fill"
      /\ child'[c].task = child[c].task /\ child'[c].mode = child[c].mode
      /\ child'[c].digest = child[c].digest /\ child'[c].scanned = child[c].scanned
  BY <1>1, <1>2 DEF Ship
<1>6. child'[c].shared = \E o \in Meets(c) : At(o, "fill")
  BY <1>1, <1>2, Zenon DEF Ship
<1>7. ASSUME NEW d \in Child \ {c}
      PROVE  /\ child'[d].pc = child[d].pc
             /\ child'[d].task = child[d].task /\ child'[d].mode = child[d].mode
             /\ child'[d].digest = child[d].digest /\ child'[d].scanned = child[d].scanned
             /\ d \in Meets(c) \/ child'[d] = child[d]
  <2>1. CASE child'[d] = child[d]
    BY <2>1
  <2>2. CASE d \in Meets(c) /\ At(d, "fill") /\ child'[d] = [child[d] EXCEPT !.shared = TRUE]
    BY <1>4, <2>2 DEF Ship
  <2>3. QED
    BY <1>3, <2>1, <2>2
<1>8. QED
  BY <1>5, <1>6, <1>7

-----------------------------------------------------------------------------
(* The scan.  The modes that a pattern holds back are those that use the   *)
(* work tree.  So as long as a file is the one that was scanned, the tree, *)
(* the index, each branch and each branch of the origin are without it.    *)

Modes ==
  \A c \in Child : child[c].pc \in {"checkout", "add", "commit", "push", "pr"} => OnGit(c)

ScanHolds ==
  \A c \in Child : child[c].pc \in {"checkout", "open", "fill"} /\ OnGit(c)
                     => child[c].scanned \notin Secret

FilesHold(i) ==
  /\ Tree(i) \notin Secret /\ index[i] \notin Secret
  /\ \A b \in Branch : tip[b][i] \notin Secret /\ remote[b][i] \notin Secret

ScanInv ==
  Patterns => ScanHolds /\ \A i \in Initiative \ unscanned : FilesHold(i)

LEMMA ScanInit == Init => Modes /\ ScanInv
<1> SUFFICES ASSUME Init PROVE Modes /\ ScanInv
  OBVIOUS
<1>1. Modes /\ ScanHolds
  BY DEF Init, RequestsInit, Idle, Modes, ScanHolds
<1>2. Nothing \notin Secret /\ Old \notin Secret
  BY DeliveryAssumption
<1>3. \A b \in Branch, i \in Initiative : tip[b][i] \notin Secret /\ remote[b][i] \notin Secret
  <2>1. PICK shipped \in SUBSET Initiative :
          tip = [b \in Branch |->
                   [i \in Initiative |-> IF i = b /\ i \in shipped THEN Old ELSE Nothing]]
    BY DEF Init
  <2>2. remote = tip
    BY DEF Init
  <2>3. QED
    BY <1>2, <2>1, <2>2
<1>4. \A i \in Initiative : Tree(i) \notin Secret /\ index[i] \notin Secret
  BY <1>2 DEF Init, NoFiles, Tree, Place
<1>5. QED
  BY <1>1, <1>3, <1>4 DEF ScanInv, FilesHold

(* Where each child is after a step: it stays, it is idle, or it is in the *)
(* hands of the step.                                                      *)
LEMMA ModesStep ==
  ASSUME TypeOK, Modes, [Next]_vars
  PROVE  Modes'
<1> child \in [Child -> Ship \cup {Idle}]
  BY DEF TypeOK
<1>1. ASSUME NEW c \in Child, NEW t \in Artifact, DeliveryRequest(c, t) PROVE Modes'
  BY <1>1 DEF DeliveryRequest, PostTaskArtifact, PostTaskDeliverable, Accept, Becomes, Idle,
              Modes, OnGit
<1>2. ASSUME NEW c \in Child, Ends(c) PROVE Modes'
  BY <1>2, EndsFields DEF Modes, OnGit
<1>3. ASSUME NEW c \in Child, ~At(c, "idle"), NEW pc \in ShipPc, Goes(c, pc),
             pc \in {"checkout", "add", "commit", "push", "pr"} => OnGit(c)
      PROVE  Modes'
  BY <1>3, GoesFields DEF Modes, OnGit
<1>4. ASSUME NEW c \in Child, DeliveryStep(c) PROVE Modes'
  <2>1. CASE Resolve(c)
    BY <2>1, <1>2, <1>3 DEF Resolve, At, ShipPc
  <2>2. CASE Digest(c)
    <3>1. CASE Ends(c)
      BY <3>1, <1>2
    <3>2. CASE Becomes(c, [child[c] EXCEPT !.pc = "scan", !.digest = ArtifactOf(c)])
      BY <2>2, <3>2, DigestFields DEF Digest, At, Modes, OnGit
    <3>3. QED
      BY <2>2, <3>1, <3>2 DEF Digest
  <2>3. CASE Scan(c)
    <3>1. CASE Ends(c)
      BY <3>1, <1>2
    <3>2. CASE Becomes(c, [child[c] EXCEPT !.pc = IF OnGit(c) THEN "checkout" ELSE "open",
                                           !.scanned = ArtifactOf(c)])
      BY <2>3, <3>2, ScanFields DEF Scan, At, Modes, OnGit
    <3>3. QED
      BY <2>3, <3>1, <3>2 DEF Scan
  <2>4. CASE Checkout(c)
    BY <2>4, <1>2, <1>3 DEF Checkout, At, ShipPc
  <2>5. CASE OpenDest(c)
    BY <2>5, OpenFields DEF Modes, OnGit
  <2>6. CASE FillDest(c)
    BY <2>6, <1>3 DEF FillDest, At, ShipPc
  <2>7. CASE CopyFails(c)
    BY <2>7, <1>2 DEF CopyFails
  <2>8. CASE Add(c)
    BY <2>8, <1>2, <1>3 DEF Add, At, ShipPc, Modes
  <2>9. CASE Commit(c)
    BY <2>9, <1>2, <1>3 DEF Commit, At, ShipPc, Modes
  <2>10. CASE Push(c)
    BY <2>10, <1>3 DEF Push, At, ShipPc, Modes
  <2>11. CASE OpenPullRequest(c)
    BY <2>11, <1>3 DEF OpenPullRequest, At, ShipPc
  <2>12. CASE Record(c)
    BY <2>12, <1>2 DEF Record
  <2>13. CASE ShipBreaks(c)
    BY <2>13, <1>2 DEF ShipBreaks
  <2>14. QED
    BY <1>4, <2>1, <2>2, <2>3, <2>4, <2>5, <2>6, <2>7, <2>8, <2>9, <2>10, <2>11, <2>12, <2>13
       DEF DeliveryStep
<1>5. ASSUME child' = child PROVE Modes'
  BY <1>5 DEF Modes, OnGit
<1>6. QED
  BY <1>1, <1>4, <1>5 DEF Next, WriteResult, vars

LEMMA ScanStep ==
  ASSUME TypeOK, Modes, ScanInv, [Next]_vars
  PROVE  ScanInv'
<1> SUFFICES ASSUME Patterns
             PROVE  ScanHolds' /\ \A i \in Initiative \ unscanned' : FilesHold(i)'
  BY DEF ScanInv
<1> child \in [Child -> Ship \cup {Idle}] /\ ScanHolds
  BY DEF TypeOK, ScanInv
<1> DEFINE Files == <<shelf, index, tip, remote, unscanned>>
           Kept == \A i \in Initiative \ unscanned' : FilesHold(i)'
<1>1. ASSUME UNCHANGED Files PROVE Kept
  BY <1>1 DEF ScanInv, FilesHold, Tree
<1>2. ASSUME child' = child PROVE ScanHolds'
  BY <1>2 DEF ScanHolds, OnGit
<1>3. ASSUME NEW c \in Child, Ends(c) PROVE ScanHolds'
  BY <1>3, EndsFields DEF ScanHolds, OnGit
<1>4. ASSUME NEW c \in Child, ~At(c, "idle"), NEW pc \in ShipPc, Goes(c, pc),
             pc \in {"open", "fill", "checkout"} => At(c, "checkout")
      PROVE  ScanHolds'
  BY <1>4, GoesFields DEF ScanHolds, OnGit, At
<1>5. ASSUME NEW t \in Artifact, WriteResult(t) PROVE ScanHolds' /\ Kept
  BY <1>5, <1>1, <1>2 DEF WriteResult, repoVars
<1>6. ASSUME NEW c \in Child, NEW t \in Artifact, DeliveryRequest(c, t)
      PROVE  ScanHolds' /\ Kept
  <2>1. ScanHolds'
    BY <1>6 DEF DeliveryRequest, PostTaskArtifact, PostTaskDeliverable, Accept, Becomes, Idle,
                ScanHolds, OnGit
  <2>2. QED
    BY <1>1, <1>6, <2>1
       DEF DeliveryRequest, PostTaskArtifact, PostTaskDeliverable, deliveryState, repoVars, history
<1>7. ASSUME NEW c \in Child, DeliveryStep(c) PROVE ScanHolds' /\ Kept
  <2>1. CASE Resolve(c)
    BY <2>1, <1>1, <1>3, <1>4 DEF Resolve, At, ShipPc, deliveryState, repoVars, history
  <2>2. CASE Digest(c)
    <3>1. ScanHolds'
      BY <2>2, <1>3, DigestFields DEF Digest, At, ScanHolds, OnGit
    <3>2. QED
      BY <2>2, <3>1, <1>1 DEF Digest, repoVars
  <2>3. CASE Scan(c)
    <3>1. ScanHolds'
      <4>1. CASE Ends(c)
        BY <4>1, <1>3
      <4>2. ASSUME Becomes(c, [child[c] EXCEPT !.pc = IF OnGit(c) THEN "checkout" ELSE "open",
                                               !.scanned = ArtifactOf(c)]),
                   OnGit(c) => ArtifactOf(c) \notin Secret
            PROVE  ScanHolds'
        <5>1. /\ OnGit(c)' => child'[c].scanned \notin Secret
              /\ \A d \in Child \ {c} : child'[d] = child[d]
          BY <2>3, <4>2, ScanFields DEF Scan, At, OnGit
        <5>2. QED
          BY <1>3, <5>1 DEF ScanHolds, OnGit
      <4>3. QED
        BY <2>3, <4>1, <4>2 DEF Scan, Blocks, OnGit
    <3>2. QED
      BY <2>3, <3>1, <1>1 DEF Scan, deliveryState, repoVars, history
  <2>4. CASE Checkout(c)
    <3>1. ScanHolds'
      BY <2>4, <1>3, <1>4 DEF Checkout, At, ShipPc
    <3>2. current \in Branch /\ InitiativeAt(c) \in Branch
      BY <2>4, ShipFields DEF Checkout, At, Branch, TypeOK
    <3>3. remote' = remote /\ unscanned' = unscanned
      BY <2>4 DEF Checkout
    <3>4. ASSUME NEW i \in Initiative \ unscanned, FilesHold(i)
          PROVE  FilesHold(i)'
      <4>1. \A b \in Branch : tip'[b][i] \notin Secret
        BY <2>4, <3>2, <3>4 DEF Checkout, FilesHold, TypeOK
      <4>2. index'[i] \notin Secret
        BY <2>4, <3>2, <3>4 DEF Checkout, FilesHold, TypeOK
      <4>3. shelf'[<<"tree", i>>] \notin Secret
        <5>1. <<"tree", i>> \in Place /\ <<"tree", i>>[2] = i
          BY DEF Place
        <5>2. QED
          BY <2>4, <3>2, <3>4, <5>1 DEF Checkout, FilesHold, Tree
      <4>4. QED
        BY <3>3, <3>4, <4>1, <4>2, <4>3 DEF FilesHold, Tree
    <3>5. QED
      BY <3>1, <3>3, <3>4 DEF ScanInv
  <2>5. CASE OpenDest(c)
    <3>1. ScanHolds'
      BY <2>5, OpenFields DEF OpenDest, At, ScanHolds, OnGit
    <3>2. Torn \notin Secret
      BY DeliveryAssumption
    <3>3. \A i \in Initiative : Tree(i)' \in {Tree(i), Torn}
      BY <2>5 DEF OpenDest, Tree, Place, TypeOK
    <3>4. UNCHANGED <<index, tip, remote, unscanned>>
      BY <2>5 DEF OpenDest, repoVars
    <3>5. QED
      BY <3>1, <3>2, <3>3, <3>4 DEF ScanInv, FilesHold
  <2>6. CASE FillDest(c)
    <3>1. ScanHolds'
      BY <2>6, <1>4 DEF FillDest, At, ShipPc
    <3>2. /\ InitiativeAt(c) \in Initiative /\ PlaceOf(c) \in Place /\ child[c].mode \in Mode
      BY <2>6, ShipFields DEF FillDest, At
    <3>3. PICK b \in {ArtifactOf(c), Torn} : shelf' = [shelf EXCEPT ![PlaceOf(c)] = b]
      BY <2>6 DEF FillDest
    <3>4. Torn \notin Secret
      BY DeliveryAssumption
    <3>5. UNCHANGED <<index, tip, remote>> /\ unscanned \subseteq unscanned'
      BY <2>6 DEF FillDest, repoVars
    <3>6. ASSUME NEW i \in Initiative \ unscanned'
          PROVE  Tree(i)' \notin Secret
      <4>1. Tree(i) \notin Secret /\ <<"tree", i>> \in Place
        BY <3>5, <3>6 DEF ScanInv, FilesHold, Place
      <4>2. CASE PlaceOf(c) # <<"tree", i>>
        BY <3>3, <4>1, <4>2 DEF Tree, TypeOK
      <4>3. CASE PlaceOf(c) = <<"tree", i>>
        <5>1. OnGit(c) /\ InitiativeAt(c) = i
          BY <3>2, <4>3, ModeKinds DEF PlaceOf, OnGit
        <5>2. child[c].scanned \notin Secret
          BY <2>6, <5>1 DEF FillDest, At, ScanHolds
        <5>3. ArtifactOf(c) = child[c].scanned
          BY <2>6, <5>1, <3>6 DEF FillDest
        <5>4. Tree(i)' = b
          BY <3>3, <4>1, <4>3 DEF Tree, TypeOK
        <5>5. QED
          BY <3>4, <5>2, <5>3, <5>4
      <4>4. QED
        BY <4>2, <4>3
    <3>7. QED
      BY <3>1, <3>5, <3>6 DEF ScanInv, FilesHold
  <2>7. CASE CopyFails(c)
    <3>1. ScanHolds'
      BY <2>7, <1>3 DEF CopyFails
    <3>2. Nothing \notin Secret
      BY DeliveryAssumption
    <3>3. \A i \in Initiative : Tree(i)' \in {Tree(i), Nothing}
      BY <2>7 DEF CopyFails, Tree, Place, TypeOK
    <3>4. UNCHANGED <<index, tip, remote, unscanned>>
      BY <2>7 DEF CopyFails, repoVars, history
    <3>5. QED
      BY <3>1, <3>2, <3>3, <3>4 DEF ScanInv, FilesHold
  <2>8. CASE Add(c)
    <3>1. ScanHolds'
      BY <2>8, <1>3, <1>4 DEF Add, At, ShipPc
    <3>2. \A i \in Initiative : index'[i] \in {index[i], Tree(i)}
      BY <2>8 DEF Add, TypeOK
    <3>3. UNCHANGED <<shelf, tip, remote, unscanned>>
      BY <2>8 DEF Add, history
    <3>4. QED
      BY <3>1, <3>2, <3>3 DEF ScanInv, FilesHold, Tree
  <2>9. CASE Commit(c)
    <3>1. ScanHolds'
      BY <2>9, <1>3, <1>4 DEF Commit, At, ShipPc
    <3>2. \A i \in Initiative, b \in Branch : tip'[b][i] \in {index[i], tip[b][i]}
      BY <2>9 DEF Commit, TypeOK
    <3>3. UNCHANGED <<shelf, index, remote, unscanned>>
      BY <2>9 DEF Commit, history
    <3>4. QED
      BY <3>1, <3>2, <3>3 DEF ScanInv, FilesHold, Tree
  <2>10. CASE Push(c)
    <3>1. ScanHolds'
      BY <2>10, <1>4 DEF Push, At, ShipPc
    <3>2. \A i \in Initiative, b \in Branch : remote'[b][i] \in {remote[b][i], tip[b][i]}
      BY <2>10 DEF Push, TypeOK
    <3>3. UNCHANGED <<shelf, index, tip, unscanned>>
      BY <2>10 DEF Push, history
    <3>4. QED
      BY <3>1, <3>2, <3>3 DEF ScanInv, FilesHold, Tree
  <2>11. CASE OpenPullRequest(c)
    BY <2>11, <1>1, <1>4 DEF OpenPullRequest, At, ShipPc, deliveryState, repoVars, history
  <2>12. CASE Record(c)
    BY <2>12, <1>1, <1>3 DEF Record, repoVars
  <2>13. CASE ShipBreaks(c)
    BY <2>13, <1>1, <1>3 DEF ShipBreaks, deliveryState, repoVars, history
  <2>14. QED
    BY <1>7, <2>1, <2>2, <2>3, <2>4, <2>5, <2>6, <2>7, <2>8, <2>9, <2>10, <2>11, <2>12, <2>13
       DEF DeliveryStep
<1>8. CASE UNCHANGED vars
  BY <1>8, <1>1, <1>2 DEF vars, deliveryState, repoVars, history
<1>9. QED
  BY <1>5, <1>6, <1>7, <1>8 DEF Next

(* wtDeliverableScanFile before the checkout of wtDeliverableShip:     *)
(* with patterns configured, what is pushed is free of them, whatever      *)
(* ships and failures overlap and in every mode, unless the artifact was   *)
(* written between the scan and the copy.                                  *)
THEOREM PushedFilesScanned == Spec => []ScanGuardsRemote
<1>1. Init => TypeOK /\ Modes /\ ScanInv
  BY DeliveryTypeInit, ScanInit
<1>2. TypeOK /\ Modes /\ ScanInv /\ [Next]_vars => (TypeOK /\ Modes /\ ScanInv)'
  BY DeliveryTypeStep, ModesStep, ScanStep
<1>3. ScanInv => ScanGuardsRemote
  BY DEF ScanInv, FilesHold, ScanGuardsRemote
<1>4. QED
  BY <1>1, <1>2, <1>3, PTL DEF Spec

-----------------------------------------------------------------------------
(* The records.  A ship that has its place open, or the work tree on its   *)
(* branch, is disturbed when another one has too.  So an undisturbed ship  *)
(* finds at each step what it left at the one before.                      *)

PastOpen == {"fill", "add", "commit", "push", "pr", "record"}
PastCheckout == {"open"} \cup PastOpen
PastDigest == {"scan", "checkout"} \cup PastCheckout

Apart ==
  \A c, d \in Child : c # d =>
    /\ child[c].pc \in PastOpen /\ child[d].pc \in PastOpen /\ PlaceOf(c) = PlaceOf(d)
         => c \in disturbed
    /\ child[c].pc \in PastCheckout /\ OnGit(c) /\ child[d].pc \in PastCheckout /\ OnGit(d)
         => c \in disturbed

Holds(c) ==
  LET i == InitiativeAt(c)
      g == child[c].digest
  IN  /\ g = ArtifactOf(c)
      /\ At(c, "fill") => ~child[c].shared
      /\ child[c].pc \in PastCheckout /\ OnGit(c) => current = i
      /\ At(c, "add") => Tree(i) = g
      /\ At(c, "commit") => index[i] = g
      /\ At(c, "push") => tip[i][i] = g
      /\ At(c, "pr") \/ At(c, "record") => Delivered(PlaceOf(c)) = g

Undisturbed == \A c \in Child : child[c].pc \in PastDigest /\ c \notin disturbed => Holds(c)

CleanApart == \A c \in Child : child[c].pc \in PastOpen => PlaceOf(c) \notin clean

RecordInv == Apart /\ Undisturbed /\ CleanApart /\ ManifestTrue

LEMMA RecordInit == Init => RecordInv
  BY DEF Init, RequestsInit, Idle, RecordInv, Apart, Undisturbed, CleanApart, ManifestTrue,
         PastOpen, PastCheckout, PastDigest

LEMMA PastSets ==
  ASSUME NEW c \in Child
  PROVE  /\ Past(c, {"resolve", "digest"}) <=> child[c].pc \in PastDigest
         /\ Past(c, {"resolve", "digest", "scan", "checkout"}) <=> child[c].pc \in PastCheckout
         /\ Past(c, {"resolve", "digest", "scan", "checkout", "open"}) <=> child[c].pc \in PastOpen
  BY DEF Past, Ships, PastOpen, PastCheckout, PastDigest

(* How far the ships are after a step: only OpenDest opens a place and     *)
(* only Checkout takes the work tree, each for its own ship.               *)
Moved(c, opens, takes) ==
  \A d \in Child :
    /\ child'[d].pc # "idle" => child'[d].task = child[d].task /\ child'[d].mode = child[d].mode
    /\ child'[d].pc \in PastOpen => child[d].pc \in PastOpen \/ (d = c /\ opens)
    /\ child'[d].pc \in PastCheckout /\ OnGit(d) => child[d].pc \in PastCheckout \/ (d = c /\ takes)

LEMMA MovedByEnd ==
  ASSUME TypeOK, NEW c \in Child, Ends(c)
  PROVE  Moved(c, FALSE, FALSE)
<1>1. child'[c].pc = "idle" /\ \A d \in Child \ {c} : child'[d] = child[d]
  BY EndsFields DEF TypeOK
<1>2. QED
  BY <1>1 DEF Moved, PastOpen, PastCheckout

LEMMA MovedByStep ==
  ASSUME TypeOK, Modes, NEW c \in Child, DeliveryStep(c)
  PROVE  Moved(c, OpenDest(c), Checkout(c))
<1> child \in [Child -> Ship \cup {Idle}]
  BY DEF TypeOK
<1> DEFINE M == Moved(c, OpenDest(c), Checkout(c))
<1>1. ASSUME Ends(c) PROVE M
  BY <1>1, MovedByEnd DEF Moved
<1>2. ASSUME ~At(c, "idle"), NEW pc \in ShipPc, Goes(c, pc),
             pc \in PastOpen => child[c].pc \in PastOpen,
             pc \in PastCheckout => child[c].pc \in PastCheckout \/ Checkout(c)
      PROVE  M
  BY <1>2, GoesFields DEF Moved
<1>3. CASE Resolve(c)
  BY <1>3, <1>1, <1>2 DEF Resolve, At, ShipPc, PastOpen, PastCheckout
<1>4. CASE Digest(c)
  <2>1. CASE Becomes(c, [child[c] EXCEPT !.pc = "scan", !.digest = ArtifactOf(c)])
    BY <1>4, <2>1, DigestFields DEF Digest, At, Moved, PastOpen, PastCheckout
  <2>2. QED
    BY <1>4, <1>1, <2>1 DEF Digest
<1>5. CASE Scan(c)
  <2>1. CASE Becomes(c, [child[c] EXCEPT !.pc = IF OnGit(c) THEN "checkout" ELSE "open",
                                         !.scanned = ArtifactOf(c)])
    BY <1>5, <2>1, ScanFields DEF Scan, At, Moved, PastOpen, PastCheckout
  <2>2. QED
    BY <1>5, <1>1, <2>1 DEF Scan
<1>6. CASE Checkout(c)
  BY <1>6, <1>1, <1>2 DEF Checkout, At, ShipPc, PastOpen, PastCheckout
<1>7. CASE OpenDest(c)
  BY <1>7, OpenFields DEF OpenDest, At, Moved, PastOpen, PastCheckout
<1>8. CASE FillDest(c)
  BY <1>8, <1>2 DEF FillDest, At, ShipPc, PastOpen, PastCheckout
<1>9. CASE CopyFails(c)
  BY <1>9, <1>1 DEF CopyFails
<1>10. CASE Add(c)
  BY <1>10, <1>1, <1>2 DEF Add, At, ShipPc, PastOpen, PastCheckout
<1>11. CASE Commit(c)
  BY <1>11, <1>1, <1>2 DEF Commit, At, ShipPc, PastOpen, PastCheckout
<1>12. CASE Push(c)
  BY <1>12, <1>2 DEF Push, At, ShipPc, PastOpen, PastCheckout
<1>13. CASE OpenPullRequest(c)
  BY <1>13, <1>2 DEF OpenPullRequest, At, ShipPc, PastOpen, PastCheckout
<1>14. CASE Record(c)
  BY <1>14, <1>1 DEF Record
<1>15. CASE ShipBreaks(c)
  BY <1>15, <1>1 DEF ShipBreaks
<1>16. QED
  BY <1>3, <1>4, <1>5, <1>6, <1>7, <1>8, <1>9, <1>10, <1>11, <1>12, <1>13, <1>14, <1>15
     DEF DeliveryStep

(* The same of a request and of a step of nobody's.                        *)
LEMMA MovedByOthers ==
  ASSUME TypeOK, NEW c \in Child
  PROVE  /\ child' = child => Moved(c, FALSE, FALSE)
         /\ \A t \in Artifact : DeliveryRequest(c, t) =>
              \A d \in Child :
                /\ child'[d].pc \in PastDigest => d # c
                /\ d # c => child'[d] = child[d]
<1>1. child' = child => Moved(c, FALSE, FALSE)
  BY DEF Moved
<1>2. ASSUME NEW t \in Artifact, DeliveryRequest(c, t), NEW d \in Child
      PROVE  /\ child'[d].pc \in PastDigest => d # c
             /\ d # c => child'[d] = child[d]
  BY <1>2 DEF DeliveryRequest, PostTaskArtifact, PostTaskDeliverable, Accept, Becomes, Idle, TypeOK,
              PastOpen, PastCheckout, PastDigest
<1>3. QED
  BY <1>1, <1>2

(* Ships stay apart.                                                       *)
LEMMA ApartQuiet ==
  ASSUME TypeOK, Apart, NEW c \in Child, Moved(c, FALSE, FALSE),
         \A d \in Child : child'[d].pc \in PastCheckout /\ d \in disturbed => d \in disturbed'
  PROVE  Apart'
<1> SUFFICES ASSUME NEW d \in Child, NEW e \in Child, d # e
             PROVE  /\ child'[d].pc \in PastOpen /\ child'[e].pc \in PastOpen
                         /\ PlaceOf(d)' = PlaceOf(e)' => d \in disturbed'
                    /\ child'[d].pc \in PastCheckout /\ OnGit(d)'
                         /\ child'[e].pc \in PastCheckout /\ OnGit(e)' => d \in disturbed'
  BY DEF Apart
<1>1. \A k \in Child : child'[k].pc \in PastCheckout =>
         /\ PlaceOf(k)' = PlaceOf(k) /\ (OnGit(k)' <=> OnGit(k))
  BY DEF Moved, PastOpen, PastCheckout, PlaceOf, OnGit, InitiativeAt
<1>2. \A k \in Child : child'[k].pc \in PastOpen => child'[k].pc \in PastCheckout
  BY DEF PastCheckout
<1>3. \A k \in Child :
        /\ child'[k].pc \in PastOpen => child[k].pc \in PastOpen
        /\ child'[k].pc \in PastCheckout /\ OnGit(k) => child[k].pc \in PastCheckout
  BY DEF Moved
<1>4. QED
  BY <1>1, <1>2, <1>3 DEF Apart

(* Which ships are disturbed after a step: once a ship is past its digest  *)
(* it stays disturbed.                                                     *)
LEMMA DisturbedStays ==
  ASSUME TypeOK, [Next]_vars, NEW d \in Child, d \in disturbed, child'[d].pc \in PastCheckout
  PROVE  d \in disturbed'
<1> child \in [Child -> Ship \cup {Idle}]
  BY DEF TypeOK
<1>1. ASSUME NEW c \in Child, Digest(c) PROVE d \in disturbed'
  <2>1. child'[c].pc \in {"idle", "scan"}
    BY <1>1, EndsFields, DigestFields DEF Digest, At
  <2>2. d # c
    BY <2>1 DEF PastCheckout, PastOpen
  <2>3. QED
    BY <1>1, <2>2 DEF Digest
<1>2. ASSUME NEW c \in Child, DeliveryStep(c), ~Digest(c) PROVE d \in disturbed'
  BY <1>2
     DEF DeliveryStep, Resolve, Scan, Checkout, OpenDest, FillDest, CopyFails, Add, Commit, Push,
         OpenPullRequest, Record, ShipBreaks, deliveryState, history
<1>3. ASSUME NEW c \in Child, NEW t \in Artifact, DeliveryRequest(c, t) PROVE d \in disturbed'
  BY <1>3 DEF DeliveryRequest, PostTaskArtifact, PostTaskDeliverable, deliveryState, history
<1>4. QED
  BY <1>1, <1>2, <1>3 DEF Next, WriteResult, vars, deliveryState, history

LEMMA ApartStep ==
  ASSUME TypeOK, Modes, Apart, [Next]_vars
  PROVE  Apart'
<1>1. ASSUME NEW c \in Child, DeliveryStep(c), ~OpenDest(c), ~Checkout(c)
      PROVE  Apart'
  <2>1. Moved(c, FALSE, FALSE)
    BY <1>1, MovedByStep DEF Moved
  <2>2. \A d \in Child : child'[d].pc \in PastCheckout /\ d \in disturbed => d \in disturbed'
    BY DisturbedStays
  <2>3. QED
    BY <2>1, <2>2, ApartQuiet
<1>2. ASSUME NEW c \in Child, OpenDest(c)
      PROVE  Apart'
  <2>1. /\ \A k \in Child : /\ PlaceOf(k)' = PlaceOf(k) /\ (OnGit(k)' <=> OnGit(k))
                            /\ k # c => child'[k].pc = child[k].pc
        /\ child'[c].pc = "fill" /\ child[c].pc = "open"
    <3>1. child \in [Child -> Ship \cup {Idle}] /\ child[c].pc = "open"
      BY <1>2 DEF TypeOK, OpenDest, At
    <3>2. /\ \A k \in Child : /\ child'[k].task = child[k].task /\ child'[k].mode = child[k].mode
                              /\ k # c => child'[k].pc = child[k].pc
          /\ child'[c].pc = "fill"
      BY <1>2, <3>1, OpenFields
    <3>3. QED
      BY <3>1, <3>2 DEF PlaceOf, OnGit, InitiativeAt
  <2>2. disturbed' = disturbed \cup Meets(c) \cup (IF Meets(c) = {} THEN {} ELSE {c})
    BY <1>2 DEF OpenDest, Meets
  <2>3. \A k \in Child \ {c} :
          child[k].pc \in PastOpen /\ PlaceOf(k) = PlaceOf(c) => k \in disturbed' /\ c \in disturbed'
    <3>1. \A k \in Child \ {c} :
            child[k].pc \in PastOpen /\ PlaceOf(k) = PlaceOf(c) => k \in Meets(c)
      BY PastSets DEF Meets
    <3>2. QED
      BY <2>2, <3>1
  <2>4. c \in Child /\ child[c].pc \in PastCheckout /\ disturbed \subseteq disturbed'
    BY <2>1, <2>2 DEF PastCheckout
  <2>5. \A k \in Child : child'[k].pc \in PastCheckout => child[k].pc \in PastCheckout
    BY <2>1, <2>4
  <2>6. ASSUME NEW d \in Child, NEW e \in Child, d # e,
               child'[d].pc \in PastOpen, child'[e].pc \in PastOpen, PlaceOf(d)' = PlaceOf(e)'
        PROVE  d \in disturbed'
    BY <2>1, <2>3, <2>4, <2>6 DEF Apart
  <2>7. ASSUME NEW d \in Child, NEW e \in Child, d # e,
               child'[d].pc \in PastCheckout, OnGit(d)', child'[e].pc \in PastCheckout, OnGit(e)'
        PROVE  d \in disturbed'
    BY <2>1, <2>4, <2>5, <2>7 DEF Apart
  <2>8. QED
    BY <2>6, <2>7 DEF Apart
<1>3. ASSUME NEW c \in Child, Checkout(c)
      PROVE  Apart'
  <2> DEFINE others == {k \in Child \ {c} : child[k].pc \in PastCheckout /\ OnGit(k)}
  <2>1. Moved(c, FALSE, TRUE)
    BY <1>3, MovedByStep DEF DeliveryStep, Moved, OpenDest, Checkout, At
  <2>2. disturbed' = disturbed \cup others \cup (IF others = {} THEN {} ELSE {c})
    <3>1. others = {k \in Child \ {c} :
                      Past(k, {"resolve", "digest", "scan", "checkout"}) /\ OnGit(k)}
      BY PastSets
    <3>2. QED
      BY <1>3, <3>1 DEF Checkout
  <2>3. \A k \in Child : child'[k].pc \in PastCheckout =>
          /\ PlaceOf(k)' = PlaceOf(k) /\ (OnGit(k)' <=> OnGit(k))
    BY <2>1 DEF Moved, PastOpen, PastCheckout, PlaceOf, OnGit, InitiativeAt
  <2>4. \A k \in Child :
          /\ child'[k].pc \in PastOpen => child[k].pc \in PastOpen /\ child'[k].pc \in PastCheckout
          /\ child'[k].pc \in PastCheckout /\ OnGit(k) => child[k].pc \in PastCheckout \/ k = c
    BY <2>1 DEF Moved, PastCheckout
  <2>5. ASSUME NEW d \in Child, NEW e \in Child, d # e,
               child'[d].pc \in PastOpen, child'[e].pc \in PastOpen, PlaceOf(d)' = PlaceOf(e)'
        PROVE  d \in disturbed'
    BY <2>2, <2>3, <2>4, <2>5 DEF Apart
  <2>6. ASSUME NEW d \in Child, NEW e \in Child, d # e,
               child'[d].pc \in PastCheckout, OnGit(d)', child'[e].pc \in PastCheckout, OnGit(e)'
        PROVE  d \in disturbed'
    <3>1. CASE d = c
      <4>1. e \in others
        BY <2>3, <2>4, <2>6, <3>1
      <4>2. QED
        BY <2>2, <3>1, <4>1
    <3>2. CASE d # c
      <4>1. d \in others
        BY <2>3, <2>4, <2>6, <3>2
      <4>2. QED
        BY <2>2, <4>1
    <3>3. QED
      BY <3>1, <3>2
  <2>7. QED
    BY <2>5, <2>6 DEF Apart
<1>4. ASSUME NEW c \in Child, NEW t \in Artifact, DeliveryRequest(c, t)
      PROVE  Apart'
  <2>1. \A d \in Child : child'[d].pc \in PastDigest => child'[d] = child[d]
    BY <1>4, MovedByOthers
  <2>2. disturbed' = disturbed
    BY <1>4 DEF DeliveryRequest, PostTaskArtifact, PostTaskDeliverable, deliveryState, history
  <2>3. QED
    BY <2>1, <2>2 DEF Apart, PastOpen, PastCheckout, PastDigest, PlaceOf, OnGit, InitiativeAt
<1>5. ASSUME child' = child, disturbed \subseteq disturbed' PROVE Apart'
  BY <1>5 DEF Apart, PlaceOf, OnGit, InitiativeAt
<1>6. QED
  <2>1. \A t \in Artifact : WriteResult(t) => child' = child /\ disturbed \subseteq disturbed'
    BY DEF WriteResult
  <2>2. UNCHANGED vars => child' = child /\ disturbed \subseteq disturbed'
    BY DEF vars, deliveryState, history
  <2>3. QED
    BY <1>1, <1>2, <1>3, <1>4, <1>5, <2>1, <2>2 DEF Next

(* What an undisturbed ship left, when another one takes a step.           *)
LEMMA HoldsKept ==
  ASSUME NEW d \in Child, Holds(d), child'[d] = child[d], ArtifactOf(d)' = ArtifactOf(d),
         child[d].pc \in PastCheckout /\ OnGit(d) => current' = current,
         At(d, "add") => Tree(InitiativeAt(d))' = Tree(InitiativeAt(d)),
         At(d, "commit") => index'[InitiativeAt(d)] = index[InitiativeAt(d)],
         At(d, "push") => tip'[InitiativeAt(d)][InitiativeAt(d)]
                            = tip[InitiativeAt(d)][InitiativeAt(d)],
         At(d, "pr") \/ At(d, "record") => Delivered(PlaceOf(d))' = Delivered(PlaceOf(d))
  PROVE  Holds(d)'
<1>1. /\ InitiativeAt(d)' = InitiativeAt(d) /\ PlaceOf(d)' = PlaceOf(d) /\ OnGit(d)' = OnGit(d)
      /\ \A pc : At(d, pc)' = At(d, pc)
  BY DEF InitiativeAt, PlaceOf, OnGit, At
<1>2. /\ Tree(InitiativeAt(d))' = shelf'[<<"tree", InitiativeAt(d)>>]
      /\ At(d, "add") => Tree(InitiativeAt(d))' = Tree(InitiativeAt(d))
  BY <1>1 DEF Tree
<1>3. QED
  BY <1>1, <1>2 DEF Holds

LEMMA OtherStays ==
  ASSUME TypeOK, NEW c \in Child, DeliveryStep(c), NEW d \in Child \ {c}, d \notin disturbed'
  PROVE  child'[d] = child[d] /\ d \notin disturbed
<1> child \in [Child -> Ship \cup {Idle}]
  BY DEF TypeOK
<1>1. CASE OpenDest(c)
  <2>1. disturbed \cup Meets(c) \subseteq disturbed'
    BY <1>1 DEF OpenDest, Meets
  <2>2. QED
    BY <1>1, <2>1, OpenFields
<1>2. CASE ~OpenDest(c)
  <2>1. child'[d] = child[d]
    BY <1>2
       DEF DeliveryStep, Resolve, Digest, Scan, Checkout, FillDest, CopyFails, Add, Commit, Push,
           OpenPullRequest, Record, ShipBreaks, Goes, Ends, Becomes
  <2>2. d \notin disturbed
    BY <1>2
       DEF DeliveryStep, Resolve, Digest, Scan, Checkout, FillDest, CopyFails, Add, Commit, Push,
           OpenPullRequest, Record, ShipBreaks, deliveryState, history
  <2>3. QED
    BY <2>1, <2>2
<1>3. QED
  BY <1>1, <1>2

LEMMA OthersHold ==
  ASSUME TypeOK, Modes, Apart, Undisturbed, NEW c \in Child, DeliveryStep(c),
         NEW d \in Child \ {c}, child'[d].pc \in PastDigest, d \notin disturbed'
  PROVE  Holds(d)'
<1> DEFINE i == InitiativeAt(d)
           p == PlaceOf(d)
<1> child \in [Child -> Ship \cup {Idle}]
  BY DEF TypeOK
<1>1. child'[d] = child[d] /\ d \notin disturbed
  BY OtherStays
<1>2. Holds(d) /\ child[d].pc \in PastDigest
  BY <1>1 DEF Undisturbed
<1>3. /\ i \in Initiative /\ p \in Place /\ child[d].mode \in Mode
      /\ p[1] = "tree" <=> OnGit(d)
      /\ OnGit(d) => p = <<"tree", i>>
  <2>1. i \in Initiative /\ p \in Place /\ child[d].mode \in Mode
    BY <1>2, ShipFields DEF At, PastDigest, PastCheckout, PastOpen
  <2>2. QED
    BY <2>1, ModeKinds DEF PlaceOf, OnGit
<1>4. /\ child[c].pc \in PastOpen /\ child[d].pc \in PastOpen => p # PlaceOf(c)
      /\ child[c].pc \in PastCheckout /\ OnGit(c) /\ child[d].pc \in PastCheckout => ~OnGit(d)
  BY <1>1 DEF Apart
<1>5. At(d, "add") \/ At(d, "commit") \/ At(d, "push") \/ At(d, "pr") => OnGit(d)
  BY DEF Modes, At
<1>6. \A pc \in PastOpen : At(d, pc) => child[d].pc \in PastOpen /\ child[d].pc \in PastCheckout
  BY DEF At, PastCheckout
<1>7. /\ ArtifactOf(d)' = source'[child[d].task] /\ ArtifactOf(d) = source[child[d].task]
      /\ Tree(i)' = shelf'[<<"tree", i>>] /\ Tree(i) = shelf[<<"tree", i>>]
      /\ Delivered(p)' = (IF p[1] = "tree" THEN remote'[p[2]][p[2]] ELSE shelf'[p])
      /\ Delivered(p) = (IF p[1] = "tree" THEN remote[p[2]][p[2]] ELSE shelf[p])
  <2>1. InitiativeAt(d)' = InitiativeAt(d) /\ PlaceOf(d)' = PlaceOf(d)
    BY <1>1 DEF InitiativeAt, PlaceOf, OnGit
  <2>2. QED
    BY <1>1, <2>1 DEF ArtifactOf, Tree, Delivered
<1>8. PastOpen = {"fill", "add", "commit", "push", "pr", "record"} /\ source' = source
  BY DEF PastOpen, DeliveryStep, Resolve, Digest, Scan, Checkout, OpenDest, FillDest, CopyFails, Add,
         Commit, Push, OpenPullRequest, Record, ShipBreaks, deliveryState
<1> HIDE DEF i, p
<1>9. ASSUME UNCHANGED <<shelf, current, tip, index, remote>>
      PROVE  Holds(d)'
  BY <1>1, <1>2, <1>7, <1>8, <1>9, HoldsKept DEF i, p
<1>10. ASSUME UNCHANGED <<current, tip, index, remote>>, NEW b,
              shelf' = [shelf EXCEPT ![PlaceOf(c)] = b],
              child[d].pc \in PastOpen => p # PlaceOf(c)
       PROVE  Holds(d)'
  <2>1. shelf \in [Place -> Content]
    BY DEF TypeOK
  <2>2. child[d].pc \in PastOpen => shelf'[p] = shelf[p]
    BY <1>3, <1>10, <2>1
  <2>3. At(d, "add") => Tree(i)' = Tree(i)
    BY <1>3, <1>5, <1>6, <1>7, <1>8, <2>2
  <2>4. At(d, "pr") \/ At(d, "record") => Delivered(p)' = Delivered(p)
    BY <1>6, <1>7, <1>8, <1>10, <2>2
  <2>5. QED
    BY <1>1, <1>2, <1>7, <1>8, <1>10, <2>3, <2>4, HoldsKept DEF i, p
<1>11. CASE Resolve(c) \/ Digest(c) \/ Scan(c) \/ OpenPullRequest(c) \/ Record(c) \/ ShipBreaks(c)
  BY <1>11, <1>9
     DEF Resolve, Digest, Scan, OpenPullRequest, Record, ShipBreaks, deliveryState, repoVars
<1>12. CASE Checkout(c)
  <2>1. child[d].pc \in PastCheckout => ~OnGit(d)
    <3>1. child[d].pc \in PastCheckout /\ OnGit(d) => d \in disturbed'
      BY <1>12, PastSets DEF Checkout
    <3>2. QED
      BY <3>1
  <2>2. \A pc \in {"add", "commit", "push", "pr"} : ~At(d, pc)
    BY <1>5, <1>6, <1>8, <2>1
  <2>3. At(d, "record") => Delivered(p)' = Delivered(p)
    <3>1. At(d, "record") => p[1] # "tree"
      BY <1>3, <1>6, <1>8, <2>1
    <3>2. p[1] # "tree" => shelf'[p] = shelf[p]
      BY <1>3, <1>12 DEF Checkout
    <3>3. QED
      BY <1>7, <3>1, <3>2
  <2>4. QED
    BY <1>1, <1>2, <1>7, <1>8, <2>1, <2>2, <2>3, HoldsKept DEF i, p
<1>13. CASE OpenDest(c)
  <2>1. child[d].pc \in PastOpen => p # PlaceOf(c)
    <3>1. child[d].pc \in PastOpen /\ PlaceOf(d) = PlaceOf(c) => d \in disturbed'
      BY <1>13, PastSets DEF OpenDest
    <3>2. QED
      BY <3>1 DEF p
  <2>2. QED
    BY <1>10, <1>13, <2>1 DEF OpenDest, repoVars
<1>14. CASE FillDest(c)
  <2>1. child[c].pc \in PastOpen
    BY <1>14, <1>8 DEF FillDest, At
  <2>2. PICK b \in {ArtifactOf(c), Torn} : shelf' = [shelf EXCEPT ![PlaceOf(c)] = b]
    BY <1>14 DEF FillDest
  <2>3. QED
    BY <1>4, <1>10, <1>14, <2>1, <2>2 DEF FillDest, repoVars
<1>15. CASE CopyFails(c)
  <2>1. child[c].pc \in PastOpen
    BY <1>15, <1>8 DEF CopyFails, At
  <2>2. QED
    BY <1>4, <1>10, <1>15, <2>1 DEF CopyFails, repoVars
<1>16. CASE Add(c) \/ Commit(c) \/ Push(c)
  <2>1. child[d].pc \in PastCheckout => ~OnGit(d)
    BY <1>4, <1>16 DEF Add, Commit, Push, At, Modes, PastCheckout, PastOpen
  <2>2. \A pc \in {"add", "commit", "push", "pr"} : ~At(d, pc)
    BY <1>5, <1>6, <1>8, <2>1
  <2>3. At(d, "record") => Delivered(p)' = Delivered(p)
    <3>1. At(d, "record") => p[1] # "tree"
      BY <1>3, <1>6, <1>8, <2>1
    <3>2. shelf' = shelf
      BY <1>16 DEF Add, Commit, Push
    <3>3. QED
      BY <1>7, <3>1, <3>2
  <2>4. QED
    BY <1>1, <1>2, <1>7, <1>8, <2>1, <2>2, <2>3, HoldsKept DEF i, p
<1>17. QED
  BY <1>11, <1>12, <1>13, <1>14, <1>15, <1>16 DEF DeliveryStep

(* What a ship leaves that takes a step and is undisturbed after it.       *)
LEMMA SelfHolds ==
  ASSUME TypeOK, Modes, Undisturbed, NEW c \in Child, DeliveryStep(c),
         child'[c].pc \in PastDigest, c \notin disturbed'
  PROVE  Holds(c)'
<1> DEFINE i == InitiativeAt(c)
           g == child[c].digest
<1> child \in [Child -> Ship \cup {Idle}]
  BY DEF TypeOK
<1>1. ~Ends(c)
  BY EndsFields DEF PastDigest, PastCheckout, PastOpen
<1>2. \A pc \in ShipPc : Goes(c, pc) /\ ~At(c, "idle") =>
        /\ child'[c].pc = pc /\ child'[c].digest = g /\ child'[c].shared = child[c].shared
        /\ InitiativeAt(c)' = i /\ PlaceOf(c)' = PlaceOf(c) /\ OnGit(c)' = OnGit(c)
        /\ ArtifactOf(c)' = source'[child[c].task]
  BY GoesFields DEF InitiativeAt, PlaceOf, OnGit, ArtifactOf
<1>3. child[c].pc \in PastDigest /\ c \notin disturbed => Holds(c)
  BY DEF Undisturbed
<1>4. ShipPc = {"resolve", "digest"} \cup PastDigest
  BY DEF ShipPc, PastDigest, PastCheckout, PastOpen
<1>5. ~At(c, "idle") => i \in Initiative /\ PlaceOf(c) \in Place /\ child[c].mode \in Mode
  BY ShipFields
<1>6. CASE Resolve(c)
  <2>1. child'[c].pc = "digest"
    BY <1>1, <1>2, <1>6 DEF Resolve, At, ShipPc
  <2>2. QED
    BY <2>1 DEF PastDigest, PastCheckout, PastOpen
<1>7. CASE Digest(c)
  <2>1. /\ child'[c].pc = "scan" /\ child'[c].digest = ArtifactOf(c)
        /\ child'[c].task = child[c].task /\ source' = source
    BY <1>1, <1>7, DigestFields DEF Digest, At
  <2>2. QED
    BY <2>1 DEF Holds, At, ArtifactOf, PastCheckout, PastOpen
<1>8. CASE Scan(c)
  <2>1. /\ child'[c].pc \in {"checkout", "open"} /\ child'[c].digest = g
        /\ child'[c].task = child[c].task /\ child'[c].mode = child[c].mode
        /\ OnGit(c) => child'[c].pc = "checkout"
    BY <1>1, <1>8, ScanFields DEF Scan, At
  <2>2. source' = source /\ disturbed' = disturbed /\ At(c, "scan")
    BY <1>8 DEF Scan, deliveryState, history
  <2>3. g = ArtifactOf(c)
    BY <1>3, <2>2 DEF Holds, At, PastDigest
  <2>4. QED
    BY <2>1, <2>2, <2>3 DEF Holds, At, ArtifactOf, OnGit, PastCheckout, PastOpen
<1>9. CASE Checkout(c)
  <2>1. /\ Goes(c, "open") /\ current' = i /\ source' = source /\ At(c, "checkout")
        /\ c \notin disturbed
    BY <1>1, <1>9 DEF Checkout
  <2>2. g = ArtifactOf(c)
    BY <1>3, <2>1 DEF Holds, At, PastDigest
  <2>3. /\ child'[c].pc = "open" /\ child'[c].digest = g /\ InitiativeAt(c)' = i
        /\ ArtifactOf(c)' = source'[child[c].task]
    BY <1>2, <2>1 DEF At, ShipPc
  <2>4. QED
    BY <2>1, <2>2, <2>3 DEF Holds, At, ArtifactOf
<1>10. CASE OpenDest(c)
  <2>1. Meets(c) = {} /\ c \notin disturbed
    BY <1>10 DEF OpenDest, Meets
  <2>2. /\ child'[c].pc = "fill" /\ ~child'[c].shared
        /\ child'[c].task = child[c].task /\ child'[c].mode = child[c].mode
        /\ child'[c].digest = g
    BY <1>10, <2>1, OpenFields
  <2>3. At(c, "open") /\ UNCHANGED <<source, current>>
    BY <1>10 DEF OpenDest, repoVars
  <2>4. g = ArtifactOf(c) /\ (OnGit(c) => current = i)
    BY <1>3, <2>1, <2>3 DEF Holds, At, PastDigest, PastCheckout
  <2>5. QED
    BY <2>2, <2>3, <2>4 DEF Holds, At, ArtifactOf, OnGit, InitiativeAt
<1>11. CASE FillDest(c)
  <2>1. At(c, "fill") /\ UNCHANGED <<source, current, disturbed>>
    BY <1>11 DEF FillDest, repoVars
  <2>2. g = ArtifactOf(c) /\ ~child[c].shared /\ (OnGit(c) => current = i)
    BY <1>3, <2>1 DEF Holds, At, PastDigest, PastCheckout, PastOpen
  <2>3. shelf' = [shelf EXCEPT ![PlaceOf(c)] = g]
    BY <1>11, <2>2 DEF FillDest
  <2>4. shelf'[PlaceOf(c)] = g
    BY <1>5, <2>1, <2>3 DEF At, TypeOK
  <2>5. /\ child'[c].pc = (IF OnGit(c) THEN "add" ELSE "record") /\ child'[c].digest = g
        /\ InitiativeAt(c)' = i /\ PlaceOf(c)' = PlaceOf(c) /\ OnGit(c)' = OnGit(c)
        /\ ArtifactOf(c)' = source'[child[c].task]
    BY <1>2, <1>11 DEF FillDest, At, ShipPc
  <2>6. CASE OnGit(c)
    <3>1. PlaceOf(c) = <<"tree", i>>
      BY <2>6 DEF PlaceOf
    <3>2. QED
      BY <2>1, <2>2, <2>4, <2>5, <2>6, <3>1 DEF Holds, At, ArtifactOf, Tree
  <2>7. CASE ~OnGit(c)
    <3>1. PlaceOf(c)[1] # "tree"
      BY <1>5, <2>1, <2>7, ModeKinds DEF PlaceOf, At, OnGit
    <3>2. Delivered(PlaceOf(c))' = shelf'[PlaceOf(c)]
      BY <2>5, <3>1 DEF Delivered
    <3>3. QED
      BY <2>1, <2>2, <2>4, <2>5, <2>7, <3>2 DEF Holds, At, ArtifactOf
  <2>8. QED
    BY <2>6, <2>7
<1>12. CASE CopyFails(c)
  BY <1>1, <1>12 DEF CopyFails
<1>13. CASE Add(c)
  <2>1. /\ At(c, "add") /\ Goes(c, "commit") /\ UNCHANGED <<source, current, disturbed>>
        /\ index' = [index EXCEPT ![i] = Tree(i)]
    BY <1>1, <1>13 DEF Add, history
  <2>2. g = ArtifactOf(c) /\ Tree(i) = g /\ (OnGit(c) => current = i)
    BY <1>3, <2>1 DEF Holds, At, PastDigest, PastCheckout, PastOpen
  <2>3. index'[i] = g
    BY <1>5, <2>1, <2>2 DEF At, TypeOK
  <2>4. /\ child'[c].pc = "commit" /\ child'[c].digest = g
        /\ InitiativeAt(c)' = i /\ OnGit(c)' = OnGit(c)
        /\ ArtifactOf(c)' = source'[child[c].task]
    BY <1>2, <2>1 DEF At, ShipPc
  <2>5. QED
    BY <2>1, <2>2, <2>3, <2>4 DEF Holds, At, ArtifactOf
<1>14. CASE Commit(c)
  <2>1. /\ At(c, "commit") /\ Goes(c, "push") /\ UNCHANGED <<source, current, disturbed>>
        /\ tip' = [tip EXCEPT ![current] = index]
    BY <1>1, <1>14 DEF Commit, history
  <2>2. OnGit(c)
    BY <2>1 DEF Modes, At
  <2>3. g = ArtifactOf(c) /\ index[i] = g /\ current = i
    BY <1>3, <2>1, <2>2 DEF Holds, At, PastDigest, PastCheckout, PastOpen
  <2>4. tip'[i][i] = g
    BY <2>1, <2>3 DEF TypeOK
  <2>5. /\ child'[c].pc = "push" /\ child'[c].digest = g
        /\ InitiativeAt(c)' = i /\ OnGit(c)' = OnGit(c)
        /\ ArtifactOf(c)' = source'[child[c].task]
    BY <1>2, <2>1 DEF At, ShipPc
  <2>6. QED
    BY <2>1, <2>3, <2>4, <2>5 DEF Holds, At, ArtifactOf
<1>15. CASE Push(c)
  <2>1. /\ At(c, "push") /\ UNCHANGED <<source, current, disturbed>>
        /\ remote' = [remote EXCEPT ![i] = tip[i]]
        /\ \E pc \in {"pr", "record"} : Goes(c, pc)
    BY <1>15 DEF Push, history
  <2>2. OnGit(c)
    BY <2>1 DEF Modes, At
  <2>3. g = ArtifactOf(c) /\ tip[i][i] = g /\ current = i
    BY <1>3, <2>1, <2>2 DEF Holds, At, PastDigest, PastCheckout, PastOpen
  <2>4. i \in Branch
    BY <1>5, <2>1 DEF At, Branch
  <2>5. remote'[i][i] = g
    BY <2>1, <2>3, <2>4 DEF TypeOK
  <2>6. /\ child'[c].pc \in {"pr", "record"} /\ child'[c].digest = g
        /\ InitiativeAt(c)' = i /\ PlaceOf(c)' = PlaceOf(c) /\ OnGit(c)' = OnGit(c)
        /\ ArtifactOf(c)' = source'[child[c].task]
    BY <1>2, <2>1 DEF At, ShipPc
  <2>7. Delivered(PlaceOf(c))' = remote'[i][i]
    <3>1. PlaceOf(c) = <<"tree", i>>
      BY <2>2 DEF PlaceOf
    <3>2. QED
      BY <2>6, <3>1 DEF Delivered
  <2>8. QED
    BY <2>1, <2>3, <2>5, <2>6, <2>7 DEF Holds, At, ArtifactOf
<1>16. CASE OpenPullRequest(c)
  <2>1. At(c, "pr") /\ Goes(c, "record") /\ UNCHANGED <<source, current, disturbed, shelf, remote>>
    BY <1>16 DEF OpenPullRequest, deliveryState, repoVars, history
  <2>2. g = ArtifactOf(c) /\ Delivered(PlaceOf(c)) = g /\ (OnGit(c) => current = i)
    BY <1>3, <2>1 DEF Holds, At, PastDigest, PastCheckout, PastOpen
  <2>3. /\ child'[c].pc = "record" /\ child'[c].digest = g
        /\ InitiativeAt(c)' = i /\ PlaceOf(c)' = PlaceOf(c) /\ OnGit(c)' = OnGit(c)
        /\ ArtifactOf(c)' = source'[child[c].task]
    BY <1>2, <2>1 DEF At, ShipPc
  <2>4. Delivered(PlaceOf(c))' = Delivered(PlaceOf(c))
    BY <2>1, <2>3 DEF Delivered
  <2>5. QED
    BY <2>1, <2>2, <2>3, <2>4 DEF Holds, At, ArtifactOf
<1>17. CASE Record(c) \/ ShipBreaks(c)
  BY <1>1, <1>17 DEF Record, ShipBreaks
<1>18. QED
  BY <1>6, <1>7, <1>8, <1>9, <1>10, <1>11, <1>12, <1>13, <1>14, <1>15, <1>16, <1>17
     DEF DeliveryStep

LEMMA UndisturbedStep ==
  ASSUME TypeOK, Modes, Apart, Undisturbed, [Next]_vars
  PROVE  Undisturbed'
<1> SUFFICES ASSUME NEW d \in Child, child'[d].pc \in PastDigest, d \notin disturbed'
             PROVE  Holds(d)'
  BY DEF Undisturbed
<1>1. ASSUME NEW c \in Child, DeliveryStep(c) PROVE Holds(d)'
  BY <1>1, SelfHolds, OthersHold
<1> DEFINE Quiet == UNCHANGED <<shelf, current, tip, index, remote>>
<1>2. ASSUME child'[d] = child[d], d \notin disturbed, Quiet, ArtifactOf(d)' = ArtifactOf(d)
      PROVE  Holds(d)'
  <2>1. Holds(d)
    BY <1>2 DEF Undisturbed
  <2>2. Tree(InitiativeAt(d))' = Tree(InitiativeAt(d))
    BY <1>2 DEF Tree, InitiativeAt
  <2>3. Delivered(PlaceOf(d))' = Delivered(PlaceOf(d))
    BY <1>2 DEF Delivered, PlaceOf, OnGit, InitiativeAt
  <2>4. QED
    BY <1>2, <2>1, <2>2, <2>3, HoldsKept
<1>3. ASSUME NEW c \in Child, NEW t \in Artifact, DeliveryRequest(c, t) PROVE Holds(d)'
  <2>1. child'[d] = child[d]
    BY <1>3, MovedByOthers
  <2>2. Quiet /\ UNCHANGED <<disturbed, source>>
    BY <1>3
       DEF DeliveryRequest, PostTaskArtifact, PostTaskDeliverable, deliveryState, repoVars, history
  <2>3. QED
    BY <1>2, <2>1, <2>2 DEF ArtifactOf
<1>4. ASSUME NEW t \in Artifact, WriteResult(t) PROVE Holds(d)'
  <2>1. child' = child /\ Quiet /\ disturbed \subseteq disturbed'
    BY <1>4 DEF WriteResult, repoVars
  <2>2. child[d].task # t
    BY <1>4, <2>1, PastSets DEF WriteResult
  <2>3. ArtifactOf(d)' = ArtifactOf(d)
    <3>1. PICK b : source' = [source EXCEPT ![t] = b]
      BY <1>4 DEF WriteResult
    <3>2. child[d].task \in Artifact /\ source \in [Artifact -> Bytes \cup {Nothing}]
      BY <2>1, ShipFields DEF TypeOK, At, PastDigest, PastCheckout, PastOpen
    <3>3. QED
      BY <2>1, <2>2, <3>1, <3>2 DEF ArtifactOf
  <2>4. QED
    BY <1>2, <2>1, <2>3
<1>5. CASE UNCHANGED vars
  BY <1>2, <1>5 DEF vars, deliveryState, repoVars, history, ArtifactOf
<1>6. QED
  BY <1>1, <1>3, <1>4, <1>5 DEF Next

(* An undisturbed record was alone at its place.                           *)
LEMMA CleanStep ==
  ASSUME TypeOK, Modes, Apart, CleanApart, [Next]_vars
  PROVE  CleanApart'
<1> child \in [Child -> Ship \cup {Idle}]
  BY DEF TypeOK
<1> SUFFICES ASSUME NEW d \in Child, child'[d].pc \in PastOpen
             PROVE  PlaceOf(d)' \notin clean'
  BY DEF CleanApart
<1>1. ASSUME NEW c \in Child, DeliveryStep(c) PROVE PlaceOf(d)' \notin clean'
  <2>1. /\ PlaceOf(d)' = PlaceOf(d)
        /\ child[d].pc \in PastOpen \/ (d = c /\ OpenDest(c))
    BY <1>1, MovedByStep DEF Moved, PastOpen, PlaceOf, OnGit, InitiativeAt
  <2>2. CASE OpenDest(c)
    BY <2>1, <2>2 DEF OpenDest, CleanApart
  <2>3. CASE Record(c)
    <3>1. clean' = (IF c \in disturbed THEN clean ELSE clean \cup {PlaceOf(c)})
      BY <2>3 DEF Record
    <3>2. child[d].pc \in PastOpen /\ PlaceOf(d) \notin clean
      BY <2>1, <2>3 DEF Record, OpenDest, At, CleanApart
    <3>3. d # c
      BY <2>3, EndsFields DEF Record, PastOpen
    <3>4. PlaceOf(d) = PlaceOf(c) => c \in disturbed
      <4>1. child[c].pc \in PastOpen
        BY <2>3 DEF Record, At, PastOpen
      <4>2. QED
        BY <3>2, <3>3, <4>1 DEF Apart
    <3>5. QED
      BY <2>1, <3>1, <3>2, <3>4
  <2>4. CASE ~OpenDest(c) /\ ~Record(c)
    <3>1. clean' = clean
      BY <1>1, <2>4
         DEF DeliveryStep, Resolve, Digest, Scan, Checkout, FillDest, CopyFails, Add, Commit, Push,
             OpenPullRequest, ShipBreaks, deliveryState, history
    <3>2. QED
      BY <2>1, <2>4, <3>1 DEF CleanApart
  <2>5. QED
    BY <2>2, <2>3, <2>4
<1>2. ASSUME child'[d] = child[d], clean' = clean PROVE PlaceOf(d)' \notin clean'
  BY <1>2 DEF CleanApart, PlaceOf, OnGit, InitiativeAt
<1>3. ASSUME NEW c \in Child, NEW t \in Artifact, DeliveryRequest(c, t)
      PROVE  child'[d] = child[d] /\ clean' = clean
  <2>1. child'[d] = child[d]
    BY <1>3, MovedByOthers DEF PastDigest, PastCheckout
  <2>2. QED
    BY <1>3, <2>1 DEF DeliveryRequest, PostTaskArtifact, PostTaskDeliverable, deliveryState, history
<1>4. QED
  BY <1>1, <1>2, <1>3 DEF Next, WriteResult, vars, deliveryState, history

LEMMA ManifestStep ==
  ASSUME TypeOK, Modes, Undisturbed, CleanApart, ManifestTrue, [Next]_vars
  PROVE  ManifestTrue'
<1> child \in [Child -> Ship \cup {Idle}]
  BY DEF TypeOK
<1> SUFFICES ASSUME NEW p \in clean'
             PROVE  Delivered(p)' = manifest'[p]
  BY DEF ManifestTrue
<1>1. /\ Delivered(p)' = (IF p[1] = "tree" THEN remote'[p[2]][p[2]] ELSE shelf'[p])
      /\ Delivered(p) = (IF p[1] = "tree" THEN remote[p[2]][p[2]] ELSE shelf[p])
      /\ p \in clean => Delivered(p) = manifest[p]
      /\ p \in clean => p \in Place
  BY DEF Delivered, ManifestTrue, TypeOK
<1>2. ASSUME clean' = clean, UNCHANGED <<shelf, remote, manifest>>
      PROVE  Delivered(p)' = manifest'[p]
  BY <1>1, <1>2
<1>3. ASSUME NEW c \in Child, clean' \subseteq clean, PlaceOf(c) \notin clean', NEW b,
             shelf' = [shelf EXCEPT ![PlaceOf(c)] = b], UNCHANGED <<remote, manifest>>
      PROVE  Delivered(p)' = manifest'[p]
  <2>1. p \in Place /\ p # PlaceOf(c)
    BY <1>1, <1>3
  <2>2. shelf'[p] = shelf[p]
    BY <1>3, <2>1 DEF TypeOK
  <2>3. QED
    BY <1>1, <1>3, <2>2
<1>4. ASSUME NEW c \in Child, DeliveryStep(c)
      PROVE  Delivered(p)' = manifest'[p]
  <2>1. child[c].pc \in PastOpen => PlaceOf(c) \notin clean
    BY DEF CleanApart
  <2>2. CASE \/ Resolve(c) \/ Digest(c) \/ Scan(c) \/ Add(c) \/ Commit(c) \/ OpenPullRequest(c)
             \/ ShipBreaks(c)
    BY <1>2, <2>2
       DEF Resolve, Digest, Scan, Add, Commit, OpenPullRequest, ShipBreaks,
           deliveryState, repoVars, history
  <2>3. CASE Checkout(c)
    <3>1. p \in clean /\ UNCHANGED <<remote, manifest>>
      BY <2>3 DEF Checkout
    <3>2. p[1] # "tree" => shelf'[p] = shelf[p]
      BY <1>1, <2>3, <3>1 DEF Checkout
    <3>3. QED
      BY <1>1, <3>1, <3>2
  <2>4. CASE OpenDest(c)
    BY <1>3, <2>4 DEF OpenDest, repoVars
  <2>5. CASE FillDest(c)
    <3>1. PICK b \in {ArtifactOf(c), Torn} : shelf' = [shelf EXCEPT ![PlaceOf(c)] = b]
      BY <2>5 DEF FillDest
    <3>2. PlaceOf(c) \notin clean
      BY <2>1, <2>5 DEF FillDest, At, PastOpen
    <3>3. QED
      BY <1>3, <2>5, <3>1, <3>2 DEF FillDest, repoVars
  <2>6. CASE CopyFails(c)
    <3>1. PlaceOf(c) \notin clean
      BY <2>1, <2>6 DEF CopyFails, At, PastOpen
    <3>2. QED
      BY <1>3, <2>6, <3>1 DEF CopyFails, repoVars, history
  <2>7. CASE Push(c)
    <3>1. /\ At(c, "push") /\ remote' = [remote EXCEPT ![InitiativeAt(c)] = tip[InitiativeAt(c)]]
          /\ UNCHANGED <<shelf, clean, manifest>>
      BY <2>7 DEF Push, history
    <3>2. PlaceOf(c) = <<"tree", InitiativeAt(c)>> /\ PlaceOf(c) \notin clean
      BY <2>1, <3>1 DEF Modes, At, PastOpen, PlaceOf
    <3>3. p \in Place /\ p \in clean
      BY <1>1, <3>1
    <3>4. p[1] = "tree" => p[2] # InitiativeAt(c)
      BY <3>2, <3>3 DEF Place
    <3>5. p[1] = "tree" => remote'[p[2]] = remote[p[2]]
      BY <3>1, <3>3, <3>4 DEF Place, Branch, TypeOK
    <3>6. QED
      BY <1>1, <3>1, <3>3, <3>5
  <2>8. CASE Record(c)
    <3>1. /\ At(c, "record") /\ UNCHANGED <<shelf, remote>>
          /\ manifest' = [manifest EXCEPT ![PlaceOf(c)] = child[c].digest]
          /\ clean' = (IF c \in disturbed THEN clean ELSE clean \cup {PlaceOf(c)})
      BY <2>8 DEF Record, repoVars
    <3>2. PlaceOf(c) \in Place /\ PlaceOf(c) \notin clean
      BY <2>1, <3>1, ShipFields DEF At, PastOpen
    <3>3. CASE p = PlaceOf(c)
      <4>1. c \notin disturbed
        BY <3>1, <3>2, <3>3
      <4>2. Delivered(p) = child[c].digest
        BY <3>1, <3>3, <4>1 DEF Undisturbed, Holds, At, PastDigest, PastCheckout, PastOpen
      <4>3. manifest'[p] = child[c].digest
        BY <3>1, <3>2, <3>3 DEF TypeOK
      <4>4. QED
        BY <1>1, <3>1, <4>2, <4>3
    <3>4. CASE p # PlaceOf(c)
      <4>1. p \in clean
        BY <3>1, <3>4
      <4>2. manifest'[p] = manifest[p]
        BY <1>1, <3>1, <3>4, <4>1 DEF TypeOK
      <4>3. QED
        BY <1>1, <3>1, <4>1, <4>2
    <3>5. QED
      BY <3>3, <3>4
  <2>9. QED
    BY <1>4, <2>2, <2>3, <2>4, <2>5, <2>6, <2>7, <2>8 DEF DeliveryStep
<1>5. ASSUME NEW c \in Child, NEW t \in Artifact, DeliveryRequest(c, t)
      PROVE  Delivered(p)' = manifest'[p]
  BY <1>2, <1>5
     DEF DeliveryRequest, PostTaskArtifact, PostTaskDeliverable, deliveryState, repoVars, history
<1>6. QED
  BY <1>2, <1>4, <1>5 DEF Next, WriteResult, vars, deliveryState, repoVars, history

(* appendDeliverableEvent after wtDeliverableShip: what the last record of *)
(* a place says lies there, in every deployment, after any failures and    *)
(* retries, as long as no other ship met the one that left the record and  *)
(* none used the place since.                                              *)
THEOREM RecordsMatchFiles == Spec => []ManifestTrue
<1>1. Init => TypeOK /\ Modes /\ RecordInv
  BY DeliveryTypeInit, ScanInit, RecordInit
<1>2. TypeOK /\ Modes /\ RecordInv /\ [Next]_vars => (TypeOK /\ Modes /\ RecordInv)'
  BY DeliveryTypeStep, ModesStep, ApartStep, UndisturbedStep, CleanStep, ManifestStep DEF RecordInv
<1>3. RecordInv => ManifestTrue
  BY DEF RecordInv
<1>4. QED
  BY <1>1, <1>2, <1>3, PTL DEF Spec
=============================================================================
