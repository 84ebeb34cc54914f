------------------------------ MODULE Delivery ------------------------------
(***************************************************************************)
(* Accepted artifacts and their delivery: handlePostTaskArtifact and       *)
(* handlePostTaskDeliverable of src/wt_roomd.c, and src/wt_deliverable.c.  *)
(*                                                                         *)
(* One ship reads the artifact three times (digest, scan, packaging) while *)
(* an adapter may write it, and runs several commands on files that other  *)
(* ships use: the deliverable root and one work tree of the project.       *)
(*                                                                         *)
(* Requests that lack an argument (the yes gate, the repository) change    *)
(* nothing and are left out.  So are scan records, which nothing here      *)
(* reads, and ids.                                                         *)
(***************************************************************************)
EXTENDS Requests

CONSTANTS
  Artifact,      \* tasks with an artifact in their workspace
  Initiative,    \* initiatives: a directory and a branch each
  InitiativeOf,  \* the initiative of a task
  Main,          \* the branch that the work tree starts on
  Bytes,         \* contents of an artifact, each with its own digest
  Secret,        \* contents that one of the scan patterns matches
  Old,           \* what an initiative shipped before the model starts
  Patterns,      \* the patterns file is configured and holds a pattern
  Nothing, Torn, \* no file; a file that is not written to its end
  Offered,       \* the modes that operators use
  MaxWrites      \* bound: results that adapters write

GitMode == {"branch", "pull-request"}
Mode == {"copy", "tarball"} \cup GitMode
Branch == Initiative \cup {Main}
Content == Bytes \cup {Nothing, Torn}

(* A deliverable of each initiative: in the root as a file or an archive,  *)
(* and in the work tree.                                                   *)
Place == {"copy", "tarball", "tree"} \X Initiative

ASSUME DeliveryAssumption ==
  /\ InitiativeOf \in [Artifact -> Initiative] /\ Main \notin Initiative
  /\ Secret \subseteq Bytes /\ Old \in Bytes \ Secret /\ Patterns \in BOOLEAN /\ Offered \subseteq Mode
  /\ Nothing # Torn /\ {Nothing, Torn} \cap Bytes = {}
  /\ MaxWrites \in Nat

VARIABLES
  source,     \* the artifact in the workspace of a task
  writes,     \* results so far
  review,     \* what the artifact events of a task say
  shelf,      \* the file at a place
  current,    \* the branch that the work tree has checked out
  branches,   \* the branches of the repository
  tip,        \* the deliverables at the tip of a branch
  index,      \* the deliverables in the index of the work tree
  remote,     \* the same at the origin
  manifest    \* the digest in the last deliverable record of a place

(* History.                                                                *)
VARIABLES
  disturbed,  \* children whose ship met another one, or a new artifact
  clean,      \* places where nothing happened since an undisturbed record
  unscanned   \* initiatives whose file was written from a later artifact than the scan's

repoVars == <<current, branches, tip, index, remote>>
history == <<disturbed, clean, unscanned>>
deliveryState == <<source, writes, review, shelf, repoVars, manifest, history>>
vars == <<child, requests, faults, deliveryState>>

(* The work tree is on the main branch; some initiatives have a branch.    *)
NoFiles == [i \in Initiative |-> Nothing]

Init ==
  /\ RequestsInit
  /\ source = [t \in Artifact |-> Nothing] /\ writes = 0
  /\ review = [t \in Artifact |-> [accepted |-> FALSE, path |-> FALSE]]
  /\ shelf = [p \in Place |-> Nothing]
  /\ current = Main
  /\ \E shipped \in SUBSET Initiative :
       /\ branches = {Main} \cup shipped
       /\ tip = [b \in Branch |-> [i \in Initiative |-> IF i = b /\ i \in shipped THEN Old ELSE Nothing]]
  /\ index = NoFiles /\ remote = tip
  /\ manifest = [p \in Place |-> Nothing]
  /\ disturbed = {} /\ clean = {} /\ unscanned = {}

-----------------------------------------------------------------------------
(* Before the ship.                                                        *)

Ships(c) == child[c].pc \in {"resolve", "digest", "scan", "checkout", "open", "fill",
                             "add", "commit", "push", "pr", "record"}
Past(c, pcs) == Ships(c) /\ child[c].pc \notin pcs

(* An adapter writes its result.                                           *)
WriteResult(t) ==
  /\ writes < MaxWrites /\ writes' = writes + 1
  /\ \E b \in Bytes \ {source[t]} : source' = [source EXCEPT ![t] = b]
  /\ disturbed' = disturbed \cup {c \in Child : Past(c, {"resolve", "digest"}) /\ child[c].task = t}
  /\ UNCHANGED <<child, requests, faults, review, shelf, repoVars, manifest, clean, unscanned>>

(* handlePostTaskArtifact and the columns of the projection: the state is  *)
(* the last one, the path is kept from any acceptance that named one.      *)
PostTaskArtifact(c, t) ==
  /\ Accept(c, Idle)
  /\ \E accepted, path \in BOOLEAN :
       review' = [review EXCEPT ![t] =
                    [accepted |-> accepted, path |-> @.path \/ (accepted /\ path)]]
  /\ UNCHANGED <<source, writes, shelf, repoVars, manifest, history>>

PostTaskDeliverable(c, t) ==
  /\ \E m \in Offered :
       Accept(c, [pc |-> "resolve", task |-> t, mode |-> m,
                  digest |-> Nothing, scanned |-> Nothing, shared |-> FALSE])
  /\ UNCHANGED deliveryState

(* wtTaskProjectionResolveAcceptedArtifact on the rebuilt projection.      *)
Resolve(c) ==
  /\ At(c, "resolve")
  /\ IF review[child[c].task].accepted /\ review[child[c].task].path
     THEN Goes(c, "digest") ELSE Ends(c)
  /\ Proceeds /\ UNCHANGED deliveryState

-----------------------------------------------------------------------------
(* wtDeliverableShip.                                                      *)

ArtifactOf(c) == source[child[c].task]
InitiativeAt(c) == InitiativeOf[child[c].task]
OnGit(c) == child[c].mode \in GitMode

(* The digest that the record will hold.                                   *)
Digest(c) ==
  /\ At(c, "digest")
  /\ IF ArtifactOf(c) = Nothing THEN Ends(c)
     ELSE Becomes(c, [child[c] EXCEPT !.pc = "scan", !.digest = ArtifactOf(c)])
  /\ disturbed' = disturbed \ {c}
  /\ Proceeds /\ UNCHANGED <<source, writes, review, shelf, repoVars, manifest, clean, unscanned>>

(* Mistake: pull requests are not held back, as somebody reviews them.     *)
BlocksBranch(m) == m = "branch"

Blocks(m) == m \in GitMode

Scan(c) ==
  /\ At(c, "scan")
  /\ IF Patterns /\ ArtifactOf(c) \in Secret /\ Blocks(child[c].mode) THEN Ends(c)
     ELSE Becomes(c, [child[c] EXCEPT !.pc = IF OnGit(c) THEN "checkout" ELSE "open",
                                      !.scanned = ArtifactOf(c)])
  /\ Proceeds /\ UNCHANGED deliveryState

(* git checkout, or git checkout -b when there is no such branch.  A file  *)
(* that is the same on both branches is left alone, with what is changed   *)
(* or staged of it.  Of the others, one that is staged as it is on the     *)
(* other branch is left alone, one that is unchanged or was removed is     *)
(* replaced, and at any other git refuses.                                 *)
Tree(i) == shelf[<<"tree", i>>]
Same(b, i) == tip[b][i] = tip[current][i]
LeftAlone(b, i) == Same(b, i) \/ index[i] = tip[b][i]
Replaced(b, i) == ~LeftAlone(b, i) /\ index[i] = tip[current][i] /\ Tree(i) \in {index[i], Nothing}

Checkout(c) ==
  LET b == InitiativeAt(c)
      others == {k \in Child \ {c} : Past(k, {"resolve", "digest", "scan", "checkout"}) /\ OnGit(k)}
      switches == \A i \in Initiative : LeftAlone(b, i) \/ Replaced(b, i)
  IN
  /\ At(c, "checkout")
  /\ \/ /\ b \notin branches
        /\ branches' = branches \cup {b} /\ tip' = [tip EXCEPT ![b] = tip[current]]
        /\ current' = b /\ Goes(c, "open")
        /\ UNCHANGED <<shelf, index>>
     \/ /\ b \in branches /\ switches
        /\ shelf' = [p \in Place |-> IF p[1] = "tree" /\ Replaced(b, p[2]) THEN tip[b][p[2]] ELSE shelf[p]]
        /\ index' = [i \in Initiative |-> IF Same(b, i) THEN index[i] ELSE tip[b][i]]
        /\ current' = b /\ Goes(c, "open")
        /\ UNCHANGED <<branches, tip>>
     \/ /\ b \in branches /\ ~switches
        /\ Ends(c)
        /\ UNCHANGED <<shelf, index, current, branches, tip>>
  /\ disturbed' = disturbed \cup others \cup (IF others = {} THEN {} ELSE {c})
  /\ Proceeds /\ UNCHANGED <<source, writes, review, remote, manifest, clean, unscanned>>

PlaceOf(c) == <<IF OnGit(c) THEN "tree" ELSE child[c].mode, InitiativeAt(c)>>

(* copyFileBytes and tar truncate the file ...                             *)
OpenDest(c) ==
  LET others == {k \in Child \ {c} : Past(k, {"resolve", "digest", "scan", "checkout", "open"})
                                       /\ PlaceOf(k) = PlaceOf(c)}
  IN
  /\ At(c, "open")
  /\ shelf' = [shelf EXCEPT ![PlaceOf(c)] = Torn]
  /\ child' = [k \in Child |->
                 IF k = c THEN [child[c] EXCEPT !.pc = "fill",
                                                !.shared = \E o \in others : At(o, "fill")]
                 ELSE IF k \in others /\ At(k, "fill") THEN [child[k] EXCEPT !.shared = TRUE]
                 ELSE child[k]]
  /\ disturbed' = disturbed \cup others \cup (IF others = {} THEN {} ELSE {c})
  /\ clean' = clean \ {PlaceOf(c)}
  /\ Proceeds /\ UNCHANGED <<source, writes, review, repoVars, manifest, unscanned>>

(* ... and write it.  Two writers at a time may leave a mixture.           *)
FillDest(c) ==
  /\ At(c, "fill")
  /\ \E b \in {ArtifactOf(c)} \cup (IF child[c].shared THEN {Torn} ELSE {}) :
       shelf' = [shelf EXCEPT ![PlaceOf(c)] = b]
  /\ unscanned' = IF ArtifactOf(c) = child[c].scanned THEN unscanned
                  ELSE unscanned \cup {InitiativeAt(c)}
  /\ Goes(c, IF OnGit(c) THEN "add" ELSE "record")
  /\ Proceeds
  /\ UNCHANGED <<source, writes, review, repoVars, manifest, disturbed, clean>>

(* A copy that fails takes what was there before with it.                  *)
CopyFails(c) ==
  /\ At(c, "fill") /\ child[c].mode # "tarball"
  /\ shelf' = [shelf EXCEPT ![PlaceOf(c)] = Nothing]
  /\ Fault /\ Ends(c)
  /\ UNCHANGED <<source, writes, review, repoVars, manifest, history>>

(* git add, which has nothing to add when another ship removed the file.   *)
Add(c) ==
  LET i == InitiativeAt(c) IN
  /\ At(c, "add")
  /\ IF Tree(i) = Nothing /\ index[i] = Nothing THEN Ends(c) /\ UNCHANGED index
     ELSE Goes(c, "commit") /\ index' = [index EXCEPT ![i] = Tree(i)]
  /\ Proceeds
  /\ UNCHANGED <<source, writes, review, shelf, current, branches, tip, remote, manifest, history>>

(* Mistake: nothing to commit is taken for something already delivered.    *)
CommitTolerant(c) ==
  /\ At(c, "commit")
  /\ IF index = tip[current] THEN Goes(c, "record") /\ UNCHANGED tip
     ELSE Goes(c, "push") /\ tip' = [tip EXCEPT ![current] = index]
  /\ Proceeds
  /\ UNCHANGED <<source, writes, review, shelf, current, branches, index, remote, manifest, history>>

(* git commit: all that is staged, on whatever branch is checked out by    *)
(* now.  It exits with an error when there is nothing to commit.           *)
Commit(c) ==
  /\ At(c, "commit")
  /\ IF index = tip[current] THEN Ends(c) /\ UNCHANGED tip
     ELSE Goes(c, "push") /\ tip' = [tip EXCEPT ![current] = index]
  /\ Proceeds
  /\ UNCHANGED <<source, writes, review, shelf, current, branches, index, remote, manifest, history>>

(* git push of the initiative's branch.                                    *)
Push(c) ==
  /\ At(c, "push")
  /\ remote' = [remote EXCEPT ![InitiativeAt(c)] = tip[InitiativeAt(c)]]
  /\ Goes(c, IF child[c].mode = "pull-request" THEN "pr" ELSE "record")
  /\ Proceeds
  /\ UNCHANGED <<source, writes, review, shelf, current, branches, tip, index, manifest, history>>

OpenPullRequest(c) ==
  /\ At(c, "pr") /\ Goes(c, "record")
  /\ Proceeds /\ UNCHANGED deliveryState

Delivered(p) == IF p[1] = "tree" THEN remote[p[2]][p[2]] ELSE shelf[p]

(* Mistake: the record holds the digest of what lies there by now.         *)
RecordDelivered(c) ==
  /\ At(c, "record") /\ Ends(c)
  /\ manifest' = [manifest EXCEPT ![PlaceOf(c)] = Delivered(PlaceOf(c))]
  /\ clean' = IF c \in disturbed THEN clean ELSE clean \cup {PlaceOf(c)}
  /\ Proceeds
  /\ UNCHANGED <<source, writes, review, shelf, repoVars, disturbed, unscanned>>

(* appendDeliverableEvent.                                                 *)
Record(c) ==
  /\ At(c, "record") /\ Ends(c)
  /\ manifest' = [manifest EXCEPT ![PlaceOf(c)] = child[c].digest]
  /\ clean' = IF c \in disturbed THEN clean ELSE clean \cup {PlaceOf(c)}
  /\ Proceeds
  /\ UNCHANGED <<source, writes, review, shelf, repoVars, disturbed, unscanned>>

(* A command or an append fails, or the child dies, and what was done so   *)
(* far stays: a file cut short, a commit that is not pushed, a branch that *)
(* no record names.                                                        *)
ShipBreaks(c) ==
  /\ Ships(c) /\ Fault /\ Ends(c)
  /\ UNCHANGED deliveryState

-----------------------------------------------------------------------------

DeliveryRequest(c, t) == PostTaskArtifact(c, t) \/ PostTaskDeliverable(c, t)

DeliveryStep(c) ==
  \/ Resolve(c) \/ Digest(c) \/ Scan(c) \/ Checkout(c) \/ OpenDest(c) \/ FillDest(c)
  \/ CopyFails(c) \/ Add(c) \/ Commit(c) \/ Push(c) \/ OpenPullRequest(c) \/ Record(c) \/ ShipBreaks(c)

Next ==
  \/ \E t \in Artifact : WriteResult(t)
  \/ \E c \in Child : DeliveryStep(c) \/ \E t \in Artifact : DeliveryRequest(c, t)

Spec == Init /\ [][Next]_vars

-----------------------------------------------------------------------------
(* Correctness.                                                            *)

Ship ==
  [pc : {"resolve", "digest", "scan", "checkout", "open", "fill", "add", "commit", "push",
         "pr", "record"},
   task : Artifact, mode : Mode, digest : Bytes \cup {Nothing}, scanned : Bytes \cup {Nothing},
   shared : BOOLEAN]

(* The variables stay within their types; in particular a deliverable      *)
(* record holds the digest of an artifact as it was once written.          *)
TypeOK ==
  /\ child \in [Child -> Ship \cup {Idle}] /\ requests \in Nat /\ faults \in Nat
  /\ source \in [Artifact -> Bytes \cup {Nothing}] /\ writes \in Nat
  /\ review \in [Artifact -> [accepted : BOOLEAN, path : BOOLEAN]]
  /\ shelf \in [Place -> Content]
  /\ current \in Branch /\ branches \subseteq Branch
  /\ tip \in [Branch -> [Initiative -> Content]] /\ index \in [Initiative -> Content]
  /\ remote \in [Branch -> [Initiative -> Content]]
  /\ manifest \in [Place -> Bytes \cup {Nothing}]
  /\ disturbed \subseteq Child /\ clean \subseteq Place /\ unscanned \subseteq Initiative

(* What a deliverable record says is there: the file or archive in the     *)
(* root, or the file on the pushed branch, has the recorded digest.  This  *)
(* holds after any failures and retries, as long as no other ship used the *)
(* same file or work tree and no adapter wrote the artifact meanwhile:     *)
(* wtDeliverableShip takes no lock.                                        *)
ManifestTrue == \A p \in clean : Delivered(p) = manifest[p]

(* "branch and pull-request modes refuse to ship if the staged content     *)
(* matches" (docs/api/task-ledger-v0.1.md): with patterns configured no    *)
(* branch of the origin holds a file that one matches, whatever ships and  *)
(* failures overlap, unless the artifact was written between the scan and  *)
(* the copy: the scan reads the artifact and not what is staged.           *)
ScanGuardsRemote ==
  Patterns => \A b \in Branch, i \in Initiative : remote[b][i] \in Secret => i \in unscanned
=============================================================================
