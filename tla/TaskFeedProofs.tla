--------------------------- MODULE TaskFeedProofs ---------------------------
(***************************************************************************)
(* Fresh answers and frames that are not lost: proofs for any number of    *)
(* writers, pages' loads, other rebuilds, crashes and broken streams.      *)
(***************************************************************************)
EXTENDS TaskFeed, FiniteSetTheorems, SequenceTheorems, TLAPS

(* Only a line can be open.                                                *)
LedgerInv == open => Len(log) > 0

(* Rebuilds exclude each other, so the database only moves forward, and    *)
(* nothing that a child has read is older than what it was asked for.      *)
FreshInv ==
  /\ \A c, d \in Child : Rebuilding(c) /\ Rebuilding(d) => c = d
  /\ \A c \in Child :
       /\ child[c].need <= Complete
       /\ At(c, "commit") => child[c].need <= child[c].seen /\ db <= child[c].seen
       /\ At(c, "read") => child[c].need <= db
       /\ At(c, "answer") => child[c].need <= child[c].seen

(* A stream that starts inside a line has not passed it while it skips its *)
(* first records, and what it sends of later lines is all of them.         *)
StreamInv ==
  /\ stream.lines <= Complete
  /\ stream.skip > 0 => /\ stream.lines < stream.seed /\ stream.lines < Len(log)
                        /\ stream.skip <= log[stream.lines + 1]
  /\ \A i \in DOMAIN stream.wire :
       LET f == stream.wire[i] IN
       /\ f.line <= Complete
       /\ f.line > stream.seed => f.records = log[f.line]

Noticed(k) ==
  \/ k <= asked
  \/ k > stream.lines
  \/ \E i \in DOMAIN stream.wire : stream.wire[i].line = k
  \/ page.timer

WakeInv ==
  /\ asked <= Complete
  /\ stream.up => \A k \in (stream.seed + 1)..Complete \ Torn : Noticed(k)

(* A line is torn, or will be by the next record, only after a crash.      *)
Broken == {k \in DOMAIN log :
             \/ log[k] > 1
             \/ k = Len(log) /\ open /\ \A w \in Writer : writer[w] = "idle"}

CrashInv == Cardinality(Broken) <= crashes

LedgerSteps(w) == WriteRecord(w) \/ WriteNewline(w) \/ Crash(w)

(* What happens to the ledger: complete lines stay as they are.            *)
LEMMA LedgerGrows ==
  ASSUME TypeOK, LedgerInv, NEW w \in Writer, LedgerSteps(w)
  PROVE  /\ log' \in Seq(Nat \ {0}) /\ LedgerInv'
         /\ Len(log) <= Len(log') /\ Complete \in Nat /\ Complete' \in Nat
         /\ Complete <= Complete' /\ Complete' <= Len(log')
         /\ \A k \in 1..Len(log) : log[k] <= log'[k]
         /\ \A k \in 1..Complete : log'[k] = log[k]
<1>0. /\ log \in Seq(Nat \ {0}) /\ open \in BOOLEAN /\ Len(log) \in Nat
      /\ \A k \in 1..Len(log) : log[k] \in Nat
  BY DEF TypeOK
<1>1. CASE WriteRecord(w)
  <2>1. CASE open
    <3>0. open' /\ Len(log) > 0
      BY <1>1, <2>1 DEF WriteRecord, LedgerInv
    <3>1. log' = [log EXCEPT ![Len(log)] = @ + 1]
      BY <1>1, <2>1 DEF WriteRecord
    <3>2. log' \in Seq(Nat \ {0}) /\ Len(log') = Len(log)
      BY <1>0, <3>0, <3>1
    <3>3. /\ \A k \in 1..Len(log) : log[k] <= log'[k]
          /\ \A k \in 1..(Len(log) - 1) : log'[k] = log[k]
      BY <1>0, <3>0, <3>1
    <3>4. LedgerInv' /\ Complete = Len(log) - 1 /\ Complete' = Len(log') - 1
      BY <2>1, <3>0, <3>1, <3>2 DEF Complete, LedgerInv
    <3>5. /\ Complete \in Nat /\ Complete' = Complete /\ Complete <= Len(log')
          /\ \A k \in 1..Complete : log'[k] = log[k]
      BY <1>0, <3>0, <3>2, <3>3, <3>4
    <3>6. QED
      BY <1>0, <3>2, <3>3, <3>4, <3>5
  <2>2. CASE ~open
    <3>0. open'
      BY <1>1 DEF WriteRecord
    <3>1. log' = Append(log, 1)
      BY <1>1, <2>2 DEF WriteRecord
    <3>2. /\ log' \in Seq(Nat \ {0}) /\ Len(log') = Len(log) + 1
          /\ \A k \in 1..Len(log) : log'[k] = log[k]
      BY <1>0, <3>1
    <3>3. QED
      BY <1>0, <2>2, <3>0, <3>1, <3>2 DEF Complete, LedgerInv
  <2>3. QED  BY <2>1, <2>2
<1>2. CASE WriteNewline(w)
  <2>0. ~open'
    BY <1>2 DEF WriteNewline
  <2>1. log' = log
    BY <1>2 DEF WriteNewline
  <2>2. LedgerInv' /\ Complete' = Len(log)
    BY <2>0, <2>1 DEF Complete, LedgerInv
  <2>3. Complete \in Nat /\ Complete <= Len(log)
    BY <1>0 DEF Complete, LedgerInv
  <2>4. QED
    BY <1>0, <2>1, <2>2, <2>3
<1>3. CASE Crash(w)
  <2>1. log' = log /\ open' = open
    BY <1>3 DEF Crash
  <2>2. LedgerInv' /\ Complete' = Complete
    BY <2>1 DEF Complete, LedgerInv
  <2>3. Complete \in Nat /\ Complete <= Len(log)
    BY <1>0 DEF Complete, LedgerInv
  <2>4. QED
    BY <1>0, <2>1, <2>2, <2>3
<1>4. QED  BY <1>1, <1>2, <1>3 DEF LedgerSteps

LEMMA CompleteType ==
  ASSUME TypeOK, LedgerInv
  PROVE  Complete \in Nat /\ Complete <= Len(log) /\ Len(log) \in Nat
BY DEF TypeOK, LedgerInv, Complete

(* The child that takes a step, and the others.                            *)
ChildState == [pc : {"idle", "begin", "fold", "commit", "read", "answer"},
               need : 0..Len(log), seen : 0..Len(log)]

LEMMA ChildrenKeep ==
  ASSUME NEW c \in Child, NEW r, child \in [Child -> ChildState], child' = [child EXCEPT ![c] = r]
  PROVE  child'[c] = r /\ \A d \in Child : d # c => child'[d] = child[d]
OBVIOUS

ChildSteps(c) ==
  \/ OtherRequest(c) \/ RebuildProjection(c)
  \/ c \in PageChild /\ (ReadSummaries(c) \/ Answer(c))

LEMMA ChildType ==
  ASSUME TypeOK, LedgerInv, NEW c \in Child, ChildSteps(c)
  PROVE  TypeOK' /\ UNCHANGED <<log, open, writer, stream, asked, crashes, drops>>
<1>1. UNCHANGED <<log, open, writer, stream, asked, crashes, drops>>
  BY DEF ChildSteps, OtherRequest, RebuildProjection, BeginRebuild, RebuildFails, FoldLedger,
     CommitRebuild, ReadSummaries, Answer
<1>2. /\ child \in [Child -> ChildState] /\ db \in 0..Len(log) /\ Len(log) \in Nat
      /\ page \in [phase : {"closed", "loading", "loaded", "live"}, timer : BOOLEAN,
                   table : 0..Len(log)]
  BY DEF TypeOK, ChildState
<1>3. child' \in [Child -> ChildState] /\ db' \in 0..Len(log)
  <2>1. child[c] \in ChildState /\ Idle \in ChildState
    BY <1>2 DEF ChildState, Idle
  <2>2. db' \in 0..Len(log)
    BY <1>2, <2>1 DEF ChildSteps, RebuildProjection, OtherRequest, BeginRebuild, RebuildFails,
       FoldLedger, CommitRebuild, ReadSummaries, Answer, ChildState
  <2>3. \E r \in ChildState : child' = [child EXCEPT ![c] = r]
    <3>1. CASE OtherRequest(c)
      <4>1. child' = [child EXCEPT ![c] = [child[c] EXCEPT !.pc = "begin"]]
        BY <1>2, <3>1 DEF OtherRequest
      <4>2. QED  BY <2>1, <4>1 DEF ChildState
    <3>2. CASE BeginRebuild(c)
      <4>1. child' = [child EXCEPT ![c] = [child[c] EXCEPT !.pc = "fold"]]
        BY <1>2, <3>2 DEF BeginRebuild
      <4>2. QED  BY <2>1, <4>1 DEF ChildState
    <3>3. CASE RebuildFails(c) \/ Answer(c)
      BY <2>1, <3>3 DEF RebuildFails, Answer
    <3>4. CASE FoldLedger(c)
      <4>1. child' = [child EXCEPT ![c] = [child[c] EXCEPT !.pc = "commit", !.seen = Len(log)]]
        BY <1>2, <3>4 DEF FoldLedger
      <4>2. Len(log) \in 0..Len(log)
        BY <1>2
      <4>3. QED  BY <2>1, <4>1, <4>2 DEF ChildState
    <3>5. CASE CommitRebuild(c)
      <4>1. \/ child' = [child EXCEPT ![c] = [child[c] EXCEPT !.pc = "read", !.seen = 0]]
            \/ child' = [child EXCEPT ![c] = Idle]
        BY <3>5 DEF CommitRebuild
      <4>2. 0 \in 0..Len(log)
        BY <1>2
      <4>3. QED  BY <2>1, <4>1, <4>2 DEF ChildState
    <3>6. CASE ReadSummaries(c)
      <4>1. child' = [child EXCEPT ![c] = [child[c] EXCEPT !.pc = "answer", !.seen = db]]
        BY <1>2, <3>6 DEF ReadSummaries
      <4>2. QED  BY <1>2, <2>1, <4>1 DEF ChildState
    <3>7. QED
      BY <3>1, <3>2, <3>3, <3>4, <3>5, <3>6 DEF ChildSteps, RebuildProjection
  <2>4. QED  BY <1>2, <2>2, <2>3
<1>4. page' \in [phase : {"closed", "loading", "loaded", "live"}, timer : BOOLEAN,
                 table : 0..Len(log)]
  <2>1. CASE OtherRequest(c) \/ BeginRebuild(c) \/ FoldLedger(c) \/ CommitRebuild(c) \/ ReadSummaries(c)
    BY <1>2, <2>1 DEF OtherRequest, BeginRebuild, FoldLedger, CommitRebuild, ReadSummaries
  <2>2. CASE RebuildFails(c)
    BY <1>2, <2>2 DEF RebuildFails, Answered
  <2>3. CASE Answer(c)
    BY <1>2, <2>3 DEF Answer, Answered, ChildState
  <2>4. QED
    BY <2>1, <2>2, <2>3 DEF ChildSteps, RebuildProjection
<1>5. QED
  BY <1>1, <1>3, <1>4 DEF TypeOK, ChildState

LEMMA LoadType ==
  ASSUME TypeOK, LedgerInv, NEW c \in PageChild, OpenPage(c) \/ TimerFires(c) \/ Fallback(c)
  PROVE  /\ TypeOK' /\ UNCHANGED <<log, open, writer, db, stream, crashes, drops>>
         /\ Load(c) /\ asked' = Complete /\ page'.timer \in {FALSE, page.timer}
<1>1. /\ UNCHANGED <<log, open, writer, db, stream, crashes, drops>>
      /\ Load(c) /\ asked' = Complete
  BY DEF OpenPage, TimerFires, Fallback, Load
<1>2. Complete \in 0..Len(log)
  BY CompleteType
<1>3. child' \in [Child -> ChildState]
  BY <1>1, <1>2 DEF Load, TypeOK, ChildState, Child
<1>4. /\ page' \in [phase : {"closed", "loading", "loaded", "live"}, timer : BOOLEAN,
                    table : 0..Len(log)]
      /\ page'.timer \in {FALSE, page.timer}
  BY DEF OpenPage, TimerFires, Fallback, TypeOK
<1>5. QED
  BY <1>1, <1>2, <1>3, <1>4 DEF TypeOK, ChildState

LEMMA LedgerType ==
  ASSUME TypeOK, LedgerInv, NEW w \in Writer, LedgerSteps(w)
  PROVE  TypeOK' /\ UNCHANGED <<db, child, page, stream, asked, drops>>
<1>1. UNCHANGED <<db, child, page, stream, asked, drops>>
  BY DEF LedgerSteps, WriteRecord, WriteNewline, Crash
<1>2. log' \in Seq(Nat \ {0}) /\ Len(log) <= Len(log') /\ Len(log') \in Nat /\ Len(log) \in Nat
  BY LedgerGrows, CompleteType
<1>3. open' \in BOOLEAN /\ writer' \in [Writer -> {"idle", "newline"}] /\ crashes' \in Nat
  <2>1. open \in BOOLEAN /\ writer \in [Writer -> {"idle", "newline"}] /\ crashes \in Nat
    BY DEF TypeOK
  <2>2. open' \in BOOLEAN
    BY <2>1 DEF LedgerSteps, WriteRecord, WriteNewline, Crash
  <2>3. writer' \in [Writer -> {"idle", "newline"}]
    BY <2>1 DEF LedgerSteps, WriteRecord, WriteNewline, Crash
  <2>4. crashes' \in Nat
    BY <2>1 DEF LedgerSteps, WriteRecord, WriteNewline, Crash
  <2>5. QED  BY <2>2, <2>3, <2>4
<1>4. 0..Len(log) \subseteq 0..Len(log') /\ 1..Len(log) \subseteq 1..Len(log')
  BY <1>2
<1>5. child' \in [Child -> ChildState]'
  BY <1>1, <1>4 DEF TypeOK, ChildState
<1>6. stream' \in [up : BOOLEAN, seed : 0..Len(log'), lines : 0..Len(log'), skip : Nat,
                   wire : Seq([line : 1..Len(log'), records : Nat \ {0}])]
  <2>1. [line : 1..Len(log), records : Nat \ {0}] \subseteq [line : 1..Len(log'), records : Nat \ {0}]
    BY <1>4
  <2>2. stream.wire \in Seq([line : 1..Len(log), records : Nat \ {0}])
    BY DEF TypeOK
  <2>3. stream.wire \in Seq([line : 1..Len(log'), records : Nat \ {0}])
    BY <2>1, <2>2, SeqMonotonic
  <2>4. QED  BY <1>1, <1>4, <2>3 DEF TypeOK
<1>7. QED
  BY <1>1, <1>2, <1>3, <1>4, <1>5, <1>6 DEF TypeOK, ChildState

(* What a tick sends: frames with something in them, and all of every line *)
(* that was written after the stream began.                                *)
Frame == [line : 1..Len(log), records : Nat \ {0}]

LEMMA TickSends ==
  ASSUME TypeOK, LedgerInv, StreamInv, stream.lines < Complete,
         NEW new, new = Frames(FirstSent, Complete)
  PROVE  /\ new \in Seq(Frame)
         /\ \A i \in DOMAIN new : /\ new[i].line <= Complete
                                  /\ new[i].line > stream.seed => new[i].records = log[new[i].line]
         /\ \A k \in (stream.lines + 1)..Complete :
              k > stream.seed => \E i \in DOMAIN new : new[i].line = k
<1> DEFINE n == Complete - FirstSent + 1
<1>1. /\ Len(log) \in Nat /\ Complete \in Nat /\ Complete <= Len(log)
      /\ stream.lines \in Nat /\ stream.seed \in Nat /\ stream.skip \in Nat
      /\ stream.lines + 1 \in 1..Complete
  BY CompleteType DEF TypeOK
<1>2. \A k \in 1..Len(log) : log[k] \in Nat \ {0}
  BY DEF TypeOK
<1>3. /\ stream.skip > 0 => stream.lines < stream.seed
      /\ stream.skip > 0 => stream.skip <= log[stream.lines + 1]
  BY DEF StreamInv
<1>4. FirstSent \in {stream.lines + 1, stream.lines + 2} /\ FirstSent \in Nat /\ n \in Nat
  <2>1. FirstSent = stream.lines + 1 \/ FirstSent = stream.lines + 2
    BY DEF FirstSent
  <2>2. FirstSent \in Nat /\ FirstSent <= Complete + 1
    <3>1. stream.lines + 1 \in Nat /\ stream.lines + 2 \in Nat /\ stream.lines + 1 <= Complete
      BY <1>1
    <3>2. CASE FirstSent = stream.lines + 1
      BY <1>1, <3>1, <3>2
    <3>3. CASE FirstSent = stream.lines + 2
      BY <1>1, <3>1, <3>3
    <3>4. QED  BY <2>1, <3>2, <3>3
  <2>3. n \in Nat
    BY <1>1, <2>2
  <2>4. QED  BY <2>1, <2>2, <2>3
<1>5. ASSUME NEW k \in FirstSent..Complete
      PROVE  /\ k \in 1..Len(log) /\ Rest(k) \in Nat \ {0}
             /\ k > stream.seed => Rest(k) = log[k]
  <2>0. k \in Int /\ FirstSent <= k /\ k <= Complete /\ Complete <= Len(log)
    BY <1>1, <1>4
  <2>0a. stream.lines + 1 <= FirstSent /\ stream.lines \in Nat
    BY <1>1, <1>4
  <2>1. k \in 1..Len(log) /\ k >= stream.lines + 1
    BY <1>1, <1>4, <2>0, <2>0a
  <2>2. CASE k = stream.lines + 1
    <3>1. Rest(k) = log[k] - stream.skip /\ Rest(k) # 0
      BY <1>1, <2>2 DEF Rest, FirstSent
    <3>2. log[k] \in Nat /\ stream.skip <= log[k]
      BY <1>1, <1>2, <1>3, <2>1, <2>2
    <3>3. k > stream.seed => stream.skip = 0
      BY <1>1, <1>3, <2>2
    <3>4. QED  BY <1>1, <2>1, <3>1, <3>2, <3>3
  <2>3. CASE k # stream.lines + 1
    BY <1>2, <2>1, <2>3 DEF Rest
  <2>4. QED  BY <2>2, <2>3
<1>6. /\ new = [i \in 1..n |-> [line |-> FirstSent + i - 1, records |-> Rest(FirstSent + i - 1)]]
      /\ \A i \in 1..n : FirstSent + i - 1 \in FirstSent..Complete
  BY <1>1, <1>4 DEF Frames
<1> HIDE DEF n
<1>6a. \A i \in 1..n : new[i] = [line |-> FirstSent + i - 1, records |-> Rest(FirstSent + i - 1)]
  BY <1>6
<1>7. \A i \in 1..n : /\ new[i].line = FirstSent + i - 1 /\ new[i].line \in FirstSent..Complete
                      /\ new[i].records = Rest(new[i].line) /\ new[i] \in Frame
  BY <1>5, <1>6, <1>6a DEF Frame
<1>8. DOMAIN new = 1..n /\ new \in Seq(Frame)
  <2>1. new \in [1..n -> Frame]
    BY <1>6, <1>7
  <2>2. DOMAIN new = 1..n /\ n \in Nat
    BY <1>4, <1>6
  <2>3. new \in Seq(Frame)
    BY <2>1, <2>2, SeqDef
  <2>4. QED  BY <2>2, <2>3
<1>9. \A i \in DOMAIN new : /\ new[i].line <= Complete
                            /\ new[i].line > stream.seed => new[i].records = log[new[i].line]
  BY <1>5, <1>7, <1>8
<1>10. ASSUME NEW k \in (stream.lines + 1)..Complete, k > stream.seed
       PROVE  \E i \in DOMAIN new : new[i].line = k
  <2>1. k >= FirstSent
    <3>1. CASE k = stream.lines + 1
      <4>1. stream.skip = 0 /\ log[k] # 0
        BY <1>1, <1>2, <1>3, <1>10, <3>1
      <4>2. QED
        BY <1>1, <3>1, <4>1 DEF FirstSent, Rest
    <3>2. QED  BY <1>1, <1>4, <3>1
  <2>2. k - FirstSent + 1 \in 1..n
    BY <1>1, <1>4, <2>1 DEF n
  <2>3. new[k - FirstSent + 1].line = k
    BY <1>1, <1>4, <1>7, <2>2
  <2>4. QED  BY <1>8, <2>2, <2>3
<1>11. QED  BY <1>8, <1>9, <1>10

StreamState == [up : BOOLEAN, seed : 0..Len(log), lines : 0..Len(log), skip : Nat, wire : Seq(Frame)]

(* The stream and its page, which change neither ledger nor children.      *)
LEMMA ConnectMoves ==
  ASSUME TypeOK, LedgerInv, StreamInv, WakeInv, Connect
  PROVE  stream' \in StreamState /\ StreamInv' /\ WakeInv'
<1>1. /\ log \in Seq(Nat \ {0}) /\ Len(log) \in Nat /\ Complete \in Nat /\ Complete <= Len(log)
      /\ asked \in Nat
  BY CompleteType DEF TypeOK
<1>2. /\ UNCHANGED <<log, open, page, asked>>
      /\ stream' = [Down EXCEPT !.up = TRUE, !.seed = Len(log), !.lines = Complete,
                                !.skip = IF open THEN log[Len(log)] ELSE 0]
  BY DEF Connect
<1>3. Complete' = Complete /\ Torn' = Torn
  BY <1>2 DEF Complete, Torn
<1>4. /\ stream'.seed = Len(log) /\ stream'.lines = Complete /\ stream'.wire = <<>>
      /\ stream'.skip = IF open THEN log[Len(log)] ELSE 0
  BY <1>2 DEF Down
<1>5. open => Complete = Len(log) - 1 /\ Len(log) > 0 /\ log[Len(log)] \in Nat
  BY <1>1 DEF Complete, LedgerInv
<1>6. stream' \in StreamState
  <2>1. stream'.skip \in Nat
    BY <1>4, <1>5
  <2>2. PICK n \in Nat : stream' = [up |-> TRUE, seed |-> Len(log), lines |-> Complete,
                                     skip |-> n, wire |-> <<>>]
    BY <1>2, <1>4, <2>1 DEF Down
  <2>3. <<>> \in Seq(Frame)
    OBVIOUS
  <2>4. Len(log) \in 0..Len(log) /\ Complete \in 0..Len(log)
    BY <1>1
  <2>5. QED  BY <2>2, <2>3, <2>4 DEF StreamState
<1>7. StreamInv'
  <2>1. stream'.skip > 0 => open
    BY <1>4
  <2>2. open => log[Complete + 1] = stream'.skip /\ stream'.skip \in Nat
    BY <1>1, <1>4, <1>5
  <2>3. QED  BY <1>1, <1>2, <1>3, <1>4, <1>5, <2>1, <2>2 DEF StreamInv
<1>8. WakeInv'
  BY <1>1, <1>2, <1>3, <1>4 DEF WakeInv
<1>9. QED  BY <1>6, <1>7, <1>8

LEMMA TickMoves ==
  ASSUME TypeOK, LedgerInv, StreamInv, WakeInv, Tick
  PROVE  stream' \in StreamState /\ StreamInv' /\ WakeInv'
<1> DEFINE new == Frames(FirstSent, Complete)
<1>1. /\ Len(log) \in Nat /\ Complete \in Nat /\ Complete <= Len(log) /\ asked \in Nat
      /\ stream \in StreamState
  BY CompleteType DEF TypeOK, StreamState, Frame
<1>2. /\ UNCHANGED <<log, open, page, asked>> /\ stream.lines < Complete
      /\ stream' = [stream EXCEPT !.lines = Complete, !.skip = 0, !.wire = @ \o new]
  BY DEF Tick
<1>3. /\ new \in Seq(Frame)
      /\ \A i \in DOMAIN new : /\ new[i].line <= Complete
                               /\ new[i].line > stream.seed => new[i].records = log[new[i].line]
      /\ \A k \in (stream.lines + 1)..Complete :
           k > stream.seed => \E i \in DOMAIN new : new[i].line = k
  BY <1>2, TickSends
<1> HIDE DEF new
<1>4. Complete' = Complete /\ Torn' = Torn
  BY <1>2 DEF Complete, Torn
<1>5. stream.wire \in Seq(Frame) /\ stream.lines \in Nat /\ stream.seed \in Nat
  BY <1>1 DEF StreamState
<1>6. /\ stream'.up = stream.up /\ stream'.seed = stream.seed /\ stream'.lines = Complete
      /\ stream'.skip = 0 /\ stream'.wire = stream.wire \o new
  BY <1>1, <1>2 DEF StreamState
<1>7. /\ stream.wire \o new \in Seq(Frame)
      /\ DOMAIN (stream.wire \o new) = 1..(Len(stream.wire) + Len(new))
      /\ Len(stream.wire) \in Nat /\ Len(new) \in Nat
      /\ DOMAIN stream.wire = 1..Len(stream.wire) /\ DOMAIN new = 1..Len(new)
      /\ \A i \in 1..(Len(stream.wire) + Len(new)) :
           (stream.wire \o new)[i] = IF i <= Len(stream.wire) THEN stream.wire[i]
                                     ELSE new[i - Len(stream.wire)]
  BY <1>3, <1>5, ConcatProperties
<1>8. stream' \in StreamState
  <2>1. Complete \in 0..Len(log)
    BY <1>1
  <2>2. QED  BY <1>1, <1>2, <1>7, <2>1 DEF StreamState
<1>9. StreamInv'
  <2>1. ASSUME NEW i \in 1..(Len(stream.wire) + Len(new))
        PROVE  LET f == (stream.wire \o new)[i] IN
               f.line <= Complete /\ (f.line > stream.seed => f.records = log[f.line])
    <3>1. CASE i <= Len(stream.wire)
      BY <1>7, <2>1, <3>1 DEF StreamInv
    <3>2. CASE i > Len(stream.wire)
      <4>1. i - Len(stream.wire) \in DOMAIN new
        BY <1>7, <3>2
      <4>2. (stream.wire \o new)[i] = new[i - Len(stream.wire)]
        BY <1>7, <3>2
      <4>3. QED  BY <1>3, <4>1, <4>2
    <3>3. QED  BY <1>7, <3>1, <3>2
  <2>2. \A i \in DOMAIN stream'.wire :
          LET f == stream'.wire[i] IN
          f.line <= Complete /\ (f.line > stream.seed => f.records = log[f.line])
    BY <1>6, <1>7, <2>1
  <2>3. QED
    BY <1>1, <1>2, <1>4, <1>6, <2>2 DEF StreamInv
<1>10. WakeInv'
  <2> SUFFICES ASSUME stream.up, NEW k \in (stream.seed + 1)..Complete \ Torn PROVE Noticed(k)'
    BY <1>1, <1>2, <1>4, <1>6 DEF WakeInv
  <2>1. CASE k <= asked \/ page.timer
    BY <1>2, <2>1 DEF Noticed
  <2>2. CASE k > stream.lines
    <3>1. PICK i \in DOMAIN new : new[i].line = k
      BY <1>1, <1>3, <1>5, <2>2
    <3>2. /\ Len(stream.wire) + i \in 1..(Len(stream.wire) + Len(new))
          /\ (stream.wire \o new)[Len(stream.wire) + i] = new[i]
      BY <1>7, <3>1
    <3>3. QED
      BY <1>6, <1>7, <3>1, <3>2 DEF Noticed
  <2>3. CASE \E i \in DOMAIN stream.wire : stream.wire[i].line = k
    <3>1. PICK i \in DOMAIN stream.wire : stream.wire[i].line = k
      BY <2>3
    <3>2. /\ i \in 1..(Len(stream.wire) + Len(new))
          /\ (stream.wire \o new)[i] = stream.wire[i]
      BY <1>7, <3>1
    <3>3. QED
      BY <1>6, <1>7, <3>1, <3>2 DEF Noticed
  <2>4. QED
    BY <2>1, <2>2, <2>3 DEF WakeInv, Noticed
<1>11. QED  BY <1>8, <1>9, <1>10

PageState == [phase : {"closed", "loading", "loaded", "live"}, timer : BOOLEAN, table : 0..Len(log)]

LEMMA DispatchMoves ==
  ASSUME TypeOK, LedgerInv, StreamInv, WakeInv, DispatchLedgerEvent
  PROVE  stream' \in StreamState /\ page' \in PageState /\ StreamInv' /\ WakeInv'
<1> DEFINE f == Head(stream.wire)
<1>1. /\ log \in Seq(Nat \ {0}) /\ Len(log) \in Nat /\ Complete \in Nat /\ Complete <= Len(log)
      /\ asked \in Nat /\ stream \in StreamState /\ page \in PageState
  BY CompleteType DEF TypeOK, StreamState, PageState, Frame
<1>2. /\ UNCHANGED <<log, open, asked>> /\ stream.wire # <<>>
      /\ stream' = [stream EXCEPT !.wire = Tail(@)]
      /\ page' = [page EXCEPT !.timer = @ \/ f.records = 1]
  BY DEF DispatchLedgerEvent
<1>3. Complete' = Complete /\ Torn' = Torn
  BY <1>2 DEF Complete, Torn
<1>4. stream.wire \in Seq(Frame) /\ stream.lines \in Nat /\ stream.seed \in Nat
  BY <1>1 DEF StreamState
<1>5. /\ Tail(stream.wire) \in Seq(Frame) /\ f = stream.wire[1]
      /\ Len(stream.wire) \in Nat \ {0} /\ DOMAIN stream.wire = 1..Len(stream.wire)
      /\ DOMAIN Tail(stream.wire) = 1..(Len(stream.wire) - 1)
      /\ \A i \in 1..(Len(stream.wire) - 1) : Tail(stream.wire)[i] = stream.wire[i + 1]
  BY <1>2, <1>4
<1>6. /\ stream' = [stream EXCEPT !.wire = Tail(stream.wire)]
      /\ stream'.up = stream.up /\ stream'.seed = stream.seed /\ stream'.lines = stream.lines
      /\ stream'.skip = stream.skip /\ stream'.wire = Tail(stream.wire)
  BY <1>1, <1>2 DEF StreamState
<1>7. stream' \in StreamState /\ page' \in PageState
  <2>1. stream' \in StreamState
    BY <1>1, <1>5, <1>6 DEF StreamState
  <2>2. PICK b \in BOOLEAN : page' = [page EXCEPT !.timer = b]
    <3>1. (page.timer \/ f.records = 1) \in BOOLEAN
      OBVIOUS
    <3>2. QED  BY <1>2, <3>1
  <2>3. page' \in PageState
    BY <1>1, <2>2 DEF PageState
  <2>4. QED  BY <2>1, <2>3
<1>8. StreamInv'
  <2>1. \A i \in DOMAIN Tail(stream.wire) :
          /\ Tail(stream.wire)[i].line <= Complete
          /\ Tail(stream.wire)[i].line > stream.seed =>
               Tail(stream.wire)[i].records = log[Tail(stream.wire)[i].line]
    BY <1>5 DEF StreamInv
  <2>2. QED
    BY <1>2, <1>3, <1>6, <2>1 DEF StreamInv
<1>9. WakeInv'
  <2> SUFFICES ASSUME stream.up, NEW k \in (stream.seed + 1)..Complete \ Torn PROVE Noticed(k)'
    BY <1>1, <1>2, <1>3, <1>6 DEF WakeInv
  <2>1. CASE k <= asked \/ k > stream.lines
    BY <1>2, <1>6, <2>1 DEF Noticed
  <2>2. CASE page.timer
    <3>1. page'.timer
      BY <1>1, <1>2, <2>2 DEF PageState
    <3>2. QED  BY <3>1 DEF Noticed
  <2>3. ASSUME NEW i \in DOMAIN stream.wire, stream.wire[i].line = k PROVE Noticed(k)'
    <3>1. CASE i = 1
      <4>1. k \in DOMAIN log /\ k > stream.seed /\ log[k] \in Nat \ {0} /\ ~(log[k] > 1)
        BY <1>1, <1>4 DEF Torn
      <4>2. f.records = log[k]
        BY <1>5, <2>3, <3>1, <4>1 DEF StreamInv
      <4>3. f.records = 1
        BY <4>1, <4>2
      <4>4. page'.timer
        BY <1>1, <1>2, <4>3 DEF PageState
      <4>5. QED  BY <4>4 DEF Noticed
    <3>2. CASE i # 1
      <4>1. i - 1 \in DOMAIN Tail(stream.wire) /\ Tail(stream.wire)[i - 1] = stream.wire[i]
        BY <1>5, <3>2
      <4>2. QED  BY <1>6, <2>3, <4>1 DEF Noticed
    <3>3. QED  BY <3>1, <3>2
  <2>4. QED
    BY <2>1, <2>2, <2>3 DEF WakeInv, Noticed
<1>10. QED  BY <1>7, <1>8, <1>9

LEMMA FeedMoves ==
  ASSUME TypeOK, LedgerInv, StreamInv, WakeInv, StreamStep \/ GoLive \/ Disconnect
  PROVE  TypeOK' /\ StreamInv' /\ WakeInv' /\ UNCHANGED <<log, open, writer, db, child, crashes>>
<1>1. UNCHANGED <<log, open, writer, db, child, asked, crashes>>
  BY DEF StreamStep, Connect, Tick, DispatchLedgerEvent, GoLive, Disconnect
<1>2. Complete' = Complete /\ Torn' = Torn
  BY <1>1 DEF Complete, Torn
<1>3. page \in PageState /\ stream \in StreamState /\ drops \in Nat /\ Complete \in Nat /\ Len(log) \in Nat
  BY CompleteType DEF TypeOK, PageState, StreamState, Frame
<1>4. stream' \in StreamState /\ page' \in PageState /\ drops' \in Nat /\ StreamInv' /\ WakeInv'
  <2>1. CASE Connect
    BY <1>3, <2>1, ConnectMoves DEF Connect
  <2>2. CASE Tick
    BY <1>3, <2>2, TickMoves DEF Tick
  <2>3. CASE DispatchLedgerEvent
    BY <1>3, <2>3, DispatchMoves DEF DispatchLedgerEvent
  <2>4. CASE GoLive
    <3>1. page' = [page EXCEPT !.phase = "live"] /\ UNCHANGED <<stream, drops>>
      BY <2>4 DEF GoLive
    <3>2. page' \in PageState /\ page'.timer = page.timer
      BY <1>3, <3>1 DEF PageState
    <3>3. QED
      BY <1>1, <1>2, <1>3, <3>1, <3>2 DEF StreamInv, WakeInv, Noticed
  <2>5. CASE Disconnect
    <3>1. stream' = Down /\ page' = page /\ drops' = drops + 1
      BY <2>5 DEF Disconnect
    <3>2. Down \in StreamState
      <4>1. <<>> \in Seq(Frame) /\ 0 \in 0..Len(log)
        BY <1>3
      <4>2. QED  BY <4>1 DEF Down, StreamState
    <3>3. ~stream'.up /\ stream'.lines = 0 /\ stream'.skip = 0 /\ stream'.wire = <<>>
      BY <3>1 DEF Down
    <3>4. QED
      BY <1>1, <1>2, <1>3, <3>1, <3>2, <3>3 DEF StreamInv, WakeInv
  <2>6. QED
    BY <2>1, <2>2, <2>3, <2>4, <2>5 DEF StreamStep
<1>5. QED
  BY <1>1, <1>4 DEF TypeOK, PageState, StreamState, Frame

(* A writer moves the ledger under the stream and the children.            *)
LEMMA LedgerMoves ==
  ASSUME TypeOK, LedgerInv, StreamInv, WakeInv, FreshInv, NEW w \in Writer, LedgerSteps(w)
  PROVE  StreamInv' /\ WakeInv' /\ FreshInv'
<1>1. /\ Len(log) \in Nat /\ Len(log') \in Nat /\ Complete \in Nat /\ Complete' \in Nat
      /\ Len(log) <= Len(log') /\ Complete <= Complete' /\ Complete <= Len(log) /\ Complete' <= Len(log')
  BY LedgerGrows, CompleteType
<1>2. /\ log \in Seq(Nat \ {0}) /\ log' \in Seq(Nat \ {0})
      /\ \A k \in 1..Len(log) : log[k] <= log'[k]
      /\ \A k \in 1..Complete : log'[k] = log[k]
  BY LedgerGrows DEF TypeOK
<1>3. UNCHANGED <<db, child, page, stream, asked>>
  BY LedgerType
<1>4. /\ stream.lines \in Nat /\ stream.seed \in Nat /\ stream.skip \in Nat /\ asked \in Nat
      /\ \A i \in DOMAIN stream.wire : stream.wire[i].line \in Nat \ {0}
  <2>1. stream \in StreamState /\ asked \in Nat
    BY DEF TypeOK, StreamState, Frame
  <2>2. stream.wire \in Seq(Frame) /\ stream.lines \in Nat /\ stream.seed \in Nat /\ stream.skip \in Nat
    BY <1>1, <2>1 DEF StreamState
  <2>3. \A i \in DOMAIN stream.wire : stream.wire[i] \in Frame
    BY <2>2
  <2>4. \A i \in DOMAIN stream.wire : stream.wire[i].line \in Nat \ {0}
    BY <2>3 DEF Frame
  <2>5. QED  BY <2>1, <2>2, <2>4
<1>5. StreamInv'
  <2>1. stream.lines <= Complete'
    BY <1>1, <1>4 DEF StreamInv
  <2>2. ASSUME stream.skip > 0
        PROVE  /\ stream.lines < stream.seed /\ stream.lines < Len(log')
               /\ stream.skip <= log'[stream.lines + 1]
    <3>1. stream.lines + 1 \in 1..Len(log) /\ stream.skip <= log[stream.lines + 1]
      BY <1>1, <1>4, <2>2 DEF StreamInv
    <3>2. log[stream.lines + 1] \in Nat /\ log'[stream.lines + 1] \in Nat
      BY <1>1, <1>2, <3>1
    <3>3. log[stream.lines + 1] <= log'[stream.lines + 1]
      BY <1>2, <3>1
    <3>4. stream.skip <= log'[stream.lines + 1]
      BY <1>4, <3>1, <3>2, <3>3
    <3>5. stream.lines < stream.seed /\ stream.lines < Len(log)
      BY <2>2 DEF StreamInv
    <3>6. QED  BY <1>1, <1>4, <3>4, <3>5
  <2>3. ASSUME NEW i \in DOMAIN stream.wire
        PROVE  LET f == stream.wire[i] IN
               f.line <= Complete' /\ (f.line > stream.seed => f.records = log'[f.line])
    <3>1. stream.wire[i].line \in 1..Complete
      BY <1>1, <1>4 DEF StreamInv
    <3>2. log'[stream.wire[i].line] = log[stream.wire[i].line]
      BY <1>2, <3>1
    <3>3. stream.wire[i].line <= Complete'
      BY <1>1, <3>1
    <3>4. QED  BY <3>2, <3>3 DEF StreamInv
  <2>4. QED
    BY <1>3, <2>1, <2>2, <2>3 DEF StreamInv
<1>6. WakeInv'
  <2>1. asked <= Complete'
    BY <1>1, <1>4 DEF WakeInv
  <2>2. ASSUME stream.up, NEW k \in (stream.seed + 1)..Complete', k \notin Torn' PROVE Noticed(k)
    <3>1. CASE k > Complete
      <4>1. k > stream.lines
        BY <1>1, <1>4, <3>1 DEF StreamInv
      <4>2. QED  BY <4>1 DEF Noticed
    <3>2. CASE k <= Complete
      <4>1. k \in 1..Complete /\ k \in 1..Len(log) /\ k \in 1..Len(log')
        BY <1>1, <1>4, <3>2
      <4>2. k \notin Torn
        BY <1>2, <2>2, <4>1 DEF Torn
      <4>3. QED  BY <1>1, <1>4, <2>2, <4>1, <4>2 DEF WakeInv
    <3>3. QED  BY <1>1, <1>4, <3>1, <3>2
  <2>3. \A k : Noticed(k)' <=> Noticed(k)
    BY <1>3 DEF Noticed
  <2>4. QED
    BY <1>3, <2>1, <2>2, <2>3 DEF WakeInv
<1>7. FreshInv'
  <2>1. \A c \in Child : child[c].need \in Nat
    BY DEF TypeOK
  <2>2. \A c \in Child : child[c].need <= Complete'
    BY <1>1, <2>1 DEF FreshInv
  <2>3. QED
    BY <1>3, <2>2 DEF FreshInv, Rebuilding, At
<1>8. QED  BY <1>5, <1>6, <1>7

(* A child rebuilds, reads and answers.                                    *)
LEMMA ChildMoves ==
  ASSUME TypeOK, LedgerInv, StreamInv, WakeInv, FreshInv, NEW c \in Child, ChildSteps(c)
  PROVE  StreamInv' /\ WakeInv' /\ FreshInv'
<1>1. UNCHANGED <<log, open, stream, asked>>
  BY ChildType
<1>2. /\ child \in [Child -> ChildState] /\ db \in 0..Len(log) /\ Len(log) \in Nat
      /\ Complete \in Nat /\ Complete <= Len(log)
      /\ page \in PageState
  BY CompleteType DEF TypeOK, ChildState, PageState
<1>3. Complete' = Complete /\ Torn' = Torn
  BY <1>1 DEF Complete, Torn
<1>4. page'.timer = page.timer
  BY <1>2 DEF ChildSteps, RebuildProjection, OtherRequest, BeginRebuild, RebuildFails,
     FoldLedger, CommitRebuild, ReadSummaries, Answer, PageState
<1>5. StreamInv' /\ WakeInv'
  BY <1>1, <1>3, <1>4 DEF StreamInv, WakeInv, Noticed
<1>6. \A d \in Child : /\ child[d].need \in Nat /\ child[d].seen \in Nat
                       /\ child[d].need <= Complete
  BY <1>2 DEF ChildState, FreshInv
<1>7. db \in Nat
  BY <1>2
<1>8. FreshInv'
  <2>1. CASE OtherRequest(c)
    <3>1. /\ child'[c].pc = "begin" /\ child'[c].need = child[c].need /\ db' = db
          /\ \A d \in Child : d # c => child'[d] = child[d]
      BY <1>2, <2>1 DEF OtherRequest, ChildState
    <3>2. QED  BY <1>3, <3>1 DEF FreshInv, Rebuilding, At
  <2>2. CASE BeginRebuild(c)
    <3>1. /\ child'[c].pc = "fold" /\ child'[c].need = child[c].need /\ db' = db
          /\ \A d \in Child : d # c => child'[d] = child[d]
          /\ \A d \in Child : ~Rebuilding(d)
      BY <1>2, <2>2 DEF BeginRebuild, ChildState
    <3>2. QED  BY <1>3, <3>1 DEF FreshInv, Rebuilding, At
  <2>3. CASE RebuildFails(c) \/ Answer(c)
    <3>1. /\ child'[c] = Idle /\ db' = db
          /\ \A d \in Child : d # c => child'[d] = child[d]
      BY <1>2, <2>3 DEF RebuildFails, Answer
    <3>2. QED  BY <1>2, <1>3, <3>1 DEF FreshInv, Rebuilding, At, Idle
  <2>4. CASE FoldLedger(c)
    <3>1. /\ child'[c].pc = "commit" /\ child'[c].need = child[c].need /\ child'[c].seen = Len(log)
          /\ \A d \in Child : d # c => child'[d] = child[d]
          /\ db' = db /\ Rebuilding(c)
      BY <1>2, <2>4 DEF FoldLedger, ChildState, Rebuilding, At
    <3>2. child[c].need <= Len(log) /\ db <= Len(log)
      BY <1>2, <1>6
    <3>3. QED  BY <1>3, <3>1, <3>2 DEF FreshInv, Rebuilding, At
  <2>5. CASE CommitRebuild(c)
    <3>1. /\ \/ child'[c].pc = "read" /\ child'[c].need = child[c].need
             \/ child'[c] = Idle
          /\ \A d \in Child : d # c => child'[d] = child[d]
          /\ db' = child[c].seen /\ At(c, "commit")
      BY <1>2, <2>5 DEF CommitRebuild, ChildState
    <3>2. child[c].need <= db' /\ db <= db' /\ db' \in Nat
      BY <1>6, <3>1 DEF FreshInv
    <3>3. \A d \in Child : d # c => ~Rebuilding(d)
      BY <3>1 DEF FreshInv, Rebuilding, At
    <3>4. \A d \in Child : At(d, "read") => child[d].need <= db'
      BY <1>6, <1>7, <3>2 DEF FreshInv
    <3>5. QED
      BY <1>2, <1>3, <3>1, <3>2, <3>3, <3>4 DEF FreshInv, Rebuilding, At, Idle
  <2>6. CASE ReadSummaries(c)
    <3>1. /\ child'[c].pc = "answer" /\ child'[c].need = child[c].need /\ child'[c].seen = db
          /\ \A d \in Child : d # c => child'[d] = child[d]
          /\ db' = db /\ At(c, "read")
      BY <1>2, <2>6 DEF ReadSummaries, ChildState
    <3>2. QED  BY <1>3, <3>1 DEF FreshInv, Rebuilding, At
  <2>7. QED
    BY <2>1, <2>2, <2>3, <2>4, <2>5, <2>6 DEF ChildSteps, RebuildProjection
<1>9. QED  BY <1>5, <1>8

(* The page asks again, and has seen whatever is complete by now.          *)
LEMMA LoadMoves ==
  ASSUME TypeOK, LedgerInv, StreamInv, WakeInv, FreshInv, NEW c \in PageChild,
         OpenPage(c) \/ TimerFires(c) \/ Fallback(c)
  PROVE  StreamInv' /\ WakeInv' /\ FreshInv'
<1>1. UNCHANGED <<log, open, db, stream>> /\ Load(c) /\ asked' = Complete
  BY LoadType
<1>2. Complete' = Complete /\ Complete \in Nat /\ child \in [Child -> ChildState] /\ c \in Child
  BY <1>1, CompleteType DEF Complete, TypeOK, ChildState, Child
<1>3. StreamInv' /\ WakeInv'
  <2>1. \A k \in (stream.seed + 1)..Complete : k <= asked'
    BY <1>1, <1>2 DEF TypeOK
  <2>2. QED  BY <1>1, <1>2, <2>1 DEF StreamInv, WakeInv, Noticed
<1>4. FreshInv'
  <2>1. /\ child'[c].pc = "begin" /\ child'[c].need = Complete
        /\ \A d \in Child : d # c => child'[d] = child[d]
    BY <1>1, <1>2 DEF Load
  <2>2. QED  BY <1>1, <1>2, <2>1 DEF FreshInv, Rebuilding, At
<1>5. QED  BY <1>3, <1>4

(* Each crash tears one line at most.                                      *)
LEMMA CrashMoves ==
  ASSUME TypeOK, LedgerInv, CrashInv, NEW w \in Writer, LedgerSteps(w)
  PROVE  CrashInv'
<1>1. log \in Seq(Nat \ {0}) /\ Len(log) \in Nat /\ crashes \in Nat
  BY DEF TypeOK
<1>2. IsFiniteSet(Broken) /\ Cardinality(Broken) \in Nat
  <2>1. Broken \subseteq 1..Len(log)
    BY <1>1 DEF Broken
  <2>2. IsFiniteSet(1..Len(log))
    BY <1>1, FS_Interval
  <2>3. QED  BY <2>1, <2>2, FS_Subset, FS_CardinalityType
<1>3. CASE WriteRecord(w)
  <2>1. Broken' \subseteq Broken
    <3>1. /\ \A v \in Writer : writer[v] = "idle"
          /\ writer'[w] = "newline"
      BY <1>3 DEF WriteRecord, TypeOK
    <3>2. CASE open
      <4>1. log' = [log EXCEPT ![Len(log)] = @ + 1]
        BY <1>3, <3>2 DEF WriteRecord
      <4>2. /\ DOMAIN log' = DOMAIN log /\ \A k \in DOMAIN log : k # Len(log) => log'[k] = log[k]
        BY <1>1, <4>1
      <4>3. QED  BY <3>1, <3>2, <4>2 DEF Broken
    <3>3. CASE ~open
      <4>1. log' = Append(log, 1)
        BY <1>3, <3>3 DEF WriteRecord
      <4>2. /\ DOMAIN log = 1..Len(log) /\ DOMAIN log' = 1..(Len(log) + 1)
            /\ \A k \in 1..Len(log) : log'[k] = log[k]
            /\ log'[Len(log) + 1] = 1
        BY <1>1, <4>1
      <4>3. \A k \in DOMAIN log' : log'[k] > 1 => k \in DOMAIN log /\ log[k] > 1
        BY <1>1, <4>2
      <4>4. QED  BY <3>1, <4>3 DEF Broken
    <3>4. QED  BY <3>2, <3>3
  <2>2. crashes' = crashes
    BY <1>3 DEF WriteRecord
  <2>3. QED  BY <1>1, <1>2, <2>1, <2>2, FS_Subset, FS_CardinalityType DEF CrashInv
<1>4. CASE WriteNewline(w)
  <2>1. Broken' \subseteq Broken /\ crashes' = crashes
    BY <1>4 DEF WriteNewline, Broken
  <2>2. QED  BY <1>1, <1>2, <2>1, FS_Subset, FS_CardinalityType DEF CrashInv
<1>5. CASE Crash(w)
  <2>1. Broken' \subseteq Broken \cup {Len(log)} /\ crashes' = crashes + 1
    BY <1>5 DEF Crash, Broken
  <2>2. /\ IsFiniteSet(Broken \cup {Len(log)})
        /\ Cardinality(Broken \cup {Len(log)}) \in Nat
        /\ Cardinality(Broken \cup {Len(log)}) <= Cardinality(Broken) + 1
    <3>1. /\ IsFiniteSet(Broken \cup {Len(log)})
          /\ Cardinality(Broken \cup {Len(log)}) \in {Cardinality(Broken), Cardinality(Broken) + 1}
      BY <1>2, FS_AddElement
    <3>2. QED  BY <1>2, <3>1
  <2>3. Cardinality(Broken') \in Nat /\ Cardinality(Broken') <= Cardinality(Broken \cup {Len(log)})
    BY <2>1, <2>2, FS_Subset, FS_CardinalityType
  <2>4. QED  BY <1>1, <1>2, <2>1, <2>2, <2>3 DEF CrashInv
<1>6. QED  BY <1>3, <1>4, <1>5 DEF LedgerSteps

FeedInv == TypeOK /\ LedgerInv /\ StreamInv /\ WakeInv /\ FreshInv /\ CrashInv

LEMMA InitFeed == Init => FeedInv
<1> SUFFICES ASSUME Init PROVE FeedInv
  OBVIOUS
<1>1. /\ log = <<>> /\ open = FALSE /\ db = 0 /\ asked = 0 /\ crashes = 0 /\ drops = 0
      /\ stream = Down /\ child = [c \in Child |-> Idle] /\ Len(log) = 0 /\ Complete = 0
  BY DEF Init, Complete
<1>2. TypeOK
  <2>1. log \in Seq(Nat \ {0}) /\ 0 \in 0..Len(log)
    BY <1>1
  <2>2. child \in [Child -> ChildState]
    BY <1>1, <2>1 DEF Idle, ChildState
  <2>3. stream \in StreamState
    <3>1. <<>> \in Seq(Frame)
      OBVIOUS
    <3>2. QED  BY <1>1, <2>1, <3>1 DEF Down, StreamState
  <2>4. page \in PageState /\ writer \in [Writer -> {"idle", "newline"}]
    BY <2>1 DEF Init, PageState
  <2>5. QED
    BY <1>1, <2>1, <2>2, <2>3, <2>4 DEF TypeOK, ChildState, StreamState, PageState, Frame
<1>3. LedgerInv /\ StreamInv /\ WakeInv
  BY <1>1 DEF LedgerInv, StreamInv, WakeInv, Down
<1>4. FreshInv
  BY <1>1 DEF FreshInv, Rebuilding, At, Idle
<1>5. CrashInv
  <2>1. Broken = {}
    BY <1>1 DEF Broken
  <2>2. QED  BY <1>1, <2>1, FS_EmptySet DEF CrashInv
<1>6. QED  BY <1>2, <1>3, <1>4, <1>5 DEF FeedInv

LEMMA FeedStep == FeedInv /\ [Next]_vars => FeedInv'
<1> SUFFICES ASSUME FeedInv, [Next]_vars PROVE FeedInv'
  OBVIOUS
<1> USE DEF FeedInv
<1>1. CASE \E w \in Writer : LedgerSteps(w)
  BY <1>1, LedgerGrows, LedgerType, LedgerMoves, CrashMoves
<1>2. CASE \E c \in Child : ChildSteps(c)
  <2>1. PICK c \in Child : ChildSteps(c)
    BY <1>2
  <2>2. TypeOK' /\ UNCHANGED <<log, open, writer, crashes>>
    BY <2>1, ChildType
  <2>3. StreamInv' /\ WakeInv' /\ FreshInv'
    BY <2>1, ChildMoves
  <2>4. QED  BY <2>2, <2>3 DEF LedgerInv, CrashInv, Broken
<1>3. CASE \E c \in PageChild : OpenPage(c) \/ TimerFires(c) \/ Fallback(c)
  <2>1. TypeOK' /\ UNCHANGED <<log, open, writer, crashes>>
    BY <1>3, LoadType
  <2>2. StreamInv' /\ WakeInv' /\ FreshInv'
    BY <1>3, LoadMoves
  <2>3. QED  BY <2>1, <2>2 DEF LedgerInv, CrashInv, Broken
<1>4. CASE StreamStep \/ GoLive \/ Disconnect
  <2>1. TypeOK' /\ StreamInv' /\ WakeInv' /\ UNCHANGED <<log, open, writer, db, child, crashes>>
    BY <1>4, FeedMoves
  <2>2. QED
    BY <2>1 DEF LedgerInv, CrashInv, Broken, FreshInv, Rebuilding, At, Complete
<1>5. CASE UNCHANGED vars
  BY <1>5 DEF vars, TypeOK, LedgerInv, StreamInv, WakeInv, FreshInv, CrashInv, Broken, Noticed,
     Torn, Rebuilding, At, Complete
<1>6. Next => \/ \E w \in Writer : LedgerSteps(w)
              \/ \E c \in Child : ChildSteps(c)
              \/ \E c \in PageChild : OpenPage(c) \/ TimerFires(c) \/ Fallback(c)
              \/ StreamStep \/ GoLive \/ Disconnect
  BY DEF Next, LedgerSteps, ChildSteps, RebuildForOthers, SendTaskSummaries, Child
<1>7. QED  BY <1>1, <1>2, <1>3, <1>4, <1>5, <1>6

LEMMA FeedInvariant == Spec => []FeedInv
BY InitFeed, FeedStep, PTL DEF Spec

(* The variables stay within their types, for any number of writers,       *)
(* loads and rebuilds; no empty frame is ever sent (streamLedgerDelta).    *)
THEOREM FeedTypeCorrect == Spec => []TypeOK
<1>1. FeedInv => TypeOK
  BY DEF FeedInv
<1>2. QED  BY <1>1, FeedInvariant, PTL

(* sendTaskSummariesJson: an answer holds what was in the ledger when the  *)
(* request came, however many children rebuild the projection meanwhile.   *)
THEOREM AnswersAlwaysFresh == Spec => []AnswersFresh
<1>1. FeedInv => AnswersFresh
  <2> SUFFICES ASSUME FeedInv, NEW c \in PageChild, At(c, "answer")
               PROVE  child[c].seen >= child[c].need
    BY DEF AnswersFresh
  <2>1. c \in Child /\ child[c].need <= child[c].seen /\ child[c] \in ChildState /\ Len(log) \in Nat
    BY DEF FeedInv, FreshInv, Child, TypeOK, ChildState
  <2>2. QED  BY <2>1 DEF ChildState
<1>2. QED  BY <1>1, FeedInvariant, PTL

(* streamLedgerDelta, dispatchLedgerEvent, scheduleRefresh: no line that   *)
(* is completed under a stream goes unnoticed but one per crash, whatever  *)
(* writers, frames, timers and loads do and in whatever order.             *)
THEOREM WakeupsArrive == Spec => []NoLostWakeup
<1>1. FeedInv => NoLostWakeup
  <2> SUFFICES ASSUME FeedInv PROVE NoLostWakeup
    OBVIOUS
  <2>1. Torn \subseteq Broken /\ Broken \subseteq 1..Len(log) /\ Len(log) \in Nat /\ crashes \in Nat
    BY DEF FeedInv, TypeOK, Torn, Broken
  <2>2. Cardinality(Torn) <= crashes
    <3>1. IsFiniteSet(1..Len(log))
      BY <2>1, FS_Interval
    <3>2. IsFiniteSet(Broken)
      BY <2>1, <3>1, FS_Subset
    <3>3. IsFiniteSet(Torn) /\ Cardinality(Torn) <= Cardinality(Broken)
      BY <2>1, <3>2, FS_Subset
    <3>4. Cardinality(Torn) \in Nat /\ Cardinality(Broken) \in Nat
      BY <3>2, <3>3, FS_CardinalityType
    <3>5. QED  BY <2>1, <3>3, <3>4 DEF FeedInv, CrashInv
  <2>3. QED  BY <2>2 DEF FeedInv, WakeInv, Noticed, NoLostWakeup
<1>2. QED  BY <1>1, FeedInvariant, PTL
=============================================================================
