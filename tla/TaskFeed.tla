------------------------------ MODULE TaskFeed ------------------------------
(***************************************************************************)
(* How a page keeps its task table up to date (web/app.js): an event       *)
(* stream tells it that the ledger grew (streamLedgerDelta of              *)
(* src/wt_roomd.c), it asks for the summaries, and a request child folds   *)
(* the ledger into the projection and reads the answer from there          *)
(* (wtTaskProjectionRebuild, src/wt_task_projection.c).  Nothing ties the  *)
(* three together but timers.                                              *)
(*                                                                         *)
(* An append is the record and then, by a second write, the newline        *)
(* (wtTaskAppendRecord).  A writer that dies in between leaves an open     *)
(* line and the next record is written onto it.  A line counts here by its *)
(* number of records, all of kinds that touch tasks; what a fold made of   *)
(* the ledger, by the number of lines it read.                             *)
(***************************************************************************)
EXTENDS Integers, Sequences, FiniteSets

CONSTANTS
  Writer,      \* agents and request children that append
  PageChild,   \* request children that answer the page's loads of the table
  OtherChild,  \* request children that rebuild the projection for others
  MaxLine,     \* bound: lines of the ledger
  MaxCrash,    \* bound: writers that die
  MaxDrop      \* bound: streams that end

ASSUME FeedAssumption ==
  /\ PageChild \cap OtherChild = {}
  /\ MaxLine \in Nat /\ MaxCrash \in Nat /\ MaxDrop \in Nat

VARIABLES
  log,     \* the lines of the ledger, each as its number of records
  open,    \* the last line has no newline yet
  writer,  \* what each writer is about to do
  db,      \* the lines the projection was made from
  child,   \* what each request child is about to do, and the lines it has read
  page,    \* the page: phase of init, refresh timer, lines in the table
  stream,  \* the event stream: position in the ledger and frames under way
  asked,   \* auxiliary: lines complete when the page last started a load
  crashes, drops

vars == <<log, open, writer, db, child, page, stream, asked, crashes, drops>>

Child == PageChild \cup OtherChild
Idle == [pc |-> "idle", need |-> 0, seen |-> 0]

(* No stream: the page has not opened it, or it broke.                     *)
Down == [up |-> FALSE, seed |-> 0, lines |-> 0, skip |-> 0, wire |-> <<>>]

Init ==
  /\ log = <<>> /\ open = FALSE
  /\ writer = [w \in Writer |-> "idle"]
  /\ db = 0
  /\ child = [c \in Child |-> Idle]
  /\ page = [phase |-> "closed", timer |-> FALSE, table |-> 0]
  /\ stream = Down
  /\ asked = 0 /\ crashes = 0 /\ drops = 0

(* The lines that have their newline.                                      *)
Complete == IF open THEN Len(log) - 1 ELSE Len(log)

-----------------------------------------------------------------------------
(* wtTaskAppendRecord, under the lock of the file.                         *)

WriteRecord(w) ==
  /\ \A v \in Writer : writer[v] = "idle"
  /\ open \/ Len(log) < MaxLine
  /\ log' = IF open THEN [log EXCEPT ![Len(log)] = @ + 1] ELSE Append(log, 1)
  /\ open' = TRUE
  /\ writer' = [writer EXCEPT ![w] = "newline"]
  /\ UNCHANGED <<db, child, page, stream, asked, crashes, drops>>

WriteNewline(w) ==
  /\ writer[w] = "newline"
  /\ open' = FALSE
  /\ writer' = [writer EXCEPT ![w] = "idle"]
  /\ UNCHANGED <<log, db, child, page, stream, asked, crashes, drops>>

(* The kernel drops the lock of a writer that dies; a process of the same  *)
(* name may append again.                                                  *)
Crash(w) ==
  /\ writer[w] = "newline" /\ crashes < MaxCrash
  /\ crashes' = crashes + 1
  /\ writer' = [writer EXCEPT ![w] = "idle"]
  /\ UNCHANGED <<log, open, db, child, page, stream, asked, drops>>

-----------------------------------------------------------------------------
(* A request child: rebuild the projection, read it, answer.               *)

At(c, pc) == child[c].pc = pc
Rebuilding(c) == child[c].pc \in {"fold", "commit"}

(* The page asks; a load in init holds init up until its answer.           *)
Load(c) ==
  /\ At(c, "idle")
  /\ child' = [child EXCEPT ![c] = [pc |-> "begin", need |-> Complete, seen |-> 0]]
  /\ asked' = Complete

OtherRequest(c) ==
  /\ At(c, "idle")
  /\ child' = [child EXCEPT ![c].pc = "begin"]
  /\ UNCHANGED <<log, open, writer, db, page, stream, asked, crashes, drops>>

(* An answer, with or without the summaries, lets init go on.              *)
Answered == IF page.phase = "loading" THEN "loaded" ELSE page.phase

(* BEGIN IMMEDIATE takes the write lock of the database.                   *)
BeginRebuild(c) ==
  /\ At(c, "begin") /\ \A d \in Child : ~Rebuilding(d)
  /\ child' = [child EXCEPT ![c].pc = "fold"]
  /\ UNCHANGED <<log, open, writer, db, page, stream, asked, crashes, drops>>

(* No busy timeout is set: while another rebuild is open the request fails *)
(* with status 500, and loadTasks returns without a word.                  *)
RebuildFails(c) ==
  /\ At(c, "begin") /\ \E d \in Child : Rebuilding(d)
  /\ child' = [child EXCEPT ![c] = Idle]
  /\ page' = IF c \in PageChild THEN [page EXCEPT !.phase = Answered] ELSE page
  /\ UNCHANGED <<log, open, writer, db, stream, asked, crashes, drops>>

(* The fold reads to the end of the file, an open line included.           *)
FoldLedger(c) ==
  /\ At(c, "fold")
  /\ child' = [child EXCEPT ![c].pc = "commit", ![c].seen = Len(log)]
  /\ UNCHANGED <<log, open, writer, db, page, stream, asked, crashes, drops>>

(* What a child does for others after its rebuild changes nothing here.    *)
CommitRebuild(c) ==
  /\ At(c, "commit")
  /\ db' = child[c].seen
  /\ child' = [child EXCEPT ![c] = IF c \in PageChild
                                  THEN [@ EXCEPT !.pc = "read", !.seen = 0] ELSE Idle]
  /\ UNCHANGED <<log, open, writer, page, stream, asked, crashes, drops>>

(* Mistake: the ledger is read before the transaction begins.              *)
FoldThenBegin(c) ==
  \/ /\ At(c, "begin")
     /\ child' = [child EXCEPT ![c].pc = "fold", ![c].seen = Len(log)]
     /\ UNCHANGED <<log, open, writer, db, page, stream, asked, crashes, drops>>
  \/ /\ At(c, "fold") /\ \A d \in Child : ~At(d, "commit")
     /\ child' = [child EXCEPT ![c].pc = "commit"]
     /\ UNCHANGED <<log, open, writer, db, page, stream, asked, crashes, drops>>
  \/ CommitRebuild(c)

RebuildProjection(c) ==
  BeginRebuild(c) \/ RebuildFails(c) \/ FoldLedger(c) \/ CommitRebuild(c)

(* wtTaskProjectionReadSummariesJson opens the database again: it reads    *)
(* the last rebuild that was committed, be it another child's.             *)
ReadSummaries(c) ==
  /\ At(c, "read")
  /\ child' = [child EXCEPT ![c].pc = "answer", ![c].seen = db]
  /\ UNCHANGED <<log, open, writer, db, page, stream, asked, crashes, drops>>

(* Answers arrive in any order and the page shows the last to arrive.      *)
Answer(c) ==
  /\ At(c, "answer")
  /\ child' = [child EXCEPT ![c] = Idle]
  /\ page' = [page EXCEPT !.table = child[c].seen, !.phase = Answered]
  /\ UNCHANGED <<log, open, writer, db, stream, asked, crashes, drops>>

SendTaskSummaries(c) == RebuildProjection(c) \/ ReadSummaries(c) \/ Answer(c)
RebuildForOthers(c) == OtherRequest(c) \/ RebuildProjection(c)

-----------------------------------------------------------------------------
(* The page.                                                               *)

(* init of web/app.js: the first load is awaited, and the stream and the   *)
(* intervals come only after it.                                           *)
OpenPage(c) ==
  /\ page.phase = "closed"
  /\ page' = [page EXCEPT !.phase = "loading"]
  /\ Load(c)
  /\ UNCHANGED <<log, open, writer, db, stream, crashes, drops>>

GoLive ==
  /\ page.phase = "loaded"
  /\ page' = [page EXCEPT !.phase = "live"]
  /\ UNCHANGED <<log, open, writer, db, child, stream, asked, crashes, drops>>

(* handleEvents: the offset starts at the end of the file, in the middle   *)
(* of a line if it is open.                                                *)
Connect ==
  /\ page.phase = "live" /\ ~stream.up
  /\ stream' = [Down EXCEPT !.up = TRUE, !.seed = Len(log), !.lines = Complete,
                            !.skip = IF open THEN log[Len(log)] ELSE 0]
  /\ UNCHANGED <<log, open, writer, db, child, page, asked, crashes, drops>>

(* The line k of the ledger as the stream sends it: its number of records. *)
Rest(k) == IF k = stream.lines + 1 THEN log[k] - stream.skip ELSE log[k]

(* Only the line that the offset starts in can be empty from there on.     *)
FirstSent == IF Rest(stream.lines + 1) = 0 THEN stream.lines + 2 ELSE stream.lines + 1

Frames(from, to) ==
  [i \in 1..(to - from + 1) |-> [line |-> from + i - 1, records |-> Rest(from + i - 1)]]

(* Mistake: what is left of a line is sent though it is empty.             *)
TickWithEmpty ==
  /\ stream.up /\ stream.lines < Complete
  /\ stream' = [stream EXCEPT !.lines = Complete, !.skip = 0,
                              !.wire = @ \o Frames(stream.lines + 1, Complete)]
  /\ UNCHANGED <<log, open, writer, db, child, page, asked, crashes, drops>>

(* streamLedgerDelta: every complete line is sent; of one that is empty    *)
(* from the offset on, only the offset moves.                              *)
Tick ==
  /\ stream.up /\ stream.lines < Complete
  /\ stream' = [stream EXCEPT !.lines = Complete, !.skip = 0,
                              !.wire = @ \o Frames(FirstSent, Complete)]
  /\ UNCHANGED <<log, open, writer, db, child, page, asked, crashes, drops>>

(* Mistake: a frame is ignored while a load is under way.                  *)
DispatchUnlessLoading ==
  /\ stream.wire # <<>>
  /\ stream' = [stream EXCEPT !.wire = Tail(@)]
  /\ page' = [page EXCEPT !.timer = @ \/ /\ Head(stream.wire).records = 1
                                         /\ \A c \in PageChild : At(c, "idle")]
  /\ UNCHANGED <<log, open, writer, db, child, asked, crashes, drops>>

(* dispatchLedgerEvent and scheduleRefresh: a frame that holds two records *)
(* does not parse; any other sets the timer if it is not set.              *)
DispatchLedgerEvent ==
  /\ stream.wire # <<>>
  /\ stream' = [stream EXCEPT !.wire = Tail(@)]
  /\ page' = [page EXCEPT !.timer = @ \/ Head(stream.wire).records = 1]
  /\ UNCHANGED <<log, open, writer, db, child, asked, crashes, drops>>

(* The timer is forgotten before the load starts.                          *)
TimerFires(c) ==
  /\ page.timer
  /\ page' = [page EXCEPT !.timer = FALSE]
  /\ Load(c)
  /\ UNCHANGED <<log, open, writer, db, stream, crashes, drops>>

(* Mistake: no interval loads the table.                                   *)
NoFallback(c) == FALSE

(* The interval of 30 s, and the loads that follow a request of the user.  *)
Fallback(c) ==
  /\ page.phase = "live"
  /\ Load(c)
  /\ UNCHANGED <<log, open, writer, db, page, stream, crashes, drops>>

(* The connection breaks, or its child ends after 7200 ticks; frames under *)
(* way are lost.                                                           *)
Disconnect ==
  /\ stream.up /\ drops < MaxDrop
  /\ drops' = drops + 1
  /\ stream' = Down
  /\ UNCHANGED <<log, open, writer, db, child, page, asked, crashes>>

-----------------------------------------------------------------------------

StreamStep == Connect \/ Tick \/ DispatchLedgerEvent

Next ==
  \/ \E w \in Writer : WriteRecord(w) \/ WriteNewline(w) \/ Crash(w)
  \/ \E c \in OtherChild : RebuildForOthers(c)
  \/ \E c \in PageChild : SendTaskSummaries(c)
  \/ \E c \in PageChild : OpenPage(c) \/ TimerFires(c) \/ Fallback(c)
  \/ GoLive \/ StreamStep \/ Disconnect

Spec == Init /\ [][Next]_vars

(* Processes keep running; the page is opened, its interval recurs and the *)
(* browser opens the stream again.  Nobody has to append.                  *)
FairSpec ==
  /\ Spec
  /\ \A w \in Writer : WF_vars(WriteNewline(w))
  /\ \A c \in PageChild : WF_vars(SendTaskSummaries(c))
  /\ \A c \in OtherChild : WF_vars(RebuildProjection(c))
  /\ WF_vars(GoLive) /\ WF_vars(StreamStep)
  /\ WF_vars(\E c \in PageChild : OpenPage(c))
  /\ WF_vars(\E c \in PageChild : TimerFires(c))
  /\ WF_vars(\E c \in PageChild : Fallback(c))

-----------------------------------------------------------------------------
(* Properties.                                                             *)

(* The values the fields can take: positions are in the ledger, and a      *)
(* frame on its way is never empty.                                        *)
TypeOK ==
  /\ log \in Seq(Nat \ {0}) /\ open \in BOOLEAN
  /\ writer \in [Writer -> {"idle", "newline"}]
  /\ db \in 0..Len(log) /\ asked \in 0..Len(log)
  /\ child \in [Child -> [pc : {"idle", "begin", "fold", "commit", "read", "answer"},
                          need : 0..Len(log), seen : 0..Len(log)]]
  /\ page \in [phase : {"closed", "loading", "loaded", "live"}, timer : BOOLEAN,
               table : 0..Len(log)]
  /\ stream \in [up : BOOLEAN, seed : 0..Len(log), lines : 0..Len(log), skip : Nat,
                 wire : Seq([line : 1..Len(log), records : Nat \ {0}])]
  /\ crashes \in Nat /\ drops \in Nat

(* sendTaskSummariesJson: an answer holds everything that was in the       *)
(* ledger when the request came, though it is read from a database that    *)
(* other children replace between the rebuild and the read.                *)
AnswersFresh ==
  \A c \in PageChild : At(c, "answer") => child[c].seen >= child[c].need

(* Lines that a crash left open and that took a second record.             *)
Torn == {k \in DOMAIN log : log[k] > 1}

(* streamLedgerDelta, dispatchLedgerEvent, scheduleRefresh: no line that   *)
(* is completed while a stream is up goes unnoticed, however frames,       *)
(* timer and loads interleave: the page started a load after it, or will.  *)
(* Only a line torn by a crash is not noticed, at most one for each crash. *)
NoLostWakeup ==
  /\ Cardinality(Torn) <= crashes
  /\ stream.up =>
       \A k \in (stream.seed + 1)..Complete \ Torn :
         \/ k <= asked
         \/ k > stream.lines
         \/ \E i \in DOMAIN stream.wire : stream.wire[i].line = k
         \/ page.timer

(* init of web/app.js, the fallback: whatever was missed before the stream *)
(* was up, between two streams or on a torn line, the page comes to show   *)
(* the whole ledger and stays so, unless its loads collide with other      *)
(* rebuilds for ever.                                                      *)
PageCatchesUp ==
  \/ <>[](page.table = Len(log))
  \/ []<><<\E c \in PageChild : RebuildFails(c)>>_vars
=============================================================================
