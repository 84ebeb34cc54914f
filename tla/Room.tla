-------------------------------- MODULE Room --------------------------------
(***************************************************************************)
(* The room: room.jsonl, which everybody appends to (src/wt_room_store.c), *)
(* the agents that answer what is addressed to them (handleOnce of         *)
(* src/wt_agent.c), and the event streams that carry the transcript to the *)
(* consoles (handleEvents of src/wt_roomd.c, web/app.js).                  *)
(*                                                                         *)
(* An append takes the file lock, scans the file for the highest id,       *)
(* writes the object and then, by a second write, the newline.  A process  *)
(* that dies between the two leaves an open line, and the next object is   *)
(* written onto it.  So a line is a sequence of objects, of which the      *)
(* readers see the first: wtJsonReadLong and wtJsonReadString take the     *)
(* first occurrence of a field.                                            *)
(***************************************************************************)
EXTENDS Integers, Sequences, FiniteSets

CONSTANTS
  Agent,         \* agent processes, one for each name
  Poster,        \* processes that post: request children of the daemon, wt-say
  Client,        \* consoles
  ContextCount,  \* contextMessageCount, the messages an agent reads
  RecentCount,   \* messages a page asks for when it opens, 100
  Batch,         \* messages a stream reads in one tick, 64
  MaxPost,       \* bound: messages the posters post
  MaxCrash,      \* bound: processes that die
  MaxDrop        \* bound: connections that break

ASSUME RoomAssumption ==
  /\ Agent \cap Poster = {} /\ "ceo" \notin Agent /\ "all" \notin Agent
  /\ ContextCount \in Nat \ {0} /\ RecentCount \in Nat \ {0} /\ Batch \in Nat \ {0}
  /\ MaxPost \in Nat /\ MaxCrash \in Nat /\ MaxDrop \in Nat

VARIABLES
  log,      \* the lines of room.jsonl
  open,     \* the last line has no newline yet
  lock,     \* the processes that hold the lock on the file
  proc,     \* what each process is about to do
  handled,  \* the agents' state files: the id answered last, 0 for none
  stream,   \* the consoles' pages and streams
  crashes, drops

vars == <<log, open, lock, proc, handled, stream, crashes, drops>>

Process == Agent \cup Poster
Target == Agent \cup {"all", "ceo"}
Message == [id : Nat, from : Agent \cup {"ceo"}, to : Target, replyTo : Nat]

(* "ceo" stands for the senders that agents answer, ceo and system.        *)
Asks == [id : {0}, from : {"ceo"}, to : Target, replyTo : {0}]
NoMessage == [id |-> 0, from |-> "ceo", to |-> "ceo", replyTo |-> 0]

Init ==
  /\ log = <<>> /\ open = FALSE /\ lock = {}
  /\ proc = [p \in Process |-> [pc |-> "idle", msg |-> NoMessage]]
  /\ handled = [a \in Agent |-> 0]
  /\ stream = [c \in Client |-> [loaded |-> FALSE, older |-> 0, up |-> FALSE, lastSentId |-> 0,
                                wire |-> <<>>, shown |-> <<>>]]
  /\ crashes = 0 /\ drops = 0

-----------------------------------------------------------------------------
(* Reading the log.                                                        *)

FromJsonLine(line) == line[1]
Parsed == [i \in DOMAIN log |-> FromJsonLine(log[i])]

LastMessageId == IF log = <<>> THEN 0
                 ELSE CHOOSE m \in {Parsed[i].id : i \in DOMAIN log} :
                        \A i \in DOMAIN log : Parsed[i].id <= m

(* The window that ReadRecent keeps in its ring, as positions in the log.  *)
Recent(limit) == {i \in DOMAIN log : i + limit > Len(log)}

(* The messages after an id, as positions, and the k-th of them.           *)
After(id) == {i \in DOMAIN log : Parsed[i].id > id}
Nth(k, S) == CHOOSE i \in S : Cardinality({j \in S : j <= i}) = k
Count(id) == Cardinality(After(id))

(* Mistake: the newest messages instead of the oldest ones not yet sent.   *)
ReadNewestAfter(id) ==
  LET skipped == IF Count(id) > Batch THEN Count(id) - Batch ELSE 0
  IN  [k \in 1..(Count(id) - skipped) |-> Parsed[Nth(skipped + k, After(id))]]

(* Mistake: off by one, the last message is held back.                     *)
ReadAllButLastAfter(id) ==
  [k \in 1..(IF Count(id) <= Batch THEN Count(id) - 1 ELSE Batch) |-> Parsed[Nth(k, After(id))]]

ReadMessagesAfter(id) ==
  [k \in 1..(IF Count(id) < Batch THEN Count(id) ELSE Batch) |-> Parsed[Nth(k, After(id))]]

-----------------------------------------------------------------------------
(* wtRoomAppendNewMessage, in the steps between which other processes run. *)

At(p, pc) == proc[p].pc = pc
Becomes(p, pc, m) == proc' = [proc EXCEPT ![p] = [pc |-> pc, msg |-> m]]
Goes(p, pc) == Becomes(p, pc, proc[p].msg)
Ends(p) == Becomes(p, "idle", NoMessage)

LockFile(p) ==
  /\ At(p, "append") /\ Goes(p, "scan")
  /\ lock = {} /\ lock' = {p}
  /\ UNCHANGED <<log, open, handled, stream, crashes, drops>>

(* Mistake: the id of the last message is used again.                      *)
ScanIdsNoStep(p) ==
  /\ At(p, "scan")
  /\ Becomes(p, "write", [proc[p].msg EXCEPT !.id = IF log = <<>> THEN 1 ELSE LastMessageId])
  /\ UNCHANGED <<log, open, lock, handled, stream, crashes, drops>>

ScanIds(p) ==
  /\ At(p, "scan")
  /\ Becomes(p, "write", [proc[p].msg EXCEPT !.id = LastMessageId + 1])
  /\ UNCHANGED <<log, open, lock, handled, stream, crashes, drops>>

WriteObject(p) ==
  /\ At(p, "write") /\ Goes(p, "newline")
  /\ log' = IF open THEN [log EXCEPT ![Len(log)] = Append(@, proc[p].msg)]
            ELSE Append(log, <<proc[p].msg>>)
  /\ open' = TRUE
  /\ UNCHANGED <<lock, handled, stream, crashes, drops>>

(* Mistake: the newline is not written.                                    *)
SkipNewline(p) ==
  /\ At(p, "newline")
  /\ IF p \in Agent THEN Goes(p, "truncate") ELSE Ends(p)
  /\ lock' = lock \ {p}
  /\ UNCHANGED <<log, open, handled, stream, crashes, drops>>

WriteNewline(p) ==
  /\ At(p, "newline")
  /\ IF p \in Agent THEN Goes(p, "truncate") ELSE Ends(p)
  /\ open' = FALSE
  /\ lock' = lock \ {p}
  /\ UNCHANGED <<log, handled, stream, crashes, drops>>

AppendNewMessage(p) == LockFile(p) \/ ScanIds(p) \/ WriteObject(p) \/ WriteNewline(p)

-----------------------------------------------------------------------------
(* Posting: handlePostMessage, appendTaskRoomEvent and wt-say.             *)

Posted == {i \in DOMAIN log : \E k \in DOMAIN log[i] : log[i][k].from = "ceo"}

PostMessage(p) ==
  /\ At(p, "idle")
  /\ Cardinality(Posted) + Cardinality({q \in Poster : ~At(q, "idle")}) < MaxPost
  /\ \E m \in Asks : Becomes(p, "append", m)
  /\ UNCHANGED <<log, open, lock, handled, stream, crashes, drops>>

-----------------------------------------------------------------------------
(* Answering: the second half of handleOnce.                               *)

(* Mistake: the state file is not asked.                                   *)
ShouldHandleAgain(a, m, lastHandledId) == m.from = "ceo" /\ m.to \in {a, "all"}

(* Mistake: messages to everybody are not for anybody.                     *)
ShouldHandleOwn(a, m, lastHandledId) ==
  m.id > lastHandledId /\ m.from = "ceo" /\ m.to = a

ShouldHandle(a, m, lastHandledId) ==
  m.id > lastHandledId /\ m.from = "ceo" /\ m.to \in {a, "all"}

Candidates(a) == {i \in Recent(ContextCount) : ShouldHandle(a, Parsed[i], handled[a])}

(* Only the newest message is answered.                                    *)
PickMessage(a) ==
  /\ At(a, "idle")
  /\ \E i \in Candidates(a) :
       /\ \A j \in Candidates(a) : j <= i
       /\ Becomes(a, "append", [id |-> 0, from |-> a, to |-> "ceo", replyTo |-> Parsed[i].id])
  /\ UNCHANGED <<log, open, lock, handled, stream, crashes, drops>>

(* Mistake: the result of fscanf on an empty file is taken for the id.     *)
TruncateToEof(a) ==
  /\ At(a, "truncate") /\ Goes(a, "save")
  /\ handled' = [handled EXCEPT ![a] = -1]
  /\ UNCHANGED <<log, open, lock, stream, crashes, drops>>

(* wtRoomWriteAgentState: fopen empties the file, fclose writes the id; an *)
(* empty file reads as 0.                                                  *)
TruncateState(a) ==
  /\ At(a, "truncate") /\ Goes(a, "save")
  /\ handled' = [handled EXCEPT ![a] = 0]
  /\ UNCHANGED <<log, open, lock, stream, crashes, drops>>

(* Mistake: everything in the room counts as answered.                     *)
SaveNewest(a) ==
  /\ At(a, "save") /\ Ends(a)
  /\ handled' = [handled EXCEPT ![a] = LastMessageId]
  /\ UNCHANGED <<log, open, lock, stream, crashes, drops>>

SaveState(a) ==
  /\ At(a, "save") /\ Ends(a)
  /\ handled' = [handled EXCEPT ![a] = proc[a].msg.replyTo]
  /\ UNCHANGED <<log, open, lock, stream, crashes, drops>>

(* A process dies and the kernel drops its lock; an agent is started again *)
(* by systemd and begins a new round.                                      *)
Crash(p) ==
  /\ ~At(p, "idle") /\ crashes < MaxCrash
  /\ crashes' = crashes + 1
  /\ Ends(p)
  /\ lock' = lock \ {p}
  /\ UNCHANGED <<log, open, handled, stream, drops>>

-----------------------------------------------------------------------------
(* The consoles.  A page shows recent messages and then opens a stream: a  *)
(* child of the daemon that remembers what it sent, and the frames under   *)
(* way.  The page drops what it has seen.                                  *)

(* loadRecent of web/app.js and sendMessagesJson, which cuts the window    *)
(* short when its buffer is full; older counts what is not in the window.  *)
LoadRecent(c) ==
  LET n == Cardinality(Recent(RecentCount))
      first == Len(log) - n IN
  /\ ~stream[c].loaded
  /\ \E k \in (IF n = 0 THEN {0} ELSE 1..n) :
       stream' = [stream EXCEPT ![c].loaded = TRUE, ![c].older = first,
                                ![c].shown = [i \in 1..k |-> Parsed[first + i].id]]
  /\ UNCHANGED <<log, open, lock, proc, handled, crashes, drops>>

Connect(c) ==
  /\ stream[c].loaded /\ ~stream[c].up
  /\ stream' = [stream EXCEPT ![c].up = TRUE, ![c].lastSentId = 0]
  /\ UNCHANGED <<log, open, lock, proc, handled, crashes, drops>>

(* A tick of handleEvents that finds new messages.                         *)
Tick(c) ==
  LET batch == ReadMessagesAfter(stream[c].lastSentId) IN
  /\ stream[c].up /\ batch # <<>>
  /\ stream' = [stream EXCEPT ![c].wire = @ \o [i \in DOMAIN batch |-> batch[i].id],
                              ![c].lastSentId = batch[Len(batch)].id]
  /\ UNCHANGED <<log, open, lock, proc, handled, crashes, drops>>

(* renderMessage of web/app.js, with its set of seen ids.                  *)
RenderMessage(c) ==
  LET id == Head(stream[c].wire)
      seen == \E i \in DOMAIN stream[c].shown : stream[c].shown[i] = id IN
  /\ stream[c].wire # <<>>
  /\ stream' = [stream EXCEPT ![c].wire = Tail(@),
                              ![c].shown = IF seen THEN @ ELSE Append(@, id)]
  /\ UNCHANGED <<log, open, lock, proc, handled, crashes, drops>>

(* The connection breaks, or its child ends after 7200 ticks.              *)
Disconnect(c) ==
  /\ stream[c].up /\ drops < MaxDrop
  /\ drops' = drops + 1
  /\ stream' = [stream EXCEPT ![c].up = FALSE, ![c].wire = <<>>]
  /\ UNCHANGED <<log, open, lock, proc, handled, crashes>>

-----------------------------------------------------------------------------

AgentStep(a) == PickMessage(a) \/ AppendNewMessage(a) \/ TruncateState(a) \/ SaveState(a)
StreamStep(c) == LoadRecent(c) \/ Connect(c) \/ Tick(c) \/ RenderMessage(c)

Next ==
  \/ \E p \in Poster : PostMessage(p) \/ AppendNewMessage(p)
  \/ \E a \in Agent : AgentStep(a)
  \/ \E p \in Process : Crash(p)
  \/ \E c \in Client : StreamStep(c) \/ Disconnect(c)

Spec == Init /\ [][Next]_vars

(* Processes keep running, systemd restarts agents and the browser opens   *)
(* the stream again; nobody has to post.                                   *)
FairSpec ==
  /\ Spec
  /\ \A p \in Poster : WF_vars(AppendNewMessage(p))
  /\ \A a \in Agent : WF_vars(AgentStep(a))
  /\ \A c \in Client : WF_vars(StreamStep(c))

-----------------------------------------------------------------------------
(* Properties.                                                             *)

ProcState == [pc : {"idle", "append", "scan", "write", "newline", "truncate", "save"},
              msg : Message]

TypeOK ==
  /\ log \in Seq(Seq(Message) \ {<<>>})
  /\ open \in BOOLEAN
  /\ lock \in SUBSET Process
  /\ proc \in [Process -> ProcState]
  /\ handled \in [Agent -> Nat]
  /\ stream \in [Client -> [loaded : BOOLEAN, older : Nat, up : BOOLEAN, lastSentId : Nat,
                          wire : Seq(Nat), shown : Seq(Nat)]]
  /\ crashes \in Nat /\ drops \in Nat

(* wtRoomAppendNewMessage: whoever appends and wherever appenders die, the *)
(* ids that readers see increase from line to line.  The readers' "after   *)
(* this id" and "newer than answered" rest on it.                          *)
IdsIncrease ==
  \A i, j \in DOMAIN log : i < j => Parsed[i].id < Parsed[j].id

Replies(a, id) ==
  {i \in DOMAIN log : \E k \in DOMAIN log[i] : log[i][k].from = a /\ log[i][k].replyTo = id}

(* handleOnce: an agent answers a message a second time only if it died    *)
(* between its reply and the state file.                                   *)
RepliesBounded ==
  \A a \in Agent, i \in DOMAIN log :
    Cardinality(Replies(a, Parsed[i].id)) <= 1 + crashes

(* handleOnce: the state file never gets ahead of the room.  What it says  *)
(* was answered has its answer in the file, if only behind another         *)
(* object on a line that a crash left open.                                *)
HandledIsAnswered ==
  \A a \in Agent : handled[a] > 0 => Replies(a, handled[a]) # {}

Hidden == UNION {{<<i, k>> : k \in 2..Len(log[i])} : i \in DOMAIN log}

(* wtRoomAppendNewMessage: a process that dies before its newline costs    *)
(* the room at most one message, the next one.                             *)
LossBounded == Cardinality(Hidden) <= crashes

(* handleEvents and renderMessage: through reconnections a console never   *)
(* shows a message twice, and a page opened while the room fits the first  *)
(* load shows the messages in the order of the room, without a gap.        *)
TranscriptInOrder ==
  \A c \in Client :
    LET shown == stream[c].shown
    IN  /\ \A i, j \in DOMAIN shown : shown[i] = shown[j] => i = j
        /\ stream[c].older = 0 => /\ Len(shown) <= Len(log)
                                  /\ \A i \in DOMAIN shown : shown[i] = Parsed[i].id

(* handleOnce: a message for an agent is answered, or a newer one is, or   *)
(* it has left the window that the agent reads.                            *)
EveryMessageSettled ==
  \A a \in Agent, i \in 1..MaxPost :
    (i \in DOMAIN log /\ Parsed[i].from = "ceo" /\ Parsed[i].to \in {a, "all"})
      ~> (i \notin Recent(ContextCount) \/ handled[a] >= Parsed[i].id)

(* handleEvents: every message reaches every console.                      *)
TranscriptArrives ==
  \A c \in Client, i \in 1..MaxPost :
    (i \in DOMAIN log) ~>
      (i \in DOMAIN log /\ \E j \in DOMAIN stream[c].shown : stream[c].shown[j] = Parsed[i].id)
=============================================================================
