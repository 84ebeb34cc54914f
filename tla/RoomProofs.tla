----------------------------- MODULE RoomProofs -----------------------------
(***************************************************************************)
(* Proofs about the room, for any number of agents, posters, consoles,     *)
(* messages and crashes.                                                   *)
(***************************************************************************)
EXTENDS Room, TLAPS, FiniteSetTheorems

USE RoomAssumption

(* What the proofs need of the types; the consoles are left out.           *)
LogType ==
  /\ log \in Seq(Seq(Message) \ {<<>>})
  /\ proc \in [Process -> ProcState]
  /\ handled \in [Agent -> Nat]
  /\ open => log # <<>>

(* A process between its lock and its newline is alone there.              *)
Locked(p) == proc[p].pc \in {"scan", "write", "newline"}
LockInv == \A p \in Process : Locked(p) => lock = {p}

(* The id that a process is about to write is new.                         *)
FreshId == \A p \in Process : At(p, "write") =>
             \A i \in DOMAIN log : FromJsonLine(log[i]).id < proc[p].msg.id

Increase == \A i, j \in DOMAIN log : i < j => FromJsonLine(log[i]).id < FromJsonLine(log[j]).id

LogInv == LogType /\ LockInv /\ FreshId /\ Increase

LEMMA InitLog == Init => LogInv
  BY DEF Init, LogInv, LogType, LockInv, Locked, FreshId, Increase, At, NoMessage,
         Process, ProcState, Message, Target

(* A reader sees the first object of a line.                               *)
LEMMA LineHeads ==
  ASSUME LogType, NEW i \in DOMAIN log
  PROVE  /\ log[i] \in Seq(Message) /\ log[i] # <<>>
         /\ FromJsonLine(log[i]) \in Message
         /\ FromJsonLine(log[i]).id \in Nat
         /\ Parsed[i] = FromJsonLine(log[i])
<1>1. log[i] \in Seq(Message) /\ log[i] # <<>>
  BY DEF LogType
<1>2. FromJsonLine(log[i]) \in Message
  BY <1>1 DEF FromJsonLine
<1>3. QED  BY <1>1, <1>2 DEF Message, Parsed

(* The scan finds an id that no line exceeds: with increasing ids the      *)
(* last line has the highest one.                                          *)
LEMMA ScanIsMax ==
  ASSUME LogType, Increase
  PROVE  /\ LastMessageId \in Nat
         /\ \A i \in DOMAIN log : FromJsonLine(log[i]).id <= LastMessageId
<1>1. CASE log = <<>>
  BY <1>1 DEF LastMessageId
<1>2. CASE log # <<>>
  <2> DEFINE ids == {Parsed[i].id : i \in DOMAIN log}
             top == FromJsonLine(log[Len(log)]).id
  <2>1. \A i \in DOMAIN log : Parsed[i] = FromJsonLine(log[i]) /\ FromJsonLine(log[i]) \in Message
    BY LineHeads
  <2>2. Len(log) \in DOMAIN log /\ \A i \in DOMAIN log : i \in Nat /\ i <= Len(log)
    BY <1>2 DEF LogType
  <2>3. top \in ids /\ \A i \in DOMAIN log : Parsed[i].id <= top
    BY <2>1, <2>2 DEF Increase, Message
  <2>4. \E m \in ids : \A i \in DOMAIN log : Parsed[i].id <= m
    BY <2>3
  <2>5. LastMessageId \in ids /\ \A i \in DOMAIN log : Parsed[i].id <= LastMessageId
    BY <1>2, <2>4 DEF LastMessageId
  <2>6. ids \subseteq Nat
    BY <2>1 DEF Message
  <2>7. QED  BY <2>1, <2>5, <2>6
<1>3. QED  BY <1>1, <1>2

(* A step that changes no line keeps the invariant if the process gets    *)
(* what its new place asks for.                                            *)
LEMMA QuietStep ==
  ASSUME LogInv, NEW p \in Process, NEW pc, NEW m \in Message,
         pc \in {"idle", "append", "scan", "write", "newline", "truncate", "save"},
         Becomes(p, pc, m), log' = log, open' => open, handled' \in [Agent -> Nat],
         \/ pc \in {"scan", "write", "newline"} /\ lock \in {{}, {p}} /\ lock' = {p}
         \/ pc \notin {"scan", "write", "newline"} /\ lock' \in {lock, lock \ {p}},
         pc = "write" => \A i \in DOMAIN log : FromJsonLine(log[i]).id < m.id
  PROVE  LogInv'
<1> DEFINE r == [pc |-> pc, msg |-> m]
<1>1. r \in ProcState /\ proc' = [proc EXCEPT ![p] = r] /\ r.pc = pc /\ r.msg = m
  BY DEF ProcState, Becomes
<1>2. proc' \in [Process -> ProcState] /\ proc'[p] = r /\ \A q \in Process : q # p => proc'[q] = proc[q]
  BY <1>1 DEF LogInv, LogType
<1> HIDE DEF r
<1>3. LogType'
  BY <1>2 DEF LogInv, LogType
<1>4. LockInv'
  BY <1>1, <1>2 DEF LogInv, LockInv, Locked
<1>5. FreshId'
  BY <1>1, <1>2 DEF LogInv, FreshId, At
<1>6. Increase'
  BY DEF LogInv, Increase
<1>7. QED  BY <1>3, <1>4, <1>5, <1>6 DEF LogInv

(* Writing an object: on a line of its own, with an id above the others,   *)
(* or onto an open line, whose first object stays.                         *)
LEMMA WriteStep ==
  ASSUME LogInv, NEW p \in Process, WriteObject(p)
  PROVE  LogInv'
<1> DEFINE m == proc[p].msg
<1>1. m \in Message /\ Locked(p) /\ \A i \in DOMAIN log : FromJsonLine(log[i]).id < m.id
  BY DEF LogInv, LogType, ProcState, WriteObject, At, Locked, FreshId
<1> DEFINE r == [pc |-> "newline", msg |-> m]
<1>2. r \in ProcState /\ r.pc = "newline" /\ proc' = [proc EXCEPT ![p] = r]
  BY <1>1 DEF ProcState, WriteObject, Goes, Becomes
<1>3. /\ proc' \in [Process -> ProcState] /\ proc'[p] = r
      /\ \A q \in Process : q # p => proc'[q] = proc[q]
  BY <1>2 DEF LogInv, LogType
<1> HIDE DEF m, r
<1>4. LockInv'
  BY <1>1, <1>2, <1>3 DEF LogInv, LockInv, Locked, WriteObject
<1>5. \A q \in Process : ~At(q, "write")'
  BY <1>1, <1>2, <1>3 DEF LogInv, LockInv, Locked, At
<1>6. FreshId'
  BY <1>5 DEF FreshId
<1>7. log' \in Seq(Seq(Message) \ {<<>>}) /\ Increase'
  <2>1. CASE open
    <3>0. Len(log) \in DOMAIN log
      BY <2>1 DEF LogInv, LogType
    <3>1. log' = [log EXCEPT ![Len(log)] = Append(log[Len(log)], m)]
      BY <2>1 DEF WriteObject, m
    <3>2. log[Len(log)] \in Seq(Message) /\ log[Len(log)] # <<>>
      BY <3>0, LineHeads DEF LogInv
    <3>3. /\ Append(log[Len(log)], m) \in Seq(Message) \ {<<>>}
          /\ Append(log[Len(log)], m)[1] = log[Len(log)][1]
      BY <1>1, <3>2
    <3>4. /\ log' \in Seq(Seq(Message) \ {<<>>}) /\ DOMAIN log' = DOMAIN log
          /\ \A i \in DOMAIN log : log'[i][1] = log[i][1]
      BY <3>0, <3>1, <3>3 DEF LogInv, LogType
    <3>5. \A i \in DOMAIN log : FromJsonLine(log'[i]) = FromJsonLine(log[i])
      BY <3>4 DEF FromJsonLine
    <3>6. QED  BY <3>4, <3>5 DEF LogInv, Increase
  <2>3. CASE ~open
    <3>1. log' = Append(log, <<m>>)
      BY <2>3 DEF WriteObject, m
    <3>2. /\ log' \in Seq(Seq(Message) \ {<<>>})
          /\ DOMAIN log' = DOMAIN log \cup {Len(log) + 1}
          /\ \A i \in DOMAIN log : i \in Nat /\ i <= Len(log) /\ log'[i] = log[i]
          /\ log'[Len(log) + 1] = <<m>>
      BY <1>1, <3>1 DEF LogInv, LogType
    <3>3. QED
      BY <1>1, <3>2 DEF LogInv, LogType, Increase, FromJsonLine
  <2>4. QED  BY <2>1, <2>3
<1>8. log' # <<>>
  <2>1. CASE open
    BY <2>1 DEF WriteObject, LogInv, LogType
  <2>2. CASE ~open
    BY <1>1, <2>2 DEF WriteObject, LogInv, LogType, m
  <2>3. QED  BY <2>1, <2>2
<1>9. QED
  BY <1>3, <1>4, <1>6, <1>7, <1>8 DEF LogInv, LogType, WriteObject

LEMMA LogStep ==
  ASSUME LogInv, [Next]_vars
  PROVE  LogInv'
<1> USE DEF Process
<1>0. /\ NoMessage \in Message /\ Asks \subseteq Message
      /\ \A p \in Process : proc[p].msg \in Message
      /\ \A p \in Process : Locked(p) => lock = {p}
      /\ handled \in [Agent -> Nat]
  BY DEF LogInv, LogType, LockInv, ProcState, NoMessage, Asks, Message, Target
<1>1. ASSUME NEW p \in Process, LockFile(p)  PROVE LogInv'
  BY <1>0, <1>1, QuietStep DEF LockFile, Goes
<1>2. ASSUME NEW p \in Process, ScanIds(p)  PROVE LogInv'
  <2> DEFINE m == [proc[p].msg EXCEPT !.id = LastMessageId + 1]
  <2>1. /\ LastMessageId \in Nat
        /\ \A i \in DOMAIN log : FromJsonLine(log[i]).id <= LastMessageId /\ FromJsonLine(log[i]).id \in Nat
    BY ScanIsMax, LineHeads DEF LogInv
  <2>2. m \in Message /\ m.id = LastMessageId + 1
    BY <1>0, <2>1 DEF Message
  <2>3. lock = {p} /\ Becomes(p, "write", m)
    BY <1>0, <1>2 DEF ScanIds, At, Locked
  <2>4. \A i \in DOMAIN log : FromJsonLine(log[i]).id < m.id
    BY <2>1, <2>2
  <2> HIDE DEF m
  <2>5. QED  BY <1>0, <1>2, <2>2, <2>3, <2>4, QuietStep DEF ScanIds
<1>3. ASSUME NEW p \in Process, WriteObject(p)  PROVE LogInv'
  BY <1>3, WriteStep
<1>4. ASSUME NEW p \in Process, WriteNewline(p)  PROVE LogInv'
  <2>1. CASE p \in Agent
    BY <1>0, <1>4, <2>1, QuietStep DEF WriteNewline, Goes
  <2>2. CASE p \notin Agent
    BY <1>0, <1>4, <2>2, QuietStep DEF WriteNewline, Ends
  <2>3. QED  BY <2>1, <2>2
<1>5. ASSUME NEW p \in Process, PostMessage(p)  PROVE LogInv'
  BY <1>0, <1>5, QuietStep DEF PostMessage
<1>6. ASSUME NEW a \in Agent, PickMessage(a)  PROVE LogInv'
  <2>1. PICK i \in DOMAIN log :
          Becomes(a, "append", [id |-> 0, from |-> a, to |-> "ceo", replyTo |-> Parsed[i].id])
    BY <1>6 DEF PickMessage, Candidates, Recent
  <2>2. Parsed[i].id \in Nat
    BY LineHeads DEF LogInv
  <2>3. [id |-> 0, from |-> a, to |-> "ceo", replyTo |-> Parsed[i].id] \in Message
    BY <2>2 DEF Message, Target
  <2>4. QED  BY <1>0, <1>6, <2>1, <2>3, QuietStep DEF PickMessage
<1>7. ASSUME NEW a \in Agent, TruncateState(a)  PROVE LogInv'
  BY <1>0, <1>7, QuietStep DEF TruncateState, Goes
<1>8. ASSUME NEW a \in Agent, SaveState(a)  PROVE LogInv'
  <2>1. proc[a].msg.replyTo \in Nat
    BY <1>0 DEF Message
  <2>2. QED  BY <1>0, <1>8, <2>1, QuietStep DEF SaveState, Ends
<1>9. ASSUME NEW p \in Process, Crash(p)  PROVE LogInv'
  BY <1>0, <1>9, QuietStep DEF Crash, Ends
<1>10. CASE UNCHANGED <<log, open, lock, proc, handled>>
  BY <1>10 DEF LogInv, LogType, LockInv, Locked, FreshId, Increase, At, FromJsonLine
<1>11. QED
  BY <1>1, <1>2, <1>3, <1>4, <1>5, <1>6, <1>7, <1>8, <1>9, <1>10
     DEF Next, vars, AppendNewMessage, AgentStep, StreamStep, LoadRecent, Connect, Tick,
         RenderMessage, Disconnect

(* wtRoomAppendNewMessage: the ids that readers see increase from line to  *)
(* line, whoever appends and wherever appenders die.                       *)
THEOREM IdsAlwaysIncrease == Spec => []IdsIncrease
<1>1. LogInv => IdsIncrease
  BY DEF LogInv, LogType, Increase, IdsIncrease, Parsed
<1>2. QED
  BY <1>1, InitLog, LogStep, PTL DEF Spec

-----------------------------------------------------------------------------
(* The agents' state files.                                                *)

Written(a, id) ==
  \E i \in DOMAIN log : \E k \in DOMAIN log[i] : log[i][k].from = a /\ log[i][k].replyTo = id

(* A busy agent has its own reply in hand, which is in the file from the   *)
(* write of the object on; and so is the reply to what the state file says.*)
Answering(a) ==
  /\ ~At(a, "idle") => proc[a].msg.from = a
  /\ proc[a].pc \in {"newline", "truncate", "save"} => Written(a, proc[a].msg.replyTo)
  /\ handled[a] > 0 => Written(a, handled[a])

AnswerInv == LogInv /\ \A a \in Agent : Answering(a)

(* Nothing is ever removed from the file.                                  *)
LEMMA WrittenStays ==
  ASSUME LogInv, NEW p \in Process, WriteObject(p), NEW a, NEW id
  PROVE  /\ Written(a, id) => Written(a, id)'
         /\ a = proc[p].msg.from /\ id = proc[p].msg.replyTo => Written(a, id)'
<1> DEFINE m == proc[p].msg
<1>1. CASE open
  <2> DEFINE n == Len(log)
  <2>1. n \in DOMAIN log
    BY <1>1 DEF LogInv, LogType
  <2>2. log[n] \in Seq(Message)
    BY <2>1, LineHeads DEF LogInv
  <2>3. log' = [log EXCEPT ![n] = Append(log[n], m)]
    BY <1>1 DEF WriteObject
  <2>4. m \in Message
    BY DEF LogInv, LogType, ProcState
  <2> HIDE DEF m
  <2>5. /\ DOMAIN log' = DOMAIN log
        /\ log'[n] = Append(log[n], m)
        /\ \A i \in DOMAIN log : i # n => log'[i] = log[i]
    BY <2>1, <2>3 DEF LogInv, LogType
  <2>6. /\ \A k \in DOMAIN log[n] : k \in DOMAIN log'[n] /\ log'[n][k] = log[n][k]
        /\ Len(log[n]) + 1 \in DOMAIN log'[n] /\ log'[n][Len(log[n]) + 1] = m
    BY <2>2, <2>4, <2>5
  <2>7. ASSUME Written(a, id)  PROVE Written(a, id)'
    <3>1. PICK i \in DOMAIN log : \E k \in DOMAIN log[i] : log[i][k].from = a /\ log[i][k].replyTo = id
      BY <2>7 DEF Written
    <3>2. PICK k \in DOMAIN log[i] : log[i][k].from = a /\ log[i][k].replyTo = id
      BY <3>1
    <3>3. k \in DOMAIN log'[i] /\ log'[i][k] = log[i][k]
      BY <2>5, <2>6
    <3>4. QED  BY <2>5, <3>2, <3>3 DEF Written
  <2>8. a = m.from /\ id = m.replyTo => Written(a, id)'
    BY <2>1, <2>5, <2>6 DEF Written
  <2>9. QED  BY <2>7, <2>8 DEF m
<1>2. CASE ~open
  <2>1. log' = Append(log, <<m>>)
    BY <1>2 DEF WriteObject
  <2> HIDE DEF m
  <2>2. /\ \A i \in DOMAIN log : i \in DOMAIN log' /\ log'[i] = log[i]
        /\ Len(log) + 1 \in DOMAIN log' /\ log'[Len(log) + 1] = <<m>>
    BY <2>1 DEF LogInv, LogType
  <2>3. 1 \in DOMAIN <<m>> /\ <<m>>[1] = m
    OBVIOUS
  <2>4. Written(a, id) => Written(a, id)'
    BY <2>2 DEF Written
  <2>5. a = m.from /\ id = m.replyTo => Written(a, id)'
    BY <2>2, <2>3 DEF Written
  <2>6. QED  BY <2>4, <2>5 DEF m
<1>3. QED  BY <1>1, <1>2

LEMMA AnswerStep ==
  ASSUME AnswerInv, [Next]_vars
  PROVE  AnswerInv'
<1> USE DEF Process
<1>0. LogInv /\ LogInv'
  BY LogStep DEF AnswerInv
<1> SUFFICES ASSUME NEW a \in Agent PROVE Answering(a)'
  BY <1>0 DEF AnswerInv
<1>1. Answering(a) /\ proc \in [Process -> ProcState] /\ handled \in [Agent -> Nat]
  BY DEF AnswerInv, LogInv, LogType
<1>2. ASSUME log' = log  PROVE \A id : Written(a, id)' <=> Written(a, id)
  BY <1>2 DEF Written
<1>3. ASSUME NEW p \in Process, NEW pc, NEW m, Becomes(p, pc, m), p # a
      PROVE  proc'[a] = proc[a]
  BY <1>1, <1>3 DEF Becomes
<1>4. ASSUME NEW pc, NEW m, Becomes(a, pc, m)
      PROVE  proc'[a].pc = pc /\ proc'[a].msg = m
  BY <1>1, <1>4 DEF Becomes
<1>5. ASSUME NEW p \in Process, LockFile(p) \/ ScanIds(p) \/ WriteNewline(p) \/ Crash(p)
      PROVE  Answering(a)'
  <2>1. log' = log /\ handled' = handled
    BY <1>5 DEF LockFile, ScanIds, WriteNewline, Crash
  <2>2. CASE p # a
    <3>1. proc'[a] = proc[a]
      BY <1>3, <1>5, <2>2 DEF LockFile, ScanIds, WriteNewline, Crash, Goes, Ends
    <3>2. QED  BY <1>1, <1>2, <2>1, <3>1 DEF Answering, At
  <2>3. CASE LockFile(a)
    <3>1. proc'[a].pc = "scan" /\ proc'[a].msg = proc[a].msg
      BY <1>4, <2>3 DEF LockFile, Goes
    <3>2. QED  BY <1>1, <1>2, <2>1, <2>3, <3>1 DEF LockFile, Answering, At
  <2>4. CASE ScanIds(a)
    <3>1. proc'[a].pc = "write" /\ proc'[a].msg = [proc[a].msg EXCEPT !.id = LastMessageId + 1]
      BY <1>4, <2>4 DEF ScanIds
    <3>2. proc'[a].msg.from = proc[a].msg.from
      BY <1>1, <3>1 DEF ProcState, Message
    <3>3. QED  BY <1>1, <1>2, <2>1, <2>4, <3>1, <3>2 DEF ScanIds, Answering, At
  <2>5. CASE WriteNewline(a)
    <3>1. proc'[a].pc = "truncate" /\ proc'[a].msg = proc[a].msg
      BY <1>4, <2>5 DEF WriteNewline, Goes
    <3>2. QED  BY <1>1, <1>2, <2>1, <2>5, <3>1 DEF WriteNewline, Answering, At
  <2>6. CASE Crash(a)
    <3>1. proc'[a].pc = "idle"
      BY <1>4, <2>6 DEF Crash, Ends
    <3>2. QED  BY <1>1, <1>2, <2>1, <3>1 DEF Answering, At
  <2>7. QED  BY <1>5, <2>2, <2>3, <2>4, <2>5, <2>6
<1>6. ASSUME NEW p \in Process, WriteObject(p)  PROVE Answering(a)'
  <2>1. /\ \A id : Written(a, id) => Written(a, id)'
        /\ \A id : a = proc[p].msg.from /\ id = proc[p].msg.replyTo => Written(a, id)'
        /\ handled' = handled
    BY <1>0, <1>6, WrittenStays DEF WriteObject
  <2>2. CASE p # a
    <3>1. proc'[a] = proc[a]
      BY <1>3, <1>6, <2>2 DEF WriteObject, Goes
    <3>2. QED  BY <1>1, <2>1, <3>1 DEF Answering, At
  <2>3. CASE p = a
    <3>1. proc'[a].pc = "newline" /\ proc'[a].msg = proc[a].msg /\ proc[a].pc = "write"
      BY <1>4, <1>6, <2>3 DEF WriteObject, Goes, At
    <3>2. proc[a].msg.from = a
      BY <1>1, <3>1 DEF Answering, At
    <3>3. QED  BY <1>1, <2>1, <2>3, <3>1, <3>2 DEF Answering, At
  <2>4. QED  BY <2>2, <2>3
<1>7. ASSUME NEW p \in Poster, PostMessage(p)  PROVE Answering(a)'
  <2>1. log' = log /\ handled' = handled /\ proc'[a] = proc[a]
    BY <1>3, <1>7 DEF PostMessage
  <2>2. QED  BY <1>1, <1>2, <2>1 DEF Answering, At
<1>8. ASSUME NEW b \in Agent, PickMessage(b)  PROVE Answering(a)'
  <2>1. log' = log /\ handled' = handled
    BY <1>8 DEF PickMessage
  <2>2. CASE b # a
    <3>1. proc'[a] = proc[a]
      BY <1>3, <1>8, <2>2 DEF PickMessage
    <3>2. QED  BY <1>1, <1>2, <2>1, <3>1 DEF Answering, At
  <2>3. CASE b = a
    <3>1. proc'[a].pc = "append" /\ proc'[a].msg.from = a
      BY <1>4, <1>8, <2>3 DEF PickMessage
    <3>2. QED  BY <1>1, <1>2, <2>1, <3>1 DEF Answering, At
  <2>4. QED  BY <2>2, <2>3
<1>9. ASSUME NEW b \in Agent, TruncateState(b) \/ SaveState(b)  PROVE Answering(a)'
  <2>1. log' = log
    BY <1>9 DEF TruncateState, SaveState
  <2>2. CASE b # a
    <3>1. proc'[a] = proc[a] /\ handled'[a] = handled[a]
      BY <1>1, <1>3, <1>9, <2>2 DEF TruncateState, SaveState, Goes, Ends
    <3>2. QED  BY <1>1, <1>2, <2>1, <3>1 DEF Answering, At
  <2>3. CASE TruncateState(a)
    <3>1. /\ proc[a].pc = "truncate" /\ proc'[a].pc = "save"
          /\ proc'[a].msg = proc[a].msg /\ handled'[a] = 0
      BY <1>1, <1>4, <2>3 DEF TruncateState, Goes, At
    <3>2. QED  BY <1>1, <1>2, <2>1, <3>1 DEF Answering, At
  <2>4. CASE SaveState(a)
    <3>1. proc[a].pc = "save" /\ proc'[a].pc = "idle" /\ handled'[a] = proc[a].msg.replyTo
      BY <1>1, <1>4, <2>4 DEF SaveState, Ends, At
    <3>2. QED  BY <1>1, <1>2, <2>1, <3>1 DEF Answering, At
  <2>5. QED  BY <1>9, <2>2, <2>3, <2>4
<1>10. CASE UNCHANGED <<log, open, lock, proc, handled>>
  BY <1>1, <1>2, <1>10 DEF Answering, At
<1>11. QED
  BY <1>5, <1>6, <1>7, <1>8, <1>9, <1>10
     DEF Next, vars, AppendNewMessage, AgentStep, StreamStep, LoadRecent, Connect, Tick,
         RenderMessage, Disconnect

(* handleOnce: what an agent's state file says was answered has its answer *)
(* in the room.                                                            *)
THEOREM HandledAlwaysAnswered == Spec => []HandledIsAnswered
<1>1. Init => AnswerInv
  BY InitLog DEF Init, AnswerInv, Answering, At, Process
<1>2. AnswerInv => HandledIsAnswered
  BY DEF AnswerInv, Answering, Written, HandledIsAnswered, Replies
<1>3. QED
  BY <1>1, <1>2, AnswerStep, PTL DEF Spec

-----------------------------------------------------------------------------
(* The types of the consoles, and all types together.                      *)

StreamState ==
  [loaded : BOOLEAN, older : Nat, up : BOOLEAN, lastSentId : Nat, wire : Seq(Nat), shown : Seq(Nat)]

ConsoleType ==
  /\ open \in BOOLEAN /\ lock \in SUBSET Process
  /\ stream \in [Client -> StreamState]
  /\ crashes \in Nat /\ drops \in Nat

RoomTypeInv == LogInv /\ ConsoleType

(* A window, and what comes after an id, are parts of the log.             *)
LEMMA WindowSize ==
  ASSUME LogType, NEW S, S \subseteq DOMAIN log
  PROVE  IsFiniteSet(S) /\ Cardinality(S) \in Nat /\ Cardinality(S) <= Len(log)
<1>1. Len(log) \in Nat /\ DOMAIN log = 1..Len(log)
  BY DEF LogType
<1>2. IsFiniteSet(1..Len(log)) /\ Cardinality(1..Len(log)) = Len(log)
  BY <1>1, FS_Interval
<1>3. IsFiniteSet(S) /\ Cardinality(S) <= Cardinality(1..Len(log))
  BY <1>1, <1>2, FS_Subset
<1>4. Cardinality(S) \in Nat
  BY <1>3, FS_CardinalityType
<1>5. QED
  BY <1>2, <1>3, <1>4

LEMMA IntervalSize ==
  ASSUME NEW a \in Int, NEW b \in Int, a <= b + 1
  PROVE  Cardinality(a..b) = b - a + 1
<1>1. Cardinality(a..b) = IF a > b THEN 0 ELSE b - a + 1
  BY FS_Interval
<1>2. CASE a > b
  <2>1. b - a + 1 = 0
    BY <1>2
  <2>2. QED
    BY <1>1, <1>2, <2>1
<1>3. CASE ~(a > b)
  BY <1>1, <1>3
<1>4. QED
  BY <1>2, <1>3

(* In a log with increasing ids, what comes after an id is the rest of the *)
(* log, and its k-th message is the k-th of the rest.                      *)
LEMMA AfterIsRest ==
  ASSUME LogType, Increase, NEW id \in Nat, NEW n \in 0..Len(log),
         \A i \in DOMAIN log : i <= n => Parsed[i].id <= id,
         n < Len(log) => Parsed[n + 1].id > id
  PROVE  /\ After(id) = (n + 1)..Len(log)
         /\ Count(id) = Len(log) - n
         /\ \A k \in 1..(Len(log) - n) : Nth(k, After(id)) = n + k
<1>1. /\ Len(log) \in Nat /\ DOMAIN log = 1..Len(log)
      /\ \A i \in DOMAIN log : Parsed[i].id \in Nat /\ Parsed[i] = FromJsonLine(log[i])
  BY LineHeads DEF LogType
<1>2. \A i \in DOMAIN log : i > n => Parsed[i].id > id
  <2> SUFFICES ASSUME NEW i \in DOMAIN log, i > n PROVE Parsed[i].id > id
    OBVIOUS
  <2>1. n + 1 \in DOMAIN log /\ Parsed[n + 1].id > id
    BY <1>1
  <2>2. CASE i = n + 1
    BY <2>1, <2>2
  <2>3. CASE i # n + 1
    <3>1. n + 1 < i
      BY <1>1, <2>3
    <3>2. Parsed[n + 1].id < Parsed[i].id
      BY <1>1, <2>1, <3>1 DEF Increase
    <3>3. QED
      BY <1>1, <2>1, <3>2
  <2>4. QED
    BY <2>2, <2>3
<1>3. After(id) = (n + 1)..Len(log)
  BY <1>1, <1>2 DEF After
<1>4. Cardinality((n + 1)..Len(log)) = Len(log) - n
  <2>1. n + 1 \in Int /\ Len(log) \in Int /\ n + 1 <= Len(log) + 1
    BY <1>1
  <2>2. Cardinality((n + 1)..Len(log)) = Len(log) - (n + 1) + 1
    BY <2>1, IntervalSize
  <2>3. Len(log) - (n + 1) + 1 = Len(log) - n
    BY <1>1
  <2>4. QED
    BY <2>2, <2>3
<1>5. \A k \in 1..(Len(log) - n) : Nth(k, After(id)) = n + k
  <2> SUFFICES ASSUME NEW k \in 1..(Len(log) - n) PROVE Nth(k, After(id)) = n + k
    OBVIOUS
  <2> DEFINE S == (n + 1)..Len(log)
             Rank(i) == Cardinality({j \in S : j <= i})
  <2>1. ASSUME NEW i \in S PROVE Rank(i) = i - n
    <3>1. {j \in S : j <= i} = (n + 1)..i
      BY <1>1
    <3>2. n + 1 \in Int /\ i \in Int /\ n + 1 <= i + 1
      BY <1>1
    <3>3. Cardinality((n + 1)..i) = i - (n + 1) + 1
      BY <3>2, IntervalSize
    <3>4. i - (n + 1) + 1 = i - n
      BY <1>1
    <3>5. QED
      BY <3>1, <3>3, <3>4
  <2>2. n + k \in S /\ Rank(n + k) = k
    <3>1. n + k \in S
      BY <1>1
    <3>2. Rank(n + k) = (n + k) - n
      BY <2>1, <3>1
    <3>3. QED
      BY <1>1, <3>1, <3>2
  <2>3. \A i \in S : Rank(i) = k => i = n + k
    <3> SUFFICES ASSUME NEW i \in S, Rank(i) = k PROVE i = n + k
      OBVIOUS
    <3>1. i - n = k
      BY <2>1
    <3>2. QED
      BY <1>1, <3>1
  <2>4. Nth(k, S) = CHOOSE i \in S : Rank(i) = k
    BY DEF Nth
  <2> HIDE DEF Rank, S
  <2>5. QED
    BY <1>3, <2>2, <2>3, <2>4 DEF S
<1>6. QED
  BY <1>3, <1>4, <1>5 DEF Count

-----------------------------------------------------------------------------
(* The consoles.                                                           *)

IdAt(n) == IF n = 0 THEN 0 ELSE FromJsonLine(log[n]).id

(* Ids count from one.                                                     *)
Positive ==
  /\ \A i \in DOMAIN log : FromJsonLine(log[i]).id > 0
  /\ \A p \in Process : At(p, "write") => proc[p].msg.id > 0

(* A stream has sent the first n messages, and the last of them are under  *)
(* way; with what is shown they leave no gap.                              *)
SentUpTo(s, n) ==
  /\ s.lastSentId = IdAt(n) /\ Len(s.wire) <= n
  /\ \A i \in 1..Len(s.wire) : s.wire[i] = IdAt(n - Len(s.wire) + i)
  /\ s.up /\ s.older = 0 => n - Len(s.wire) <= Len(s.shown)

InOrder(s) ==
  /\ \A i, j \in DOMAIN s.shown : s.shown[i] = s.shown[j] => i = j
  /\ s.older = 0 => /\ Len(s.shown) <= Len(log)
                    /\ \A i \in DOMAIN s.shown : s.shown[i] = IdAt(i)

StreamOK(s) ==
  /\ s \in StreamState
  /\ s.up => s.loaded
  /\ ~s.up => s.wire = <<>>
  /\ InOrder(s)
  /\ \E n \in 0..Len(log) : SentUpTo(s, n)

ConsoleInv ==
  /\ LogInv /\ Positive
  /\ open \in BOOLEAN /\ lock \in SUBSET Process
  /\ stream \in [Client -> StreamState]
  /\ \A c \in Client : StreamOK(stream[c])
  /\ crashes \in Nat /\ drops \in Nat

LEMMA ConsoleInit == Init => ConsoleInv
<1> SUFFICES ASSUME Init PROVE ConsoleInv
  OBVIOUS
<1> DEFINE s == [loaded |-> FALSE, older |-> 0, up |-> FALSE, lastSentId |-> 0,
                 wire |-> <<>>, shown |-> <<>>]
<1>1. LogInv
  BY InitLog
<1>2. Positive /\ log = <<>>
  BY DEF Init, Positive, At, Process
<1>3. s \in StreamState
  BY DEF StreamState
<1>4. StreamOK(s)
  <2>1. SentUpTo(s, 0)
    BY DEF SentUpTo, IdAt
  <2>2. InOrder(s)
    BY <1>2 DEF InOrder
  <2>3. QED
    BY <1>2, <1>3, <2>1, <2>2 DEF StreamOK
<1>5. stream = [c \in Client |-> s]
  BY DEF Init
<1> HIDE DEF s
<1>6. QED
  BY <1>1, <1>2, <1>3, <1>4, <1>5 DEF Init, ConsoleInv

(* The consoles' facts are about a log that grows and keeps the ids of its *)
(* lines.                                                                  *)
LEMMA StreamKept ==
  ASSUME LogType, LogType', Len(log) <= Len(log'),
         \A i \in DOMAIN log : FromJsonLine(log'[i]).id = FromJsonLine(log[i]).id,
         NEW s, StreamOK(s)
  PROVE  StreamOK(s)'
<1>1. Len(log) \in Nat /\ Len(log') \in Nat /\ DOMAIN log = 1..Len(log)
  BY DEF LogType
<1>2. \A n \in 0..Len(log) : n \in 0..Len(log') /\ IdAt(n)' = IdAt(n)
  BY <1>1 DEF IdAt
<1>3. s \in StreamState /\ Len(s.wire) \in Nat /\ s.shown \in Seq(Nat)
  BY DEF StreamOK, StreamState
<1>4. PICK n \in 0..Len(log) : SentUpTo(s, n)
  BY DEF StreamOK
<1>5. SentUpTo(s, n)'
  <2>1. \A i \in 1..Len(s.wire) : n - Len(s.wire) + i \in 0..Len(log)
    BY <1>1, <1>3, <1>4 DEF SentUpTo
  <2>2. QED
    BY <1>2, <1>4, <2>1 DEF SentUpTo
<1>6. InOrder(s)'
  <2>1. s.older = 0 => \A i \in DOMAIN s.shown : i \in 0..Len(log)
    BY <1>1, <1>3 DEF StreamOK, InOrder
  <2>2. s.older = 0 => Len(s.shown) <= Len(log')
    BY <1>1, <1>3 DEF StreamOK, InOrder
  <2>3. QED
    BY <1>2, <2>1, <2>2 DEF StreamOK, InOrder
<1>7. QED
  BY <1>2, <1>3, <1>5, <1>6 DEF StreamOK

(* Two messages with the same id are one.                                  *)
LEMMA IdsDiffer ==
  ASSUME LogType, Increase, Positive, NEW i \in 0..Len(log), NEW j \in 0..Len(log), IdAt(i) = IdAt(j)
  PROVE  i = j
<1>1. DOMAIN log = 1..Len(log) /\ Len(log) \in Nat /\ \A k \in DOMAIN log : FromJsonLine(log[k]).id \in Nat
  BY LineHeads DEF LogType
<1>2. QED
  BY <1>1 DEF IdAt, Increase, Positive

(* sendMessagesJson.                                                       *)
LEMMA LoadKeeps ==
  ASSUME ConsoleInv, NEW c \in Client, LoadRecent(c)
  PROVE  /\ log' = log /\ stream' = [stream EXCEPT ![c] = stream'[c]]
         /\ StreamOK(stream'[c])
<1> DEFINE s == stream[c]
           n == Cardinality(Recent(RecentCount))
           first == Len(log) - n
<1>1. /\ LogType /\ Len(log) \in Nat /\ DOMAIN log = 1..Len(log)
      /\ \A i \in DOMAIN log : Parsed[i] = FromJsonLine(log[i]) /\ Parsed[i].id \in Nat
  BY LineHeads DEF ConsoleInv, LogInv, LogType
<1>2. n \in Nat /\ n <= Len(log)
  <2>1. Recent(RecentCount) \subseteq DOMAIN log
    BY DEF Recent
  <2>2. QED
    BY <1>1, <2>1, WindowSize
<1> HIDE DEF n
<1>3. first \in Nat /\ first + n = Len(log)
  BY <1>1, <1>2
<1>4. PICK k \in (IF n = 0 THEN {0} ELSE 1..n) :
        stream' = [stream EXCEPT ![c].loaded = TRUE, ![c].older = first,
                                 ![c].shown = [i \in 1..k |-> Parsed[first + i].id]]
  BY DEF LoadRecent, n
<1> DEFINE shown == [i \in 1..k |-> Parsed[first + i].id]
           r == [s EXCEPT !.loaded = TRUE, !.older = first, !.shown = shown]
<1>5. s \in StreamState /\ StreamOK(s) /\ stream \in [Client -> StreamState]
  BY DEF ConsoleInv
<1>6. k \in Nat /\ k <= n
  BY <1>2, <1>4
<1>7. shown \in Seq(Nat) /\ Len(shown) = k /\ DOMAIN shown = 1..k
  <2>1. \A i \in 1..k : first + i \in DOMAIN log
    BY <1>1, <1>2, <1>3, <1>6
  <2>2. shown \in [1..k -> Nat]
    BY <1>1, <2>1
  <2>3. QED
    BY <1>6, <2>2
<1>8. \A i \in 1..k : first + i \in 0..Len(log) /\ shown[i] = IdAt(first + i)
  <2> SUFFICES ASSUME NEW i \in 1..k PROVE first + i \in 0..Len(log) /\ shown[i] = IdAt(first + i)
    OBVIOUS
  <2>1. first + i \in DOMAIN log /\ first + i # 0
    BY <1>1, <1>2, <1>3, <1>6
  <2>2. QED
    BY <1>1, <2>1 DEF IdAt
<1> HIDE DEF first, shown
<1>9. /\ stream'[c] = r /\ stream' = [stream EXCEPT ![c] = stream'[c]] /\ r \in StreamState
      /\ r.older = first /\ r.shown = shown /\ r.up = s.up /\ r.wire = s.wire
      /\ r.lastSentId = s.lastSentId
  BY <1>3, <1>4, <1>5, <1>7 DEF StreamState, first, shown
<1>10. ~s.up
  BY <1>5 DEF LoadRecent, StreamOK
<1>11. InOrder(r)
  <2>1. ASSUME NEW i \in 1..k, NEW j \in 1..k, shown[i] = shown[j] PROVE i = j
    <3>1. first + i = first + j
      BY <1>8, <2>1, IdsDiffer DEF ConsoleInv, LogInv
    <3>2. QED
      BY <1>3, <3>1
  <2>2. first = 0 => Len(shown) <= Len(log) /\ \A i \in 1..k : shown[i] = IdAt(i)
    BY <1>1, <1>2, <1>6, <1>7, <1>8
  <2>3. QED
    BY <1>7, <1>9, <2>1, <2>2 DEF InOrder
<1>12. \E m \in 0..Len(log) : SentUpTo(r, m)
  BY <1>5, <1>9, <1>10 DEF StreamOK, SentUpTo
<1>13. StreamOK(r)
  BY <1>5, <1>9, <1>10, <1>11, <1>12 DEF StreamOK
<1>14. log' = log
  BY DEF LoadRecent
<1>15. QED
  BY <1>9, <1>13, <1>14

(* connectEvents: the stream starts from the first message.                *)
LEMMA ConnectKeeps ==
  ASSUME ConsoleInv, NEW c \in Client, Connect(c)
  PROVE  /\ log' = log /\ stream' = [stream EXCEPT ![c] = stream'[c]]
         /\ StreamOK(stream'[c])
<1> DEFINE s == stream[c]
           r == [s EXCEPT !.up = TRUE, !.lastSentId = 0]
<1>1. s \in StreamState /\ StreamOK(s) /\ s.loaded /\ ~s.up /\ Len(log) \in Nat
  BY DEF ConsoleInv, Connect, LogInv, LogType
<1>2. /\ r \in StreamState /\ r.loaded /\ r.up /\ r.lastSentId = 0
      /\ r.older = s.older /\ r.wire = s.wire /\ r.shown = s.shown
  BY <1>1 DEF StreamState
<1>3. stream'[c] = r /\ stream' = [stream EXCEPT ![c] = stream'[c]] /\ log' = log
  BY DEF Connect, ConsoleInv
<1> HIDE DEF r
<1>4. r.wire = <<>> /\ Len(r.shown) \in Nat
  BY <1>1, <1>2 DEF StreamOK, StreamState
<1>5. SentUpTo(r, 0)
  BY <1>2, <1>4 DEF SentUpTo, IdAt
<1>6. InOrder(r)
  BY <1>1, <1>2 DEF StreamOK, InOrder
<1>7. QED
  BY <1>1, <1>2, <1>3, <1>4, <1>5, <1>6 DEF StreamOK

LEMMA Joined ==
  ASSUME NEW s \in Seq(Nat), NEW t \in Seq(Nat)
  PROVE  /\ s \o t \in Seq(Nat) /\ Len(s \o t) = Len(s) + Len(t)
         /\ \A i \in 1..Len(s) : (s \o t)[i] = s[i]
         /\ \A i \in 1..Len(t) : (s \o t)[Len(s) + i] = t[i]
  OBVIOUS

(* handleEvents: the messages after the last one sent, without a gap.      *)
LEMMA TickKeeps ==
  ASSUME ConsoleInv, NEW c \in Client, Tick(c)
  PROVE  /\ log' = log /\ stream' = [stream EXCEPT ![c] = stream'[c]]
         /\ StreamOK(stream'[c])
<1> DEFINE s == stream[c]
           batch == ReadMessagesAfter(s.lastSentId)
           w == [i \in DOMAIN batch |-> batch[i].id]
           r == [s EXCEPT !.wire = @ \o w, !.lastSentId = batch[Len(batch)].id]
<1>1. /\ s \in StreamState /\ StreamOK(s) /\ s.up /\ batch # <<>>
      /\ log' = log /\ stream' = [stream EXCEPT ![c] = stream'[c]] /\ stream'[c] = r
  BY DEF ConsoleInv, Tick
<1>2. /\ LogType /\ Increase /\ Len(log) \in Nat /\ DOMAIN log = 1..Len(log)
      /\ \A i \in DOMAIN log : Parsed[i] = FromJsonLine(log[i]) /\ Parsed[i].id \in Nat
  BY LineHeads DEF ConsoleInv, LogInv, LogType
<1>3. PICK n \in 0..Len(log) : SentUpTo(s, n)
  BY <1>1 DEF StreamOK
<1>4. /\ s.lastSentId \in Nat
      /\ \A i \in DOMAIN log : i <= n => Parsed[i].id <= s.lastSentId
      /\ n < Len(log) => Parsed[n + 1].id > s.lastSentId
  <2>1. s.lastSentId = IdAt(n) /\ s.lastSentId \in Nat
    BY <1>1, <1>3 DEF SentUpTo, StreamState
  <2>2. CASE n = 0
    <3>1. \A i \in DOMAIN log : Parsed[i].id > 0
      BY <1>2 DEF ConsoleInv, Positive
    <3>2. QED
      BY <1>2, <2>1, <2>2, <3>1 DEF IdAt
  <2>3. CASE n # 0
    <3>1. n \in DOMAIN log /\ s.lastSentId = Parsed[n].id
      BY <1>2, <2>1, <2>3 DEF IdAt
    <3>2. \A i, j \in DOMAIN log : i < j => Parsed[i].id < Parsed[j].id
      BY <1>2 DEF Increase
    <3>3. \A i \in DOMAIN log : i <= n => Parsed[i].id <= s.lastSentId
      BY <1>2, <3>1, <3>2
    <3>4. n < Len(log) => n + 1 \in DOMAIN log
      BY <1>2
    <3>5. QED
      BY <1>2, <2>1, <3>1, <3>2, <3>3, <3>4
  <2>4. QED
    BY <2>2, <2>3
<1> DEFINE m == IF Count(s.lastSentId) < Batch THEN Count(s.lastSentId) ELSE Batch
<1>5. /\ Count(s.lastSentId) = Len(log) - n
      /\ \A k \in 1..(Len(log) - n) : Nth(k, After(s.lastSentId)) = n + k
  BY <1>2, <1>4, AfterIsRest
<1>6. m \in Nat /\ m <= Len(log) - n
  BY <1>2, <1>5
<1>7. batch = [k \in 1..m |-> Parsed[Nth(k, After(s.lastSentId))]]
  BY DEF ReadMessagesAfter
<1> HIDE DEF m, batch
<1>8. \A k \in 1..m : n + k \in DOMAIN log /\ n + k \in 0..Len(log) /\ batch[k].id = IdAt(n + k)
  <2> SUFFICES ASSUME NEW k \in 1..m
               PROVE  n + k \in DOMAIN log /\ n + k \in 0..Len(log) /\ batch[k].id = IdAt(n + k)
    OBVIOUS
  <2>1. k \in 1..(Len(log) - n) /\ n + k \in DOMAIN log /\ n + k # 0 /\ n + k \in 0..Len(log)
    BY <1>2, <1>6
  <2>2. batch[k] = Parsed[n + k]
    BY <1>5, <1>7, <2>1
  <2>3. QED
    BY <1>2, <2>1, <2>2 DEF IdAt
<1>9. m > 0 /\ DOMAIN batch = 1..m /\ Len(batch) = m
  <2>1. DOMAIN batch = 1..m /\ Len(batch) = m
    BY <1>6, <1>7
  <2>2. m # 0
    BY <1>1, <1>7
  <2>3. QED
    BY <1>6, <2>1, <2>2
<1>10. w \in Seq(Nat) /\ Len(w) = m /\ \A i \in 1..m : w[i] = IdAt(n + i)
  <2>1. \A i \in 1..m : batch[i].id \in Nat
    BY <1>2, <1>8 DEF IdAt
  <2>2. w \in [1..m -> Nat]
    BY <1>9, <2>1
  <2>3. \A i \in 1..m : w[i] = IdAt(n + i)
    BY <1>8, <1>9
  <2>4. QED
    BY <1>6, <2>2, <2>3
<1> HIDE DEF w
<1>11. batch[Len(batch)].id = IdAt(n + m) /\ IdAt(n + m) \in Nat
  <2>1. m \in 1..m
    BY <1>6, <1>9
  <2>2. QED
    BY <1>2, <1>8, <1>9, <2>1 DEF IdAt
<1>12. /\ s.wire \o w \in Seq(Nat) /\ Len(s.wire \o w) = Len(s.wire) + m
       /\ \A i \in 1..Len(s.wire) : (s.wire \o w)[i] = s.wire[i]
       /\ \A i \in 1..m : (s.wire \o w)[Len(s.wire) + i] = w[i]
  <2>1. s.wire \in Seq(Nat)
    BY <1>1 DEF StreamState
  <2>2. QED
    BY <1>10, <2>1, Joined
<1>13. /\ r \in StreamState /\ r.wire = s.wire \o w /\ r.lastSentId = IdAt(n + m)
       /\ r.up /\ r.loaded /\ r.older = s.older /\ r.shown = s.shown
  BY <1>1, <1>11, <1>12 DEF StreamState, StreamOK
<1> HIDE DEF r
<1>14. SentUpTo(r, n + m)
  <2>1. Len(s.wire) \in Nat /\ Len(s.wire) <= n /\ n \in Nat
    BY <1>1, <1>2, <1>3 DEF StreamState, SentUpTo
  <2>2. Len(r.wire) = Len(s.wire) + m /\ (n + m) - Len(r.wire) = n - Len(s.wire)
    <3>1. Len(r.wire) = Len(s.wire) + m
      BY <1>12, <1>13
    <3>2. (n + m) - (Len(s.wire) + m) = n - Len(s.wire)
      BY <1>6, <2>1
    <3>3. QED
      BY <3>1, <3>2
  <2>3. \A i \in 1..Len(r.wire) : r.wire[i] = IdAt((n + m) - Len(r.wire) + i)
    <3> SUFFICES ASSUME NEW i \in 1..Len(r.wire) PROVE r.wire[i] = IdAt(n - Len(s.wire) + i)
      BY <2>2
    <3>1. CASE i <= Len(s.wire)
      <4>1. i \in 1..Len(s.wire)
        BY <2>1, <3>1
      <4>2. QED
        BY <1>3, <1>12, <1>13, <4>1 DEF SentUpTo
    <3>2. CASE i > Len(s.wire)
      <4> DEFINE j == i - Len(s.wire)
      <4>1. j \in 1..m /\ i = Len(s.wire) + j /\ n - Len(s.wire) + i = n + j
        BY <1>6, <2>1, <2>2, <3>2
      <4> HIDE DEF j
      <4>2. QED
        BY <1>10, <1>12, <1>13, <4>1
    <3>3. i \in Nat
      <4>1. i \in 1..(Len(s.wire) + m)
        BY <2>2
      <4>2. QED
        BY <1>6, <2>1, <4>1
    <3>4. i <= Len(s.wire) \/ i > Len(s.wire)
      BY <2>1, <3>3
    <3>5. QED
      BY <3>1, <3>2, <3>4
  <2>4. r.older = 0 => n - Len(s.wire) <= Len(r.shown)
    BY <1>1, <1>3, <1>13 DEF SentUpTo
  <2>5. Len(r.wire) <= n + m
    BY <1>6, <2>1, <2>2
  <2>6. r.up /\ r.older = 0 => (n + m) - Len(r.wire) <= Len(r.shown)
    BY <1>6, <2>1, <2>2, <2>4
  <2>7. \A i \in 1..Len(r.wire) : r.wire[i] = IdAt((n + m) - Len(r.wire) + i)
    BY <2>3
  <2>8. r.lastSentId = IdAt(n + m)
    BY <1>13
  <2> DEFINE k == n + m
  <2>9. /\ r.lastSentId = IdAt(k) /\ Len(r.wire) <= k
        /\ \A i \in 1..Len(r.wire) : r.wire[i] = IdAt(k - Len(r.wire) + i)
        /\ r.up /\ r.older = 0 => k - Len(r.wire) <= Len(r.shown)
    BY <2>5, <2>6, <2>7, <2>8
  <2> HIDE DEF k
  <2>10. SentUpTo(r, k)
    BY <2>9 DEF SentUpTo
  <2>11. QED
    BY <2>10 DEF k
<1>15. n + m \in 0..Len(log)
  BY <1>2, <1>6
<1>16. InOrder(r)
  BY <1>1, <1>13 DEF StreamOK, InOrder
<1>17. QED
  BY <1>1, <1>13, <1>14, <1>15, <1>16 DEF StreamOK

LEMMA HeadAndTail ==
  ASSUME NEW s \in Seq(Nat), s # <<>>
  PROVE  /\ Len(s) \in Nat /\ Len(s) > 0 /\ Head(s) = s[1] /\ Head(s) \in Nat
         /\ Tail(s) \in Seq(Nat) /\ Len(Tail(s)) = Len(s) - 1
         /\ \A i \in 1..(Len(s) - 1) : i + 1 \in 1..Len(s) /\ Tail(s)[i] = s[i + 1]
  OBVIOUS

(* renderMessage: what was seen is dropped, and what was not comes right   *)
(* after what is shown.                                                    *)
LEMMA RenderKeeps ==
  ASSUME ConsoleInv, NEW c \in Client, RenderMessage(c)
  PROVE  /\ log' = log /\ stream' = [stream EXCEPT ![c] = stream'[c]]
         /\ StreamOK(stream'[c])
<1> DEFINE s == stream[c]
           id == Head(s.wire)
           seen == \E i \in DOMAIN s.shown : s.shown[i] = id
           shown == IF seen THEN s.shown ELSE Append(s.shown, id)
           r == [s EXCEPT !.wire = Tail(@), !.shown = IF seen THEN @ ELSE Append(@, id)]
           lw == Len(s.wire)
           ls == Len(s.shown)
           ll == Len(log)
<1>1. /\ s \in StreamState /\ StreamOK(s) /\ s.wire # <<>>
      /\ log' = log /\ stream' = [stream EXCEPT ![c] = stream'[c]] /\ stream'[c] = r
  BY DEF ConsoleInv, RenderMessage
<1>2. LogType /\ Increase /\ Positive /\ ll \in Nat /\ DOMAIN log = 1..ll
  BY DEF ConsoleInv, LogInv, LogType
<1>3. /\ lw \in Nat /\ lw > 0 /\ id = s.wire[1] /\ id \in Nat
      /\ Tail(s.wire) \in Seq(Nat) /\ Len(Tail(s.wire)) = lw - 1
      /\ \A i \in 1..(lw - 1) : i + 1 \in 1..lw /\ Tail(s.wire)[i] = s.wire[i + 1]
  BY <1>1, HeadAndTail DEF StreamState
<1>4. s.up /\ s.loaded
  BY <1>1 DEF StreamOK
<1>5. PICK n \in 0..ll : SentUpTo(s, n)
  BY <1>1 DEF StreamOK
<1>6. /\ s.lastSentId = IdAt(n) /\ lw <= n
      /\ \A i \in 1..lw : s.wire[i] = IdAt(n - lw + i)
      /\ s.older = 0 => n - lw <= ls
  BY <1>4, <1>5 DEF SentUpTo
<1>7. s.older = 0 => ls <= ll /\ \A i \in DOMAIN s.shown : s.shown[i] = IdAt(i)
  BY <1>1 DEF StreamOK, InOrder
<1>8. \A i, j \in DOMAIN s.shown : s.shown[i] = s.shown[j] => i = j
  BY <1>1 DEF StreamOK, InOrder
<1>9. s.shown \in Seq(Nat) /\ ls \in Nat /\ DOMAIN s.shown = 1..ls
  <2>1. s.shown \in Seq(Nat)
    BY <1>1 DEF StreamState
  <2>2. QED
    BY <2>1
<1>10. IF seen THEN shown = s.shown ELSE shown = Append(s.shown, id)
  OBVIOUS
<1>11. shown \in Seq(Nat)
  <2>1. Append(s.shown, id) \in Seq(Nat)
    BY <1>3, <1>9
  <2>2. QED
    BY <1>9, <1>10, <2>1
<1>12. /\ r \in StreamState /\ r.wire = Tail(s.wire) /\ r.shown = shown
       /\ r.up /\ r.loaded /\ r.older = s.older /\ r.lastSentId = s.lastSentId
  <2> HIDE DEF shown, seen
  <2>1. r = [s EXCEPT !.wire = Tail(s.wire), !.shown = shown]
    BY DEF shown
  <2>2. QED
    BY <1>1, <1>3, <1>4, <1>11, <2>1 DEF StreamState
<1>13. ~seen => /\ Len(shown) = ls + 1 /\ DOMAIN shown = 1..(ls + 1)
                /\ \A i \in 1..ls : shown[i] = s.shown[i]
                /\ shown[ls + 1] = id
  BY <1>3, <1>9
<1>14. seen => \E i \in 1..ls : s.shown[i] = id
  BY <1>9
<1>15. ~seen => \A i \in 1..ls : s.shown[i] # id
  BY <1>9
<1>16. StreamOK(s) /\ s.shown = shown => InOrder(r)
  BY <1>12 DEF StreamOK, InOrder
<1>17. /\ SentUpTo(r, n) <=> /\ r.lastSentId = IdAt(n) /\ Len(r.wire) <= n
                             /\ \A i \in 1..Len(r.wire) : r.wire[i] = IdAt(n - Len(r.wire) + i)
                             /\ r.older = 0 => n - Len(r.wire) <= Len(shown)
  BY <1>12 DEF SentUpTo
<1>18. seen => Len(shown) = ls
  BY <1>10
<1> HIDE DEF id, r, shown, seen, lw, ls, ll
<1> DEFINE p == n - lw + 1
<1>19. p \in 1..ll /\ p \in 0..ll /\ p <= n /\ p \in Nat /\ p >= 1
  BY <1>2, <1>3, <1>6
<1>20. id = IdAt(p)
  <2>1. 1 \in 1..lw
    BY <1>3
  <2>2. QED
    BY <1>3, <1>6, <2>1
<1> HIDE DEF p
<1>21. s.older = 0 /\ seen => p <= ls
  <2> SUFFICES ASSUME s.older = 0, seen PROVE p <= ls
    OBVIOUS
  <2>1. PICK i \in 1..ls : s.shown[i] = id
    BY <1>14
  <2>2. i \in 0..ll
    BY <1>2, <1>7, <1>9
  <2>3. IdAt(i) = IdAt(p)
    BY <1>7, <1>9, <1>20, <2>1
  <2>4. i = p
    BY <1>2, <1>19, <2>2, <2>3, IdsDiffer DEF ll
  <2>5. QED
    BY <1>9, <2>4
<1>22. s.older = 0 /\ ~seen => p = ls + 1
  <2> SUFFICES ASSUME s.older = 0, ~seen PROVE p = ls + 1
    OBVIOUS
  <2>1. p \notin 1..ls
    BY <1>7, <1>9, <1>15, <1>20
  <2>2. p <= ls + 1
    BY <1>2, <1>3, <1>6, <1>9 DEF p
  <2>3. QED
    BY <1>9, <1>19, <2>1, <2>2
<1>23. InOrder(r)
  <2>1. CASE seen
    BY <1>1, <1>10, <1>16, <2>1
  <2>2. CASE ~seen
    <3>1. \A i \in DOMAIN shown : i \in 1..ls \/ i = ls + 1
      BY <1>9, <1>13, <2>2
    <3>2. ASSUME NEW i \in DOMAIN shown, NEW j \in DOMAIN shown, shown[i] = shown[j] PROVE i = j
      BY <1>8, <1>9, <1>13, <1>15, <2>2, <3>1, <3>2
    <3>3. s.older = 0 => ls + 1 <= ll
      <4> SUFFICES ASSUME s.older = 0 PROVE ls + 1 <= ll
        OBVIOUS
      <4>1. p = ls + 1
        BY <1>22, <2>2
      <4>2. QED
        BY <1>2, <1>19, <4>1
    <3>4. s.older = 0 => \A i \in DOMAIN shown : shown[i] = IdAt(i)
      BY <1>7, <1>9, <1>13, <1>20, <1>22, <2>2, <3>1
    <3>5. QED
      BY <1>12, <1>13, <2>2, <3>2, <3>3, <3>4 DEF InOrder, ll
  <2>3. QED
    BY <2>1, <2>2
<1>24. SentUpTo(r, n)
  <2>1. Len(r.wire) = lw - 1 /\ lw - 1 <= n
    BY <1>2, <1>3, <1>6, <1>12
  <2>2. \A i \in 1..(lw - 1) : r.wire[i] = IdAt(n - (lw - 1) + i)
    <3> SUFFICES ASSUME NEW i \in 1..(lw - 1)
                 PROVE  Tail(s.wire)[i] = IdAt(n - (lw - 1) + i)
      BY <1>12
    <3>1. i + 1 \in 1..lw /\ Tail(s.wire)[i] = s.wire[i + 1]
      BY <1>3
    <3>2. s.wire[i + 1] = IdAt(n - lw + (i + 1))
      BY <1>6, <3>1
    <3>3. n - lw + (i + 1) = n - (lw - 1) + i
      BY <1>2, <1>3
    <3>4. QED
      BY <3>1, <3>2, <3>3
  <2>3. s.older = 0 => n - (lw - 1) <= Len(shown)
    <3>1. n - (lw - 1) = p
      BY <1>2, <1>3 DEF p
    <3>2. s.older = 0 /\ seen => p <= Len(shown)
      BY <1>18, <1>21
    <3>3. s.older = 0 /\ ~seen => p <= Len(shown)
      BY <1>9, <1>13, <1>22
    <3>4. QED
      BY <3>1, <3>2, <3>3
  <2>4. QED
    BY <1>6, <1>12, <1>17, <2>1, <2>2, <2>3
<1>25. QED
  BY <1>1, <1>5, <1>12, <1>23, <1>24 DEF StreamOK, ll

LEMMA DisconnectKeeps ==
  ASSUME ConsoleInv, NEW c \in Client, Disconnect(c)
  PROVE  /\ log' = log /\ stream' = [stream EXCEPT ![c] = stream'[c]]
         /\ StreamOK(stream'[c])
<1> DEFINE s == stream[c]
           r == [s EXCEPT !.up = FALSE, !.wire = <<>>]
<1>1. s \in StreamState /\ StreamOK(s) /\ stream \in [Client -> StreamState] /\ Len(log) \in Nat
  BY DEF ConsoleInv, LogInv, LogType
<1>2. log' = log /\ stream' = [stream EXCEPT ![c] = r]
  BY DEF Disconnect
<1>3. <<>> \in Seq(Nat)
  OBVIOUS
<1>4. /\ r \in StreamState /\ r.up = FALSE /\ r.wire = <<>> /\ r.lastSentId = s.lastSentId
      /\ r.older = s.older /\ r.shown = s.shown
  BY <1>1, <1>3, Zenon DEF StreamState
<1> HIDE DEF r
<1>5. PICK n \in 0..Len(log) : SentUpTo(s, n)
  BY <1>1 DEF StreamOK
<1>6. Len(r.wire) = 0 /\ ~r.up
  BY <1>4
<1>7. SentUpTo(r, n)
  BY <1>1, <1>4, <1>5, <1>6 DEF SentUpTo
<1>8. InOrder(r)
  BY <1>1, <1>4 DEF StreamOK, InOrder
<1>9. StreamOK(r)
  BY <1>4, <1>6, <1>7, <1>8 DEF StreamOK
<1>10. stream'[c] = r
  BY <1>1, <1>2
<1>11. QED
  BY <1>2, <1>9, <1>10

-----------------------------------------------------------------------------
(* What a write does to the lines: an object behind others on the last     *)
(* one, or a line of its own.                                              *)
LEMMA WriteLines ==
  ASSUME LogInv, NEW p \in Process, WriteObject(p), NEW m, m = proc[p].msg
  PROVE  /\ m \in Message
         /\ Len(log) \in Nat /\ DOMAIN log = 1..Len(log)
         /\ open => /\ Len(log) \in DOMAIN log /\ DOMAIN log' = DOMAIN log /\ Len(log') = Len(log)
                    /\ \A i \in DOMAIN log : i # Len(log) => log'[i] = log[i]
                    /\ log[Len(log)] \in Seq(Message) /\ log[Len(log)] # <<>>
                    /\ log'[Len(log)] = Append(log[Len(log)], m)
         /\ ~open => /\ DOMAIN log' = 1..(Len(log) + 1) /\ Len(log') = Len(log) + 1
                     /\ \A i \in DOMAIN log : log'[i] = log[i]
                     /\ log'[Len(log) + 1] = <<m>>
<1>1. m \in Message
  BY DEF LogInv, LogType, ProcState
<1>2. Len(log) \in Nat /\ DOMAIN log = 1..Len(log)
  BY DEF LogInv, LogType
<1>3. CASE open
  <2>1. Len(log) \in DOMAIN log
    BY <1>3 DEF LogInv, LogType
  <2>2. log[Len(log)] \in Seq(Message) /\ log[Len(log)] # <<>>
    BY <2>1, LineHeads DEF LogInv
  <2>3. log' = [log EXCEPT ![Len(log)] = Append(log[Len(log)], m)]
    BY <1>3 DEF WriteObject
  <2>4. /\ DOMAIN log' = DOMAIN log /\ Len(log') = Len(log)
        /\ \A i \in DOMAIN log : i # Len(log) => log'[i] = log[i]
        /\ log'[Len(log)] = Append(log[Len(log)], m)
    BY <2>1, <2>3 DEF LogInv, LogType
  <2>5. QED
    BY <1>1, <1>2, <1>3, <2>1, <2>2, <2>4
<1>4. CASE ~open
  <2>1. log' = Append(log, <<m>>)
    BY <1>4 DEF WriteObject
  <2>2. /\ DOMAIN log' = 1..(Len(log) + 1) /\ Len(log') = Len(log) + 1
        /\ \A i \in DOMAIN log : log'[i] = log[i]
        /\ log'[Len(log) + 1] = <<m>>
    BY <2>1 DEF LogInv, LogType
  <2>3. QED
    BY <1>1, <1>2, <1>4, <2>2
<1>5. QED
  BY <1>3, <1>4

LEMMA WriteIds ==
  ASSUME LogInv, NEW p \in Process, WriteObject(p)
  PROVE  /\ Len(log) <= Len(log')
         /\ \A i \in DOMAIN log : FromJsonLine(log'[i]) = FromJsonLine(log[i])
         /\ \A i \in DOMAIN log' : i \in DOMAIN log \/ FromJsonLine(log'[i]) = proc[p].msg
<1> DEFINE m == proc[p].msg
           n == Len(log)
<1>1. /\ m \in Message
      /\ n \in Nat /\ DOMAIN log = 1..n
      /\ open => /\ n \in DOMAIN log /\ DOMAIN log' = DOMAIN log /\ Len(log') = n
                 /\ \A i \in DOMAIN log : i # n => log'[i] = log[i]
                 /\ log[n] \in Seq(Message) /\ log[n] # <<>>
                 /\ log'[n] = Append(log[n], m)
      /\ ~open => /\ DOMAIN log' = 1..(n + 1) /\ Len(log') = n + 1
                  /\ \A i \in DOMAIN log : log'[i] = log[i]
                  /\ log'[n + 1] = <<m>>
  BY WriteLines
<1> HIDE DEF m, n
<1>2. CASE open
  <2>1. log'[n][1] = log[n][1]
    BY <1>1, <1>2
  <2>2. \A i \in DOMAIN log : log'[i][1] = log[i][1]
    BY <1>1, <1>2, <2>1
  <2>3. QED
    BY <1>1, <1>2, <2>2 DEF FromJsonLine, n
<1>3. CASE ~open
  <2>1. <<m>>[1] = m
    OBVIOUS
  <2>2. \A i \in DOMAIN log' : i \in DOMAIN log \/ i = n + 1
    BY <1>1, <1>3
  <2>3. n <= n + 1
    BY <1>1
  <2>4. \A i \in DOMAIN log' : i \in DOMAIN log \/ FromJsonLine(log'[i]) = m
    BY <1>1, <1>3, <2>1, <2>2 DEF FromJsonLine
  <2>5. QED
    BY <1>1, <1>3, <2>3, <2>4 DEF FromJsonLine, m, n
<1>4. QED
  BY <1>2, <1>3

(* A step that changes neither the lines nor the streams, and lets nobody  *)
(* write that was not about to.                                            *)
LEMMA QuietKeepsConsoles ==
  ASSUME ConsoleInv, LogInv', log' = log, stream' = stream,
         \A p \in Process : At(p, "write")' => At(p, "write") /\ proc'[p].msg = proc[p].msg,
         open' \in BOOLEAN, lock' \in SUBSET Process, crashes' \in Nat, drops' \in Nat
  PROVE  ConsoleInv'
<1>1. Positive'
  BY DEF ConsoleInv, Positive, At
<1>2. LogType /\ LogType' /\ Len(log) <= Len(log')
  BY DEF ConsoleInv, LogInv, LogType
<1>3. \A c \in Client : StreamOK(stream[c])'
  BY <1>2, StreamKept DEF ConsoleInv
<1>4. QED
  BY <1>1, <1>3 DEF ConsoleInv

(* A step of a console.                                                    *)
LEMMA StreamKeepsConsoles ==
  ASSUME ConsoleInv, LogInv', NEW c \in Client, log' = log, UNCHANGED <<open, lock, proc, crashes>>,
         drops' \in Nat, NEW r, stream' = [stream EXCEPT ![c] = r], StreamOK(r)
  PROVE  ConsoleInv'
<1>1. Positive'
  BY DEF ConsoleInv, Positive, At
<1>2. LogType /\ LogType' /\ Len(log) <= Len(log')
  BY DEF ConsoleInv, LogInv, LogType
<1>3. \A s : StreamOK(s) => StreamOK(s)'
  BY <1>2, StreamKept
<1>4. stream' \in [Client -> StreamState]
  BY DEF ConsoleInv, StreamOK
<1>5. \A b \in Client : StreamOK(stream'[b])
  BY DEF ConsoleInv
<1>6. \A b \in Client : StreamOK(stream[b])'
  BY <1>3, <1>5 DEF StreamOK, InOrder, SentUpTo, IdAt
<1>7. QED
  BY <1>1, <1>4, <1>6 DEF ConsoleInv

LEMMA ConsoleStep ==
  ASSUME ConsoleInv, [Next]_vars
  PROVE  ConsoleInv'
<1> USE DEF Process
<1>0. /\ LogInv /\ LogInv' /\ LogType /\ LogType' /\ proc \in [Process -> ProcState]
      /\ open \in BOOLEAN /\ lock \in SUBSET Process /\ crashes \in Nat /\ drops \in Nat
  BY LogStep DEF ConsoleInv, LogInv, LogType
<1>1. ASSUME NEW p \in Process, NEW pc, NEW m, Becomes(p, pc, m), pc # "write"
      PROVE  \A q \in Process : At(q, "write")' => At(q, "write") /\ proc'[q].msg = proc[q].msg
  BY <1>0, <1>1 DEF Becomes, At
<1>2. ASSUME NEW p \in Process,
             LockFile(p) \/ WriteNewline(p) \/ PostMessage(p) \/ Crash(p)
               \/ (p \in Agent /\ (PickMessage(p) \/ TruncateState(p) \/ SaveState(p)))
      PROVE  ConsoleInv'
  <2>1. log' = log /\ stream' = stream /\ drops' = drops
    BY <1>2 DEF LockFile, WriteNewline, PostMessage, Crash, PickMessage, TruncateState, SaveState
  <2>2. \A q \in Process : At(q, "write")' => At(q, "write") /\ proc'[q].msg = proc[q].msg
    BY <1>1, <1>2
       DEF LockFile, WriteNewline, PostMessage, Crash, PickMessage, TruncateState, SaveState, Goes, Ends
  <2>3. open' \in BOOLEAN
    BY <1>0, <1>2
       DEF LockFile, WriteNewline, PostMessage, Crash, PickMessage, TruncateState, SaveState
  <2>4. lock' \in SUBSET Process
    BY <1>0, <1>2
       DEF LockFile, WriteNewline, PostMessage, Crash, PickMessage, TruncateState, SaveState
  <2>5. crashes' \in Nat
    BY <1>0, <1>2
       DEF LockFile, WriteNewline, PostMessage, Crash, PickMessage, TruncateState, SaveState
  <2>6. QED
    BY <1>0, <2>1, <2>2, <2>3, <2>4, <2>5, QuietKeepsConsoles
<1>3. ASSUME NEW p \in Process, ScanIds(p)
      PROVE  ConsoleInv'
  <2>1. UNCHANGED <<log, open, lock, stream, crashes, drops>>
    BY <1>3 DEF ScanIds
  <2>2. LastMessageId \in Nat /\ proc[p].msg \in Message
    BY <1>0, ScanIsMax DEF LogInv, ProcState
  <2>3. /\ proc'[p].msg.id = LastMessageId + 1
        /\ \A q \in Process : q # p => proc'[q] = proc[q]
    BY <1>0, <1>3, <2>2 DEF ScanIds, Becomes, Message
  <2>4. Positive'
    <3>1. LastMessageId + 1 > 0
      BY <2>2
    <3>2. QED
      BY <2>1, <2>3, <3>1 DEF ConsoleInv, Positive, At
  <2>5. Len(log) <= Len(log')
    BY <1>0, <2>1 DEF LogType
  <2>6. \A c \in Client : StreamOK(stream[c])'
    BY <1>0, <2>1, <2>5, StreamKept DEF ConsoleInv
  <2>7. QED
    BY <1>0, <2>1, <2>4, <2>6 DEF ConsoleInv
<1>4. ASSUME NEW p \in Process, WriteObject(p)
      PROVE  ConsoleInv'
  <2>1. UNCHANGED <<lock, stream, crashes, drops>> /\ open' = TRUE /\ At(p, "write")
    BY <1>4 DEF WriteObject
  <2>2. /\ Len(log) <= Len(log')
        /\ \A i \in DOMAIN log : FromJsonLine(log'[i]) = FromJsonLine(log[i])
        /\ \A i \in DOMAIN log' : i \in DOMAIN log \/ FromJsonLine(log'[i]) = proc[p].msg
    BY <1>0, <1>4, WriteIds
  <2>3. \A q \in Process : At(q, "write")' => At(q, "write") /\ proc'[q].msg = proc[q].msg
    BY <1>1, <1>4 DEF WriteObject, Goes
  <2>4. Positive'
    BY <2>1, <2>2, <2>3 DEF ConsoleInv, Positive, At
  <2>5. \A c \in Client : StreamOK(stream[c])'
    BY <1>0, <2>1, <2>2, StreamKept DEF ConsoleInv
  <2>6. QED
    BY <1>0, <2>1, <2>4, <2>5 DEF ConsoleInv
<1>5. ASSUME NEW c \in Client, StreamStep(c) \/ Disconnect(c)
      PROVE  ConsoleInv'
  <2>1. UNCHANGED <<open, lock, proc, crashes>>
    BY <1>5 DEF StreamStep, LoadRecent, Connect, Tick, RenderMessage, Disconnect
  <2>2. drops' \in Nat
    <3>1. CASE StreamStep(c)
      <4>1. drops' = drops
        BY <3>1 DEF StreamStep, LoadRecent, Connect, Tick, RenderMessage
      <4>2. QED
        BY <1>0, <4>1
    <3>2. CASE Disconnect(c)
      <4>1. drops' = drops + 1
        BY <3>2 DEF Disconnect
      <4>2. QED
        BY <1>0, <4>1
    <3>3. QED
      BY <1>5, <3>1, <3>2
  <2>3. /\ log' = log /\ stream' = [stream EXCEPT ![c] = stream'[c]]
        /\ StreamOK(stream'[c])
    BY <1>5, LoadKeeps, ConnectKeeps, TickKeeps, RenderKeeps, DisconnectKeeps DEF StreamStep
  <2>4. QED
    BY <1>0, <2>1, <2>2, <2>3, StreamKeepsConsoles
<1>6. CASE UNCHANGED vars
  <2>1. UNCHANGED <<log, open, lock, proc, stream, crashes, drops>>
    BY <1>6 DEF vars
  <2>2. \A q \in Process : At(q, "write")' => At(q, "write") /\ proc'[q].msg = proc[q].msg
    BY <2>1 DEF At
  <2>3. QED
    BY <1>0, <2>1, <2>2, QuietKeepsConsoles
<1>7. ASSUME NEW p \in Process, AppendNewMessage(p)
      PROVE  ConsoleInv'
  BY <1>2, <1>3, <1>4, <1>7 DEF AppendNewMessage
<1>8. ASSUME NEW p \in Poster, PostMessage(p) \/ AppendNewMessage(p)
      PROVE  ConsoleInv'
  BY <1>2, <1>7, <1>8
<1>9. ASSUME NEW a \in Agent, AgentStep(a)
      PROVE  ConsoleInv'
  BY <1>2, <1>7, <1>9 DEF AgentStep
<1>10. ASSUME NEW p \in Process, Crash(p)
       PROVE  ConsoleInv'
  BY <1>2, <1>10
<1>11. QED
  BY <1>5, <1>6, <1>8, <1>9, <1>10 DEF Next

LEMMA ConsolesAlways == Spec => []ConsoleInv
  BY ConsoleInit, ConsoleStep, PTL DEF Spec

(* The variables stay within their types.                                  *)
THEOREM RoomTyped == Spec => []TypeOK
<1>1. ConsoleInv => TypeOK
  BY DEF ConsoleInv, LogInv, LogType, TypeOK, StreamState
<1>2. QED
  BY <1>1, ConsolesAlways, PTL

(* handleEvents and renderMessage: through any reconnections the consoles  *)
(* show no message twice, and no gap if the first page held the room.      *)
THEOREM TranscriptsInOrder == Spec => []TranscriptInOrder
<1>1. ConsoleInv => TranscriptInOrder
  <2> SUFFICES ASSUME ConsoleInv, NEW c \in Client
               PROVE  LET shown == stream[c].shown
                      IN  /\ \A i, j \in DOMAIN shown : shown[i] = shown[j] => i = j
                          /\ stream[c].older = 0 =>
                               /\ Len(shown) <= Len(log)
                               /\ \A i \in DOMAIN shown : shown[i] = Parsed[i].id
    BY DEF TranscriptInOrder
  <2>1. InOrder(stream[c]) /\ stream[c].shown \in Seq(Nat)
    BY DEF ConsoleInv, StreamOK, StreamState
  <2>2. DOMAIN log = 1..Len(log) /\ Len(log) \in Nat
    BY DEF ConsoleInv, LogInv, LogType
  <2>3. Len(stream[c].shown) <= Len(log) =>
          \A i \in DOMAIN stream[c].shown : i \in DOMAIN log /\ i # 0
    BY <2>1, <2>2
  <2>4. \A i \in DOMAIN log : i # 0 => Parsed[i].id = IdAt(i)
    BY DEF Parsed, IdAt
  <2>5. QED
    BY <2>1, <2>3, <2>4 DEF InOrder
<1>2. QED
  BY <1>1, ConsolesAlways, PTL

-----------------------------------------------------------------------------
(* Messages that share a line with one before them.                        *)

(* A line that nobody is going to end is the place of a message that the   *)
(* next one will hide behind: it counts as paid for by the crash.          *)
Dangling == open /\ \A p \in Process : ~At(p, "newline")

LossInv ==
  /\ LogInv /\ crashes \in Nat
  /\ IsFiniteSet(Hidden) /\ Cardinality(Hidden) <= crashes
  /\ Dangling => Cardinality(Hidden) + 1 <= crashes

LEMMA LossInit == Init => LossInv
<1> SUFFICES ASSUME Init PROVE LossInv
  OBVIOUS
<1>1. LogInv /\ log = <<>> /\ ~open /\ crashes = 0
  BY InitLog DEF Init
<1>2. Hidden = {}
  BY <1>1 DEF Hidden
<1>3. IsFiniteSet({}) /\ Cardinality({}) = 0
  BY FS_EmptySet
<1>4. QED
  BY <1>1, <1>2, <1>3 DEF LossInv, Dangling

(* A process that ends its line, or writes none, hides nothing.            *)
LEMMA QuietLoss ==
  ASSUME LossInv, LogInv', log' = log, crashes' \in Nat, crashes' >= crashes,
         Dangling' => Dangling \/ crashes' = crashes + 1
  PROVE  LossInv'
<1>1. Hidden' = Hidden
  BY DEF Hidden
<1>2. Cardinality(Hidden) \in Nat
  BY FS_CardinalityType DEF LossInv
<1>3. QED
  BY <1>1, <1>2 DEF LossInv

(* Who writes holds the lock, so that nobody is about to end the line.     *)
LEMMA WriteLoss ==
  ASSUME LossInv, LogInv', NEW p \in Process, WriteObject(p)
  PROVE  LossInv'
<1> DEFINE m == proc[p].msg
           n == Len(log)
<1>1. /\ m \in Message
      /\ n \in Nat /\ DOMAIN log = 1..n
      /\ open => /\ n \in DOMAIN log /\ DOMAIN log' = DOMAIN log /\ Len(log') = n
                 /\ \A i \in DOMAIN log : i # n => log'[i] = log[i]
                 /\ log[n] \in Seq(Message) /\ log[n] # <<>>
                 /\ log'[n] = Append(log[n], m)
      /\ ~open => /\ DOMAIN log' = 1..(n + 1) /\ Len(log') = n + 1
                  /\ \A i \in DOMAIN log : log'[i] = log[i]
                  /\ log'[n + 1] = <<m>>
  BY WriteLines DEF LossInv
<1>2. /\ LogInv /\ crashes' = crashes /\ crashes \in Nat
      /\ IsFiniteSet(Hidden) /\ Cardinality(Hidden) \in Nat
  BY FS_CardinalityType DEF LossInv, WriteObject
<1>3. ~Dangling'
  <2>1. At(p, "newline")'
    BY <1>2 DEF WriteObject, Goes, Becomes, At, LogInv, LogType
  <2>2. QED
    BY <2>1 DEF Dangling
<1> HIDE DEF m, n
<1>4. CASE open
  <2>1. Dangling
    BY <1>2, <1>4 DEF Dangling, WriteObject, At, LogInv, LockInv, Locked
  <2>2. /\ Len(log[n]) \in Nat /\ Len(log'[n]) = Len(log[n]) + 1
    BY <1>1, <1>4
  <2> DEFINE new == <<n, Len(log[n]) + 1>>
  <2>3. Hidden' \subseteq Hidden \cup {new}
    <3> SUFFICES ASSUME NEW h \in Hidden' PROVE h \in Hidden \cup {new}
      OBVIOUS
    <3>0. PICK i \in DOMAIN log : \E k \in 2..Len(log'[i]) : h = <<i, k>>
      BY <1>1, <1>4 DEF Hidden
    <3>1. PICK k \in 2..Len(log'[i]) : h = <<i, k>>
      BY <3>0
    <3>2. CASE i = n
      <4>1. k \in 2..Len(log[n]) \/ k = Len(log[n]) + 1
        BY <2>2, <3>1, <3>2
      <4>2. QED
        BY <1>1, <1>4, <3>1, <3>2, <4>1 DEF Hidden
    <3>3. CASE i # n
      BY <1>1, <1>4, <3>1, <3>3 DEF Hidden
    <3>4. QED
      BY <3>2, <3>3
  <2> HIDE DEF new
  <2>4. /\ IsFiniteSet(Hidden \cup {new})
        /\ Cardinality(Hidden \cup {new}) = IF new \in Hidden THEN Cardinality(Hidden)
                                            ELSE Cardinality(Hidden) + 1
    BY <1>2, FS_AddElement
  <2>5. IsFiniteSet(Hidden') /\ Cardinality(Hidden') <= Cardinality(Hidden \cup {new})
    BY <2>3, <2>4, FS_Subset
  <2>6. Cardinality(Hidden') \in Nat
    BY <2>5, FS_CardinalityType
  <2>7. Cardinality(Hidden) + 1 <= crashes
    BY <2>1 DEF LossInv
  <2>8. Cardinality(Hidden \cup {new}) <= Cardinality(Hidden) + 1
    BY <1>2, <2>4
  <2>9. Cardinality(Hidden \cup {new}) \in Nat
    BY <2>4, FS_CardinalityType
  <2>10. Cardinality(Hidden') <= crashes'
    BY <1>2, <2>5, <2>6, <2>7, <2>8, <2>9
  <2>11. QED
    BY <1>2, <1>3, <2>5, <2>10 DEF LossInv
<1>5. CASE ~open
  <2>1. Len(<<m>>) = 1
    OBVIOUS
  <2>2. Hidden' = Hidden
    <3>0. n \in Nat
      BY <1>1
    <3>1. 1..(n + 1) = (1..n) \cup {n + 1}
      BY <3>0
    <3>2. 2..Len(log'[n + 1]) = {}
      <4>1. 2..1 = {}
        OBVIOUS
      <4>2. Len(log'[n + 1]) = 1
        BY <1>1, <1>5, <2>1, Zenon
      <4>3. QED
        BY <4>1, <4>2, Zenon
    <3>3. QED
      BY <1>1, <1>5, <3>1, <3>2 DEF Hidden
  <2>3. Cardinality(Hidden) <= crashes
    BY DEF LossInv
  <2>4. QED
    BY <1>2, <1>3, <2>2, <2>3 DEF LossInv
<1>6. QED
  BY <1>4, <1>5

LEMMA LossStep ==
  ASSUME LossInv, [Next]_vars
  PROVE  LossInv'
<1> USE DEF Process
<1>0. /\ LogInv /\ LogInv' /\ proc \in [Process -> ProcState] /\ crashes \in Nat
  BY LogStep DEF LossInv, LogInv, LogType
<1>1. ASSUME NEW p \in Process, NEW pc, NEW m, Becomes(p, pc, m), ~At(p, "newline"), open' = open
      PROVE  Dangling' => Dangling
  BY <1>0, <1>1 DEF Becomes, At, Dangling
<1>2. ASSUME NEW p \in Process,
             LockFile(p) \/ ScanIds(p) \/ PostMessage(p)
               \/ (p \in Agent /\ (PickMessage(p) \/ TruncateState(p) \/ SaveState(p)))
      PROVE  LossInv'
  <2>1. UNCHANGED <<log, open, crashes>> /\ ~At(p, "newline")
    BY <1>2 DEF LockFile, ScanIds, PostMessage, PickMessage, TruncateState, SaveState, At
  <2>2. Dangling' => Dangling
    BY <1>1, <1>2, <2>1
       DEF LockFile, ScanIds, PostMessage, PickMessage, TruncateState, SaveState, Goes, Ends
  <2>3. QED
    BY <1>0, <2>1, <2>2, QuietLoss
<1>3. ASSUME NEW p \in Process, WriteNewline(p)
      PROVE  LossInv'
  BY <1>0, <1>3, QuietLoss DEF WriteNewline, Dangling
<1>4. ASSUME NEW p \in Process, WriteObject(p)
      PROVE  LossInv'
  BY <1>0, <1>4, WriteLoss
<1>5. ASSUME NEW p \in Process, Crash(p)
      PROVE  LossInv'
  BY <1>0, <1>5, QuietLoss DEF Crash
<1>6. CASE UNCHANGED <<log, open, proc, crashes>>
  BY <1>0, <1>6, QuietLoss DEF Dangling, At
<1>7. ASSUME NEW p \in Process, AppendNewMessage(p)
      PROVE  LossInv'
  BY <1>2, <1>3, <1>4, <1>7 DEF AppendNewMessage
<1>8. ASSUME NEW p \in Poster, PostMessage(p) \/ AppendNewMessage(p)
      PROVE  LossInv'
  BY <1>2, <1>7, <1>8
<1>9. ASSUME NEW a \in Agent, AgentStep(a)
      PROVE  LossInv'
  BY <1>2, <1>7, <1>9 DEF AgentStep
<1>10. ASSUME NEW c \in Client, StreamStep(c) \/ Disconnect(c)
       PROVE  LossInv'
  BY <1>6, <1>10 DEF StreamStep, LoadRecent, Connect, Tick, RenderMessage, Disconnect
<1>11. CASE UNCHANGED vars
  BY <1>6, <1>11 DEF vars
<1>12. QED
  BY <1>5, <1>8, <1>9, <1>10, <1>11 DEF Next

(* wtRoomAppendNewMessage: each process that dies costs the room at most   *)
(* one message, however many append.                                       *)
THEOREM LossesBounded == Spec => []LossBounded
<1>1. LossInv => LossBounded
  BY DEF LossInv, LossBounded
<1>2. QED
  BY <1>1, LossInit, LossStep, PTL DEF Spec

-----------------------------------------------------------------------------
(* Answers given twice.                                                    *)

(* The messages that an agent may still come to answer: those beyond its   *)
(* state file, and the one whose reply it has in hand and has not written. *)
MayAnswer(a, id) ==
  IF At(a, "idle") THEN id > handled[a]
  ELSE IF proc[a].pc \in {"append", "scan", "write"} THEN id >= proc[a].msg.replyTo
  ELSE id > proc[a].msg.replyTo

Replied(a, id) == Cardinality(Replies(a, id))

(* Each answer too many has a crash to account for it, and so has each     *)
(* answer to a message that may be answered again.                         *)
Accounted(a, id) ==
  /\ Replied(a, id) <= 1 + crashes
  /\ MayAnswer(a, id) => Replied(a, id) <= crashes

Signed ==
  /\ \A p \in Poster : proc[p].msg.from = "ceo"
  /\ \A a \in Agent : ~At(a, "idle") => proc[a].msg.from = a

ReplyInv ==
  /\ LogInv /\ Signed /\ crashes \in Nat
  /\ \A a \in Agent, id \in Nat : Accounted(a, id)

LEMMA RepliesFinite ==
  ASSUME LogInv, NEW a, NEW id
  PROVE  IsFiniteSet(Replies(a, id)) /\ Replied(a, id) \in Nat
<1>1. Replies(a, id) \subseteq DOMAIN log
  BY DEF Replies
<1>2. QED
  BY <1>1, WindowSize DEF LogInv, Replied

LEMMA ReplyInit == Init => ReplyInv
<1> SUFFICES ASSUME Init PROVE ReplyInv
  OBVIOUS
<1>1. LogInv /\ log = <<>> /\ crashes = 0
  BY InitLog DEF Init
<1>2. Signed
  BY DEF Init, Signed, At, NoMessage, Process
<1>3. \A a, id : Replies(a, id) = {}
  BY <1>1 DEF Replies
<1>4. \A a, id : Replied(a, id) = 0
  BY <1>3, FS_EmptySet DEF Replied
<1>5. QED
  BY <1>1, <1>2, <1>4 DEF ReplyInv, Accounted

(* A write adds at most the line that it writes to the replies of its      *)
(* sender to its message, and nothing to any others.                       *)
LEMMA WriteReplies ==
  ASSUME LogInv, LogInv', NEW p \in Process, WriteObject(p), NEW a, NEW id
  PROVE  /\ Replied(a, id)' \in Nat /\ Replied(a, id)' <= Replied(a, id) + 1
         /\ proc[p].msg.from # a \/ proc[p].msg.replyTo # id => Replied(a, id)' <= Replied(a, id)
<1> DEFINE m == proc[p].msg
           n == Len(log)
           R == Replies(a, id)
           S == Replies(a, id)'
           adds == m.from = a /\ m.replyTo = id
           at == IF open THEN n ELSE n + 1
<1>1. /\ m \in Message
      /\ n \in Nat /\ DOMAIN log = 1..n
      /\ open => /\ n \in DOMAIN log /\ DOMAIN log' = DOMAIN log /\ Len(log') = n
                 /\ \A i \in DOMAIN log : i # n => log'[i] = log[i]
                 /\ log[n] \in Seq(Message) /\ log[n] # <<>>
                 /\ log'[n] = Append(log[n], m)
      /\ ~open => /\ DOMAIN log' = 1..(n + 1) /\ Len(log') = n + 1
                  /\ \A i \in DOMAIN log : log'[i] = log[i]
                  /\ log'[n + 1] = <<m>>
  BY WriteLines
<1> HIDE DEF m, n
<1>2. S \subseteq R \cup {at} /\ (~adds => S \subseteq R)
  <2> SUFFICES ASSUME NEW i \in S
               PROVE  i \in R \/ (i = at /\ adds)
    OBVIOUS
  <2>1. i \in DOMAIN log' /\ \E k \in DOMAIN log'[i] : log'[i][k].from = a /\ log'[i][k].replyTo = id
    BY DEF Replies
  <2>2. PICK k \in DOMAIN log'[i] : log'[i][k].from = a /\ log'[i][k].replyTo = id
    BY <2>1
  <2>3. CASE open
    <3>1. CASE i # n
      BY <1>1, <2>1, <2>2, <2>3, <3>1 DEF Replies
    <3>2. CASE i = n
      <4>1. /\ DOMAIN log'[n] = 1..(Len(log[n]) + 1) /\ Len(log[n]) \in Nat
            /\ DOMAIN log[n] = 1..Len(log[n])
            /\ log'[n][Len(log[n]) + 1] = m
            /\ \A l \in 1..Len(log[n]) : log'[n][l] = log[n][l]
        BY <1>1, <2>3
      <4>2. k \in DOMAIN log[n] \/ k = Len(log[n]) + 1
        BY <2>2, <3>2, <4>1
      <4>3. CASE k \in DOMAIN log[n]
        <5>1. log[n][k].from = a /\ log[n][k].replyTo = id
          BY <2>2, <3>2, <4>1, <4>3
        <5>2. n \in R
          BY <1>1, <2>3, <4>3, <5>1 DEF Replies
        <5>3. QED
          BY <3>2, <5>2
      <4>4. CASE k = Len(log[n]) + 1
        BY <2>2, <2>3, <3>2, <4>1, <4>4
      <4>5. QED
        BY <4>2, <4>3, <4>4
    <3>3. QED
      BY <3>1, <3>2
  <2>4. CASE ~open
    <3>1. i \in DOMAIN log \/ i = n + 1
      BY <1>1, <2>1, <2>4
    <3>2. CASE i \in DOMAIN log
      BY <1>1, <2>1, <2>4, <3>2 DEF Replies
    <3>3. CASE i = n + 1
      <4>1. log'[i] = <<m>>
        BY <1>1, <2>4, <3>3
      <4>2. log'[i][k] = m
        BY <2>2, <4>1
      <4>3. QED
        BY <2>2, <2>4, <3>3, <4>2
    <3>4. QED
      BY <3>1, <3>2, <3>3
  <2>5. QED
    BY <2>3, <2>4
<1>3. IsFiniteSet(R) /\ Cardinality(R) \in Nat
  BY RepliesFinite DEF Replied
<1>4. /\ IsFiniteSet(R \cup {at})
      /\ Cardinality(R \cup {at}) = IF at \in R THEN Cardinality(R) ELSE Cardinality(R) + 1
  BY <1>3, FS_AddElement
<1>5. Replied(a, id) = Cardinality(R) /\ Replied(a, id)' = Cardinality(S)
  BY DEF Replied
<1> HIDE DEF R, S, at
<1>6. IsFiniteSet(S) /\ Cardinality(S) \in Nat
  BY <1>2, <1>4, FS_Subset, FS_CardinalityType
<1>7. Cardinality(S) <= Cardinality(R \cup {at})
  BY <1>2, <1>4, FS_Subset
<1>8. Cardinality(S) <= Cardinality(R) + 1
  <2>1. Cardinality(R \cup {at}) \in Nat
    BY <1>4, FS_CardinalityType
  <2>2. Cardinality(R \cup {at}) <= Cardinality(R) + 1
    BY <1>3, <1>4
  <2>3. QED
    BY <1>3, <1>6, <1>7, <2>1, <2>2
<1>9. ~adds => Cardinality(S) <= Cardinality(R)
  BY <1>2, <1>3, FS_Subset
<1>10. QED
  BY <1>5, <1>6, <1>8, <1>9 DEF m

(* Nothing is written, and nobody comes to answer what was settled unless  *)
(* a process died.                                                         *)
LEMMA QuietReplies ==
  ASSUME ReplyInv, log' = log, NEW a \in Agent, NEW id \in Nat,
         \/ crashes' = crashes /\ (MayAnswer(a, id)' => MayAnswer(a, id))
         \/ crashes' = crashes + 1
  PROVE  Accounted(a, id)'
<1>1. Replied(a, id)' = Replied(a, id)
  BY DEF Replied, Replies
<1>2. Replied(a, id) \in Nat /\ crashes \in Nat /\ Accounted(a, id)
  BY RepliesFinite DEF ReplyInv
<1>3. QED
  BY <1>1, <1>2 DEF Accounted

LEMMA ReplyWrite ==
  ASSUME ReplyInv, LogInv', NEW p \in Process, WriteObject(p), NEW a \in Agent, NEW id \in Nat
  PROVE  Accounted(a, id)'
<1> DEFINE m == proc[p].msg
<1>1. /\ crashes' = crashes /\ crashes \in Nat /\ handled' = handled
      /\ proc \in [Process -> ProcState] /\ m \in Message
      /\ Replied(a, id) \in Nat /\ Accounted(a, id) /\ At(p, "write")
      /\ proc' = [proc EXCEPT ![p] = [pc |-> "newline", msg |-> m]]
  BY RepliesFinite DEF ReplyInv, WriteObject, Goes, Becomes, LogInv, LogType, ProcState
<1>2. /\ Replied(a, id)' \in Nat /\ Replied(a, id)' <= Replied(a, id) + 1
      /\ m.from # a \/ m.replyTo # id => Replied(a, id)' <= Replied(a, id)
  BY WriteReplies DEF ReplyInv
<1>3. CASE p # a
  <2>1. m.from # a
    BY <1>1, <1>3 DEF ReplyInv, Signed, Process, At
  <2>2. MayAnswer(a, id)' <=> MayAnswer(a, id)
    BY <1>1, <1>3 DEF MayAnswer, At, Process
  <2> HIDE DEF m
  <2>3. QED
    BY <1>1, <1>2, <2>1, <2>2 DEF Accounted
<1>4. CASE p = a
  <2>1. MayAnswer(a, id) <=> id >= m.replyTo
    BY <1>1, <1>4 DEF MayAnswer, At
  <2>2. MayAnswer(a, id)' <=> id > m.replyTo
    BY <1>1, <1>4 DEF MayAnswer, At
  <2>3. m.replyTo \in Nat
    BY <1>1 DEF Message
  <2> HIDE DEF m
  <2>4. CASE id = m.replyTo
    <3>1. MayAnswer(a, id) /\ ~MayAnswer(a, id)'
      BY <2>1, <2>2, <2>3, <2>4
    <3>2. QED
      BY <1>1, <1>2, <3>1 DEF Accounted
  <2>5. CASE id # m.replyTo
    <3>1. MayAnswer(a, id)' => MayAnswer(a, id)
      BY <2>1, <2>2, <2>3
    <3>2. QED
      BY <1>1, <1>2, <2>5, <3>1 DEF Accounted
  <2>6. QED
    BY <2>4, <2>5
<1>5. QED
  BY <1>3, <1>4

LEMMA SignedStep ==
  ASSUME ReplyInv, [Next]_vars
  PROVE  Signed'
<1> USE DEF Process
<1>0. proc \in [Process -> ProcState] /\ Signed
  BY DEF ReplyInv, LogInv, LogType
<1>1. ASSUME NEW p \in Process, NEW pc, NEW m, Becomes(p, pc, m),
             p \in Poster => m.from = "ceo", p \in Agent => pc = "idle" \/ m.from = p
      PROVE  Signed'
  BY <1>0, <1>1 DEF Becomes, At, Signed
<1>2. ASSUME NEW p \in Process, NEW pc, ~At(p, "idle"), Goes(p, pc)
      PROVE  Signed'
  BY <1>0, <1>1, <1>2 DEF Goes, Signed
<1>3. ASSUME NEW p \in Process, Ends(p)
      PROVE  Signed'
  BY <1>1, <1>3 DEF Ends, NoMessage
<1>4. ASSUME NEW p \in Process, AppendNewMessage(p)
      PROVE  Signed'
  <2>1. CASE LockFile(p) \/ WriteObject(p)
    BY <1>2, <2>1 DEF LockFile, WriteObject, At
  <2>2. CASE WriteNewline(p)
    BY <1>2, <1>3, <2>2 DEF WriteNewline, At
  <2>3. CASE ScanIds(p)
    <3> DEFINE m == [proc[p].msg EXCEPT !.id = LastMessageId + 1]
    <3>1. m.from = proc[p].msg.from
      BY <1>0 DEF ProcState, Message
    <3>2. Becomes(p, "write", m) /\ ~At(p, "idle")
      BY <2>3 DEF ScanIds, At
    <3> HIDE DEF m
    <3>3. QED
      BY <1>0, <1>1, <3>1, <3>2 DEF Signed
  <2>4. QED
    BY <1>4, <2>1, <2>2, <2>3 DEF AppendNewMessage
<1>5. ASSUME NEW p \in Poster, PostMessage(p)
      PROVE  Signed'
  BY <1>1, <1>5 DEF PostMessage, Asks
<1>6. ASSUME NEW a \in Agent, PickMessage(a)
      PROVE  Signed'
  <2>1. PICK r : Becomes(a, "append", [id |-> 0, from |-> a, to |-> "ceo", replyTo |-> r])
    BY <1>6 DEF PickMessage
  <2>2. QED
    BY <1>1, <2>1
<1>7. ASSUME NEW a \in Agent, TruncateState(a) \/ SaveState(a)
      PROVE  Signed'
  BY <1>2, <1>3, <1>7 DEF TruncateState, SaveState, At
<1>8. ASSUME NEW p \in Process, Crash(p)
      PROVE  Signed'
  BY <1>3, <1>8 DEF Crash
<1>9. CASE proc' = proc
  BY <1>0, <1>9 DEF Signed, At
<1>10. ASSUME NEW c \in Client, StreamStep(c) \/ Disconnect(c)
       PROVE  Signed'
  BY <1>9, <1>10 DEF StreamStep, LoadRecent, Connect, Tick, RenderMessage, Disconnect
<1>11. CASE UNCHANGED vars
  BY <1>9, <1>11 DEF vars
<1>12. ASSUME NEW a \in Agent, AgentStep(a)
       PROVE  Signed'
  BY <1>4, <1>6, <1>7, <1>12 DEF AgentStep
<1>13. QED
  BY <1>4, <1>5, <1>8, <1>10, <1>11, <1>12 DEF Next

LEMMA ReplyStep ==
  ASSUME ReplyInv, [Next]_vars
  PROVE  ReplyInv'
<1> USE DEF Process
<1>0. /\ LogInv /\ LogInv' /\ Signed' /\ crashes \in Nat /\ crashes' \in Nat
      /\ proc \in [Process -> ProcState] /\ handled \in [Agent -> Nat]
  <2>1. crashes' \in Nat
    <3>1. ASSUME NEW p \in Process, AppendNewMessage(p) \/ PostMessage(p) PROVE crashes' = crashes
      BY <3>1 DEF AppendNewMessage, LockFile, ScanIds, WriteObject, WriteNewline, PostMessage
    <3>2. ASSUME NEW b \in Agent, AgentStep(b) PROVE crashes' = crashes
      BY <3>1, <3>2 DEF AgentStep, PickMessage, TruncateState, SaveState
    <3>3. ASSUME NEW p \in Process, Crash(p) PROVE crashes' = crashes + 1
      BY <3>3 DEF Crash
    <3>4. ASSUME NEW c \in Client, StreamStep(c) \/ Disconnect(c) PROVE crashes' = crashes
      BY <3>4 DEF StreamStep, LoadRecent, Connect, Tick, RenderMessage, Disconnect
    <3>5. crashes' = crashes \/ crashes' = crashes + 1
      BY <3>1, <3>2, <3>3, <3>4 DEF Next, vars
    <3>6. QED
      BY <3>5 DEF ReplyInv
  <2>2. QED
    BY <2>1, LogStep, SignedStep DEF ReplyInv, LogInv, LogType
<1> SUFFICES ASSUME NEW a \in Agent, NEW id \in Nat PROVE Accounted(a, id)'
  BY <1>0 DEF ReplyInv
<1> DEFINE Quiet == UNCHANGED <<log, crashes>> /\ (MayAnswer(a, id)' => MayAnswer(a, id))
<1>1. ASSUME Quiet PROVE Accounted(a, id)'
  BY <1>1, QuietReplies
<1>2. ASSUME UNCHANGED <<log, crashes>>, proc'[a] = proc[a], handled'[a] = handled[a]
      PROVE  Accounted(a, id)'
  BY <1>1, <1>2 DEF MayAnswer, At
<1>3. ASSUME NEW p \in Process, NEW pc, NEW m, Becomes(p, pc, m), p # a
      PROVE  proc'[a] = proc[a]
  BY <1>0, <1>3 DEF Becomes
<1>4. ASSUME NEW pc, NEW m, Becomes(a, pc, m)
      PROVE  proc'[a].pc = pc /\ proc'[a].msg = m
  BY <1>0, <1>4 DEF Becomes
<1>5. ASSUME NEW p \in Process, LockFile(p) \/ ScanIds(p) \/ WriteNewline(p) \/ PostMessage(p)
      PROVE  Accounted(a, id)'
  <2>1. UNCHANGED <<log, crashes, handled>>
    BY <1>5 DEF LockFile, ScanIds, WriteNewline, PostMessage
  <2>2. CASE p # a
    BY <1>2, <1>3, <1>5, <2>1, <2>2 DEF LockFile, ScanIds, WriteNewline, PostMessage, Goes, Ends
  <2>3. CASE LockFile(a)
    <3>1. proc'[a].pc = "scan" /\ proc'[a].msg = proc[a].msg /\ proc[a].pc = "append"
      BY <1>4, <2>3 DEF LockFile, Goes, At
    <3>2. QED
      BY <1>1, <2>1, <3>1 DEF MayAnswer, At
  <2>4. CASE ScanIds(a)
    <3>1. /\ proc'[a].pc = "write" /\ proc[a].pc = "scan"
          /\ proc'[a].msg = [proc[a].msg EXCEPT !.id = LastMessageId + 1]
      BY <1>4, <2>4 DEF ScanIds, At
    <3>2. proc'[a].msg.replyTo = proc[a].msg.replyTo
      BY <1>0, <3>1 DEF ProcState, Message
    <3>3. QED
      BY <1>1, <2>1, <3>1, <3>2 DEF MayAnswer, At
  <2>5. CASE WriteNewline(a)
    <3>1. proc'[a].pc = "truncate" /\ proc'[a].msg = proc[a].msg /\ proc[a].pc = "newline"
      BY <1>4, <2>5 DEF WriteNewline, Goes, At
    <3>2. QED
      BY <1>1, <2>1, <3>1 DEF MayAnswer, At
  <2>6. CASE p \in Poster
    BY <1>5, <2>2, <2>6
  <2>7. CASE PostMessage(a)
    <3>1. PICK m \in Asks : Becomes(a, "append", m)
      BY <2>7 DEF PostMessage
    <3>2. At(a, "idle")
      BY <2>7 DEF PostMessage
    <3>3. QED
      BY <1>0, <3>1, <3>2 DEF Signed, Becomes, At, Asks
  <2>8. QED
    BY <1>5, <2>2, <2>3, <2>4, <2>5, <2>7
<1>6. ASSUME NEW p \in Process, WriteObject(p)
      PROVE  Accounted(a, id)'
  BY <1>0, <1>6, ReplyWrite
<1>7. ASSUME NEW b \in Agent, PickMessage(b)
      PROVE  Accounted(a, id)'
  <2>1. UNCHANGED <<log, crashes, handled>> /\ At(b, "idle")
    BY <1>7 DEF PickMessage
  <2>2. PICK i \in Candidates(b) :
          Becomes(b, "append", [id |-> 0, from |-> b, to |-> "ceo", replyTo |-> Parsed[i].id])
    BY <1>7 DEF PickMessage
  <2>3. CASE b # a
    BY <1>2, <1>3, <2>1, <2>2, <2>3
  <2>4. CASE b = a
    <3>1. i \in DOMAIN log /\ Parsed[i].id > handled[a]
      BY <2>2, <2>4 DEF Candidates, Recent, ShouldHandle
    <3>2. Parsed[i].id \in Nat /\ handled[a] \in Nat
      BY <1>0, <3>1, LineHeads DEF LogInv
    <3>3. proc'[a].pc = "append" /\ proc'[a].msg.replyTo = Parsed[i].id
      BY <1>4, <2>2, <2>4
    <3>4. MayAnswer(a, id)' => id >= Parsed[i].id
      BY <3>3 DEF MayAnswer, At
    <3>5. MayAnswer(a, id) <=> id > handled[a]
      BY <2>1, <2>4 DEF MayAnswer
    <3>6. id >= Parsed[i].id => id > handled[a]
      BY <3>1, <3>2
    <3>7. QED
      BY <1>1, <2>1, <3>4, <3>5, <3>6
  <2>5. QED
    BY <2>3, <2>4
<1>8. ASSUME NEW b \in Agent, TruncateState(b) \/ SaveState(b)
      PROVE  Accounted(a, id)'
  <2>1. UNCHANGED <<log, crashes>>
    BY <1>8 DEF TruncateState, SaveState
  <2>2. CASE b # a
    <3>1. proc'[a] = proc[a] /\ handled'[a] = handled[a]
      BY <1>0, <1>3, <1>8, <2>2 DEF TruncateState, SaveState, Goes, Ends
    <3>2. QED
      BY <1>2, <2>1, <3>1
  <2>3. CASE TruncateState(a)
    <3>1. proc[a].pc = "truncate" /\ proc'[a].pc = "save" /\ proc'[a].msg = proc[a].msg
      BY <1>4, <2>3 DEF TruncateState, Goes, At
    <3>2. QED
      BY <1>1, <2>1, <3>1 DEF MayAnswer, At
  <2>4. CASE SaveState(a)
    <3>1. proc[a].pc = "save" /\ proc'[a].pc = "idle" /\ handled'[a] = proc[a].msg.replyTo
      BY <1>0, <1>4, <2>4 DEF SaveState, Ends, At
    <3>2. QED
      BY <1>1, <2>1, <3>1 DEF MayAnswer, At
  <2>5. QED
    BY <1>8, <2>2, <2>3, <2>4
<1>9. ASSUME NEW p \in Process, Crash(p)
      PROVE  Accounted(a, id)'
  BY <1>9, QuietReplies DEF Crash
<1>10. ASSUME NEW p \in Process, AppendNewMessage(p)
       PROVE  Accounted(a, id)'
  BY <1>5, <1>6, <1>10 DEF AppendNewMessage
<1>11. ASSUME NEW p \in Poster, PostMessage(p) \/ AppendNewMessage(p)
       PROVE  Accounted(a, id)'
  BY <1>5, <1>10, <1>11
<1>12. ASSUME NEW b \in Agent, AgentStep(b)
       PROVE  Accounted(a, id)'
  BY <1>7, <1>8, <1>10, <1>12 DEF AgentStep
<1>13. ASSUME NEW c \in Client, StreamStep(c) \/ Disconnect(c)
       PROVE  Accounted(a, id)'
  BY <1>2, <1>13 DEF StreamStep, LoadRecent, Connect, Tick, RenderMessage, Disconnect
<1>14. CASE UNCHANGED vars
  BY <1>2, <1>14 DEF vars
<1>15. QED
  BY <1>9, <1>11, <1>12, <1>13, <1>14 DEF Next

(* handleOnce: for each answer too many that an agent gave to a message, a *)
(* process died.                                                           *)
THEOREM RepliesAlwaysBounded == Spec => []RepliesBounded
<1>1. ReplyInv => RepliesBounded
  <2> SUFFICES ASSUME ReplyInv, NEW a \in Agent, NEW i \in DOMAIN log
               PROVE  Cardinality(Replies(a, Parsed[i].id)) <= 1 + crashes
    BY DEF RepliesBounded
  <2>1. Parsed[i].id \in Nat
    BY LineHeads DEF ReplyInv, LogInv
  <2>2. QED
    BY <2>1 DEF ReplyInv, Accounted, Replied
<1>2. QED
  BY <1>1, ReplyInit, ReplyStep, PTL DEF Spec
=============================================================================
