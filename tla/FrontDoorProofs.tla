-------------------------- MODULE FrontDoorProofs ---------------------------
(***************************************************************************)
(* Proofs about what a request passes, for any number of children,         *)
(* requests, tokens, sessions, settings, restarts and failures.            *)
(***************************************************************************)
EXTENDS FrontDoor, TLAPS

USE RequestsAssumption, SettingsAssumption, FrontDoorAssumption

Client(c) == child[c] # Idle

(* What holds of a child until it ends.  The revocations and the time of   *)
(* its arrival are past, and a request names someone it may name.  Behind  *)
(* the first read its token was issued; behind the second it is good for   *)
(* the route; and only operators' routes are open to a session.            *)
ClientInv(c) ==
  /\ child[c].before \subseteq revoked /\ child[c].at <= clock
  /\ child[c].route = "revoke" => child[c].about \in Token /\ Issued(child[c].about)
  /\ child[c].route = "capabilities" => child[c].about \in Subject
  /\ At(c, "writeSession") => child[c].credential \in Session
  /\ At(c, "checkSession") => child[c].route \in OperatorRoute
  /\ At(c, "findRevocation") => child[c].credential \in Token /\ Issued(child[c].credential)
  /\ At(c, "handle") =>
       \/ child[c].credential \notin Token /\ child[c].route \in OperatorRoute
       \/ LET k == child[c].credential IN
          /\ k \in Token /\ Issued(k) /\ tokens[k].role = RequiredRole(child[c].route)
          /\ k \notin child[c].before /\ child[c].at <= tokens[k].expires

CapsGranted ==
  \A s \in caps : \E k \in Token : Issued(k) /\ tokens[k].role = "agent" /\ tokens[k].subject = s

DoorInv == TypeOK /\ CapsGranted /\ \A c \in Child : Client(c) => ClientInv(c)

LEMMA IdleApart == Idle.pc = "idle" /\ \A r \in ClientState : r.pc # "idle" /\ r # Idle
  BY DEF Idle, ClientState

LEMMA NotIssuedApart ==
  \A r \in [role : Role, subject : Subject, expires : Nat] : r # NotIssued
<1>1. \A r \in [role : Role, subject : Subject, expires : Nat] : r.role # "none"
  BY DEF Role
<1>2. NotIssued.role = "none"
  BY DEF NotIssued
<1>3. QED  BY <1>1, <1>2

(* The settings.                                                           *)
LEMMA OverType ==
  ASSUME NEW S, NEW copy \in [Key -> S], NEW lines \in [Key -> S \cup {Unset}], Unset \notin S
  PROVE  Over(copy, lines) \in [Key -> S]
  BY DEF Over

LEMMA LoadedType ==
  ASSUME SettingsTypeOK, NEW copy \in [Key -> Value]
  PROVE  Loaded(copy) \in [Key -> Value]
<1>1. Over(copy, file) \in [Key -> Value]
  BY OverType DEF SettingsTypeOK
<1>2. Over(Over(copy, file), Env) \in [Key -> Value]
  BY <1>1, OverType
<1>3. QED  BY <1>2 DEF Loaded

LEMMA InitDoor == Init => DoorInv
<1> SUFFICES ASSUME Init PROVE DoorInv
  OBVIOUS
<1>1. SettingsTypeOK
  <2>1. Over(Over(Default, FirstFile), Env) \in [Key -> Value]
    BY OverType
  <2>2. QED
    BY <2>1 DEF Init, SettingsInit, SettingsTypeOK, NoLines
<1>2. QED
  BY <1>1, IdleApart DEF Init, RequestsInit, DoorInv, TypeOK, CapsGranted, Client, Issued, Idle

-----------------------------------------------------------------------------
(* What the steps do to the children.                                      *)

ClientPc == {"load", "postConfig", "writeConfig", "checkSession", "findToken", "findRevocation",
             "handle", "readSession", "createSession", "writeSession"}
ChildType == child \in [Child -> ClientState \cup {Idle}]

LEMMA ClientAt ==
  ASSUME ChildType, NEW c \in Child, NEW pc \in ClientPc, At(c, pc)
  PROVE  child[c] \in ClientState /\ Client(c)
  BY IdleApart DEF ChildType, ClientPc, At, Client

LEMMA GoesKeeps ==
  ASSUME ChildType, NEW c \in Child, child[c] \in ClientState, NEW pc \in ClientPc, Goes(c, pc)
  PROVE  /\ ChildType'
         /\ child'[c] \in ClientState
         /\ child'[c] = [child[c] EXCEPT !.pc = pc]
         /\ child'[c].pc = pc
         /\ child'[c].route = child[c].route
         /\ child'[c].about = child[c].about
         /\ child'[c].credential = child[c].credential
         /\ child'[c].before = child[c].before
         /\ child'[c].at = child[c].at
         /\ \A k \in Child : k # c => child'[k] = child[k]
<1>1. child' = [child EXCEPT ![c] = [child[c] EXCEPT !.pc = pc]]
  BY DEF Goes, ChildType
<1>2. [child[c] EXCEPT !.pc = pc] \in ClientState
  BY DEF ClientState, ClientPc
<1>3. QED
  BY <1>1, <1>2 DEF ChildType, ClientState

LEMMA EndsKeeps ==
  ASSUME ChildType, NEW c \in Child, Ends(c)
  PROVE  /\ ChildType' /\ child'[c] = Idle
         /\ \A k \in Child : k # c => child'[k] = child[k]
  BY DEF ChildType, Ends, Becomes

LEMMA BecomesKeeps ==
  ASSUME ChildType, NEW c \in Child, NEW s \in ClientState, Becomes(c, s)
  PROVE  /\ ChildType' /\ child'[c] = s
         /\ \A k \in Child : k # c => child'[k] = child[k]
  BY DEF ChildType, Becomes

(* Lines are only appended and time only passes; so what holds of a child  *)
(* stays so while others move.                                             *)
Grows ==
  /\ \A k \in Token : Issued(k) => tokens'[k] = tokens[k]
  /\ revoked \subseteq revoked' /\ clock <= clock' /\ clock' \in Nat

LEMMA OthersKeep ==
  ASSUME TypeOK, Grows, NEW k \in Child, child[k] \in ClientState, child'[k] = child[k],
         ClientInv(k)
  PROVE  ClientInv(k)'
<1>1. child[k].at \in Nat /\ clock \in Nat
  BY DEF TypeOK, ClientState
<1>2. \A t \in Token : Issued(t) => Issued(t)' /\ tokens'[t] = tokens[t]
  BY DEF Grows, Issued
<1>3. child'[k].before \subseteq revoked' /\ child'[k].at <= clock'
  BY <1>1 DEF Grows, ClientInv
<1>4. QED
  BY <1>2, <1>3 DEF ClientInv, At

LEMMA CapsKeep ==
  ASSUME CapsGranted, Grows, caps' = caps
  PROVE  CapsGranted'
<1>1. \A t \in Token : Issued(t) => Issued(t)' /\ tokens'[t] = tokens[t]
  BY DEF Grows, Issued
<1>2. QED  BY <1>1 DEF CapsGranted

LEMMA AllKeep ==
  ASSUME DoorInv, TypeOK', Grows, CapsGranted', NEW c \in Child,
         \A k \in Child : k # c => child'[k] = child[k],
         Client(c)' => ClientInv(c)'
  PROVE  DoorInv'
<1>1. ASSUME NEW k \in Child, k # c, Client(k)' PROVE ClientInv(k)'
  <2>1. Client(k) /\ child[k] \in ClientState
    BY <1>1 DEF Client, DoorInv, TypeOK
  <2>2. QED  BY <1>1, <2>1, OthersKeep DEF DoorInv
<1>2. QED  BY <1>1 DEF DoorInv

LEMMA StaysPut == UNCHANGED accessVars => (DoorInv => Grows)
  BY DEF accessVars, Grows, DoorInv, TypeOK

-----------------------------------------------------------------------------
(* Arrivals.                                                               *)

LEMMA ArriveKeeps ==
  ASSUME DoorInv, NEW c \in Child, NEW route \in Route, NEW x \in Credential,
         NEW local \in BOOLEAN, NEW about \in Subject \cup Token \cup {NoCredential},
         NEW posted \in [Key -> Value \cup {Unset}],
         route = "revoke" => about \in Token /\ Issued(about),
         route = "capabilities" => about \in Subject,
         Arrive(c, route, x, local, about, posted), UNCHANGED <<settingsVars, accessVars>>
  PROVE  DoorInv'
<1> DEFINE r == [pc |-> "load", route |-> route, credential |-> x, local |-> local,
                 about |-> about, posted |-> posted, config |-> boot,
                 before |-> revoked, at |-> clock]
<1>1. r \in ClientState
  BY DEF DoorInv, TypeOK, SettingsTypeOK, ClientState
<1>2. /\ ChildType' /\ child'[c] = r
      /\ \A k \in Child : k # c => child'[k] = child[k]
  <2>1. Becomes(c, r) /\ ChildType
    BY DEF Arrive, Accept, DoorInv, TypeOK, ChildType
  <2> HIDE DEF r
  <2>2. QED  BY <1>1, <2>1, BecomesKeeps
<1>3. TypeOK'
  BY <1>2 DEF DoorInv, TypeOK, SettingsTypeOK, ChildType, Arrive, Accept, settingsVars, accessVars, Issued
<1>4. Grows /\ CapsGranted'
  BY StaysPut, CapsKeep DEF DoorInv, accessVars
<1>5. ClientInv(c)'
  <2>1. clock \in Nat  BY DEF DoorInv, TypeOK
  <2>2. QED  BY <1>2, <2>1 DEF ClientInv, At, accessVars, Issued
<1>6. QED
  BY <1>2, <1>3, <1>4, <1>5, AllKeep

LEMMA RequestKeeps ==
  ASSUME DoorInv, NEW c \in Child, Request(c)
  PROVE  DoorInv'
<1>1. Known \subseteq Credential /\ UNCHANGED <<settingsVars, accessVars>>
  BY DEF Known, Credential, DoorInv, TypeOK, Request
<1>2. NoLines \in [Key -> Value \cup {Unset}]
  BY DEF NoLines
<1>3. CASE GetSession(c)
  BY <1>1, <1>2, <1>3, ArriveKeeps DEF GetSession, Route, Credential
<1>4. CASE PostConfig(c)
  <2>1. PICK k \in Postable, v \in Value :
          Arrive(c, "config", NoCredential, TRUE, NoCredential, [NoLines EXCEPT ![k] = v])
    BY <1>4 DEF PostConfig
  <2> DEFINE lines == [NoLines EXCEPT ![k] = v]
  <2>2. lines \in [Key -> Value \cup {Unset}]
    BY <1>2
  <2>3. /\ Arrive(c, "config", NoCredential, TRUE, NoCredential, lines)
        /\ "config" \in Route /\ NoCredential \in Credential
    BY <2>1 DEF Route, Credential
  <2> HIDE DEF lines
  <2>4. QED  BY <1>1, <2>2, <2>3, ArriveKeeps
<1>5. CASE PostIssue(c)
  BY <1>1, <1>2, <1>5, ArriveKeeps DEF PostIssue, Route, OperatorRoute
<1>6. CASE PostRevoke(c)
  BY <1>1, <1>2, <1>6, ArriveKeeps DEF PostRevoke, Route, OperatorRoute
<1>7. CASE PostCapabilities(c)
  BY <1>1, <1>2, <1>7, ArriveKeeps DEF PostCapabilities, Route
<1>8. QED
  BY <1>3, <1>4, <1>5, <1>6, <1>7 DEF Request

-----------------------------------------------------------------------------
(* Who may pass.                                                           *)

LEMMA LoadKeeps ==
  ASSUME DoorInv, NEW c \in Child, Load(c)
  PROVE  DoorInv'
<1> DEFINE r == [child[c] EXCEPT !.pc = Entry(child[c].route), !.config = Loaded(boot)]
<1>1. ChildType /\ child[c] \in ClientState /\ Client(c) /\ At(c, "load")
  BY ClientAt DEF DoorInv, TypeOK, ChildType, Load, LoadSettings, ClientPc
<1>2. Entry(child[c].route) \in ClientPc /\ Entry(child[c].route) \notin {"writeSession", "findRevocation", "handle"}
      /\ (Entry(child[c].route) = "checkSession" => child[c].route \in OperatorRoute)
  BY <1>1 DEF Entry, ClientPc, ClientState, Route, OperatorRoute
<1>3. Loaded(boot) \in [Key -> Value]
  BY LoadedType DEF DoorInv, TypeOK, SettingsTypeOK
<1>4. /\ r \in ClientState /\ r.pc = Entry(child[c].route)
      /\ r.route = child[c].route /\ r.about = child[c].about
      /\ r.before = child[c].before /\ r.at = child[c].at
  BY <1>1, <1>2, <1>3 DEF ClientState, ClientPc
<1>5. /\ ChildType' /\ child'[c] = r
      /\ \A k \in Child : k # c => child'[k] = child[k]
  <2>1. Becomes(c, r)
    BY DEF Load, LoadSettings
  <2> HIDE DEF r
  <2>2. QED  BY <1>1, <1>4, <2>1, BecomesKeeps
<1>6. TypeOK'
  BY <1>5 DEF DoorInv, TypeOK, SettingsTypeOK, ChildType, Load, LoadSettings, Proceeds, accessVars, Issued
<1>7. Grows /\ CapsGranted'
  BY StaysPut, CapsKeep DEF DoorInv, accessVars, Load
<1>8. ClientInv(c)'
  BY <1>1, <1>2, <1>4, <1>5 DEF DoorInv, ClientInv, At, Load, accessVars, Issued
<1>9. QED
  BY <1>5, <1>6, <1>7, <1>8, AllKeep

(* A step that only moves a child on: what is left to show is that the     *)
(* place it reaches is open to it.                                         *)
LEMMA MoveKeeps ==
  ASSUME DoorInv, NEW c \in Child, child[c] \in ClientState, Client(c), Proceeds,
         UNCHANGED <<settingsVars, accessVars>>,
         \/ Ends(c)
         \/ \E pc \in ClientPc : Goes(c, pc) /\ (ChildType' => ClientInv(c)')
  PROVE  DoorInv'
<1>1. ChildType
  BY DEF DoorInv, TypeOK, ChildType
<1>2. ChildType' /\ \A k \in Child : k # c => child'[k] = child[k]
  BY <1>1, EndsKeeps, GoesKeeps
<1>3. TypeOK'
  BY <1>2 DEF DoorInv, TypeOK, SettingsTypeOK, ChildType, Proceeds, settingsVars, accessVars, Issued
<1>4. Grows /\ CapsGranted'
  BY StaysPut, CapsKeep DEF DoorInv, accessVars
<1>5. Client(c)' => ClientInv(c)'
  BY <1>1, <1>2, EndsKeeps DEF Client
<1>6. QED
  BY <1>2, <1>3, <1>4, <1>5, AllKeep

LEMMA CheckSessionKeeps ==
  ASSUME DoorInv, NEW c \in Child, CheckSession(c)
  PROVE  DoorInv'
<1>1. ChildType /\ child[c] \in ClientState /\ Client(c) /\ At(c, "checkSession") /\ ClientInv(c)
  BY ClientAt DEF DoorInv, TypeOK, ChildType, CheckSession, ClientPc
<1>2. child[c].route \in OperatorRoute /\ Proceeds /\ UNCHANGED <<settingsVars, accessVars>>
  BY <1>1 DEF ClientInv, CheckSession
<1>3. CASE session # NoCredential /\ child[c].credential = session
  <2>1. Goes(c, "handle") /\ child[c].credential \notin Token /\ "handle" \in ClientPc
    BY <1>3 DEF CheckSession, Passes, DoorInv, TypeOK, ClientPc
  <2>2. ClientInv(c)'
    BY <1>1, <1>2, <2>1, GoesKeeps DEF ClientInv, At, accessVars, Issued, OperatorRoute
  <2>3. QED  BY <1>1, <1>2, <2>1, <2>2, MoveKeeps
<1>4. CASE ~(session # NoCredential /\ child[c].credential = session)
  <2>1. Goes(c, "findToken") /\ "findToken" \in ClientPc
    BY <1>4 DEF CheckSession, ClientPc
  <2>2. ClientInv(c)'
    BY <1>1, <1>2, <2>1, GoesKeeps DEF ClientInv, At, accessVars, Issued
  <2>3. QED  BY <1>1, <1>2, <2>1, <2>2, MoveKeeps
<1>5. QED  BY <1>3, <1>4

LEMMA FindTokenKeeps ==
  ASSUME DoorInv, NEW c \in Child, FindToken(c)
  PROVE  DoorInv'
<1>1. ChildType /\ child[c] \in ClientState /\ Client(c) /\ At(c, "findToken") /\ ClientInv(c)
  BY ClientAt DEF DoorInv, TypeOK, ChildType, FindToken, ClientPc
<1>2. Proceeds /\ UNCHANGED <<settingsVars, accessVars>>
  BY DEF FindToken
<1>3. CASE IpAllowed(c) /\ child[c].credential \in Token /\ Issued(child[c].credential)
  <2>1. Goes(c, "findRevocation") /\ "findRevocation" \in ClientPc
    BY <1>3 DEF FindToken, ClientPc
  <2>2. ClientInv(c)'
    BY <1>1, <1>2, <1>3, <2>1, GoesKeeps DEF ClientInv, At, accessVars, Issued
  <2>3. QED  BY <1>1, <1>2, <2>1, <2>2, MoveKeeps
<1>4. CASE ~(IpAllowed(c) /\ child[c].credential \in Token /\ Issued(child[c].credential))
  <2>1. Ends(c)  BY <1>4 DEF FindToken
  <2>2. QED  BY <1>1, <1>2, <2>1, MoveKeeps
<1>5. QED  BY <1>3, <1>4

(* The one place where a token is let through: what is not revoked now was *)
(* not revoked at the arrival, and what is not past now was not then.      *)
LEMMA CheckTokenKeeps ==
  ASSUME DoorInv, NEW c \in Child, CheckToken(c)
  PROVE  DoorInv'
<1> DEFINE k == child[c].credential
           ok == k \notin revoked /\ ~Expired(k) /\ tokens[k].role = RequiredRole(child[c].route)
<1>1. ChildType /\ child[c] \in ClientState /\ Client(c) /\ At(c, "findRevocation") /\ ClientInv(c)
  BY ClientAt DEF DoorInv, TypeOK, ChildType, CheckToken, ClientPc
<1>2. Proceeds /\ UNCHANGED <<settingsVars, accessVars>>
  BY DEF CheckToken
<1>3. CASE ok
  <2>1. Goes(c, "handle") /\ "handle" \in ClientPc
    BY <1>3 DEF CheckToken, Passes, ClientPc
  <2>2. k \in Token /\ Issued(k) /\ k \notin child[c].before
    BY <1>1, <1>3 DEF ClientInv
  <2>3. child[c].at <= tokens[k].expires
    <3>1. child[c].at \in Nat /\ clock \in Nat /\ tokens[k].expires \in Nat
      BY <1>1, <2>2 DEF DoorInv, TypeOK, ClientState, Issued
    <3>2. child[c].at <= clock /\ ~(clock > tokens[k].expires)
      BY <1>1, <1>3 DEF ClientInv, Expired
    <3>3. QED  BY <3>1, <3>2
  <2>4. ClientInv(c)'
    BY <1>1, <1>2, <1>3, <2>1, <2>2, <2>3, GoesKeeps DEF ClientInv, At, accessVars, Issued
  <2>5. QED  BY <1>1, <1>2, <2>1, <2>4, MoveKeeps
<1>4. CASE ~ok
  <2>1. Ends(c)  BY <1>4 DEF CheckToken
  <2>2. QED  BY <1>1, <1>2, <2>1, MoveKeeps
<1>5. QED  BY <1>3, <1>4

-----------------------------------------------------------------------------
(* The handlers.                                                           *)

LEMMA EndKeeps ==
  ASSUME DoorInv, NEW c \in Child, Ends(c), TypeOK', Grows, CapsGranted'
  PROVE  DoorInv'
<1>1. /\ child'[c] = Idle
      /\ \A k \in Child : k # c => child'[k] = child[k]
  BY EndsKeeps DEF DoorInv, TypeOK, ChildType
<1>2. ~Client(c)'
  BY <1>1 DEF Client
<1>3. QED
  BY <1>1, <1>2, AllKeep

LEMMA HandleAt ==
  ASSUME DoorInv, NEW c \in Child, NEW route, Handles(c, route)
  PROVE  /\ ChildType' /\ child[c] \in ClientState /\ ClientInv(c) /\ At(c, "handle")
         /\ child[c].route = route /\ Ends(c) /\ Proceeds
  BY ClientAt, EndsKeeps DEF DoorInv, TypeOK, ChildType, Handles, ClientPc

LEMMA IssueKeeps ==
  ASSUME DoorInv, NEW c \in Child, PostAuthToken(c)
  PROVE  DoorInv'
<1>1. ChildType' /\ Ends(c) /\ Proceeds
  BY HandleAt DEF PostAuthToken
<1>2. UNCHANGED <<settingsVars, clock, session, revoked, caps, given, rivals>>
  BY DEF PostAuthToken
<1>3. PICK k \in Token, role \in Role, s \in Subject, ttl \in Ttl :
        /\ ~Issued(k)
        /\ tokens' = [tokens EXCEPT ![k] = [role |-> role, subject |-> s, expires |-> clock + ttl]]
  BY DEF PostAuthToken
<1> DEFINE line == [role |-> role, subject |-> s, expires |-> clock + ttl]
<1>4. line \in [role : Role, subject : Subject, expires : Nat] /\ line # NotIssued
  <2>1. clock + ttl \in Nat  BY DEF DoorInv, TypeOK
  <2>2. QED  BY <2>1, NotIssuedApart
<1>5. tokens' = [tokens EXCEPT ![k] = line] /\ ~Issued(k)
  BY <1>3
<1> HIDE DEF line
<1>6. tokens' \in [Token -> [role : Role, subject : Subject, expires : Nat] \cup {NotIssued}]
  BY <1>4, <1>5 DEF DoorInv, TypeOK
<1>7. \A t \in Token : Issued(t) => Issued(t)' /\ tokens'[t] = tokens[t]
  BY <1>4, <1>5 DEF DoorInv, TypeOK, Issued
<1>8. Grows
  BY <1>2, <1>7 DEF Grows, DoorInv, TypeOK
<1>9. revoked' \subseteq {t \in Token : Issued(t)'}
  BY <1>2, <1>7 DEF DoorInv, TypeOK
<1>10. TypeOK'
  BY <1>1, <1>2, <1>6, <1>9 DEF DoorInv, TypeOK, SettingsTypeOK, ChildType, Proceeds, settingsVars
<1>11. CapsGranted'
  BY <1>2, <1>8, CapsKeep DEF DoorInv
<1>12. QED
  BY <1>1, <1>8, <1>10, <1>11, EndKeeps

LEMMA RevokeKeeps ==
  ASSUME DoorInv, NEW c \in Child, PostAuthTokenRevoke(c)
  PROVE  DoorInv'
<1>1. /\ ChildType' /\ Ends(c) /\ Proceeds
      /\ child[c].about \in Token /\ Issued(child[c].about)
  BY HandleAt DEF PostAuthTokenRevoke, ClientInv
<1>2. /\ revoked' = revoked \cup {child[c].about}
      /\ UNCHANGED <<settingsVars, clock, session, tokens, caps, given, rivals>>
  BY DEF PostAuthTokenRevoke
<1>3. Grows
  BY <1>2 DEF Grows, DoorInv, TypeOK
<1>4. TypeOK'
  BY <1>1, <1>2 DEF DoorInv, TypeOK, SettingsTypeOK, ChildType, Proceeds, settingsVars, Issued
<1>5. CapsGranted'
  BY <1>2, <1>3, CapsKeep DEF DoorInv
<1>6. QED
  BY <1>1, <1>3, <1>4, <1>5, EndKeeps

(* This route is not open to a session: the child has an agent's token.    *)
LEMMA CapabilitiesKeep ==
  ASSUME DoorInv, NEW c \in Child, PostHostCapabilities(c)
  PROVE  DoorInv'
<1> DEFINE k == child[c].credential
<1>1. /\ ChildType' /\ Ends(c) /\ Proceeds /\ child[c].about \in Subject
      /\ k \in Token /\ Issued(k) /\ tokens[k].role = "agent"
  BY HandleAt DEF PostHostCapabilities, ClientInv, OperatorRoute, RequiredRole
<1>2. /\ caps' = IF tokens[k].subject = child[c].about THEN caps \cup {child[c].about} ELSE caps
      /\ UNCHANGED <<settingsVars, clock, session, tokens, revoked, given, rivals>>
  BY DEF PostHostCapabilities
<1>3. Grows
  BY <1>2 DEF Grows, DoorInv, TypeOK
<1>4. TypeOK'
  BY <1>1, <1>2 DEF DoorInv, TypeOK, SettingsTypeOK, ChildType, Proceeds, settingsVars, Issued
<1>5. CapsGranted'
  BY <1>1, <1>2 DEF DoorInv, CapsGranted, Issued
<1>6. QED
  BY <1>1, <1>3, <1>4, <1>5, EndKeeps

-----------------------------------------------------------------------------
(* The operator session.                                                   *)

LEMMA ReadSessionKeeps ==
  ASSUME DoorInv, NEW c \in Child, ReadSession(c)
  PROVE  DoorInv'
<1>1. ChildType /\ child[c] \in ClientState /\ Client(c) /\ At(c, "readSession") /\ ClientInv(c)
  BY ClientAt DEF DoorInv, TypeOK, ChildType, ReadSession, ClientPc
<1>2. Proceeds /\ UNCHANGED <<settingsVars, clock, session, tokens, revoked, caps, rivals>>
  BY DEF ReadSession
<1>3. Grows /\ CapsGranted'
  <2>1. Grows  BY <1>2 DEF Grows, DoorInv, TypeOK
  <2>2. QED  BY <1>2, <2>1, CapsKeep DEF DoorInv
<1>4. CASE session # NoCredential
  <2>1. Ends(c) /\ given' = given \cup {session} /\ ChildType'
    BY <1>1, <1>4, EndsKeeps DEF ReadSession
  <2>2. TypeOK'
    BY <1>2, <1>4, <2>1 DEF DoorInv, TypeOK, SettingsTypeOK, ChildType, Proceeds, settingsVars, Issued
  <2>3. QED  BY <1>3, <2>1, <2>2, EndKeeps
<1>5. CASE session = NoCredential
  <2>1. Goes(c, "createSession") /\ "createSession" \in ClientPc /\ UNCHANGED given
    BY <1>5 DEF ReadSession, ClientPc
  <2>2. ClientInv(c)'
    BY <1>1, <1>2, <2>1, GoesKeeps DEF ClientInv, At, Issued
  <2>3. QED  BY <1>1, <1>2, <2>1, <2>2, MoveKeeps DEF accessVars
<1>6. QED  BY <1>4, <1>5

LEMMA TruncateSessionKeeps ==
  ASSUME DoorInv, NEW c \in Child, TruncateSession(c)
  PROVE  DoorInv'
<1>1. ChildType /\ child[c] \in ClientState /\ Client(c) /\ At(c, "createSession") /\ ClientInv(c)
  BY ClientAt DEF DoorInv, TypeOK, ChildType, TruncateSession, ClientPc
<1>2. /\ Proceeds /\ session' = NoCredential
      /\ UNCHANGED <<settingsVars, clock, tokens, revoked, caps, given, rivals>>
  BY DEF TruncateSession
<1>3. PICK s \in Session :
        Becomes(c, [child[c] EXCEPT !.pc = "writeSession", !.credential = s])
  BY DEF TruncateSession
<1> DEFINE r == [child[c] EXCEPT !.pc = "writeSession", !.credential = s]
<1>4. /\ r \in ClientState /\ r.pc = "writeSession" /\ r.credential = s
      /\ r.route = child[c].route /\ r.about = child[c].about
      /\ r.before = child[c].before /\ r.at = child[c].at
  BY <1>1 DEF ClientState, Credential
<1>5. Becomes(c, r)  BY <1>3
<1> HIDE DEF r
<1>6. /\ ChildType' /\ child'[c] = r
      /\ \A k \in Child : k # c => child'[k] = child[k]
  BY <1>1, <1>4, <1>5, BecomesKeeps
<1>7. TypeOK'
  BY <1>2, <1>6 DEF DoorInv, TypeOK, SettingsTypeOK, ChildType, Proceeds, settingsVars, Issued
<1>8. Grows
  BY <1>2 DEF Grows, DoorInv, TypeOK
<1>9. CapsGranted'
  BY <1>2, <1>8, CapsKeep DEF DoorInv
<1>10. ClientInv(c)'
  BY <1>1, <1>2, <1>4, <1>6 DEF ClientInv, At, Issued
<1>11. QED
  BY <1>6, <1>7, <1>8, <1>9, <1>10, AllKeep

LEMMA WriteSessionKeeps ==
  ASSUME DoorInv, NEW c \in Child, WriteSession(c) \/ WriteSessionFails(c)
  PROVE  DoorInv'
<1>1. ChildType /\ child[c] \in ClientState /\ Client(c) /\ At(c, "writeSession") /\ ClientInv(c)
      /\ Ends(c)
  BY ClientAt DEF DoorInv, TypeOK, ChildType, WriteSession, WriteSessionFails, ClientPc
<1>2. child[c].credential \in Session /\ ChildType'
  BY <1>1, EndsKeeps DEF ClientInv
<1>3. UNCHANGED <<settingsVars, clock, tokens, revoked, caps>>
  BY DEF WriteSession, WriteSessionFails, accessVars
<1>4. /\ session' \in Session \cup {NoCredential} /\ given' \subseteq Session
      /\ rivals' \subseteq Session /\ requests' \in Nat /\ faults' \in Nat
  BY <1>2 DEF WriteSession, WriteSessionFails, accessVars, Proceeds, Fault, DoorInv, TypeOK
<1>5. TypeOK'
  BY <1>2, <1>3, <1>4 DEF DoorInv, TypeOK, SettingsTypeOK, ChildType, settingsVars, Issued
<1>6. Grows
  BY <1>3 DEF Grows, DoorInv, TypeOK
<1>7. CapsGranted'
  BY <1>3, <1>6, CapsKeep DEF DoorInv
<1>8. QED
  BY <1>1, <1>5, <1>6, <1>7, EndKeeps

-----------------------------------------------------------------------------
(* The settings file, the daemon and the clock.                            *)

LEMMA TruncateConfigKeeps ==
  ASSUME DoorInv, NEW c \in Child, TruncateConfig(c), UNCHANGED accessVars
  PROVE  DoorInv'
<1>1. ChildType /\ child[c] \in ClientState /\ Client(c) /\ At(c, "postConfig") /\ ClientInv(c)
  BY ClientAt DEF DoorInv, TypeOK, ChildType, TruncateConfig, ClientPc
<1> DEFINE r == [child[c] EXCEPT !.pc = "writeConfig", !.config = Over(@, child[c].posted)]
<1>2. Over(child[c].config, child[c].posted) \in [Key -> Value]
  BY <1>1, OverType DEF ClientState
<1>3. /\ r \in ClientState /\ r.pc = "writeConfig"
      /\ r.route = child[c].route /\ r.about = child[c].about
      /\ r.before = child[c].before /\ r.at = child[c].at
  BY <1>1, <1>2 DEF ClientState
<1>4. Becomes(c, r)  BY DEF TruncateConfig
<1> HIDE DEF r
<1>5. /\ ChildType' /\ child'[c] = r
      /\ \A k \in Child : k # c => child'[k] = child[k]
  BY <1>1, <1>3, <1>4, BecomesKeeps
<1>6. SettingsTypeOK'
  BY DEF TruncateConfig, NoLines, DoorInv, TypeOK, SettingsTypeOK
<1>7. TypeOK'
  BY <1>5, <1>6 DEF DoorInv, TypeOK, ChildType, TruncateConfig, Proceeds, accessVars, Issued
<1>8. Grows /\ CapsGranted'
  BY StaysPut, CapsKeep DEF DoorInv, accessVars
<1>9. ClientInv(c)'
  BY <1>1, <1>3, <1>5 DEF ClientInv, At, accessVars, Issued
<1>10. QED
  BY <1>5, <1>7, <1>8, <1>9, AllKeep

LEMMA WriteConfigKeeps ==
  ASSUME DoorInv, NEW c \in Child, WriteConfig(c) \/ WriteConfigFails(c), UNCHANGED accessVars
  PROVE  DoorInv'
<1>1. ChildType /\ child[c] \in ClientState /\ Ends(c)
  BY ClientAt DEF DoorInv, TypeOK, ChildType, WriteConfig, WriteConfigFails, Writing, ClientPc
<1>2. ChildType'
  BY <1>1, EndsKeeps
<1>3. file' \in [Key -> Value \cup {Unset}]
  <2>1. CASE WriteConfig(c)
    <3>1. PICK rest \in SUBSET {k \in Key : file[k] # Unset} :
            file' = [k \in Key |-> IF k \in rest THEN file[k] ELSE child[c].config[k]]
      BY <2>1 DEF WriteConfig
    <3>2. child[c].config \in [Key -> Value] /\ file \in [Key -> Value \cup {Unset}]
      BY <1>1 DEF ClientState, DoorInv, TypeOK, SettingsTypeOK
    <3>3. QED  BY <3>1, <3>2
  <2>2. CASE WriteConfigFails(c)
    BY <2>2 DEF WriteConfigFails, DoorInv, TypeOK, SettingsTypeOK
  <2>3. QED  BY <2>1, <2>2
<1>4. acked' \in [Key -> Value \cup {Unset}]
  <2>1. Over(acked, child[c].posted) \in [Key -> Value \cup {Unset}]
    BY <1>1 DEF Over, ClientState, DoorInv, TypeOK, SettingsTypeOK
  <2>2. NoLines \in [Key -> Value \cup {Unset}]
    BY DEF NoLines
  <2>3. QED  BY <2>1, <2>2 DEF WriteConfig, WriteConfigFails
<1>5. SettingsTypeOK'
  BY <1>3, <1>4 DEF WriteConfig, WriteConfigFails, DoorInv, TypeOK, SettingsTypeOK
<1>6. TypeOK'
  BY <1>2, <1>5 DEF DoorInv, TypeOK, ChildType, WriteConfig, WriteConfigFails, Proceeds, Fault,
                    accessVars, Issued
<1>7. Grows /\ CapsGranted'
  BY StaysPut, CapsKeep DEF DoorInv, accessVars
<1>8. QED
  BY <1>1, <1>6, <1>7, EndKeeps

LEMMA RestartKeeps ==
  ASSUME DoorInv, Restart
  PROVE  DoorInv'
<1>1. child' = [c \in Child |-> Idle] /\ UNCHANGED accessVars
  BY DEF Restart
<1>2. boot' \in [Key -> Value]
  BY LoadedType DEF Restart, DoorInv, TypeOK
<1>3. SettingsTypeOK'
  BY <1>2 DEF Restart, NoLines, DoorInv, TypeOK, SettingsTypeOK
<1>4. TypeOK'
  BY <1>1, <1>3 DEF Restart, Fault, accessVars, DoorInv, TypeOK, Issued
<1>5. CapsGranted' /\ \A c \in Child : ~Client(c)'
  BY <1>1, StaysPut, CapsKeep DEF DoorInv, accessVars, Client
<1>6. QED  BY <1>4, <1>5 DEF DoorInv

LEMMA TickKeeps ==
  ASSUME DoorInv, Tick \/ UNCHANGED vars
  PROVE  DoorInv'
<1>1. UNCHANGED <<child, requests, faults, settingsVars, session, tokens, revoked, caps, given, rivals>>
  BY DEF Tick, vars, accessVars
<1>2. clock' \in Nat /\ clock <= clock'
  BY DEF Tick, vars, accessVars, DoorInv, TypeOK
<1>3. TypeOK'
  BY <1>1, <1>2 DEF DoorInv, TypeOK, SettingsTypeOK, settingsVars, Issued
<1>4. Grows
  BY <1>1, <1>2 DEF Grows
<1>5. CapsGranted'
  BY <1>1, <1>4, CapsKeep DEF DoorInv
<1>6. ASSUME NEW c \in Child, Client(c)' PROVE ClientInv(c)'
  BY <1>1, <1>4, <1>6, OthersKeep DEF DoorInv, TypeOK, Client
<1>7. QED  BY <1>3, <1>5, <1>6 DEF DoorInv

LEMMA DoorStep == DoorInv /\ [Next]_vars => DoorInv'
<1> SUFFICES ASSUME DoorInv, [Next]_vars PROVE DoorInv'
  OBVIOUS
<1>1. ASSUME NEW c \in Child, HandleClient(c) PROVE DoorInv'
  BY <1>1, LoadKeeps, CheckSessionKeeps, FindTokenKeeps, CheckTokenKeeps, IssueKeeps,
     RevokeKeeps, CapabilitiesKeep, ReadSessionKeeps, TruncateSessionKeeps, WriteSessionKeeps,
     TruncateConfigKeeps, WriteConfigKeeps DEF HandleClient
<1>2. QED
  BY <1>1, RequestKeeps, RestartKeeps, TickKeeps DEF Next

(* Requests, tokens, sessions and settings keep their types, and only      *)
(* tokens that were issued are revoked.                                    *)
THEOREM DoorTypeCorrect == Spec => []TypeOK
<1>1. DoorInv => TypeOK  BY DEF DoorInv
<1>2. QED  BY <1>1, InitDoor, DoorStep, PTL DEF Spec

(* requireOperatorAuth, validateBearerToken: the two reads of the ledger   *)
(* and the handler are apart, and still nothing that was revoked or        *)
(* expired at the arrival reaches a handler, in every deployment.          *)
THEOREM HandlersGuarded == Spec => []OnlyGranted
<1>1. DoorInv => OnlyGranted
  <2> SUFFICES ASSUME DoorInv PROVE OnlyGranted
    OBVIOUS
  <2>1. ASSUME NEW c \in Child, At(c, "handle"), child[c].credential \in Token
        PROVE  LET k == child[c].credential IN
               /\ tokens[k].role = RequiredRole(child[c].route)
               /\ k \notin child[c].before /\ child[c].at <= tokens[k].expires
    <3>1. Client(c)
      BY <2>1, ClientAt DEF DoorInv, TypeOK, ChildType, ClientPc
    <3>2. QED
      BY <2>1, <3>1 DEF DoorInv, ClientInv
  <2>2. QED
    BY <2>1 DEF OnlyGranted, DoorInv, CapsGranted
<1>2. QED  BY <1>1, InitDoor, DoorStep, PTL DEF Spec

-----------------------------------------------------------------------------
(* Sessions.  While a child creates a session, every session that a page   *)
(* holds, and the one in the file, has a rival.                            *)

SessionInv ==
  /\ PagesShareSession
  /\ (\E c \in Child : Creating(c)) =>
       given \subseteq rivals /\ (session # NoCredential => session \in rivals)

LEMMA QuietForSessions ==
  ASSUME SessionInv, UNCHANGED <<session, given, rivals>>,
         \A c \in Child : Creating(c)' => Creating(c)
  PROVE  SessionInv'
  BY DEF SessionInv, PagesShareSession

(* A child that leaves a place for another where it creates nothing.       *)
LEMMA ElsewhereQuiet ==
  ASSUME SessionInv, UNCHANGED <<session, given, rivals>>, NEW c \in Child,
         \A k \in Child : k # c => child'[k] = child[k],
         ~Creating(c)'
  PROVE  SessionInv'
<1>1. \A k \in Child : Creating(k)' => Creating(k)
  BY DEF Creating
<1>2. QED  BY <1>1, QuietForSessions

LEMMA EndsQuiet ==
  ASSUME DoorInv, SessionInv, UNCHANGED <<session, given, rivals>>, NEW c \in Child, Ends(c)
  PROVE  SessionInv'
<1>1. child'[c] = Idle /\ \A k \in Child : k # c => child'[k] = child[k]
  BY EndsKeeps DEF DoorInv, TypeOK, ChildType
<1>2. ~Creating(c)'
  BY <1>1 DEF Creating, Idle
<1>3. QED  BY <1>1, <1>2, ElsewhereQuiet

LEMMA GoesQuiet ==
  ASSUME DoorInv, SessionInv, UNCHANGED <<session, given, rivals>>, NEW c \in Child,
         child[c] \in ClientState, NEW pc \in ClientPc \ {"createSession", "writeSession"}, Goes(c, pc)
  PROVE  SessionInv'
<1>1. child'[c].pc = pc /\ \A k \in Child : k # c => child'[k] = child[k]
  BY GoesKeeps DEF DoorInv, TypeOK, ChildType
<1>2. QED  BY <1>1, ElsewhereQuiet DEF Creating

LEMMA RequestQuiet ==
  ASSUME DoorInv, SessionInv, NEW c \in Child, Request(c)
  PROVE  SessionInv'
<1>1. UNCHANGED <<session, given, rivals>>
  BY DEF Request, accessVars
<1>2. \E route, x, local, about, posted : Arrive(c, route, x, local, about, posted)
  BY DEF Request, GetSession, PostConfig, PostIssue, PostRevoke, PostCapabilities
<1>3. PICK route, x, local, about, posted : Arrive(c, route, x, local, about, posted)
  BY <1>2
<1>4. child'[c].pc = "load" /\ \A k \in Child : k # c => child'[k] = child[k]
  BY <1>3 DEF Arrive, Accept, Becomes, DoorInv, TypeOK
<1>5. QED  BY <1>1, <1>4, ElsewhereQuiet DEF Creating

LEMMA LoadQuiet ==
  ASSUME DoorInv, SessionInv, NEW c \in Child, Load(c)
  PROVE  SessionInv'
<1>1. child[c] \in ClientState
  BY ClientAt DEF DoorInv, TypeOK, ChildType, Load, LoadSettings, ClientPc
<1>2. child'[c].pc = Entry(child[c].route) /\ \A k \in Child : k # c => child'[k] = child[k]
  BY <1>1 DEF Load, LoadSettings, Becomes, DoorInv, TypeOK, ClientState
<1>3. ~Creating(c)'
  BY <1>1, <1>2 DEF Creating, Entry, ClientState, Route, OperatorRoute
<1>4. QED  BY <1>2, <1>3, ElsewhereQuiet DEF Load, accessVars

LEMMA CheckQuiet ==
  ASSUME DoorInv, SessionInv, NEW c \in Child, CheckSession(c) \/ FindToken(c) \/ CheckToken(c)
  PROVE  SessionInv'
<1>1. child[c] \in ClientState
  BY ClientAt DEF DoorInv, TypeOK, ChildType, CheckSession, FindToken, CheckToken, ClientPc
<1>2. UNCHANGED <<session, given, rivals>>
  BY DEF CheckSession, FindToken, CheckToken, accessVars
<1>3. \/ Ends(c)
      \/ \E pc \in ClientPc \ {"createSession", "writeSession"} : Goes(c, pc)
  BY DEF CheckSession, FindToken, CheckToken, Passes, ClientPc
<1>4. QED  BY <1>1, <1>2, <1>3, EndsQuiet, GoesQuiet

LEMMA HandlerQuiet ==
  ASSUME DoorInv, SessionInv, NEW c \in Child,
         PostAuthToken(c) \/ PostAuthTokenRevoke(c) \/ PostHostCapabilities(c)
  PROVE  SessionInv'
  BY EndsQuiet DEF PostAuthToken, PostAuthTokenRevoke, PostHostCapabilities, Handles

LEMMA ConfigQuiet ==
  ASSUME DoorInv, SessionInv, NEW c \in Child, UNCHANGED accessVars,
         TruncateConfig(c) \/ WriteConfig(c) \/ WriteConfigFails(c)
  PROVE  SessionInv'
<1>1. CASE TruncateConfig(c)
  <2>1. child[c] \in ClientState
    BY <1>1, ClientAt DEF DoorInv, TypeOK, ChildType, TruncateConfig, ClientPc
  <2>2. child'[c].pc = "writeConfig" /\ \A k \in Child : k # c => child'[k] = child[k]
    BY <1>1, <2>1 DEF TruncateConfig, Becomes, DoorInv, TypeOK, ClientState
  <2>3. QED  BY <2>2, ElsewhereQuiet DEF Creating, accessVars
<1>2. CASE WriteConfig(c) \/ WriteConfigFails(c)
  BY <1>2, EndsQuiet DEF WriteConfig, WriteConfigFails, accessVars
<1>3. QED  BY <1>1, <1>2

(* A child creates a session only when the file has none: by the property  *)
(* itself every page then holds one that has a rival.                      *)
LEMMA ReadSessionShares ==
  ASSUME DoorInv, SessionInv, NEW c \in Child, ReadSession(c)
  PROVE  SessionInv'
<1>1. child[c] \in ClientState /\ UNCHANGED <<session, rivals>>
  BY ClientAt DEF DoorInv, TypeOK, ChildType, ReadSession, ClientPc
<1>2. CASE session # NoCredential
  <2>1. Ends(c) /\ given' = given \cup {session}
    BY <1>2 DEF ReadSession
  <2>2. child'[c] = Idle /\ \A k \in Child : k # c => child'[k] = child[k]
    BY <2>1, EndsKeeps DEF DoorInv, TypeOK, ChildType
  <2>3. \A k \in Child : Creating(k)' => Creating(k)
    BY <2>2 DEF Creating, Idle
  <2>4. QED
    BY <1>1, <1>2, <2>1, <2>3 DEF SessionInv, PagesShareSession
<1>3. CASE session = NoCredential
  <2>1. UNCHANGED given /\ given \subseteq rivals
    BY <1>3 DEF ReadSession, SessionInv, PagesShareSession, DoorInv, TypeOK
  <2>2. QED
    BY <1>1, <1>3, <2>1 DEF SessionInv, PagesShareSession
<1>4. QED  BY <1>2, <1>3

LEMMA TruncateSessionShares ==
  ASSUME DoorInv, SessionInv, NEW c \in Child, TruncateSession(c)
  PROVE  SessionInv'
<1>1. Creating(c) /\ session' = NoCredential /\ UNCHANGED <<given, rivals>>
  BY DEF TruncateSession, At, Creating
<1>2. QED
  BY <1>1 DEF SessionInv, PagesShareSession

LEMMA WriteSessionShares ==
  ASSUME DoorInv, SessionInv, NEW c \in Child, WriteSession(c)
  PROVE  SessionInv'
<1> DEFINE s == child[c].credential
<1>1. given \subseteq rivals
  BY DEF WriteSession, At, Creating, SessionInv
<1>2. child'[c] = Idle /\ \A k \in Child : k # c => child'[k] = child[k]
  BY EndsKeeps DEF WriteSession, DoorInv, TypeOK, ChildType
<1>3. session' = s /\ given' = given \cup {s}
  BY DEF WriteSession
<1>4. CASE \E k \in Child \ {c} : Creating(k)
  <2>1. rivals' = rivals \cup {s}
    BY <1>4 DEF WriteSession
  <2>2. QED
    BY <1>1, <1>3, <2>1 DEF SessionInv, PagesShareSession
<1>5. CASE ~\E k \in Child \ {c} : Creating(k)
  <2>1. ~\E k \in Child : Creating(k)'
    BY <1>2, <1>5 DEF Creating, Idle
  <2>2. rivals' = rivals
    BY <1>5 DEF WriteSession
  <2>3. QED
    BY <1>1, <1>3, <2>1, <2>2 DEF SessionInv, PagesShareSession
<1>6. QED  BY <1>4, <1>5

LEMMA SessionStep == DoorInv /\ SessionInv /\ [Next]_vars => SessionInv'
<1> SUFFICES ASSUME DoorInv, SessionInv, [Next]_vars PROVE SessionInv'
  OBVIOUS
<1>1. ASSUME NEW c \in Child, HandleClient(c) PROVE SessionInv'
  <2>1. CASE WriteSessionFails(c)
    BY <2>1, EndsQuiet DEF WriteSessionFails, accessVars
  <2>2. QED
    BY <1>1, <2>1, LoadQuiet, CheckQuiet, HandlerQuiet, ConfigQuiet, ReadSessionShares,
       TruncateSessionShares, WriteSessionShares DEF HandleClient
<1>2. CASE Restart
  <2>1. \A c \in Child : ~Creating(c)'
    BY <1>2 DEF Restart, Creating, Idle
  <2>2. QED  BY <1>2, <2>1, QuietForSessions DEF Restart, accessVars
<1>3. CASE Tick \/ UNCHANGED vars
  BY <1>3, QuietForSessions DEF Tick, vars, accessVars, Creating
<1>4. QED
  BY <1>1, <1>2, <1>3, RequestQuiet DEF Next

(* ensureOperatorSession: pages come to hold different sessions only by    *)
(* two children that both found none, however many restart or die.         *)
THEOREM PagesAlwaysShare == Spec => []PagesShareSession
<1>1. Init => SessionInv
  BY DEF Init, RequestsInit, SessionInv, PagesShareSession, Creating, Idle
<1>2. SessionInv => PagesShareSession
  BY DEF SessionInv
<1>3. QED
  BY <1>1, <1>2, InitDoor, DoorStep, SessionStep, PTL DEF Spec

-----------------------------------------------------------------------------
(* Acknowledged settings stand.  A child that posts settings and is not    *)
(* late had the file for itself since it read it.  So what it is about to  *)
(* write keeps what was acknowledged before, and nothing else is in the    *)
(* file when it writes.                                                    *)

Posting(c) == At(c, "postConfig") \/ Writing(c)
Stands(k) == acked[k] # Unset /\ Env[k] = Unset

FileHolds ==
  (\A c \in Child : ~Writing(c)) => \A k \in Key : Stands(k) => file[k] = acked[k]

OnTime(c) ==
  Posting(c) /\ c \notin late =>
    /\ \A d \in Child \ {c} : ~Writing(d)
    /\ At(c, "postConfig") => \A k \in Key : Stands(k) => child[c].config[k] = acked[k]
    /\ Writing(c) =>
         /\ file = NoLines
         /\ \A k \in Key :
              /\ child[c].posted[k] # Unset => child[c].config[k] = child[c].posted[k]
              /\ child[c].posted[k] = Unset /\ Stands(k) => child[c].config[k] = acked[k]

SettingsInv == FileHolds /\ \A c \in Child : OnTime(c)

(* A step of a child that posts no settings, before and after.             *)
LEMMA QuietForSettings ==
  ASSUME SettingsInv, UNCHANGED <<file, acked, late>>,
         \A c \in Child : Writing(c) => Writing(c)',
         \A c \in Child : Posting(c)' => child'[c] = child[c]
  PROVE  SettingsInv'
<1>1. \A c \in Child : Posting(c)' => Posting(c) /\ (Writing(c)' <=> Writing(c))
                                      /\ (At(c, "postConfig")' <=> At(c, "postConfig"))
  BY DEF Posting, Writing, At
<1>2. \A c \in Child : Writing(c)' <=> Writing(c)
  BY <1>1 DEF Posting
<1>3. FileHolds'
  BY <1>2 DEF SettingsInv, FileHolds, Stands
<1>4. ASSUME NEW c \in Child PROVE OnTime(c)'
  BY <1>1, <1>2 DEF SettingsInv, OnTime, Stands
<1>5. QED  BY <1>3, <1>4 DEF SettingsInv

LEMMA OneMoves ==
  ASSUME SettingsInv, UNCHANGED <<file, acked, late>>, NEW c \in Child,
         \A d \in Child : d # c => child'[d] = child[d],
         ~Posting(c)', ~Writing(c)
  PROVE  SettingsInv'
<1>1. \A d \in Child : Writing(d) => Writing(d)'
  BY DEF Writing, At
<1>2. \A d \in Child : Posting(d)' => child'[d] = child[d]
  OBVIOUS
<1>3. QED  BY <1>1, <1>2, QuietForSettings

LEMMA EndingMoves ==
  ASSUME DoorInv, SettingsInv, UNCHANGED <<file, acked, late>>, NEW c \in Child, Ends(c), ~Writing(c)
  PROVE  SettingsInv'
<1>1. child'[c] = Idle /\ \A d \in Child : d # c => child'[d] = child[d]
  BY EndsKeeps DEF DoorInv, TypeOK, ChildType
<1>2. ~Posting(c)'
  BY <1>1 DEF Posting, Writing, At, Idle
<1>3. QED  BY <1>1, <1>2, OneMoves

LEMMA GoingMoves ==
  ASSUME DoorInv, SettingsInv, UNCHANGED <<file, acked, late>>, NEW c \in Child,
         child[c] \in ClientState, NEW pc \in ClientPc \ {"postConfig", "writeConfig"}, Goes(c, pc), ~Writing(c)
  PROVE  SettingsInv'
<1>1. child'[c].pc = pc /\ \A d \in Child : d # c => child'[d] = child[d]
  BY GoesKeeps DEF DoorInv, TypeOK, ChildType
<1>2. QED  BY <1>1, OneMoves DEF Posting, Writing, At

LEMMA RequestMoves ==
  ASSUME DoorInv, SettingsInv, NEW c \in Child, Request(c)
  PROVE  SettingsInv'
<1>1. UNCHANGED <<file, acked, late>>
  BY DEF Request, settingsVars
<1>2. \E route, x, local, about, posted : Arrive(c, route, x, local, about, posted)
  BY DEF Request, GetSession, PostConfig, PostIssue, PostRevoke, PostCapabilities
<1>3. PICK route, x, local, about, posted : Arrive(c, route, x, local, about, posted)
  BY <1>2
<1>4. /\ child'[c].pc = "load" /\ \A d \in Child : d # c => child'[d] = child[d]
      /\ child[c].pc = "idle"
  BY <1>3 DEF Arrive, Accept, Becomes, At, DoorInv, TypeOK
<1>5. QED  BY <1>1, <1>4, OneMoves DEF Posting, Writing, At

(* A child reads the file.  If no child is writing, the file holds what    *)
(* was acknowledged; if one is, the child is late.                         *)
LEMMA LoadReads ==
  ASSUME DoorInv, SettingsInv, NEW c \in Child, Load(c)
  PROVE  SettingsInv'
<1>1. child[c] \in ClientState /\ At(c, "load")
  BY ClientAt DEF DoorInv, TypeOK, ChildType, Load, LoadSettings, ClientPc
<1>2. /\ child'[c].pc = Entry(child[c].route) /\ child'[c].config = Loaded(boot)
      /\ \A d \in Child : d # c => child'[d] = child[d]
  BY <1>1 DEF Load, LoadSettings, Becomes, DoorInv, TypeOK, ClientState
<1>3. UNCHANGED <<file, acked>> /\ child'[c].pc # "writeConfig" /\ child[c].pc # "writeConfig"
  BY <1>1, <1>2 DEF Load, LoadSettings, Entry, At, ClientState, Route, OperatorRoute
<1>4. late' = IF \E d \in Child : Writing(d) THEN late \cup {c} ELSE late \ {c}
  BY DEF Load, LoadSettings
<1>5. \A d \in Child : Writing(d)' <=> Writing(d)
  BY <1>2, <1>3 DEF Writing, At
<1>6. FileHolds'
  BY <1>3, <1>5 DEF SettingsInv, FileHolds, Stands
<1>7. ASSUME NEW d \in Child, d # c PROVE OnTime(d)'
  <2>1. (d \in late' <=> d \in late) /\ child'[d] = child[d]
    BY <1>2, <1>4, <1>7
  <2>2. QED
    BY <1>3, <1>5, <2>1 DEF SettingsInv, OnTime, Posting, At, Stands
<1>8. OnTime(c)'
  <2> SUFFICES ASSUME Posting(c)', c \notin late' PROVE OnTime(c)!2'
    BY DEF OnTime
  <2>1. \A d \in Child : ~Writing(d)
    BY <1>4
  <2>2. ASSUME NEW k \in Key, Stands(k) PROVE Loaded(boot)[k] = acked[k]
    BY <2>1, <2>2 DEF SettingsInv, FileHolds, Stands, Loaded, Over
  <2>3. ~Writing(c)' /\ \A k \in Key : Stands(k)' <=> Stands(k)
    BY <1>3, <1>5, <2>1 DEF Stands
  <2>4. QED
    BY <1>2, <1>3, <1>5, <2>1, <2>2, <2>3
<1>9. QED  BY <1>6, <1>7, <1>8 DEF SettingsInv

(* The file is emptied.  Whoever else is posting becomes late; the child   *)
(* itself is late if another was already writing.                          *)
LEMMA TruncateEmpties ==
  ASSUME DoorInv, SettingsInv, NEW c \in Child, TruncateConfig(c)
  PROVE  SettingsInv'
<1> DEFINE posting == {d \in Child \ {c} : At(d, "postConfig") \/ Writing(d)}
<1>1. child[c] \in ClientState /\ At(c, "postConfig")
  BY ClientAt DEF DoorInv, TypeOK, ChildType, TruncateConfig, ClientPc
<1>2. /\ child'[c].pc = "writeConfig" /\ child'[c].posted = child[c].posted
      /\ child'[c].config = Over(child[c].config, child[c].posted)
      /\ \A d \in Child : d # c => child'[d] = child[d]
  BY <1>1 DEF TruncateConfig, Becomes, DoorInv, TypeOK, ClientState
<1>3. file' = NoLines /\ acked' = acked
  BY DEF TruncateConfig
<1>4. late' = late \cup posting \cup {k \in {c} : \E o \in posting : Writing(o)}
  BY DEF TruncateConfig
<1>5. Writing(c)' /\ ~At(c, "postConfig")' /\ \A d \in Child : d # c => (Posting(d)' <=> Posting(d))
  BY <1>2 DEF Writing, Posting, At
<1>6. FileHolds'
  BY <1>5 DEF FileHolds
<1>7. ASSUME NEW d \in Child, d # c PROVE OnTime(d)'
  <2>1. Posting(d)' => d \in late'
    BY <1>4, <1>5, <1>7 DEF Posting
  <2>2. QED  BY <2>1 DEF OnTime
<1>8. OnTime(c)'
  <2> SUFFICES ASSUME c \notin late' PROVE OnTime(c)'
    BY DEF OnTime
  <2>1. c \notin late /\ \A d \in Child \ {c} : ~Writing(d)
    BY <1>4
  <2>2. \A d \in Child \ {c} : ~Writing(d)'
    BY <1>2, <2>1 DEF Writing, At
  <2>3. \A k \in Key : Stands(k) => child[c].config[k] = acked[k]
    BY <1>1, <2>1 DEF SettingsInv, OnTime, Posting
  <2>4. \A k \in Key :
          /\ child[c].posted[k] # Unset => child'[c].config[k] = child[c].posted[k]
          /\ child[c].posted[k] = Unset => child'[c].config[k] = child[c].config[k]
    BY <1>2 DEF Over
  <2>5. ASSUME NEW k \in Key
        PROVE  /\ child'[c].posted[k] # Unset => child'[c].config[k] = child'[c].posted[k]
               /\ child'[c].posted[k] = Unset /\ Stands(k)' => child'[c].config[k] = acked'[k]
    <3>1. Stands(k)' => Stands(k)
      BY <1>3 DEF Stands
    <3>2. child[c].posted[k] # Unset => child'[c].config[k] = child[c].posted[k]
      BY <2>4
    <3>3. ASSUME child[c].posted[k] = Unset, Stands(k)' PROVE child'[c].config[k] = acked[k]
      <4>1. child[c].config[k] = acked[k]
        BY <2>3, <3>1, <3>3
      <4>2. child'[c].config[k] = child[c].config[k]
        BY <2>4, <3>3
      <4>3. QED  BY <4>1, <4>2
    <3>4. child'[c].posted[k] = child[c].posted[k] /\ acked'[k] = acked[k]
      BY <1>2, <1>3
    <3>5. QED  BY <3>2, <3>3, <3>4
  <2>6. OnTime(c)!2'
    BY <1>3, <1>5, <2>2, <2>5
  <2>7. QED  BY <2>6 DEF OnTime
<1>9. QED  BY <1>6, <1>7, <1>8 DEF SettingsInv

(* The lines are written.  A late child's answer acknowledges nothing that *)
(* can be relied on; any other wrote to an empty file.                     *)
LEMMA WriteFills ==
  ASSUME DoorInv, SettingsInv, NEW c \in Child, WriteConfig(c)
  PROVE  SettingsInv'
<1>1. child[c] \in ClientState /\ Writing(c) /\ Ends(c) /\ late' = late
  BY ClientAt DEF DoorInv, TypeOK, ChildType, WriteConfig, Writing, ClientPc
<1>2. child'[c] = Idle /\ \A d \in Child : d # c => child'[d] = child[d]
  BY <1>1, EndsKeeps DEF DoorInv, TypeOK, ChildType
<1>3. ~Posting(c)' /\ \A d \in Child : d # c => (Writing(d)' <=> Writing(d)) /\ (Posting(d)' <=> Posting(d))
  BY <1>2 DEF Posting, Writing, At, Idle
<1>4. \A d \in Child : d # c /\ Posting(d) => d \in late
  BY <1>1 DEF SettingsInv, OnTime
<1>5. \A d \in Child : OnTime(d)'
  BY <1>1, <1>3, <1>4 DEF OnTime
<1>6. CASE c \in late
  <2>1. \A k \in Key : ~Stands(k)'
    BY <1>6 DEF WriteConfig, NoLines, Stands
  <2>2. QED  BY <1>5, <2>1 DEF SettingsInv, FileHolds
<1>7. CASE c \notin late
  <2>1. acked' = Over(acked, child[c].posted)
    BY <1>7 DEF WriteConfig
  <2>2. file = NoLines
    BY <1>1, <1>7 DEF SettingsInv, OnTime, Posting
  <2>3. PICK rest \in SUBSET {k \in Key : file[k] # Unset} :
          file' = [k \in Key |-> IF k \in rest THEN file[k] ELSE child[c].config[k]]
    BY DEF WriteConfig
  <2>4. \A k \in Key : file'[k] = child[c].config[k]
    BY <2>2, <2>3 DEF NoLines
  <2>5. ASSUME NEW k \in Key, Stands(k)' PROVE file'[k] = acked'[k]
    <3>1. acked'[k] = IF child[c].posted[k] # Unset THEN child[c].posted[k] ELSE acked[k]
      BY <2>1 DEF Over
    <3>2. CASE child[c].posted[k] # Unset
      BY <1>1, <1>7, <2>4, <3>1, <3>2 DEF SettingsInv, OnTime, Posting
    <3>3. CASE child[c].posted[k] = Unset
      <4>1. Stands(k)
        BY <2>5, <3>1, <3>3 DEF Stands
      <4>2. QED
        BY <1>1, <1>7, <2>4, <3>1, <3>3, <4>1 DEF SettingsInv, OnTime, Posting
    <3>4. QED  BY <3>2, <3>3
  <2>6. QED  BY <1>5, <2>5 DEF SettingsInv, FileHolds
<1>8. QED  BY <1>6, <1>7

LEMMA WriteBreaks ==
  ASSUME DoorInv, SettingsInv, NEW c \in Child, WriteConfigFails(c)
  PROVE  SettingsInv'
<1>1. Writing(c) /\ acked' = NoLines /\ UNCHANGED <<file, late>>
  BY DEF WriteConfigFails
<1>2. child'[c] = Idle /\ \A d \in Child : d # c => child'[d] = child[d]
  BY EndsKeeps DEF WriteConfigFails, DoorInv, TypeOK, ChildType
<1>3. ~Posting(c)' /\ \A d \in Child : d # c => (Posting(d)' <=> Posting(d))
  BY <1>2 DEF Posting, Writing, At, Idle
<1>4. \A d \in Child : d # c /\ Posting(d) => d \in late
  BY <1>1 DEF SettingsInv, OnTime
<1>5. \A k \in Key : ~Stands(k)'
  BY <1>1 DEF NoLines, Stands
<1>6. QED
  BY <1>1, <1>3, <1>4, <1>5 DEF SettingsInv, FileHolds, OnTime

LEMMA RestartMoves ==
  ASSUME DoorInv, SettingsInv, Restart
  PROVE  SettingsInv'
<1>1. \A c \in Child : ~Posting(c)' /\ ~Writing(c)'
  BY DEF Restart, Posting, Writing, At, Idle
<1>2. UNCHANGED file /\ acked' = IF \E c \in Child : Writing(c) THEN NoLines ELSE acked
  BY DEF Restart
<1>3. FileHolds'
  <2>1. CASE \E c \in Child : Writing(c)
    BY <1>2, <2>1 DEF FileHolds, Stands, NoLines
  <2>2. CASE ~\E c \in Child : Writing(c)
    BY <1>2, <2>2 DEF SettingsInv, FileHolds, Stands
  <2>3. QED  BY <2>1, <2>2
<1>4. QED  BY <1>1, <1>3 DEF SettingsInv, OnTime

(* The steps that have nothing to do with settings.                        *)
LEMMA OtherMoves ==
  ASSUME DoorInv, SettingsInv, NEW c \in Child,
         \/ CheckSession(c) \/ FindToken(c) \/ CheckToken(c)
         \/ PostAuthToken(c) \/ PostAuthTokenRevoke(c) \/ PostHostCapabilities(c)
         \/ ReadSession(c) \/ TruncateSession(c) \/ WriteSession(c) \/ WriteSessionFails(c)
  PROVE  SettingsInv'
<1>1. child[c] \in ClientState
  BY ClientAt DEF DoorInv, TypeOK, ChildType, ClientPc, CheckSession, FindToken, CheckToken,
     PostAuthToken, PostAuthTokenRevoke, PostHostCapabilities, Handles, ReadSession,
     TruncateSession, WriteSession, WriteSessionFails
<1>2. UNCHANGED <<file, acked, late>>
  BY DEF settingsVars, CheckSession, FindToken, CheckToken, PostAuthToken, PostAuthTokenRevoke,
     PostHostCapabilities, ReadSession, TruncateSession, WriteSession, WriteSessionFails
<1>3. ~Writing(c)
  BY DEF Writing, At, CheckSession, FindToken, CheckToken, PostAuthToken, PostAuthTokenRevoke,
     PostHostCapabilities, Handles, ReadSession, TruncateSession, WriteSession, WriteSessionFails
<1>4. CASE TruncateSession(c)
  <2>1. PICK s \in Session : Becomes(c, [child[c] EXCEPT !.pc = "writeSession", !.credential = s])
    BY <1>4 DEF TruncateSession
  <2>2. child'[c].pc = "writeSession" /\ \A d \in Child : d # c => child'[d] = child[d]
    BY <1>1, <2>1 DEF Becomes, DoorInv, TypeOK, ClientState
  <2>3. QED
    BY <1>2, <1>3, <2>2, OneMoves DEF Posting, Writing, At
<1>5. CASE ~TruncateSession(c)
  <2>1. \/ Ends(c)
        \/ \E pc \in ClientPc \ {"postConfig", "writeConfig"} : Goes(c, pc)
    BY <1>5 DEF ClientPc, Passes, CheckSession, FindToken, CheckToken, PostAuthToken,
       PostAuthTokenRevoke, PostHostCapabilities, Handles, ReadSession, WriteSession, WriteSessionFails
  <2>2. QED
    BY <1>1, <1>2, <1>3, <2>1, EndingMoves, GoingMoves
<1>6. QED  BY <1>4, <1>5

LEMMA SettingsStep == DoorInv /\ SettingsInv /\ [Next]_vars => SettingsInv'
<1> SUFFICES ASSUME DoorInv, SettingsInv, [Next]_vars PROVE SettingsInv'
  OBVIOUS
<1>1. ASSUME NEW c \in Child, HandleClient(c) PROVE SettingsInv'
  BY <1>1, LoadReads, OtherMoves, TruncateEmpties, WriteFills, WriteBreaks DEF HandleClient
<1>2. CASE Tick \/ UNCHANGED vars
  BY <1>2, QuietForSettings DEF Tick, vars, settingsVars, Writing, At
<1>3. QED
  BY <1>1, <1>2, RequestMoves, RestartMoves DEF Next

(* handlePostConfig and wtConfigLoadFile: what a POST acknowledged is what *)
(* later requests read, for any number of keys, posts and restarts, unless *)
(* posts overlapped or a write broke off.                                  *)
THEOREM SettingsStand == Spec => []AckedSettingsStand
<1>1. Init => SettingsInv
  BY DEF Init, SettingsInit, RequestsInit, SettingsInv, FileHolds, OnTime, Stands, Posting, Writing,
     At, Idle, NoLines
<1>2. SettingsInv => AckedSettingsStand
  BY DEF SettingsInv, FileHolds, Stands, AckedSettingsStand, Loaded, Over
<1>3. QED
  BY <1>1, <1>2, InitDoor, DoorStep, SettingsStep, PTL DEF Spec
=============================================================================
