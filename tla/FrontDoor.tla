----------------------------- MODULE FrontDoor ------------------------------
(***************************************************************************)
(* What a request passes before its handler, and the handlers that decide  *)
(* what later requests pass: handleClient of src/wt_roomd.c with           *)
(* requireOperatorAuth and validateBearerToken, the operator session, the  *)
(* tokens, the capabilities of hosts, and the configuration (Settings).    *)
(*                                                                         *)
(* A credential is what an earlier answer handed out: the session of a     *)
(* page or a token.  Tokens are random and are not made twice.             *)
(***************************************************************************)
EXTENDS Settings

CONSTANTS
  Session, Token, NoCredential,
  Subject,     \* hosts and agents
  Ttl,         \* lifetimes that operators ask for
  MaxClock,    \* bound: time
  AllowIps,    \* the key remoteAllowedIps
  AnyIp        \* its value that admits every peer

ASSUME FrontDoorAssumption ==
  /\ Session \cap Token = {} /\ NoCredential \notin Session \cup Token
  /\ Ttl \subseteq Nat \ {0} /\ MaxClock \in Nat
  /\ AllowIps \in Key \ Postable /\ AnyIp \in Value

Role == {"operator", "agent"}
Credential == Session \cup Token \cup {NoCredential}

VARIABLES
  clock,
  session,   \* the token in the file of the operator session, if any
  tokens,    \* the issue line of a token
  revoked,   \* the tokens with a revoke line
  caps       \* hosts and agents with a capabilities line

(* History.                                                                *)
VARIABLES
  given,     \* sessions that a page was given
  rivals     \* sessions created while another one was

accessVars == <<clock, session, tokens, revoked, caps, given, rivals>>
vars == <<child, requests, faults, settingsVars, accessVars>>

NotIssued == [role |-> "none"]

Init ==
  /\ RequestsInit /\ SettingsInit
  /\ clock = 0 /\ session = NoCredential
  /\ tokens = [k \in Token |-> NotIssued] /\ revoked = {} /\ caps = {}
  /\ given = {} /\ rivals = {}

-----------------------------------------------------------------------------
(* Requests.                                                               *)

Issued(k) == tokens[k] # NotIssued
Known == given \cup {k \in Token : Issued(k)} \cup {NoCredential}
OperatorRoute == {"issue", "revoke"}
Route == OperatorRoute \cup {"capabilities", "session", "config"}

(* The record of a child holds, for the properties, which tokens were      *)
(* revoked when the request arrived, and the time.                         *)
Arrive(c, route, credential, local, about, posted) ==
  Accept(c, [pc |-> "load", route |-> route, credential |-> credential, local |-> local,
             about |-> about, posted |-> posted, config |-> boot,
             before |-> revoked, at |-> clock])

(* A session is asked for by a page on the daemon's host: handleClient     *)
(* refuses others.  Every request of an operator or an agent presents a    *)
(* credential that was handed out, or none.                                *)
GetSession(c) == Arrive(c, "session", NoCredential, TRUE, NoCredential, NoLines)
PostConfig(c) ==
  \E k \in Postable, v \in Value :
    Arrive(c, "config", NoCredential, TRUE, NoCredential, [NoLines EXCEPT ![k] = v])
PostIssue(c) ==
  \E x \in Known, local \in BOOLEAN : Arrive(c, "issue", x, local, NoCredential, NoLines)
PostRevoke(c) ==
  \E x \in Known, local \in BOOLEAN, k \in Token :
    Issued(k) /\ Arrive(c, "revoke", x, local, k, NoLines)
PostCapabilities(c) ==
  \E x \in Known \ Session, local \in BOOLEAN, s \in Subject :
    Arrive(c, "capabilities", x, local, s, NoLines)

Request(c) ==
  /\ GetSession(c) \/ PostConfig(c) \/ PostIssue(c) \/ PostRevoke(c) \/ PostCapabilities(c)
  /\ UNCHANGED <<settingsVars, accessVars>>

(* The dispatch of handleClient.                                           *)
Entry(route) ==
  CASE route = "config" -> "postConfig"
    [] route = "session" -> "readSession"
    [] route = "capabilities" -> "findToken"
    [] OTHER -> "checkSession"

Load(c) ==
  /\ LoadSettings(c, Entry(child[c].route))
  /\ UNCHANGED accessVars

-----------------------------------------------------------------------------
(* Who may pass.                                                           *)

Passes(c) == Goes(c, "handle")

(* validateOperatorSession, the first half of requireOperatorAuth.         *)
CheckSession(c) ==
  /\ At(c, "checkSession")
  /\ IF session # NoCredential /\ child[c].credential = session
     THEN Passes(c) ELSE Goes(c, "findToken")
  /\ Proceeds /\ UNCHANGED <<settingsVars, accessVars>>

(* ipAllowedByConfig, by the settings that the child has read.             *)
IpAllowed(c) == child[c].local \/ child[c].config[AllowIps] = AnyIp

(* validateBearerToken reads the ledger for the issue line ...             *)
FindToken(c) ==
  /\ At(c, "findToken")
  /\ IF IpAllowed(c) /\ child[c].credential \in Token /\ Issued(child[c].credential)
     THEN Goes(c, "findRevocation") ELSE Ends(c)
  /\ Proceeds /\ UNCHANGED <<settingsVars, accessVars>>

RequiredRole(route) == IF route \in OperatorRoute THEN "operator" ELSE "agent"
Expired(k) == clock > tokens[k].expires

(* Mistake: the second read is left out.                                   *)
RevocationsUnread(c) ==
  /\ At(c, "findRevocation")
  /\ IF ~Expired(child[c].credential)
        /\ tokens[child[c].credential].role = RequiredRole(child[c].route)
     THEN Passes(c) ELSE Ends(c)
  /\ Proceeds /\ UNCHANGED <<settingsVars, accessVars>>

(* ... and again for a revocation; then the time and the role.             *)
CheckToken(c) ==
  /\ At(c, "findRevocation")
  /\ IF child[c].credential \notin revoked /\ ~Expired(child[c].credential)
        /\ tokens[child[c].credential].role = RequiredRole(child[c].route)
     THEN Passes(c) ELSE Ends(c)
  /\ Proceeds /\ UNCHANGED <<settingsVars, accessVars>>

-----------------------------------------------------------------------------
(* The handlers.                                                           *)

Handles(c, route) == At(c, "handle") /\ child[c].route = route /\ Ends(c) /\ Proceeds

PostAuthToken(c) ==
  /\ Handles(c, "issue")
  /\ \E k \in Token, role \in Role, s \in Subject, ttl \in Ttl :
       /\ ~Issued(k)
       /\ tokens' = [tokens EXCEPT ![k] =
                       [role |-> role, subject |-> s, expires |-> clock + ttl]]
  /\ UNCHANGED <<settingsVars, clock, session, revoked, caps, given, rivals>>

(* Mistake: the token presented is revoked, not the token named.           *)
RevokePresented(c) ==
  /\ Handles(c, "revoke")
  /\ revoked' = revoked \cup {child[c].credential}
  /\ UNCHANGED <<settingsVars, clock, session, tokens, caps, given, rivals>>

PostAuthTokenRevoke(c) ==
  /\ Handles(c, "revoke")
  /\ revoked' = revoked \cup {child[c].about}
  /\ UNCHANGED <<settingsVars, clock, session, tokens, caps, given, rivals>>

(* An agent speaks for itself or its host.                                 *)
PostHostCapabilities(c) ==
  /\ Handles(c, "capabilities")
  /\ caps' = IF tokens[child[c].credential].subject = child[c].about
             THEN caps \cup {child[c].about} ELSE caps
  /\ UNCHANGED <<settingsVars, clock, session, tokens, revoked, given, rivals>>

(* ensureOperatorSession: the session in the file, if there is one ...     *)
Creating(c) == child[c].pc \in {"createSession", "writeSession"}

(* Mistake: every page is given a session of its own.                      *)
AlwaysCreate(c) ==
  /\ At(c, "readSession")
  /\ Goes(c, "createSession")
  /\ Proceeds /\ UNCHANGED <<settingsVars, accessVars>>

ReadSession(c) ==
  /\ At(c, "readSession")
  /\ IF session # NoCredential
     THEN Ends(c) /\ given' = given \cup {session}
     ELSE Goes(c, "createSession") /\ UNCHANGED given
  /\ Proceeds /\ UNCHANGED <<settingsVars, clock, session, tokens, revoked, caps, rivals>>

(* ... or else a new one: open truncates the file, dprintf writes it.      *)
TruncateSession(c) ==
  /\ At(c, "createSession")
  /\ \E s \in Session \ given :
       /\ \A k \in Child : At(k, "writeSession") => child[k].credential # s
       /\ Becomes(c, [child[c] EXCEPT !.pc = "writeSession", !.credential = s])
  /\ session' = NoCredential
  /\ Proceeds /\ UNCHANGED <<settingsVars, clock, tokens, revoked, caps, given, rivals>>

WriteSession(c) ==
  /\ At(c, "writeSession") /\ Ends(c)
  /\ session' = child[c].credential
  /\ given' = given \cup {child[c].credential}
  /\ rivals' = IF \E k \in Child \ {c} : Creating(k)
               THEN rivals \cup {child[c].credential} ELSE rivals
  /\ Proceeds /\ UNCHANGED <<settingsVars, clock, tokens, revoked, caps>>

(* The child dies and leaves an empty file.                                *)
WriteSessionFails(c) ==
  /\ At(c, "writeSession") /\ Fault /\ Ends(c)
  /\ UNCHANGED <<settingsVars, accessVars>>

-----------------------------------------------------------------------------

HandleClient(c) ==
  \/ Load(c) \/ CheckSession(c) \/ FindToken(c) \/ CheckToken(c)
  \/ PostAuthToken(c) \/ PostAuthTokenRevoke(c) \/ PostHostCapabilities(c)
  \/ ReadSession(c) \/ TruncateSession(c) \/ WriteSession(c) \/ WriteSessionFails(c)
  \/ (TruncateConfig(c) \/ WriteConfig(c) \/ WriteConfigFails(c)) /\ UNCHANGED accessVars

(* systemd starts the daemon again; its children are gone with it.         *)
Restart ==
  /\ Fault
  /\ child' = [c \in Child |-> Idle]
  /\ boot' = Loaded(Default)
  /\ acked' = IF \E c \in Child : Writing(c) THEN NoLines ELSE acked
  /\ UNCHANGED <<file, late, accessVars>>

Tick ==
  /\ clock < MaxClock /\ clock' = clock + 1
  /\ UNCHANGED <<child, requests, faults, settingsVars, session, tokens, revoked, caps, given, rivals>>

Next ==
  \/ \E c \in Child : Request(c) \/ HandleClient(c)
  \/ Restart \/ Tick

Spec == Init /\ [][Next]_vars

-----------------------------------------------------------------------------
(* Correctness.                                                            *)

ClientState ==
  [pc : {"load", "postConfig", "writeConfig", "checkSession", "findToken", "findRevocation", "handle",
         "readSession", "createSession", "writeSession"},
   route : Route, credential : Credential, local : BOOLEAN,
   about : Subject \cup Token \cup {NoCredential}, posted : [Key -> Value \cup {Unset}],
   config : [Key -> Value], before : SUBSET Token, at : Nat]

(* The variables stay within their types, and the revocations name tokens  *)
(* that were issued.                                                       *)
TypeOK ==
  /\ SettingsTypeOK
  /\ child \in [Child -> ClientState \cup {Idle}] /\ requests \in Nat /\ faults \in Nat
  /\ clock \in Nat /\ session \in Session \cup {NoCredential}
  /\ tokens \in [Token -> [role : Role, subject : Subject, expires : Nat] \cup {NotIssued}]
  /\ revoked \subseteq {k \in Token : Issued(k)} /\ caps \subseteq Subject
  /\ given \subseteq Session /\ rivals \subseteq Session

(* A request reaches a handler with a token only if the token was issued   *)
(* with the role of the route, and neither its revocation was recorded nor *)
(* its time had passed before the request arrived, whatever other requests *)
(* do between the two reads of the ledger.  And a host's capabilities are  *)
(* recorded only for someone an agent token was issued to.                 *)
OnlyGranted ==
  /\ \A c \in Child :
       At(c, "handle") /\ child[c].credential \in Token =>
         LET k == child[c].credential IN
         /\ tokens[k].role = RequiredRole(child[c].route)
         /\ k \notin child[c].before /\ child[c].at <= tokens[k].expires
  /\ \A s \in caps : \E k \in Token :
       Issued(k) /\ tokens[k].role = "agent" /\ tokens[k].subject = s

(* All pages share the session of the file, so a page that was given one   *)
(* is not shut out when another page is opened, the daemon restarts or a   *)
(* child dies: unless two children found no session and each made one.     *)
PagesShareSession == given \ rivals \subseteq {session}
=============================================================================
