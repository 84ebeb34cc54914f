------------------------------ MODULE Settings ------------------------------
(***************************************************************************)
(* The configuration of the daemon: src/wt_config.c, and handlePostConfig  *)
(* of src/wt_roomd.c.                                                      *)
(*                                                                         *)
(* A child starts with the parent's copy of the settings, reads the file   *)
(* over it and the environment over both.  A POST changes the copy and     *)
(* writes all of it to the file, which is empty in between.                *)
(***************************************************************************)
EXTENDS Requests

CONSTANTS
  Key, Value, Unset,
  Postable,   \* the keys that handlePostConfig reads
  Default,    \* wtConfigInitDefaults
  FirstFile,  \* woventeam.conf as installed
  Env         \* the variables of the environment

ASSUME SettingsAssumption ==
  /\ Unset \notin Value /\ Postable \subseteq Key
  /\ Default \in [Key -> Value]
  /\ FirstFile \in [Key -> Value \cup {Unset}] /\ Env \in [Key -> Value \cup {Unset}]

VARIABLES
  file,    \* what the lines of the file give a key
  boot     \* the copy of the parent, made when it was started

(* History.                                                                *)
VARIABLES
  acked,   \* the value of a key in the last answer to a POST that set it
  late     \* children whose copy may be older than the file, or shared it

settingsVars == <<file, boot, acked, late>>

NoLines == [k \in Key |-> Unset]

(* wtConfigLoadFile and wtConfigApplyEnvironment.                          *)
Over(copy, lines) == [k \in Key |-> IF lines[k] # Unset THEN lines[k] ELSE copy[k]]
Loaded(copy) == Over(Over(copy, file), Env)

SettingsInit ==
  /\ file = FirstFile /\ boot = Over(Over(Default, FirstFile), Env)
  /\ acked = NoLines /\ late = {}

-----------------------------------------------------------------------------

Writing(c) == At(c, "writeConfig")

(* Mistake: the file is not read again after the start of the daemon.      *)
LoadOnce(c, next) ==
  /\ At(c, "load")
  /\ Becomes(c, [child[c] EXCEPT !.pc = next, !.config = boot])
  /\ late' = IF \E k \in Child : Writing(k) THEN late \cup {c} ELSE late \ {c}
  /\ Proceeds /\ UNCHANGED <<file, boot, acked>>

(* The start of handleClient.                                              *)
LoadSettings(c, next) ==
  /\ At(c, "load")
  /\ Becomes(c, [child[c] EXCEPT !.pc = next, !.config = Loaded(boot)])
  /\ late' = IF \E k \in Child : Writing(k) THEN late \cup {c} ELSE late \ {c}
  /\ Proceeds /\ UNCHANGED <<file, boot, acked>>

(* handlePostConfig: the posted keys, and fopen in wtConfigWriteFile.      *)
TruncateConfig(c) ==
  LET posting == {k \in Child \ {c} : At(k, "postConfig") \/ Writing(k)} IN
  /\ At(c, "postConfig")
  /\ Becomes(c, [child[c] EXCEPT !.pc = "writeConfig", !.config = Over(@, child[c].posted)])
  /\ file' = NoLines
  /\ late' = late \cup posting \cup {k \in {c} : \E o \in posting : Writing(o)}
  /\ Proceeds /\ UNCHANGED <<boot, acked>>

(* The lines, in one write.  They start at the beginning of the file: when *)
(* another child wrote meanwhile, the end of its lines may remain and the  *)
(* last line of a key counts.                                              *)
WriteConfig(c) ==
  /\ Writing(c) /\ Ends(c)
  /\ \E rest \in SUBSET {k \in Key : file[k] # Unset} :
       file' = [k \in Key |-> IF k \in rest THEN file[k] ELSE child[c].config[k]]
  /\ acked' = IF c \in late THEN NoLines ELSE Over(acked, child[c].posted)
  /\ Proceeds /\ UNCHANGED <<boot, late>>

(* The child dies in between, or the disk is full.                         *)
WriteConfigFails(c) ==
  /\ Writing(c) /\ Fault /\ Ends(c)
  /\ acked' = NoLines
  /\ UNCHANGED <<file, boot, late>>

-----------------------------------------------------------------------------

(* The file and the copies give every key a value it can have.             *)
SettingsTypeOK ==
  /\ file \in [Key -> Value \cup {Unset}] /\ boot \in [Key -> Value]
  /\ acked \in [Key -> Value \cup {Unset}] /\ late \subseteq Child

(* A value that a POST acknowledged is the one that every later request    *)
(* reads, through any number of later POSTs of other keys and restarts of  *)
(* the daemon: as long as no environment variable sets the key, no write   *)
(* broke off, and no two POSTs overlapped (nothing locks the file).        *)
AckedSettingsStand ==
  (~\E c \in Child : Writing(c)) =>
    \A k \in Key : acked[k] # Unset /\ Env[k] = Unset => Loaded(boot)[k] = acked[k]
=============================================================================
