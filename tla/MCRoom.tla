------------------------------- MODULE MCRoom -------------------------------
(* Small rooms for TLC. *)
EXTENDS Room

CONSTANTS claude,           \* an agent
          say,              \* a process that posts
          console           \* a browser
=============================================================================
