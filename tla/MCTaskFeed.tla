----------------------------- MODULE MCTaskFeed -----------------------------
(* One page, its stream and loads, for TLC. *)
EXTENDS TaskFeed

CONSTANTS agent,      \* a process that appends
          tasks,      \* the child that answers a load of the table
          again,      \* a second one
          status      \* a child that rebuilds for another reader
=============================================================================
