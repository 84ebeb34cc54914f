--------------------------- MODULE MCLedgerReaders ---------------------------
(* Short ledgers for TLC. *)
EXTENDS LedgerReaders, TLC

Ids == Permutations(TaskId)
=============================================================================
