--------------------------- MODULE MCLedgerReads ---------------------------
(***************************************************************************)
(* ApprovalLedger and its readers for TLC.                                 *)
(***************************************************************************)
EXTENDS LedgerReads

CONSTANT MaxHistory    \* bound on the events in the history

MCNext == (Len(history) < MaxHistory \/ UNCHANGED history) /\ ReadsNext

MCSpec == ReadsInit /\ [][MCNext]_<<ledgerVars, readVars>>

=============================================================================
