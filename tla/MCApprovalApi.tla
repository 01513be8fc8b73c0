--------------------------- MODULE MCApprovalApi ---------------------------
(***************************************************************************)
(* ApprovalApi for TLC.  Threads and request ids are interchangeable: no   *)
(* definition singles one out or compares two of them by more than         *)
(* equality, so states that differ by a renaming of either are one.        *)
(***************************************************************************)
EXTENDS ApprovalApi, TLC

Symmetry == Permutations(Threads) \cup Permutations(Ids)

=============================================================================
