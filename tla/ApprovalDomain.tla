--------------------------- MODULE ApprovalDomain ---------------------------
(***************************************************************************)
(* The vocabulary of the workflow (domain.py): the statuses a request goes *)
(* through, the decisions a reviewer may take, and which status each       *)
(* decision leads to.                                                      *)
(***************************************************************************)

CONSTANT Categories    \* RequestCategory

RequestStatus ==
  {"received", "needs_review", "approved", "rejected", "changes_requested"}

Decision == {"approve", "reject", "request_changes"}

(***************************************************************************)
(* The statuses record_decision refuses to leave.                          *)
(***************************************************************************)
FinalStatus == {"approved", "rejected"}

(***************************************************************************)
(* The status a decision leads to: the dictionary of record_decision.      *)
(***************************************************************************)
(* Fault: the decision itself is stored as the status. *)
NewStatusIsDecision(decision) == decision

NewStatus(decision) ==
  CASE decision = "approve" -> "approved"
    [] decision = "reject"  -> "rejected"
    [] OTHER                -> "changes_requested"

(***************************************************************************)
(* What the workflow reads of a TriageResult; the rest is for display.     *)
(***************************************************************************)
Triage == [category : Categories, requires_human_review : BOOLEAN]

(***************************************************************************)
(* The status of a new request, from the triage's review flag.             *)
(***************************************************************************)
InitialStatus(triage) ==
  IF triage.requires_human_review THEN "needs_review" ELSE "received"

=============================================================================
