----------------------------- MODULE Dashboard -----------------------------
(***************************************************************************)
(* The dashboard (static/app.js) over the ledger, which other clients      *)
(* change at the same time.  Handlers run to their next await; answers     *)
(* arrive in any order, late or never.  A table on the page is a length n: *)
(* it shows the ledger as it was after n events of the history.            *)
(***************************************************************************)
EXTENDS ApprovalLedger

CONSTANTS
  Me,           \* the reviewer at this page
  Tables,       \* what a refresh fetches: the queue, the audit log, the metrics
  Choices,      \* bound on the decisions that are taken
  NoId, NoRefresh, NoPost, NoToast,
  MaxHistory    \* bound on the events in the history

VARIABLES
  shown,            \* table -> what it shows
  offline,          \* the health label
  selectedId,
  decisionDialog,   \* the request it was opened for, or NoId
  authDialog,       \* it is open
  refreshes,        \* the refreshAll calls in flight
  post,             \* the decision in flight
  submitDisabled,
  toast             \* the decision the page last reported as recorded

pageVars ==
  <<shown, offline, selectedId, decisionDialog, authDialog, refreshes, post,
    submitDisabled, toast>>
vars == <<ledgerVars, pageVars>>

Waiting == -1    \* a table of a refresh that has no answer yet

(***************************************************************************)
(* One refresh from the button and one that a decision awaits.             *)
(***************************************************************************)
Callers == {"button", "decision"}

Refresh == [since : Nat, got : [Tables -> Nat \cup {Waiting}]]

Post ==
  [id : Ids, decision : Decision, opened_for : Ids,
   state : {"sent", "recorded", "refused", "refreshing"}]

Toast == [id : Ids, decision : Decision]

ASSUME DashboardAssumption ==
  /\ NoId \notin Ids /\ NoPost \notin Post /\ NoToast \notin Toast
  /\ NoRefresh \notin Refresh
  /\ Me \in Reviewers
  /\ Choices \subseteq Decision
  /\ {"requests", "audit"} \subseteq Tables
  /\ MaxHistory \in Nat

-----------------------------------------------------------------------------
Listed(n) == {history[m].request_id : m \in 1..n}

ShownFinal(i) ==
  \E m \in 1..shown["requests"] :
    history[m].request_id = i /\ EventStatus(history[m]) \in FinalStatus

(***************************************************************************)
(* An open dialog is modal: the page behind it takes no clicks.            *)
(***************************************************************************)
Modal == decisionDialog # NoId \/ authDialog

DashboardInit ==
  /\ Init
  /\ shown = [table \in Tables |-> 0]
  /\ offline = FALSE
  /\ selectedId = NoId /\ decisionDialog = NoId /\ authDialog = FALSE
  /\ refreshes = [c \in Callers |-> NoRefresh]
  /\ post = NoPost /\ submitDisabled = FALSE
  /\ toast = NoToast

(***************************************************************************)
(* Other clients.  The page does not tell one open status from another, so *)
(* new requests have one triage.                                           *)
(***************************************************************************)
Elsewhere ==
  /\ Len(history) < MaxHistory
  /\ \E i \in Ids :
       \/ \E payload \in Payloads, triage \in {t \in Triage : t.requires_human_review} :
            Register(i, NoKey, payload, triage)
       \/ \E decision \in Choices, reviewer \in Reviewers \ {Me} : Decide(i, decision, reviewer)
  /\ UNCHANGED pageVars

-----------------------------------------------------------------------------
(***************************************************************************)
(* refreshAll: all its requests at once, applied together.                 *)
(***************************************************************************)
StartRefresh(c) ==
  /\ refreshes[c] = NoRefresh
  /\ refreshes' = [refreshes EXCEPT ![c] =
       [since |-> Len(history), got |-> [table \in Tables |-> Waiting]]]

RefreshButton ==
  /\ ~Modal
  /\ StartRefresh("button")
  /\ UNCHANGED <<ledgerVars, shown, offline, selectedId, decisionDialog, authDialog,
                 post, submitDisabled, toast>>

(* Fault: each table is shown as soon as its answer is there. *)
ServeAndShow(c, table) ==
  /\ refreshes[c] # NoRefresh
  /\ refreshes[c].got[table] = Waiting
  /\ refreshes' = [refreshes EXCEPT ![c].got[table] = Len(history)]
  /\ shown' = [shown EXCEPT ![table] = Len(history)]
  /\ UNCHANGED <<ledgerVars, offline, selectedId, decisionDialog, authDialog,
                 post, submitDisabled, toast>>

(***************************************************************************)
(* The server reads one table for a refresh.                               *)
(***************************************************************************)
Serve(c, table) ==
  /\ refreshes[c] # NoRefresh
  /\ refreshes[c].got[table] = Waiting
  /\ refreshes' = [refreshes EXCEPT ![c].got[table] = Len(history)]
  /\ UNCHANGED <<ledgerVars, shown, offline, selectedId, decisionDialog, authDialog,
                 post, submitDisabled, toast>>

(***************************************************************************)
(* The end of refreshAll, which swallows its errors; the decision that     *)
(* awaits it goes on with its toast and its finally.                       *)
(***************************************************************************)
EndRefresh(c) ==
  /\ refreshes' = [refreshes EXCEPT ![c] = NoRefresh]
  /\ IF c = "decision"
     THEN /\ toast' = [id |-> post.id, decision |-> post.decision]
          /\ post' = NoPost /\ submitDisabled' = FALSE
     ELSE UNCHANGED <<toast, post, submitDisabled>>

(* Fault: another request is selected for one that has left the list. *)
SelectionOrOther(ids) ==
  IF selectedId \in ids \cup {NoId} \/ ids = {} THEN selectedId ELSE CHOOSE i \in ids : TRUE

(***************************************************************************)
(* renderRequests: a selection that is not in the list is dropped.         *)
(***************************************************************************)
Selection(ids) == IF selectedId \in ids THEN selectedId ELSE NoId

ApplyRefresh(c) ==
  /\ refreshes[c] # NoRefresh
  /\ \A table \in Tables : refreshes[c].got[table] # Waiting
  /\ shown' = refreshes[c].got
  /\ offline' = FALSE
  /\ selectedId' = Selection(Listed(refreshes[c].got["requests"]))
  /\ EndRefresh(c)
  /\ UNCHANGED <<ledgerVars, decisionDialog, authDialog>>

(***************************************************************************)
(* One of the requests fails, or is answered with 401.                     *)
(***************************************************************************)
RefreshFails(c) ==
  /\ refreshes[c] # NoRefresh
  /\ \/ offline' = TRUE /\ UNCHANGED authDialog
     \/ authDialog' = TRUE /\ UNCHANGED offline
  /\ EndRefresh(c)
  /\ UNCHANGED <<ledgerVars, shown, selectedId, decisionDialog>>

(***************************************************************************)
(* handleAuthSubmit once its key is accepted, or the dialog closed.        *)
(***************************************************************************)
LeaveAuthDialog ==
  /\ authDialog /\ authDialog' = FALSE
  /\ \/ StartRefresh("button")
     \/ UNCHANGED refreshes
  /\ UNCHANGED <<ledgerVars, shown, offline, selectedId, decisionDialog, post,
                 submitDisabled, toast>>

-----------------------------------------------------------------------------
(***************************************************************************)
(* selectRequest, from a row of the queue or of the audit log.             *)
(***************************************************************************)
SelectRequest(i) ==
  /\ ~Modal
  /\ i \in Listed(shown["requests"]) \cup Listed(shown["audit"])
  /\ selectedId' = IF i \in Listed(shown["requests"]) THEN i ELSE NoId
  /\ UNCHANGED <<ledgerVars, shown, offline, decisionDialog, authDialog, refreshes, post,
                 submitDisabled, toast>>

(***************************************************************************)
(* openDecisionDialog; the buttons of a final request are disabled.        *)
(***************************************************************************)
OpenDecisionDialog ==
  /\ ~Modal
  /\ selectedId # NoId /\ ~ShownFinal(selectedId)
  /\ decisionDialog' = selectedId
  /\ UNCHANGED <<ledgerVars, shown, offline, selectedId, authDialog, refreshes, post,
                 submitDisabled, toast>>

CloseDecisionDialog ==
  /\ decisionDialog # NoId /\ ~authDialog
  /\ decisionDialog' = NoId
  /\ UNCHANGED <<ledgerVars, shown, offline, selectedId, authDialog, refreshes, post,
                 submitDisabled, toast>>

(***************************************************************************)
(* handleDecisionSubmit up to its POST; without a selection it does        *)
(* nothing.                                                                *)
(***************************************************************************)
SubmitDecision(decision) ==
  /\ decisionDialog # NoId /\ ~authDialog
  /\ ~submitDisabled
  /\ selectedId # NoId
  /\ submitDisabled' = TRUE
  /\ post' = [id |-> selectedId, decision |-> decision, opened_for |-> decisionDialog,
              state |-> "sent"]
  /\ toast' = NoToast
  /\ UNCHANGED <<ledgerVars, shown, offline, selectedId, decisionDialog, authDialog,
                 refreshes>>

(***************************************************************************)
(* The server's answer is written, and may yet be lost.  With the history  *)
(* at its bound the server records no more, and the POST only fails.       *)
(***************************************************************************)
ServePost ==
  /\ post # NoPost /\ post.state = "sent"
  /\ \/ /\ Len(history) < MaxHistory
        /\ Decide(post.id, post.decision, Me)
        /\ post' = [post EXCEPT !.state = "recorded"]
     \/ /\ entries[post.id].status \in FinalStatus
        /\ post' = [post EXCEPT !.state = "refused"]
        /\ UNCHANGED ledgerVars
  /\ UNCHANGED <<shown, offline, selectedId, decisionDialog, authDialog, refreshes,
                 submitDisabled, toast>>

(* Fault: the conflict a retry gets passes for success. *)
OkOrConflict(answer) == answer \in {"recorded", "refused"}

Ok(answer) == answer = "recorded"    \* response.ok

(* Fault: the refresh is started and not awaited. *)
DecisionAnsweredAtOnce ==
  /\ post # NoPost /\ Ok(post.state)
  /\ decisionDialog' = NoId
  /\ StartRefresh("button")
  /\ toast' = [id |-> post.id, decision |-> post.decision]
  /\ post' = NoPost /\ submitDisabled' = FALSE
  /\ UNCHANGED <<ledgerVars, shown, offline, selectedId, authDialog>>

(***************************************************************************)
(* The answer closes whatever decision dialog is open by now, and the page *)
(* is refreshed.                                                           *)
(***************************************************************************)
DecisionAnswered ==
  /\ post # NoPost /\ Ok(post.state)
  /\ decisionDialog' = NoId
  /\ post' = [post EXCEPT !.state = "refreshing"]
  /\ StartRefresh("decision")
  /\ UNCHANGED <<ledgerVars, shown, offline, selectedId, authDialog, submitDisabled,
                 toast>>

(* Fault: the button is enabled after a success only. *)
DecisionFailedDisabled ==
  /\ post # NoPost /\ post.state \in {"sent", "recorded", "refused"}
  /\ \/ UNCHANGED authDialog
     \/ post.state = "sent" /\ authDialog' = TRUE
  /\ post' = NoPost
  /\ UNCHANGED <<ledgerVars, shown, offline, selectedId, decisionDialog, refreshes,
                 submitDisabled, toast>>

(***************************************************************************)
(* The POST was refused, or answered with 401, or it or its answer was     *)
(* lost: the dialog shows the error and stays.                             *)
(***************************************************************************)
DecisionFailed ==
  /\ post # NoPost /\ post.state \in {"sent", "recorded", "refused"}
  /\ \/ UNCHANGED authDialog
     \/ post.state = "sent" /\ authDialog' = TRUE
  /\ post' = NoPost /\ submitDisabled' = FALSE
  /\ UNCHANGED <<ledgerVars, shown, offline, selectedId, decisionDialog, refreshes,
                 toast>>

-----------------------------------------------------------------------------
DashboardNext ==
  \/ Elsewhere
  \/ RefreshButton \/ LeaveAuthDialog
  \/ \E c \in Callers :
       ApplyRefresh(c) \/ RefreshFails(c) \/ \E table \in Tables : Serve(c, table)
  \/ \E i \in Ids : SelectRequest(i)
  \/ OpenDecisionDialog \/ CloseDecisionDialog
  \/ \E decision \in Choices : SubmitDecision(decision)
  \/ ServePost \/ DecisionAnswered \/ DecisionFailed

(***************************************************************************)
(* The server answers (ApprovalApi, CallsAnswered) and fetch settles; the  *)
(* user may do nothing.                                                    *)
(***************************************************************************)
Fairness ==
  /\ WF_vars(ServePost) /\ WF_vars(DecisionAnswered \/ DecisionFailed)
  /\ \A c \in Callers :
       WF_vars(ApplyRefresh(c)) /\ \A table \in Tables : WF_vars(Serve(c, table))

DashboardSpec == DashboardInit /\ [][DashboardNext]_vars /\ Fairness

-----------------------------------------------------------------------------
(***************************************************************************)
(* Properties                                                              *)
(***************************************************************************)
DashboardTypeOK ==
  /\ LedgerTypeOK
  /\ shown \in [Tables -> Nat]
  /\ offline \in BOOLEAN /\ authDialog \in BOOLEAN /\ submitDisabled \in BOOLEAN
  /\ selectedId \in Ids \cup {NoId} /\ decisionDialog \in Ids \cup {NoId}
  /\ refreshes \in [Callers -> Refresh \cup {NoRefresh}]
  /\ post \in Post \cup {NoPost}
  /\ toast \in Toast \cup {NoToast}

(***************************************************************************)
(* One of the first n events is this reviewer's decision on the request.   *)
(***************************************************************************)
Recorded(events, id, decision, n) ==
  \E m \in 1..n : /\ events[m].event_type = "human_decision_recorded"
                  /\ events[m].request_id = id
                  /\ events[m].payload.decision = decision
                  /\ events[m].payload.reviewer = Me

(***************************************************************************)
(* A decision goes to the request its dialog was opened for, although the  *)
(* selection is read again at the submit and refreshes that were on their  *)
(* way, the older one arriving last, change it behind the dialog.          *)
(***************************************************************************)
PostsWhatWasChosen == post # NoPost => post.id = post.opened_for

(***************************************************************************)
(* The page's tables are never mixed from two refreshes, however these     *)
(* overlap, and never half of one: they change to the answers of one       *)
(* refresh that has them all and ends with it, and none of its answers is  *)
(* older than its start.                                                   *)
(***************************************************************************)
TablesOfOneRefresh ==
  [][shown' # shown =>
       \E c \in Callers :
         /\ refreshes[c] # NoRefresh /\ refreshes'[c] = NoRefresh
         /\ shown' = refreshes[c].got
         /\ \A table \in Tables : shown'[table] >= refreshes[c].since]_vars

(***************************************************************************)
(* "Decision recorded" is true: the audit log has this reviewer's decision *)
(* on that request, whatever answers were lost or other reviewers did.     *)
(***************************************************************************)
RecordedMeansRecorded ==
  toast # NoToast => Recorded(history, toast.id, toast.decision, Len(history))

(***************************************************************************)
(* When the page says so it also shows it in every table, or shows that it *)
(* is offline or has lost its key.                                         *)
(***************************************************************************)
ToastWithDecision ==
  [][toast' # toast /\ toast' # NoToast =>
       \/ offline' \/ authDialog'
       \/ \A table \in Tables : Recorded(history', toast'.id, toast'.decision, shown'[table])]_vars

(***************************************************************************)
(* The submit button comes back, whatever happens to the POST and to the   *)
(* refresh after it.                                                       *)
(***************************************************************************)
ButtonComesBack == submitDisabled ~> ~submitDisabled

(***************************************************************************)
(* What docs/demo_script.md says of the page after a decision, for a page  *)
(* that is online and at rest.  It fails: an older refresh may be applied  *)
(* last.                                                                   *)
(***************************************************************************)
UpdatedAfterDecision ==
  toast # NoToast /\ ~offline /\ ~authDialog /\ (\A c \in Callers : refreshes[c] = NoRefresh)
    => \A table \in Tables : Recorded(history, toast.id, toast.decision, shown[table])

=============================================================================
