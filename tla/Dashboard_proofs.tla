-------------------------- MODULE Dashboard_proofs --------------------------
(***************************************************************************)
(* Proofs about Dashboard: for any number of requests, events and tables,  *)
(* a decision goes to the request its dialog was opened for, what the page *)
(* reports as recorded is recorded, and the page shows it or says why it   *)
(* cannot.                                                                 *)
(***************************************************************************)
EXTENDS Dashboard, ApprovalLedger_proofs

(***************************************************************************)
(* Refreshes can drop the selection behind an open dialog, not move it.    *)
(***************************************************************************)
DialogInv == decisionDialog # NoId => selectedId \in {decisionDialog, NoId}

(***************************************************************************)
(* What a refresh has got is no older than its start.                      *)
(***************************************************************************)
RefreshInv ==
  \A c \in Callers : refreshes[c] # NoRefresh =>
    /\ refreshes[c].since <= Len(history)
    /\ \A table \in Tables : refreshes[c].got[table] # Waiting =>
         /\ refreshes[c].since <= refreshes[c].got[table]
         /\ refreshes[c].got[table] <= Len(history)

(***************************************************************************)
(* A decision is recorded before its answer is written, and so before the  *)
(* refresh that the answer starts; until that ends there is no other POST. *)
(***************************************************************************)
PostInv ==
  /\ post # NoPost => submitDisabled
  /\ post # NoPost /\ post.state \in {"recorded", "refreshing"} =>
       Recorded(history, post.id, post.decision, Len(history))
  /\ refreshes["decision"] # NoRefresh =>
       /\ post # NoPost /\ post.state = "refreshing"
       /\ Recorded(history, post.id, post.decision, refreshes["decision"].since)

DInv ==
  /\ DashboardTypeOK /\ DialogInv /\ PostsWhatWasChosen
  /\ RefreshInv /\ PostInv /\ RecordedMeansRecorded

(***************************************************************************)
(* What the tables of the page may do in a step.                           *)
(***************************************************************************)
ShowsOneRefresh ==
  shown' # shown =>
    \E c \in Callers :
      /\ refreshes[c] # NoRefresh /\ refreshes'[c] = NoRefresh
      /\ shown' = refreshes[c].got
      /\ \A table \in Tables : shown'[table] >= refreshes[c].since

ToastIsShown ==
  toast' # toast /\ toast' # NoToast =>
    \/ offline' \/ authDialog'
    \/ \A table \in Tables : Recorded(history', toast'.id, toast'.decision, shown'[table])

-----------------------------------------------------------------------------
(***************************************************************************)
(* Nothing that was recorded is lost when the history grows.               *)
(***************************************************************************)
Kept ==
  /\ Len(history) \in Nat /\ Len(history') \in Nat /\ Len(history) <= Len(history')
  /\ \A m \in 1..Len(history) : history'[m] = history[m]

(***************************************************************************)
(* A step of the ledger keeps its types and only adds to the history.      *)
(***************************************************************************)
LEMMA LedgerMoves ==
  ASSUME LedgerTypeOK, [Next]_ledgerVars
  PROVE  LedgerTypeOK' /\ Kept
<1>1. CASE UNCHANGED ledgerVars
  <2>1. LedgerTypeOK'
    BY <1>1 DEF ledgerVars, LedgerTypeOK
  <2>2. Len(history) \in Nat
    BY LenProperties DEF LedgerTypeOK
  <2> QED
    BY <1>1, <2>1, <2>2 DEF ledgerVars, Kept
<1>2. ASSUME NEW i \in Ids, NEW event, Step(i, event)
      PROVE  Kept
  BY <1>2 DEF Step, Kept
<1>3. CASE Next
  <2>1. PICK i \in Ids :
          \/ \E key \in Keys \cup {NoKey}, payload \in Payloads, triage \in Triage :
               Register(i, key, payload, triage)
          \/ \E decision \in Decision, reviewer \in Reviewers : Decide(i, decision, reviewer)
    BY <1>3 DEF Next
  <2>2. LedgerTypeOK' /\ \E event : Step(i, event)
    BY <2>1, RegisterStep, DecideStep
  <2> QED
    BY <1>2, <2>2
<1> QED
  BY <1>1, <1>3

(***************************************************************************)
(* A decision that is recorded stays recorded in a longer history.         *)
(***************************************************************************)
LEMMA RecordedKept ==
  ASSUME Kept, NEW id, NEW decision, NEW n \in Nat, NEW m \in Nat, n <= m, n <= Len(history),
         Recorded(history, id, decision, n)
  PROVE  Recorded(history', id, decision, m)
BY DEF Recorded, Kept

(***************************************************************************)
(* The parts of the invariant that only the ledger can disturb, when the   *)
(* page keeps its POST, its refreshes and its toast.                       *)
(***************************************************************************)
LEMMA PageWaits ==
  ASSUME DInv, Kept, UNCHANGED <<refreshes, post, submitDisabled, toast>>
  PROVE  RefreshInv' /\ PostInv' /\ RecordedMeansRecorded' /\ PostsWhatWasChosen'
<1>1. /\ \A c \in Callers : refreshes[c] # NoRefresh => refreshes[c] \in Refresh
      /\ Len(history) \in Nat /\ Len(history') \in Nat /\ Len(history) <= Len(history')
  BY DEF DInv, DashboardTypeOK, Kept
<1>2. RefreshInv'
  BY <1>1 DEF DInv, RefreshInv, Refresh, Waiting
<1>3. ASSUME post # NoPost, post.state \in {"recorded", "refreshing"}
      PROVE  Recorded(history', post.id, post.decision, Len(history'))
  BY <1>1, <1>3, RecordedKept DEF DInv, PostInv
<1>4. ASSUME refreshes["decision"] # NoRefresh
      PROVE  /\ post # NoPost /\ post.state = "refreshing"
             /\ Recorded(history', post.id, post.decision, refreshes["decision"].since)
  <2>1. refreshes["decision"].since \in Nat /\ refreshes["decision"].since <= Len(history)
    BY <1>1, <1>4 DEF DInv, RefreshInv, Refresh, Callers
  <2> QED
    BY <1>4, <2>1, RecordedKept DEF DInv, PostInv
<1>5. PostInv'
  BY <1>3, <1>4 DEF DInv, PostInv
<1>6. RecordedMeansRecorded'
  BY <1>1, RecordedKept DEF DInv, RecordedMeansRecorded
<1> QED
  BY <1>2, <1>5, <1>6 DEF DInv, PostsWhatWasChosen

-----------------------------------------------------------------------------
(***************************************************************************)
(* One lemma for each action.                                              *)
(***************************************************************************)
LEMMA ElsewhereKeeps ==
  ASSUME DInv, Elsewhere
  PROVE  DInv' /\ ShowsOneRefresh /\ ToastIsShown
<1>1. NoKey \in Keys \cup {NoKey} /\ Choices \subseteq Decision
  BY DashboardAssumption
<1>2. Next
  BY <1>1 DEF Elsewhere, Next
<1>3. LedgerTypeOK' /\ Kept
  BY <1>2, LedgerMoves DEF DInv, DashboardTypeOK
<1>4. UNCHANGED pageVars
  BY DEF Elsewhere
<1>5. RefreshInv' /\ PostInv' /\ RecordedMeansRecorded' /\ PostsWhatWasChosen'
  BY <1>3, <1>4, PageWaits DEF pageVars
<1> QED
  BY <1>3, <1>4, <1>5 DEF DInv, DashboardTypeOK, DialogInv, pageVars, ShowsOneRefresh,
     ToastIsShown

(***************************************************************************)
(* Steps of the user that leave the POST, the refreshes and the ledger.    *)
(***************************************************************************)
LEMMA ClickKeeps ==
  ASSUME DInv, \/ \E i \in Ids : SelectRequest(i)
               \/ OpenDecisionDialog \/ CloseDecisionDialog
  PROVE  DInv' /\ ShowsOneRefresh /\ ToastIsShown
<1>1. UNCHANGED <<ledgerVars, shown, offline, authDialog, refreshes, post, submitDisabled, toast>>
  BY DEF SelectRequest, OpenDecisionDialog, CloseDecisionDialog
<1>2. LedgerTypeOK' /\ Kept
  BY <1>1, LedgerMoves DEF DInv, DashboardTypeOK
<1>3. /\ selectedId' \in Ids \cup {NoId} /\ decisionDialog' \in Ids \cup {NoId}
      /\ DialogInv'
  BY DEF DInv, DashboardTypeOK, DialogInv, Modal, SelectRequest, OpenDecisionDialog,
     CloseDecisionDialog
<1>4. RefreshInv' /\ PostInv' /\ RecordedMeansRecorded' /\ PostsWhatWasChosen'
  BY <1>1, <1>2, PageWaits
<1> QED
  BY <1>1, <1>2, <1>3, <1>4 DEF DInv, DashboardTypeOK, ShowsOneRefresh, ToastIsShown

(***************************************************************************)
(* A refresh starts with nothing but its start.                            *)
(***************************************************************************)
LEMMA StartKeeps ==
  ASSUME DInv, NEW c \in Callers, StartRefresh(c), UNCHANGED ledgerVars
  PROVE  /\ refreshes' \in [Callers -> Refresh \cup {NoRefresh}]
         /\ RefreshInv'
         /\ refreshes'[c].since = Len(history)
         /\ \A d \in Callers \ {c} : refreshes'[d] = refreshes[d]
<1> DEFINE new == [since |-> Len(history), got |-> [table \in Tables |-> Waiting]]
<1>1. Len(history) \in Nat /\ UNCHANGED history
  BY LenProperties DEF DInv, DashboardTypeOK, LedgerTypeOK, ledgerVars
<1>2. /\ new \in Refresh /\ new.since = Len(history)
      /\ \A table \in Tables : new.got[table] = Waiting
  BY <1>1 DEF Refresh
<1>3. refreshes' = [refreshes EXCEPT ![c] = new]
  BY DEF StartRefresh
<1> HIDE DEF new
<1>4. /\ refreshes' \in [Callers -> Refresh \cup {NoRefresh}] /\ refreshes'[c] = new
      /\ \A d \in Callers \ {c} : refreshes'[d] = refreshes[d]
  BY <1>2, <1>3 DEF DInv, DashboardTypeOK
<1>5. RefreshInv'
  BY <1>1, <1>2, <1>4 DEF DInv, RefreshInv
<1> QED
  BY <1>2, <1>4, <1>5

(***************************************************************************)
(* A click on refresh, or on the key dialog, keeps the invariant.          *)
(***************************************************************************)
LEMMA ButtonKeeps ==
  ASSUME DInv, RefreshButton \/ LeaveAuthDialog
  PROVE  DInv' /\ ShowsOneRefresh /\ ToastIsShown
<1>1. /\ UNCHANGED <<ledgerVars, shown, offline, selectedId, decisionDialog, post,
                     submitDisabled, toast>>
      /\ authDialog' \in BOOLEAN
      /\ StartRefresh("button") \/ UNCHANGED refreshes
  BY DEF DInv, DashboardTypeOK, RefreshButton, LeaveAuthDialog
<1>2. LedgerTypeOK' /\ Kept
  BY <1>1, LedgerMoves DEF DInv, DashboardTypeOK
<1>3. refreshes' \in [Callers -> Refresh \cup {NoRefresh}] /\ RefreshInv'
      /\ refreshes'["decision"] = refreshes["decision"]
  <2>1. CASE StartRefresh("button")
    BY <1>1, <2>1, StartKeeps DEF Callers
  <2>2. CASE UNCHANGED refreshes
    BY <1>1, <1>2, <2>2, PageWaits DEF DInv, DashboardTypeOK
  <2> QED
    BY <1>1, <2>1, <2>2
<1>4. PostInv' /\ RecordedMeansRecorded'
  BY <1>1, <1>3 DEF DInv, PostInv, RecordedMeansRecorded, ledgerVars
<1> QED
  BY <1>1, <1>2, <1>3, <1>4 DEF DInv, DashboardTypeOK, DialogInv, PostsWhatWasChosen,
     ShowsOneRefresh, ToastIsShown

(***************************************************************************)
(* So does the server's answer to one of the fetches.                      *)
(***************************************************************************)
LEMMA ServeKeeps ==
  ASSUME DInv, NEW c \in Callers, NEW table \in Tables, Serve(c, table)
  PROVE  DInv' /\ ShowsOneRefresh /\ ToastIsShown
<1>1. /\ UNCHANGED <<ledgerVars, shown, offline, selectedId, decisionDialog, authDialog, post,
                     submitDisabled, toast>>
      /\ refreshes[c] \in Refresh /\ refreshes[c] # NoRefresh
  BY DEF DInv, DashboardTypeOK, Serve
<1>2. LedgerTypeOK' /\ Kept /\ UNCHANGED history
  BY <1>1, LedgerMoves DEF DInv, DashboardTypeOK, ledgerVars
<1> DEFINE new == [refreshes[c] EXCEPT !.got[table] = Len(history)]
<1>3. /\ new \in Refresh /\ new.since = refreshes[c].since
      /\ new.got = [refreshes[c].got EXCEPT ![table] = Len(history)]
  BY <1>1, <1>2 DEF Refresh, Kept
<1>4. refreshes' = [refreshes EXCEPT ![c] = new]
  BY <1>1 DEF Serve
<1> HIDE DEF new
<1>5. /\ refreshes' \in [Callers -> Refresh \cup {NoRefresh}] /\ refreshes'[c] = new
      /\ \A d \in Callers \ {c} : refreshes'[d] = refreshes[d]
  BY <1>3, <1>4 DEF DInv, DashboardTypeOK
<1>6. /\ new.got[table] = Len(history)
      /\ \A other \in Tables \ {table} : new.got[other] = refreshes[c].got[other]
  BY <1>1, <1>3 DEF Refresh
<1>7. RefreshInv'
  <2>1. /\ history' = history /\ Len(history) \in Nat
        /\ refreshes[c].since \in Nat /\ refreshes[c].since <= Len(history)
    BY <1>1, <1>2 DEF DInv, RefreshInv, Kept, Refresh
  <2>2. ASSUME NEW other \in Tables, new.got[other] # Waiting
        PROVE  new.since <= new.got[other] /\ new.got[other] <= Len(history)
    <3>1. CASE other = table
      BY <1>3, <1>6, <2>1, <3>1
    <3>2. CASE other # table
      BY <1>1, <1>3, <1>6, <2>2, <3>2 DEF DInv, RefreshInv
    <3> QED
      BY <3>1, <3>2
  <2>3. ASSUME NEW d \in Callers, refreshes'[d] # NoRefresh
        PROVE  /\ refreshes'[d].since <= Len(history)
               /\ \A other \in Tables : refreshes'[d].got[other] # Waiting =>
                    /\ refreshes'[d].since <= refreshes'[d].got[other]
                    /\ refreshes'[d].got[other] <= Len(history)
    <3>1. CASE d = c
      BY <1>3, <1>5, <2>1, <2>2, <3>1
    <3>2. CASE d # c
      BY <1>5, <2>3, <3>2 DEF DInv, RefreshInv
    <3> QED
      BY <3>1, <3>2
  <2> QED
    BY <2>1, <2>3 DEF RefreshInv
<1>8. PostInv' /\ RecordedMeansRecorded'
  <2>1. refreshes["decision"] # NoRefresh <=> refreshes'["decision"] # NoRefresh
    BY <1>1, <1>3, <1>5, DashboardAssumption DEF Callers
  <2>2. refreshes["decision"] # NoRefresh =>
          refreshes'["decision"].since = refreshes["decision"].since
    BY <1>3, <1>5 DEF Callers
  <2> QED
    BY <1>1, <1>2, <2>1, <2>2 DEF DInv, PostInv, RecordedMeansRecorded
<1> QED
  BY <1>1, <1>2, <1>5, <1>7, <1>8 DEF DInv, DashboardTypeOK, DialogInv, PostsWhatWasChosen,
     ShowsOneRefresh, ToastIsShown

(***************************************************************************)
(* The end of a refresh: a decision's toast is about what was recorded     *)
(* before the refresh started.                                             *)
(***************************************************************************)
LEMMA EndKeeps ==
  ASSUME DInv, NEW c \in Callers, refreshes[c] # NoRefresh, EndRefresh(c), UNCHANGED ledgerVars
  PROVE  /\ refreshes' \in [Callers -> Refresh \cup {NoRefresh}]
         /\ post' \in Post \cup {NoPost} /\ toast' \in Toast \cup {NoToast}
         /\ submitDisabled' \in BOOLEAN
         /\ RefreshInv' /\ PostInv' /\ RecordedMeansRecorded' /\ PostsWhatWasChosen'
         /\ toast' # toast =>
              Recorded(history, toast'.id, toast'.decision, refreshes[c].since)
<1>1. /\ Len(history) \in Nat /\ Len(history') \in Nat /\ UNCHANGED history
      /\ Kept
  BY LedgerMoves DEF DInv, DashboardTypeOK, ledgerVars, Kept
<1>2. /\ refreshes' \in [Callers -> Refresh \cup {NoRefresh}] /\ refreshes'[c] = NoRefresh
      /\ \A d \in Callers \ {c} : refreshes'[d] = refreshes[d]
  BY DEF DInv, DashboardTypeOK, EndRefresh
<1>3. RefreshInv'
  BY <1>1, <1>2 DEF DInv, RefreshInv
<1>4. CASE c = "decision"
  <2> DEFINE told == [id |-> post.id, decision |-> post.decision]
  <2>1. /\ post \in Post /\ post.state = "refreshing"
        /\ Recorded(history, post.id, post.decision, refreshes["decision"].since)
        /\ Recorded(history, post.id, post.decision, Len(history))
    BY <1>4 DEF DInv, DashboardTypeOK, PostInv
  <2>2. told \in Toast /\ told.id = post.id /\ told.decision = post.decision
    BY <2>1 DEF Post, Toast
  <2>3. toast' = told /\ post' = NoPost /\ submitDisabled' = FALSE
    BY <1>4 DEF EndRefresh
  <2> HIDE DEF told
  <2>4. PostInv' /\ RecordedMeansRecorded' /\ PostsWhatWasChosen'
    BY <1>1, <1>2, <1>4, <2>1, <2>2, <2>3 DEF PostInv, RecordedMeansRecorded, PostsWhatWasChosen
  <2> QED
    BY <1>2, <1>3, <1>4, <2>1, <2>2, <2>3, <2>4
<1>5. CASE c # "decision"
  <2>1. UNCHANGED <<toast, post, submitDisabled>> /\ refreshes'["decision"] = refreshes["decision"]
    BY <1>2, <1>5 DEF EndRefresh, Callers
  <2>2. PostInv' /\ RecordedMeansRecorded' /\ PostsWhatWasChosen'
    BY <1>1, <2>1 DEF DInv, PostInv, RecordedMeansRecorded, PostsWhatWasChosen
  <2> QED
    BY <1>2, <1>3, <2>1, <2>2 DEF DInv, DashboardTypeOK
<1> QED
  BY <1>4, <1>5

(***************************************************************************)
(* A refresh that has all its answers puts them on the page together, and  *)
(* with them the toast's decision.                                         *)
(***************************************************************************)
LEMMA ApplyKeeps ==
  ASSUME DInv, NEW c \in Callers, ApplyRefresh(c)
  PROVE  DInv' /\ ShowsOneRefresh /\ ToastIsShown
<1>1. /\ refreshes[c] # NoRefresh /\ refreshes[c] \in Refresh /\ EndRefresh(c)
      /\ UNCHANGED <<ledgerVars, decisionDialog, authDialog>>
      /\ shown' = refreshes[c].got /\ offline' = FALSE
      /\ \A table \in Tables : refreshes[c].got[table] # Waiting
  BY DEF ApplyRefresh, DInv, DashboardTypeOK
<1>2. LedgerTypeOK' /\ Kept /\ UNCHANGED history
  BY <1>1, LedgerMoves DEF DInv, DashboardTypeOK, ledgerVars
<1>3. /\ refreshes' \in [Callers -> Refresh \cup {NoRefresh}]
      /\ post' \in Post \cup {NoPost} /\ toast' \in Toast \cup {NoToast}
      /\ submitDisabled' \in BOOLEAN
      /\ RefreshInv' /\ PostInv' /\ RecordedMeansRecorded' /\ PostsWhatWasChosen'
      /\ toast' # toast => Recorded(history, toast'.id, toast'.decision, refreshes[c].since)
  BY <1>1, EndKeeps
<1>4. shown' \in [Tables -> Nat]
  BY <1>1 DEF Refresh
<1>5. selectedId' \in {selectedId, NoId}
  BY DEF ApplyRefresh, Selection
<1>6. \A table \in Tables :
        /\ refreshes[c].since \in Nat /\ shown'[table] \in Nat
        /\ refreshes[c].since <= shown'[table] /\ refreshes[c].since <= Len(history)
  BY <1>1, <1>4 DEF DInv, RefreshInv, Refresh
<1>7. ToastIsShown
  BY <1>2, <1>3, <1>6, RecordedKept DEF ToastIsShown
<1>8. ShowsOneRefresh
  <2>1. refreshes'[c] = NoRefresh
    BY <1>1 DEF DInv, DashboardTypeOK, EndRefresh
  <2> QED
    BY <1>1, <1>6, <2>1 DEF ShowsOneRefresh
<1>9. DialogInv' /\ selectedId' \in Ids \cup {NoId}
  BY <1>1, <1>5 DEF DInv, DialogInv, DashboardTypeOK
<1> QED
  BY <1>1, <1>2, <1>3, <1>4, <1>7, <1>8, <1>9 DEF DInv, DashboardTypeOK

(***************************************************************************)
(* A refresh that fails says so and leaves the tables alone.               *)
(***************************************************************************)
LEMMA FailKeeps ==
  ASSUME DInv, NEW c \in Callers, RefreshFails(c)
  PROVE  DInv' /\ ShowsOneRefresh /\ ToastIsShown
<1>1. /\ refreshes[c] # NoRefresh /\ EndRefresh(c)
      /\ UNCHANGED <<ledgerVars, shown, selectedId, decisionDialog>>
      /\ offline' \in BOOLEAN /\ authDialog' \in BOOLEAN /\ (offline' \/ authDialog')
  BY DEF RefreshFails, DInv, DashboardTypeOK
<1>2. LedgerTypeOK'
  BY <1>1, LedgerMoves DEF DInv, DashboardTypeOK
<1>3. /\ refreshes' \in [Callers -> Refresh \cup {NoRefresh}]
      /\ post' \in Post \cup {NoPost} /\ toast' \in Toast \cup {NoToast}
      /\ submitDisabled' \in BOOLEAN
      /\ RefreshInv' /\ PostInv' /\ RecordedMeansRecorded' /\ PostsWhatWasChosen'
  BY <1>1, EndKeeps
<1> QED
  BY <1>1, <1>2, <1>3 DEF DInv, DashboardTypeOK, DialogInv, ShowsOneRefresh, ToastIsShown

(***************************************************************************)
(* A submitted decision is for the request its dialog was opened for.      *)
(***************************************************************************)
LEMMA SubmitKeeps ==
  ASSUME DInv, NEW decision \in Choices, SubmitDecision(decision)
  PROVE  DInv' /\ ShowsOneRefresh /\ ToastIsShown
<1> DEFINE new == [id |-> selectedId, decision |-> decision, opened_for |-> decisionDialog,
                   state |-> "sent"]
<1>1. /\ UNCHANGED <<ledgerVars, shown, offline, selectedId, decisionDialog, authDialog,
                     refreshes>>
      /\ submitDisabled' = TRUE /\ post' = new /\ toast' = NoToast
      /\ ~submitDisabled /\ decisionDialog # NoId /\ selectedId # NoId
  BY DEF SubmitDecision
<1>2. LedgerTypeOK'
  BY <1>1, LedgerMoves DEF DInv, DashboardTypeOK
<1>3. decisionDialog \in Ids /\ selectedId = decisionDialog /\ decision \in Decision
  BY <1>1, DashboardAssumption DEF DInv, DashboardTypeOK, DialogInv
<1>4. new \in Post /\ new.id = new.opened_for /\ new.state = "sent"
  BY <1>3 DEF Post
<1> HIDE DEF new
<1>5. refreshes["decision"] = NoRefresh
  BY <1>1 DEF DInv, PostInv
<1>6. PostInv' /\ PostsWhatWasChosen' /\ RecordedMeansRecorded' /\ RefreshInv'
  BY <1>1, <1>4, <1>5 DEF DInv, PostInv, PostsWhatWasChosen, RecordedMeansRecorded, RefreshInv,
     ledgerVars
<1> QED
  BY <1>1, <1>2, <1>4, <1>6 DEF DInv, DashboardTypeOK, DialogInv, ShowsOneRefresh, ToastIsShown

(***************************************************************************)
(* A decision of this reviewer is recorded as the last event.              *)
(***************************************************************************)
LEMMA DecideRecords ==
  ASSUME LedgerTypeOK, NEW id \in Ids, NEW decision \in Decision, Decide(id, decision, Me)
  PROVE  Recorded(history', id, decision, Len(history'))
<1> DEFINE event == [request_id |-> id, event_type |-> "human_decision_recorded",
                     payload |-> [decision |-> decision, reviewer |-> Me,
                                  new_status |-> NewStatus(decision)]]
<1>1. /\ event \in Event /\ event.event_type = "human_decision_recorded"
      /\ event.request_id = id /\ event.payload.decision = decision /\ event.payload.reviewer = Me
  BY StatusTypes, DashboardAssumption DEF Event, DecidedEvent
<1>2. history' = Append(history, event) /\ history \in Seq(Event)
  BY DEF Decide, LedgerTypeOK, Event
<1> HIDE DEF event
<1>3. /\ Len(history') = Len(history) + 1 /\ Len(history) \in Nat
      /\ history'[Len(history) + 1] = event
  BY <1>1, <1>2, AppendEvent
<1> QED
  BY <1>1, <1>3 DEF Recorded

(***************************************************************************)
(* The server records the decision that was posted, or refuses it.         *)
(***************************************************************************)
LEMMA ServePostKeeps ==
  ASSUME DInv, ServePost
  PROVE  DInv' /\ ShowsOneRefresh /\ ToastIsShown
<1>1. /\ UNCHANGED <<shown, offline, selectedId, decisionDialog, authDialog, refreshes,
                     submitDisabled, toast>>
      /\ post \in Post /\ post # NoPost /\ post.state = "sent" /\ submitDisabled
  BY DEF DInv, DashboardTypeOK, PostInv, ServePost
<1>2. [Next]_ledgerVars
  BY <1>1, DashboardAssumption DEF ServePost, Next, Post
<1>3. LedgerTypeOK' /\ Kept
  BY <1>2, LedgerMoves DEF DInv, DashboardTypeOK
<1>4. refreshes["decision"] = NoRefresh
  BY <1>1 DEF DInv, PostInv
<1>5. RefreshInv'
  BY <1>1, <1>3 DEF DInv, DashboardTypeOK, RefreshInv, Refresh, Kept, Waiting
<1>6. RecordedMeansRecorded'
  BY <1>1, <1>3, RecordedKept DEF DInv, RecordedMeansRecorded, Kept
<1>7. /\ post' \in Post /\ post' # NoPost /\ post'.id = post.id
      /\ post'.opened_for = post.opened_for /\ post'.decision = post.decision
      /\ post'.state \in {"recorded", "refused"}
      /\ post'.state = "recorded" => Decide(post.id, post.decision, Me)
  BY <1>1, DashboardAssumption DEF ServePost, Post
<1>8. post'.state = "recorded" => Recorded(history', post'.id, post'.decision, Len(history'))
  BY <1>1, <1>7, DecideRecords DEF DInv, DashboardTypeOK, Post
<1>9. PostInv' /\ PostsWhatWasChosen'
  BY <1>1, <1>4, <1>7, <1>8 DEF DInv, PostInv, PostsWhatWasChosen
<1> QED
  BY <1>1, <1>3, <1>5, <1>6, <1>7, <1>9 DEF DInv, DashboardTypeOK, DialogInv, ShowsOneRefresh,
     ToastIsShown

(***************************************************************************)
(* The answer of a recorded decision starts the refresh behind its toast.  *)
(***************************************************************************)
LEMMA AnsweredKeeps ==
  ASSUME DInv, DecisionAnswered
  PROVE  DInv' /\ ShowsOneRefresh /\ ToastIsShown
<1>1. /\ UNCHANGED <<ledgerVars, shown, offline, selectedId, authDialog, submitDisabled, toast>>
      /\ post \in Post /\ post.state = "recorded" /\ submitDisabled
      /\ decisionDialog' = NoId /\ StartRefresh("decision")
      /\ post' = [post EXCEPT !.state = "refreshing"]
  BY DEF DInv, DashboardTypeOK, PostInv, DecisionAnswered, Ok
<1>2. LedgerTypeOK' /\ UNCHANGED history
  BY <1>1, LedgerMoves DEF DInv, DashboardTypeOK, ledgerVars
<1>3. /\ refreshes' \in [Callers -> Refresh \cup {NoRefresh}] /\ RefreshInv'
      /\ refreshes'["decision"].since = Len(history)
  BY <1>1, StartKeeps DEF Callers
<1>4. /\ post' \in Post /\ post' # NoPost /\ post'.id = post.id /\ post'.state = "refreshing"
      /\ post'.opened_for = post.opened_for /\ post'.decision = post.decision
  BY <1>1, DashboardAssumption DEF Post
<1>5. PostInv' /\ PostsWhatWasChosen' /\ RecordedMeansRecorded'
  BY <1>1, <1>2, <1>3, <1>4, DashboardAssumption
     DEF DInv, PostInv, PostsWhatWasChosen, RecordedMeansRecorded
<1> QED
  BY <1>1, <1>2, <1>3, <1>4, <1>5 DEF DInv, DashboardTypeOK, DialogInv, ShowsOneRefresh,
     ToastIsShown

(***************************************************************************)
(* A POST that failed leaves the tables and the toast as they were.        *)
(***************************************************************************)
LEMMA FailedKeeps ==
  ASSUME DInv, DecisionFailed
  PROVE  DInv' /\ ShowsOneRefresh /\ ToastIsShown
<1>1. /\ UNCHANGED <<ledgerVars, shown, offline, selectedId, decisionDialog, refreshes, toast>>
      /\ post' = NoPost /\ submitDisabled' = FALSE /\ authDialog' \in BOOLEAN
      /\ refreshes["decision"] = NoRefresh
  BY DEF DInv, DashboardTypeOK, PostInv, DecisionFailed
<1>2. LedgerTypeOK' /\ UNCHANGED history
  BY <1>1, LedgerMoves DEF DInv, DashboardTypeOK, ledgerVars
<1> QED
  BY <1>1, <1>2 DEF DInv, DashboardTypeOK, DialogInv, RefreshInv, PostInv, PostsWhatWasChosen,
     RecordedMeansRecorded, ShowsOneRefresh, ToastIsShown

-----------------------------------------------------------------------------
(***************************************************************************)
(* The steps together.                                                     *)
(***************************************************************************)
LEMMA DashboardStarts == DashboardInit => DInv
<1> SUFFICES ASSUME DashboardInit PROVE DInv
  OBVIOUS
<1>1. LedgerTypeOK
  BY LedgerInit DEF DashboardInit, LedgerInv
<1> QED
  BY <1>1 DEF DashboardInit, DInv, DashboardTypeOK, DialogInv, PostsWhatWasChosen, RefreshInv,
     PostInv, RecordedMeansRecorded, Callers

(***************************************************************************)
(* Every step keeps the invariant and does what the two action properties  *)
(* say.                                                                    *)
(***************************************************************************)
LEMMA DashboardStep ==
  DInv /\ [DashboardNext]_vars => DInv' /\ ShowsOneRefresh /\ ToastIsShown
<1> SUFFICES ASSUME DInv, [DashboardNext]_vars PROVE DInv' /\ ShowsOneRefresh /\ ToastIsShown
  OBVIOUS
<1>1. CASE DashboardNext
  BY <1>1, ElsewhereKeeps, ClickKeeps, ButtonKeeps, ServeKeeps, ApplyKeeps, FailKeeps,
     SubmitKeeps, ServePostKeeps, AnsweredKeeps, FailedKeeps DEF DashboardNext
<1>2. CASE UNCHANGED vars
  <2>1. LedgerTypeOK' /\ Kept
    BY <1>2, LedgerMoves DEF DInv, DashboardTypeOK, vars
  <2>2. RefreshInv' /\ PostInv' /\ RecordedMeansRecorded' /\ PostsWhatWasChosen'
    BY <1>2, <2>1, PageWaits DEF vars, pageVars
  <2> QED
    BY <1>2, <2>1, <2>2 DEF DInv, DashboardTypeOK, DialogInv, ShowsOneRefresh, ToastIsShown,
       vars, pageVars
<1> QED
  BY <1>1, <1>2

(***************************************************************************)
(* The invariant holds throughout.                                         *)
(***************************************************************************)
THEOREM DashboardInductive == DashboardSpec => []DInv
<1>1. DInv /\ [DashboardNext]_vars => DInv'
  BY DashboardStep
<1> QED
  BY DashboardStarts, <1>1, PTL DEF DashboardSpec

(***************************************************************************)
(* Type correctness of the page (static/app.js, state).                    *)
(***************************************************************************)
THEOREM DashboardTypeCorrect == DashboardSpec => []DashboardTypeOK
<1>1. DInv => DashboardTypeOK
  BY DEF DInv
<1> QED
  BY DashboardInductive, <1>1, PTL

(***************************************************************************)
(* handleDecisionSubmit posts to the request its dialog was opened for.    *)
(***************************************************************************)
THEOREM RightRequest == DashboardSpec => []PostsWhatWasChosen
<1>1. DInv => PostsWhatWasChosen
  BY DEF DInv
<1> QED
  BY DashboardInductive, <1>1, PTL

(***************************************************************************)
(* "Decision recorded" is only said of recorded decisions.                 *)
(***************************************************************************)
THEOREM ToastTells == DashboardSpec => []RecordedMeansRecorded
<1>1. DInv => RecordedMeansRecorded
  BY DEF DInv
<1> QED
  BY DashboardInductive, <1>1, PTL

(***************************************************************************)
(* refreshAll never mixes the tables of two refreshes, nor shows half of   *)
(* one: the tables become the answers of one refresh, all of them, none    *)
(* older than its start.                                                   *)
(***************************************************************************)
THEOREM OneRefresh == DashboardSpec => TablesOfOneRefresh
<1>1. DInv /\ [DashboardNext]_vars =>
        [shown' # shown =>
           \E c \in Callers :
             /\ refreshes[c] # NoRefresh /\ refreshes'[c] = NoRefresh
             /\ shown' = refreshes[c].got
             /\ \A table \in Tables : shown'[table] >= refreshes[c].since]_vars
  BY DashboardStep DEF ShowsOneRefresh
<1> QED
  BY DashboardInductive, <1>1, PTL DEF DashboardSpec, TablesOfOneRefresh

(***************************************************************************)
(* At its toast the page shows the decision, or that it cannot.            *)
(***************************************************************************)
THEOREM ToastShows == DashboardSpec => ToastWithDecision
<1>1. DInv /\ [DashboardNext]_vars =>
        [toast' # toast /\ toast' # NoToast =>
           \/ offline' \/ authDialog'
           \/ \A table \in Tables :
                Recorded(history', toast'.id, toast'.decision, shown'[table])]_vars
  BY DashboardStep DEF ToastIsShown
<1> QED
  BY DashboardInductive, <1>1, PTL DEF DashboardSpec, ToastWithDecision

(***************************************************************************)
(* The page is a client of the ledger as it is promised: the decision it   *)
(* posts is a decision of the ledger or is refused, and nothing else on    *)
(* the page changes what is stored.                                        *)
(***************************************************************************)
THEOREM PageKeepsLedger == DashboardSpec => Spec
<1>1. DInv /\ [DashboardNext]_vars => [Next]_ledgerVars
  <2> SUFFICES ASSUME DInv, [DashboardNext]_vars PROVE [Next]_ledgerVars
    OBVIOUS
  <2>1. CASE Elsewhere
    <3>1. PICK i \in Ids :
            \/ \E payload \in Payloads, triage \in Triage : Register(i, NoKey, payload, triage)
            \/ \E decision \in Choices, reviewer \in Reviewers : Decide(i, decision, reviewer)
      BY <2>1 DEF Elsewhere
    <3>2. \A decision \in Choices : decision \in Decision
      BY DashboardAssumption
    <3> QED
      BY <3>1, <3>2 DEF Next
  <2>2. CASE ServePost
    <3>1. post.id \in Ids /\ post.decision \in Decision /\ Me \in Reviewers
      BY <2>2, DashboardAssumption DEF ServePost, DInv, DashboardTypeOK, Post
    <3>2. Decide(post.id, post.decision, Me) \/ UNCHANGED ledgerVars
      BY <2>2 DEF ServePost
    <3> QED
      BY <3>1, <3>2 DEF Next
  <2>3. CASE RefreshButton \/ LeaveAuthDialog \/ OpenDecisionDialog \/ CloseDecisionDialog
    BY <2>3 DEF RefreshButton, LeaveAuthDialog, OpenDecisionDialog, CloseDecisionDialog
  <2>4. ASSUME NEW c \in Callers,
               ApplyRefresh(c) \/ RefreshFails(c) \/ \E table \in Tables : Serve(c, table)
        PROVE  UNCHANGED ledgerVars
    BY <2>4 DEF ApplyRefresh, RefreshFails, Serve
  <2>5. ASSUME NEW i \in Ids, SelectRequest(i) PROVE UNCHANGED ledgerVars
    BY <2>5 DEF SelectRequest
  <2>6. ASSUME NEW decision \in Choices, SubmitDecision(decision) PROVE UNCHANGED ledgerVars
    BY <2>6 DEF SubmitDecision
  <2>7. CASE DecisionAnswered \/ DecisionFailed
    BY <2>7 DEF DecisionAnswered, DecisionFailed
  <2>8. CASE UNCHANGED vars
    BY <2>8 DEF vars
  <2> QED
    BY <2>1, <2>2, <2>3, <2>4, <2>5, <2>6, <2>7, <2>8 DEF DashboardNext
<1>2. DashboardInit => Init
  BY DEF DashboardInit
<1> QED
  BY <1>1, <1>2, DashboardInductive, PTL DEF DashboardSpec, Spec

=============================================================================
