--------------------------- MODULE ApprovalLedger ---------------------------
(***************************************************************************)
(* What the store promises, with no threads, transactions or failures in   *)
(* it: a book of requests and a history of what happened to them.  A       *)
(* request enters the book once, with the status its triage asks for; a    *)
(* decision moves it, unless it is final; and each of the two adds exactly *)
(* one event to the history in the same step.  The tables requests and     *)
(* audit_events of storage.py, as other connections see them, are to       *)
(* behave like this (ApprovalApi, property ImplementsLedger).              *)
(***************************************************************************)
EXTENDS ApprovalDomain, Integers, Sequences

CONSTANTS
  Ids, Keys, Payloads, Reviewers,
  NoKey,     \* the request came without an idempotency key
  NoEntry    \* no such request

VARIABLES
  entries,   \* id -> the request
  history    \* the audit log, oldest first

ledgerVars == <<entries, history>>

Entry ==
  [key : Keys \cup {NoKey}, payload : Payloads, triage : Triage, status : RequestStatus]

CreatedEvent ==
  [request_id : Ids, event_type : {"request_created"},
   payload : [status : RequestStatus, triage : Triage]]

DecidedEvent ==
  [request_id : Ids, event_type : {"human_decision_recorded"},
   payload : [decision : Decision, reviewer : Reviewers, new_status : RequestStatus]]

ASSUME LedgerAssumption ==
  /\ NoKey \notin Keys
  /\ NoEntry \notin Entry

-----------------------------------------------------------------------------
Init ==
  /\ entries = [i \in Ids |-> NoEntry]
  /\ history = <<>>

(***************************************************************************)
(* A key is given to one request only.                                     *)
(***************************************************************************)
KeyFree(key) == \A i \in Ids : entries[i] # NoEntry /\ key # NoKey => entries[i].key # key

Register(i, key, payload, triage) ==
  /\ entries[i] = NoEntry
  /\ KeyFree(key)
  /\ entries' = [entries EXCEPT ![i] =
       [key |-> key, payload |-> payload, triage |-> triage,
        status |-> InitialStatus(triage)]]
  /\ history' = Append(history,
       [request_id |-> i, event_type |-> "request_created",
        payload |-> [status |-> InitialStatus(triage), triage |-> triage]])

(* Fault: a final request may be decided again. *)
DecideAgain(i, decision, reviewer) ==
  /\ entries[i] # NoEntry
  /\ entries' = [entries EXCEPT ![i].status = NewStatus(decision)]
  /\ history' = Append(history,
       [request_id |-> i, event_type |-> "human_decision_recorded",
        payload |-> [decision |-> decision, reviewer |-> reviewer,
                     new_status |-> NewStatus(decision)]])

(* Fault: the event is left out. *)
DecideSilently(i, decision, reviewer) ==
  /\ entries[i] # NoEntry
  /\ entries[i].status \notin FinalStatus
  /\ entries' = [entries EXCEPT ![i].status = NewStatus(decision)]
  /\ UNCHANGED history

Decide(i, decision, reviewer) ==
  /\ entries[i] # NoEntry
  /\ entries[i].status \notin FinalStatus
  /\ entries' = [entries EXCEPT ![i].status = NewStatus(decision)]
  /\ history' = Append(history,
       [request_id |-> i, event_type |-> "human_decision_recorded",
        payload |-> [decision |-> decision, reviewer |-> reviewer,
                     new_status |-> NewStatus(decision)]])

Next ==
  \E i \in Ids :
    \/ \E key \in Keys \cup {NoKey}, payload \in Payloads, triage \in Triage :
         Register(i, key, payload, triage)
    \/ \E decision \in Decision, reviewer \in Reviewers : Decide(i, decision, reviewer)

Spec == Init /\ [][Next]_ledgerVars

-----------------------------------------------------------------------------
LedgerTypeOK ==
  /\ entries \in [Ids -> Entry \cup {NoEntry}]
  /\ history \in Seq(CreatedEvent \cup DecidedEvent)

(***************************************************************************)
(* The status an event announces.                                          *)
(***************************************************************************)
EventStatus(event) ==
  IF event.event_type = "request_created"
  THEN event.payload.status
  ELSE event.payload.new_status

FirstEvent(n) == \A m \in 1..(n - 1) : history[m].request_id # history[n].request_id

LastEvent(n) ==
  \A m \in (n + 1)..Len(history) : history[m].request_id # history[n].request_id

(***************************************************************************)
(* The audit log explains the table: the first event of a request is its   *)
(* creation with the triage the row stores, no later event is, and the     *)
(* row's status is the one its last event announced.                       *)
(***************************************************************************)
HistoryExplainsStatus ==
  /\ \A n \in DOMAIN history :
       LET entry == entries[history[n].request_id] IN
       /\ entry # NoEntry
       /\ history[n].event_type = "request_created" <=> FirstEvent(n)
       /\ FirstEvent(n) => history[n].payload.triage = entry.triage
       /\ LastEvent(n) => EventStatus(history[n]) = entry.status
  /\ \A i \in Ids : entries[i] # NoEntry =>
       \E n \in DOMAIN history : history[n].request_id = i

(***************************************************************************)
(* A final decision is the last thing the audit log says of a request: two *)
(* reviewers who race for one request cannot both finalize it, and no      *)
(* decision of any kind is recorded after a final one.                     *)
(***************************************************************************)
FinalClosesHistory ==
  \A m, n \in DOMAIN history :
    m < n /\ history[m].request_id = history[n].request_id
      => EventStatus(history[m]) \notin FinalStatus

=============================================================================
