---------------------------- MODULE RequestStore ----------------------------
(***************************************************************************)
(* The SQLite database of storage.py: the tables requests, decisions and   *)
(* audit_events, and the one write transaction SQLite allows at a time.    *)
(*                                                                         *)
(* db is what is committed, and all that another connection can read.      *)
(* work is what the open write transaction has made of it: it equals db    *)
(* while nobody writes.  A transaction is made durable by Commit and       *)
(* abandoned by Rollback; connect() runs one of the two on every path.     *)
(***************************************************************************)
EXTENDS ApprovalDomain, Integers, Sequences

CONSTANTS
  Threads,      \* worker threads of the API process, one call each
  Ids,          \* the uuid4 values requests are given
  Keys,         \* idempotency keys
  Payloads,     \* request bodies, up to the equality of their canonical JSON
  Reviewers,    \* names of reviewers
  NoKey,        \* idempotency_key IS NULL
  NoPrint,      \* request_fingerprint IS NULL
  NoRow,        \* no row with this id
  Nobody        \* no write transaction is open

VARIABLES
  db,           \* the committed tables
  work,         \* the tables as the open write transaction sees them
  writer,       \* the thread that holds SQLite's write lock, or Nobody
  clock         \* utcnow_iso()

storeVars == <<db, work, writer, clock>>

-----------------------------------------------------------------------------
(***************************************************************************)
(* A payload's fingerprint is the SHA-256 of its canonical JSON: equal for *)
(* equal payloads and, hash collisions aside, for no others, so the        *)
(* payload itself stands for it.                                           *)
(***************************************************************************)
payload_fingerprint(payload) == payload

(***************************************************************************)
(* Rows.                                                                   *)
(***************************************************************************)
Row ==
  [idempotency_key     : Keys \cup {NoKey},
   request_fingerprint : Payloads \cup {NoPrint},
   payload             : Payloads,
   status              : RequestStatus,
   triage              : Triage,
   created_at          : Nat,
   updated_at          : Nat]

DecisionRow ==
  [request_id : Ids, decision : Decision, reviewer : Reviewers, decided_at : Nat]

CreatedPayload == [status : RequestStatus, triage : Triage]

DecidedPayload ==
  [decision : Decision, reviewer : Reviewers, new_status : RequestStatus]

AuditRow ==
  [request_id : Ids, event_type : {"request_created"},
   payload : CreatedPayload, created_at : Nat]
  \cup
  [request_id : Ids, event_type : {"human_decision_recorded"},
   payload : DecidedPayload, created_at : Nat]

Tables ==
  [requests  : [Ids -> Row \cup {NoRow}],
   decisions : Seq(DecisionRow),
   audit     : Seq(AuditRow)]

ASSUME SentinelAssumption ==
  /\ NoKey \notin Keys
  /\ NoPrint \notin Payloads
  /\ NoRow \notin Row
  /\ Nobody \notin Threads

-----------------------------------------------------------------------------
(***************************************************************************)
(* Reading a view of the tables: db for a plain SELECT, work for a SELECT  *)
(* inside the write transaction.                                           *)
(***************************************************************************)
Exists(view, i) == i \in Ids /\ view.requests[i] # NoRow

IsFinal(view, i) == Exists(view, i) /\ view.requests[i].status \in FinalStatus

(***************************************************************************)
(* SELECT ... WHERE idempotency_key = ?  (at most one row).                *)
(***************************************************************************)
Holders(view, key) ==
  {i \in Ids : /\ key # NoKey
               /\ Exists(view, i)
               /\ view.requests[i].idempotency_key = key}

(***************************************************************************)
(* The stored fingerprint, unless it is NULL, must be the payload's.       *)
(***************************************************************************)
(* Fault: any payload is accepted for a known key. *)
ConflictsIgnored(row, payload) == FALSE

Conflicts(row, payload) ==
  row.request_fingerprint \notin {NoPrint, payload_fingerprint(payload)}

-----------------------------------------------------------------------------
(***************************************************************************)
(* The statements of the two write transactions, as functions on a view.   *)
(***************************************************************************)
PutRequest(view, i, row) == [view EXCEPT !.requests[i] = row]

AddDecision(view, row) == [view EXCEPT !.decisions = Append(@, row)]

SetStatus(view, i, status, now) ==
  [view EXCEPT !.requests[i].status = status, !.requests[i].updated_at = now]

AddAudit(view, i, type, payload) ==
  [view EXCEPT !.audit =
     Append(@, [request_id |-> i, event_type |-> type,
                payload |-> payload, created_at |-> clock])]

(***************************************************************************)
(* Taking the write lock, committing, rolling back.                        *)
(***************************************************************************)
StoreInit ==
  /\ db = [requests |-> [i \in Ids |-> NoRow], decisions |-> <<>>, audit |-> <<>>]
  /\ work = db
  /\ writer = Nobody
  /\ clock = 0

Begin(t) == writer = Nobody /\ writer' = t

Commit == db' = work /\ writer' = Nobody /\ UNCHANGED <<work, clock>>

(* Fault: what was staged is dropped, and the connection is left open. *)
RollbackKeepsLock == work' = db /\ UNCHANGED <<db, writer, clock>>

Rollback == work' = db /\ writer' = Nobody /\ UNCHANGED <<db, clock>>

=============================================================================
