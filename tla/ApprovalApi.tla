---------------------------- MODULE ApprovalApi ----------------------------
(***************************************************************************)
(* The API process: POST /requests and POST /requests/{id}/decision        *)
(* (main.py) running in the worker threads of one process over the store   *)
(* (storage.py).  A handler is a sequence of steps between which other     *)
(* threads run; every step is one SQL statement, one commit, or one call   *)
(* of the triage provider, followed by what the thread then does alone.    *)
(*                                                                         *)
(* Calls that authentication or schema validation refuses (401, 422) touch *)
(* none of this state and are not steps here.                              *)
(***************************************************************************)
EXTENDS RequestStore, FiniteSets

CONSTANTS
  NoId,          \* no id yet; also an id the database has never held
  NoCall,
  NoTriage,
  NoAnswer,
  MaxDecisions,  \* bound on the decisions that may be recorded
  MaxClock       \* bound on the clock

VARIABLES
  pc,            \* where each thread is
  call,          \* the call it serves
  triage,        \* the provider's result, once it has one
  id,            \* request_id = str(uuid.uuid4())
  now,           \* now = utcnow_iso()
  answer         \* the HTTP answer

locals == <<call, triage, id, now>>
apiVars == <<pc, call, triage, id, now, answer>>
vars == <<storeVars, apiVars>>

-----------------------------------------------------------------------------
CreateCall == [kind : {"create"}, key : Keys \cup {NoKey}, payload : Payloads]

DecideCall ==
  [kind : {"decide"}, target : Ids \cup {NoId}, decision : Decision,
   reviewer : Reviewers]

Answer == [code : {200, 201, 404, 409, 500, 503}, id : Ids \cup {NoId}]

CreateSteps ==
  {"precheck", "triage", "recheck", "insert", "create_audit", "create_commit",
   "resolve", "readback"}

DecideSteps ==
  {"begin", "check", "decision", "status", "decide_audit", "decide_commit"}

(***************************************************************************)
(* The steps between BEGIN and the end of the transaction.                 *)
(***************************************************************************)
WriterSteps ==
  {"create_audit", "create_commit", "check", "decision", "status",
   "decide_audit", "decide_commit"}

ASSUME ApiAssumption ==
  /\ IsFiniteSet(Threads) /\ IsFiniteSet(Ids)
  /\ NoId \notin Ids
  /\ NoCall \notin CreateCall \cup DecideCall
  /\ NoTriage \notin Triage
  /\ NoAnswer \notin Answer
  /\ MaxDecisions \in Nat /\ MaxClock \in Nat

-----------------------------------------------------------------------------
Goto(t, step) == pc' = [pc EXCEPT ![t] = step]

Reply(t, code, i) ==
  /\ answer' = [answer EXCEPT ![t] = [code |-> code, id |-> i]]
  /\ Goto(t, "done")

(***************************************************************************)
(* A key that is taken answers for the request that holds it: 409 if that  *)
(* request has another payload, and the stored request otherwise.          *)
(***************************************************************************)
AnswerExisting(t) ==
  \E i \in Holders(db, call[t].key) :
    IF Conflicts(db.requests[i], call[t].payload)
    THEN Reply(t, 409, NoId)
    ELSE Reply(t, 201, i)

-----------------------------------------------------------------------------
(***************************************************************************)
(* POST /requests                                                          *)
(***************************************************************************)

(***************************************************************************)
(* uuid4 gives an id nobody has: no row, staged or committed, and no other *)
(* thread about to insert one.  A create is admitted only while an id is   *)
(* left for it (Ids is a bound), or when its key is already taken.         *)
(***************************************************************************)
FreshIds == {i \in Ids : ~Exists(work, i) /\ \A t \in Threads : id[t] # i}

RoomToCreate(key) ==
  \/ Holders(db, key) # {}
  \/ Cardinality({t \in Threads : pc[t] \in {"precheck", "triage", "recheck"}})
       < Cardinality(FreshIds)

StartCreate(t, key, payload) ==
  /\ pc[t] = "idle"
  /\ RoomToCreate(key)
  /\ call' = [call EXCEPT ![t] = [kind |-> "create", key |-> key, payload |-> payload]]
  /\ Goto(t, IF key = NoKey THEN "triage" ELSE "precheck")
  /\ UNCHANGED <<storeVars, triage, id, now, answer>>

(***************************************************************************)
(* The handler's own lookup, before the triage.                            *)
(***************************************************************************)
Precheck(t) ==
  /\ pc[t] = "precheck"
  /\ IF Holders(db, call[t].key) = {}
     THEN Goto(t, "triage") /\ UNCHANGED answer
     ELSE AnswerExisting(t)
  /\ UNCHANGED <<storeVars, locals>>

CallProvider(t) ==
  /\ pc[t] = "triage"
  /\ \E result \in Triage : triage' = [triage EXCEPT ![t] = result]
  /\ Goto(t, "recheck")
  /\ UNCHANGED <<storeVars, call, id, now, answer>>

(***************************************************************************)
(* TriageProviderError is a 503, any other exception a 500.                *)
(***************************************************************************)
ProviderFails(t) ==
  /\ pc[t] = "triage"
  /\ \E code \in {500, 503} : Reply(t, code, NoId)
  /\ UNCHANGED <<storeVars, locals>>

(***************************************************************************)
(* RequestStore.create_request: look the key up again, then draw the id    *)
(* and the time of the new row.                                            *)
(***************************************************************************)
Recheck(t) ==
  /\ pc[t] = "recheck"
  /\ IF Holders(db, call[t].key) = {}
     THEN /\ \E i \in FreshIds : id' = [id EXCEPT ![t] = i]
          /\ now' = [now EXCEPT ![t] = clock]
          /\ Goto(t, "insert")
          /\ UNCHANGED answer
     ELSE AnswerExisting(t) /\ UNCHANGED <<id, now>>
  /\ UNCHANGED <<storeVars, call, triage>>

NewRow(t) ==
  [idempotency_key     |-> call[t].key,
   request_fingerprint |-> IF call[t].key = NoKey THEN NoPrint
                          ELSE payload_fingerprint(call[t].payload),
   payload             |-> call[t].payload,
   status              |-> InitialStatus(triage[t]),
   triage              |-> triage[t],
   created_at          |-> now[t],
   updated_at          |-> now[t]]

(***************************************************************************)
(* INSERT INTO requests opens the write transaction.  The unique index on  *)
(* idempotency_key refuses a key that is taken: the transaction is rolled  *)
(* back and the key looked up once more.                                   *)
(***************************************************************************)
(* Fault: no unique index. *)
InsertRequestUnindexed(t) ==
  /\ pc[t] = "insert"
  /\ Begin(t)
  /\ work' = PutRequest(work, id[t], NewRow(t))
  /\ Goto(t, "create_audit")
  /\ UNCHANGED <<db, clock, locals, answer>>

InsertRequest(t) ==
  /\ pc[t] = "insert"
  /\ writer = Nobody
  /\ IF Holders(work, call[t].key) = {}
     THEN /\ Begin(t)
          /\ work' = PutRequest(work, id[t], NewRow(t))
          /\ Goto(t, "create_audit")
     ELSE /\ Goto(t, "resolve")
          /\ UNCHANGED <<work, writer>>
  /\ UNCHANGED <<db, clock, locals, answer>>

AuditCreate(t) ==
  /\ pc[t] = "create_audit"
  /\ work' = AddAudit(work, id[t], "request_created",
                      [status |-> InitialStatus(triage[t]), triage |-> triage[t]])
  /\ Goto(t, "create_commit")
  /\ UNCHANGED <<db, writer, clock, locals, answer>>

CommitCreate(t) ==
  /\ pc[t] = "create_commit"
  /\ Commit
  /\ Goto(t, "readback")
  /\ UNCHANGED <<locals, answer>>

(***************************************************************************)
(* After an IntegrityError: the request that won the key, or the error.    *)
(***************************************************************************)
Resolve(t) ==
  /\ pc[t] = "resolve"
  /\ IF Holders(db, call[t].key) = {} THEN Reply(t, 500, NoId) ELSE AnswerExisting(t)
  /\ UNCHANGED <<storeVars, locals>>

ReadBack(t) ==
  /\ pc[t] = "readback"
  /\ IF Exists(db, id[t]) THEN Reply(t, 201, id[t]) ELSE Reply(t, 500, NoId)
  /\ UNCHANGED <<storeVars, locals>>

-----------------------------------------------------------------------------
(***************************************************************************)
(* POST /requests/{request_id}/decision                                    *)
(***************************************************************************)

(***************************************************************************)
(* A client names a committed request or an id that does not exist.  Past  *)
(* MaxDecisions only calls that will be refused are admitted.              *)
(***************************************************************************)
RoomToDecide(i) ==
  \/ i = NoId
  \/ IsFinal(db, i)
  \/ Exists(db, i) /\ Len(db.decisions)
       + Cardinality({t \in Threads : pc[t] \in DecideSteps}) < MaxDecisions

(***************************************************************************)
(* The decision's time is read here, before the lock is waited for.        *)
(***************************************************************************)
StartDecide(t, i, decision, reviewer) ==
  /\ pc[t] = "idle"
  /\ RoomToDecide(i)
  /\ call' = [call EXCEPT ![t] = [kind |-> "decide", target |-> i,
                                  decision |-> decision, reviewer |-> reviewer]]
  /\ now' = [now EXCEPT ![t] = clock]
  /\ Goto(t, "begin")
  /\ UNCHANGED <<storeVars, triage, id, answer>>

(* Fault: no BEGIN IMMEDIATE, so the status is read before the lock is held. *)
BeginDeferred(t) ==
  /\ pc[t] = "begin"
  /\ LET i == call[t].target IN
     Goto(t, IF Exists(db, i) /\ ~IsFinal(db, i) THEN "decision" ELSE "check")
  /\ UNCHANGED <<storeVars, locals, answer>>

BeginImmediate(t) ==
  /\ pc[t] = "begin"
  /\ Begin(t)
  /\ Goto(t, "check")
  /\ UNCHANGED <<db, work, clock, locals, answer>>

(* Fault: only an approved request counts as final. *)
CheckOpenUnlessApproved(t) ==
  /\ pc[t] = "check"
  /\ CASE ~Exists(work, call[t].target) -> Reply(t, 404, NoId) /\ Rollback
       [] work.requests[call[t].target].status = "approved" -> Reply(t, 409, NoId) /\ Rollback
       [] OTHER -> Goto(t, "decision") /\ UNCHANGED <<storeVars, answer>>
  /\ UNCHANGED locals

(* Fault: a refusal is answered with the transaction still open. *)
CheckOpenKeepsLock(t) ==
  /\ pc[t] = "check"
  /\ IF ~Exists(work, call[t].target) \/ IsFinal(work, call[t].target)
     THEN Reply(t, 409, NoId)
     ELSE Goto(t, "decision") /\ UNCHANGED answer
  /\ UNCHANGED <<storeVars, locals>>

CheckOpen(t) ==
  /\ pc[t] = "check"
  /\ CASE ~Exists(work, call[t].target) -> Reply(t, 404, NoId) /\ Rollback
       [] IsFinal(work, call[t].target) -> Reply(t, 409, NoId) /\ Rollback
       [] OTHER -> Goto(t, "decision") /\ UNCHANGED <<storeVars, answer>>
  /\ UNCHANGED locals

(* Fault: the connection is in autocommit mode. *)
InsertDecisionAutocommit(t) ==
  /\ pc[t] = "decision"
  /\ LET row == [request_id |-> call[t].target, decision |-> call[t].decision,
                 reviewer |-> call[t].reviewer, decided_at |-> now[t]]
     IN  db' = AddDecision(db, row) /\ work' = AddDecision(work, row)
  /\ Goto(t, "status")
  /\ UNCHANGED <<writer, clock, locals, answer>>

InsertDecision(t) ==
  /\ pc[t] = "decision"
  /\ work' = AddDecision(work,
               [request_id |-> call[t].target, decision |-> call[t].decision,
                reviewer |-> call[t].reviewer, decided_at |-> now[t]])
  /\ Goto(t, "status")
  /\ UNCHANGED <<db, writer, clock, locals, answer>>

(* Fault: the connection is in autocommit mode. *)
UpdateStatusAutocommit(t) ==
  /\ pc[t] = "status"
  /\ db' = SetStatus(db, call[t].target, NewStatus(call[t].decision), now[t])
  /\ work' = SetStatus(work, call[t].target, NewStatus(call[t].decision), now[t])
  /\ Goto(t, "decide_audit")
  /\ UNCHANGED <<writer, clock, locals, answer>>

UpdateStatus(t) ==
  /\ pc[t] = "status"
  /\ work' = SetStatus(work, call[t].target, NewStatus(call[t].decision), now[t])
  /\ Goto(t, "decide_audit")
  /\ UNCHANGED <<db, writer, clock, locals, answer>>

(* Fault: the event carries the decision's time, read before the lock. *)
AuditDecideEarlierTime(t) ==
  /\ pc[t] = "decide_audit"
  /\ work' = [work EXCEPT !.audit = Append(@,
               [request_id |-> call[t].target, event_type |-> "human_decision_recorded",
                payload |-> [decision |-> call[t].decision, reviewer |-> call[t].reviewer,
                             new_status |-> NewStatus(call[t].decision)],
                created_at |-> now[t]])]
  /\ Goto(t, "decide_commit")
  /\ UNCHANGED <<db, writer, clock, locals, answer>>

AuditDecide(t) ==
  /\ pc[t] = "decide_audit"
  /\ work' = AddAudit(work, call[t].target, "human_decision_recorded",
               [decision |-> call[t].decision, reviewer |-> call[t].reviewer,
                new_status |-> NewStatus(call[t].decision)])
  /\ Goto(t, "decide_commit")
  /\ UNCHANGED <<db, writer, clock, locals, answer>>

(* Fault: the commit is forgotten, and closing the connection rolls back. *)
CommitDecideForgotten(t) ==
  /\ pc[t] = "decide_commit"
  /\ Rollback
  /\ Reply(t, 200, call[t].target)
  /\ UNCHANGED locals

CommitDecide(t) ==
  /\ pc[t] = "decide_commit"
  /\ Commit
  /\ Reply(t, 200, call[t].target)
  /\ UNCHANGED locals

-----------------------------------------------------------------------------
(***************************************************************************)
(* What may go wrong, and the rest of the environment                      *)
(***************************************************************************)

(***************************************************************************)
(* SQLite's busy timeout: a thread that waits for the write lock while     *)
(* another holds it gives up, and the handler answers 500.                 *)
(***************************************************************************)
(* Fault: no busy timeout; the lock is polled for ever. *)
BusyRetry(t) ==
  /\ pc[t] \in {"insert", "begin"}
  /\ writer # Nobody
  /\ UNCHANGED vars

BusyTimeout(t) ==
  /\ pc[t] \in {"insert", "begin"}
  /\ writer # Nobody
  /\ Reply(t, 500, NoId)
  /\ UNCHANGED <<storeVars, locals>>

(***************************************************************************)
(* A statement or a commit raises (disk full, I/O error): connect() rolls  *)
(* back what the connection has open and re-raises, and the answer is 500. *)
(***************************************************************************)
StatementFails(t) ==
  /\ pc[t] \in (CreateSteps \ {"triage"}) \cup DecideSteps
  /\ IF writer = t THEN Rollback ELSE UNCHANGED storeVars
  /\ Reply(t, 500, NoId)
  /\ UNCHANGED locals

(***************************************************************************)
(* The client has its answer; the thread goes back to the pool.            *)
(***************************************************************************)
Finish(t) ==
  /\ pc[t] = "done"
  /\ Goto(t, "idle")
  /\ call' = [call EXCEPT ![t] = NoCall]
  /\ triage' = [triage EXCEPT ![t] = NoTriage]
  /\ id' = [id EXCEPT ![t] = NoId]
  /\ now' = [now EXCEPT ![t] = 0]
  /\ answer' = [answer EXCEPT ![t] = NoAnswer]
  /\ UNCHANGED storeVars

(***************************************************************************)
(* The process dies at any point and is started again: calls and answers   *)
(* are gone, and SQLite's recovery drops the open transaction.             *)
(***************************************************************************)
Crash ==
  /\ \E t \in Threads : pc[t] # "idle"
  /\ Rollback
  /\ pc' = [t \in Threads |-> "idle"]
  /\ call' = [t \in Threads |-> NoCall]
  /\ triage' = [t \in Threads |-> NoTriage]
  /\ id' = [t \in Threads |-> NoId]
  /\ now' = [t \in Threads |-> 0]
  /\ answer' = [t \in Threads |-> NoAnswer]

(***************************************************************************)
(* The clock never goes back (no step of the host's clock is modelled).    *)
(***************************************************************************)
Tick == clock < MaxClock /\ clock' = clock + 1 /\ UNCHANGED <<db, work, writer, apiVars>>

-----------------------------------------------------------------------------
Init ==
  /\ StoreInit
  /\ pc = [t \in Threads |-> "idle"]
  /\ call = [t \in Threads |-> NoCall]
  /\ triage = [t \in Threads |-> NoTriage]
  /\ id = [t \in Threads |-> NoId]
  /\ now = [t \in Threads |-> 0]
  /\ answer = [t \in Threads |-> NoAnswer]

Start(t) ==
  \/ \E key \in Keys \cup {NoKey}, payload \in Payloads : StartCreate(t, key, payload)
  \/ \E i \in Ids \cup {NoId}, decision \in Decision, reviewer \in Reviewers :
       StartDecide(t, i, decision, reviewer)

CreateStep(t) ==
  \/ Precheck(t) \/ CallProvider(t) \/ ProviderFails(t) \/ Recheck(t)
  \/ InsertRequest(t) \/ AuditCreate(t) \/ CommitCreate(t) \/ Resolve(t) \/ ReadBack(t)

DecideStep(t) ==
  \/ BeginImmediate(t) \/ CheckOpen(t) \/ InsertDecision(t) \/ UpdateStatus(t)
  \/ AuditDecide(t) \/ CommitDecide(t)

(***************************************************************************)
(* What a thread with a call does next if nothing fails.                   *)
(***************************************************************************)
Step(t) == CreateStep(t) \/ DecideStep(t) \/ BusyTimeout(t)

Next ==
  \/ \E t \in Threads : Start(t) \/ Step(t) \/ StatementFails(t) \/ Finish(t)
  \/ Crash
  \/ Tick

Spec == Init /\ [][Next]_vars

(***************************************************************************)
(* The operating system runs every thread, a provider call ends within its *)
(* HTTP timeout, and the busy timeout ends every wait for the lock.  That  *)
(* clients call, that statements fail, that the process crashes or that    *)
(* time passes is not assumed.                                             *)
(***************************************************************************)
Fairness == \A t \in Threads : WF_vars(Step(t))

FairSpec == Spec /\ Fairness

-----------------------------------------------------------------------------
(***************************************************************************)
(* Properties                                                              *)
(***************************************************************************)

(***************************************************************************)
(* Every variable has its type.                                            *)
(***************************************************************************)
TypeOK ==
  /\ db \in Tables
  /\ work \in Tables
  /\ writer \in Threads \cup {Nobody}
  /\ clock \in Nat
  /\ pc \in [Threads -> {"idle", "done"} \cup CreateSteps \cup DecideSteps]
  /\ call \in [Threads -> CreateCall \cup DecideCall \cup {NoCall}]
  /\ triage \in [Threads -> Triage \cup {NoTriage}]
  /\ id \in [Threads -> Ids \cup {NoId}]
  /\ now \in [Threads -> Nat]
  /\ answer \in [Threads -> Answer \cup {NoAnswer}]

(***************************************************************************)
(* The write lock is held by the thread that is inside a transaction and   *)
(* by no other; when nobody holds it nothing is staged.  A handler that    *)
(* left connect() without a commit or a rollback would break it.           *)
(***************************************************************************)
OneTransaction ==
  /\ \A t \in Threads : pc[t] \in WriterSteps <=> writer = t
  /\ writer = Nobody => work = db

(***************************************************************************)
(* What a thread holds at each step: its call, the triage once the         *)
(* provider answered, the id once it is drawn, and, past the check of a    *)
(* decision, a target that is still there and still open.                  *)
(***************************************************************************)
Holding ==
  \A t \in Threads :
    /\ pc[t] \in CreateSteps => call[t] \in CreateCall
    /\ pc[t] \in DecideSteps => call[t] \in DecideCall
    /\ pc[t] \in CreateSteps \ {"precheck", "triage"} => triage[t] \in Triage
    /\ pc[t] \in CreateSteps \ {"precheck", "triage", "recheck"} => id[t] \in Ids
    /\ pc[t] \in {"decision", "status"} =>
         Exists(work, call[t].target) /\ ~IsFinal(work, call[t].target)
    /\ pc[t] \in {"decide_audit", "decide_commit"} => Exists(work, call[t].target)

(***************************************************************************)
(* No two stored requests have one idempotency key, however the lookups    *)
(* and inserts of concurrent retries interleave.                           *)
(***************************************************************************)
KeysUniqueIn(view) ==
  \A key \in Keys : \A i, j \in Holders(view, key) : i = j

KeysUnique == KeysUniqueIn(db)

(***************************************************************************)
(* What POST /requests answered is true of the committed tables, and stays *)
(* true: a 201 names a stored request with the caller's key and payload,   *)
(* and, for a call without a key, the row this very call inserted; a 409   *)
(* means that the key belongs to a request with another payload.           *)
(***************************************************************************)
CreateAnswers ==
  \A t \in Threads : pc[t] = "done" /\ call[t] \in CreateCall =>
    /\ answer[t].code = 201 =>
         /\ answer[t].id \in Ids
         /\ Exists(db, answer[t].id)
         /\ db.requests[answer[t].id].payload = call[t].payload
         /\ db.requests[answer[t].id].idempotency_key = call[t].key
         /\ call[t].key = NoKey => answer[t].id = id[t]
    /\ answer[t].code = 409 =>
         \E i \in Holders(db, call[t].key) : db.requests[i].payload # call[t].payload
    /\ answer[t].code # 404

(***************************************************************************)
(* What the decision endpoint answered is true of the committed tables: a  *)
(* 200 has its decision row and its audit event, a 409 was refused by a    *)
(* request that is final, and a 404 by an id that is not stored.           *)
(***************************************************************************)
DecideAnswers ==
  \A t \in Threads : pc[t] = "done" /\ call[t] \in DecideCall =>
    LET i == call[t].target IN
    /\ answer[t].code = 200 =>
         /\ \E n \in DOMAIN db.decisions :
              db.decisions[n] = [request_id |-> i, decision |-> call[t].decision,
                                 reviewer |-> call[t].reviewer, decided_at |-> now[t]]
         /\ \E n \in DOMAIN db.audit :
              /\ db.audit[n].request_id = i
              /\ db.audit[n].event_type = "human_decision_recorded"
              /\ db.audit[n].payload.reviewer = call[t].reviewer
              /\ db.audit[n].payload.decision = call[t].decision
    /\ answer[t].code = 409 => IsFinal(db, i)
    /\ answer[t].code = 404 => i \notin Ids

(***************************************************************************)
(* The committed tables behave like the ledger: a commit is one Register   *)
(* or one Decide, whole or not at all, and nothing else changes them.      *)
(***************************************************************************)
EntriesIn(view) ==
  [i \in Ids |->
     LET row == view.requests[i] IN
     IF row = NoRow
     THEN NoRow
     ELSE [key |-> row.idempotency_key, payload |-> row.payload,
           triage |-> row.triage, status |-> row.status]]

HistoryIn(view) ==
  [n \in 1..Len(view.audit) |->
     [request_id |-> view.audit[n].request_id, event_type |-> view.audit[n].event_type,
      payload |-> view.audit[n].payload]]

Entries == EntriesIn(db)

History == HistoryIn(db)

Ledger == INSTANCE ApprovalLedger
  WITH NoEntry <- NoRow, entries <- Entries, history <- History

ASSUME LedgerNulls == NoRow \notin Ledger!Entry

ImplementsLedger == Ledger!Spec

(***************************************************************************)
(* The ledger's two promises, of the committed tables.                     *)
(***************************************************************************)
AuditExplainsStatus == Ledger!HistoryExplainsStatus

FinalClosesHistory == Ledger!FinalClosesHistory

(***************************************************************************)
(* The decision events of the audit log, by their place in it, and the     *)
(* how-manieth of them the one at n is.                                    *)
(***************************************************************************)
DecisionEvents(view) ==
  {n \in DOMAIN view.audit : view.audit[n].event_type = "human_decision_recorded"}

Rank(view, n) == Cardinality({m \in DecisionEvents(view) : m <= n})

(***************************************************************************)
(* The decisions table and the audit log agree: the k-th row of one is the *)
(* k-th decision event of the other, and a request's updated_at is the     *)
(* time of its last decision.                                              *)
(***************************************************************************)
LastRow(rows, n) ==
  \A m \in DOMAIN rows : m > n => rows[m].request_id # rows[n].request_id

MirroredIn(view) ==
  /\ Cardinality(DecisionEvents(view)) = Len(view.decisions)
  /\ \A n \in DecisionEvents(view) :
       LET row == view.decisions[Rank(view, n)] IN
       /\ view.audit[n].request_id = row.request_id
       /\ view.audit[n].payload = [decision |-> row.decision, reviewer |-> row.reviewer,
                                   new_status |-> NewStatus(row.decision)]
  /\ \A k \in DOMAIN view.decisions :
       LET row == view.decisions[k] IN
       LastRow(view.decisions, k) =>
         view.requests[row.request_id].updated_at = row.decided_at

DecisionsMirrored == MirroredIn(db)

(***************************************************************************)
(* The audit log's ids and times give the same order, as GET /audit (ORDER *)
(* BY created_at DESC, id DESC) needs to show a request's events in the    *)
(* order they happened, and no decision or row is stamped after the audit  *)
(* event that reports it.                                                  *)
(***************************************************************************)
OrderedIn(view) ==
  /\ \A m, n \in DOMAIN view.audit :
       m < n => view.audit[m].created_at <= view.audit[n].created_at
  /\ \A n \in DecisionEvents(view) :
       view.decisions[Rank(view, n)].decided_at <= view.audit[n].created_at
  /\ \A n \in DOMAIN view.audit :
       view.requests[view.audit[n].request_id].created_at <= view.audit[n].created_at

AuditInOrder == OrderedIn(db)

(***************************************************************************)
(* A final request never changes again, and a stored request never loses   *)
(* its key, its payload, its triage or its creation time.                  *)
(***************************************************************************)
RequestsKeep ==
  [][\A i \in Ids : Exists(db, i) =>
       /\ Exists(db', i)
       /\ IsFinal(db, i) => db'.requests[i] = db.requests[i]
       /\ \A field \in {"idempotency_key", "payload", "triage", "created_at"} :
            db'.requests[i][field] = db.requests[i][field]]_vars

(***************************************************************************)
(* The lock is always given back, whatever fails.                          *)
(***************************************************************************)
LockReleased == \A t \in Threads : writer = t ~> writer # t

(***************************************************************************)
(* Every call is answered (or dies with the process), although others may  *)
(* take the lock before it again and again.                                *)
(***************************************************************************)
CallsAnswered == \A t \in Threads : pc[t] # "idle" ~> pc[t] \in {"idle", "done"}

(***************************************************************************)
(* README: a repeated call with the same key and payload returns the       *)
(* existing request without running triage again.                          *)
(***************************************************************************)
RepeatsSkipTriage ==
  \A t \in Threads :
    pc[t] = "done" /\ answer[t].code = 201 /\ answer[t].id # id[t] => triage[t] = NoTriage

=============================================================================
