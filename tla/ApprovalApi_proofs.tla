------------------------- MODULE ApprovalApi_proofs -------------------------
(***************************************************************************)
(* Proofs about ApprovalApi, for every number of threads, ids, keys,       *)
(* payloads and reviewers, and every bound on decisions and time.          *)
(***************************************************************************)
EXTENDS ApprovalApi, SequenceTheorems, TLAPS

-----------------------------------------------------------------------------
(***************************************************************************)
(* What the statements do to a view of the tables.                         *)
(***************************************************************************)

(***************************************************************************)
(* INSERT INTO requests yields tables again.                               *)
(***************************************************************************)
LEMMA PutRequestType ==
  ASSUME NEW view \in Tables, NEW i \in Ids, NEW row \in Row
  PROVE  PutRequest(view, i, row) \in Tables
BY DEF PutRequest, Tables

(***************************************************************************)
(* INSERT INTO decisions yields tables again.                              *)
(***************************************************************************)
LEMMA AddDecisionType ==
  ASSUME NEW view \in Tables, NEW row \in DecisionRow
  PROVE  AddDecision(view, row) \in Tables
<1>1. Append(view.decisions, row) \in Seq(DecisionRow)
  BY AppendProperties DEF Tables
<1> QED
  BY <1>1 DEF AddDecision, Tables

(***************************************************************************)
(* UPDATE requests SET status changes the status and updated_at of a row   *)
(* that exists and nothing else, and so yields tables with the same rows.  *)
(***************************************************************************)
LEMMA SetStatusType ==
  ASSUME NEW view \in Tables, NEW i, Exists(view, i),
         NEW status \in RequestStatus, NEW n \in Nat
  PROVE  LET after == SetStatus(view, i, status, n) IN
         /\ after \in Tables
         /\ after.decisions = view.decisions /\ after.audit = view.audit
         /\ \A j : Exists(view, j) <=> Exists(after, j)
         /\ \A j \in Ids : j # i => after.requests[j] = view.requests[j]
         /\ after.requests[i].idempotency_key = view.requests[i].idempotency_key
         /\ after.requests[i].request_fingerprint = view.requests[i].request_fingerprint
         /\ after.requests[i].payload = view.requests[i].payload
         /\ after.requests[i].triage = view.requests[i].triage
         /\ after.requests[i].created_at = view.requests[i].created_at
         /\ after.requests[i].status = status
         /\ after.requests[i].updated_at = n
<1> DEFINE row == [view.requests[i] EXCEPT !.status = status, !.updated_at = n]
<1>1. i \in Ids /\ view.requests[i] \in Row
  BY DEF Exists, Tables
<1>2. row \in Row
  BY <1>1 DEF Row
<1>3. SetStatus(view, i, status, n) =
        [view EXCEPT !.requests = [view.requests EXCEPT ![i] = row]]
  BY <1>1 DEF SetStatus, Tables, Row
<1>4. /\ row.idempotency_key = view.requests[i].idempotency_key
      /\ row.request_fingerprint = view.requests[i].request_fingerprint
      /\ row.payload = view.requests[i].payload
      /\ row.triage = view.requests[i].triage
      /\ row.created_at = view.requests[i].created_at
      /\ row.status = status
      /\ row.updated_at = n
  BY <1>1 DEF Row
<1> HIDE DEF row
<1>5. SetStatus(view, i, status, n) \in Tables
  BY <1>1, <1>2, <1>3 DEF Tables
<1>6. \A j : Exists(view, j) <=> Exists(SetStatus(view, i, status, n), j)
  BY <1>1, <1>2, <1>3, SentinelAssumption DEF Tables, Exists
<1>7. /\ SetStatus(view, i, status, n).decisions = view.decisions
      /\ SetStatus(view, i, status, n).audit = view.audit
      /\ SetStatus(view, i, status, n).requests = [view.requests EXCEPT ![i] = row]
  BY <1>3 DEF Tables
<1>8. /\ SetStatus(view, i, status, n).requests[i] = row
      /\ \A j \in Ids : j # i => SetStatus(view, i, status, n).requests[j] = view.requests[j]
  BY <1>1, <1>7 DEF Tables
<1> QED
  BY <1>4, <1>5, <1>6, <1>7, <1>8

(***************************************************************************)
(* INSERT INTO audit_events yields tables again.                           *)
(***************************************************************************)
LEMMA AddAuditType ==
  ASSUME NEW view \in Tables, NEW i \in Ids, NEW type, NEW payload, clock \in Nat,
         [request_id |-> i, event_type |-> type,
          payload |-> payload, created_at |-> clock] \in AuditRow
  PROVE  AddAudit(view, i, type, payload) \in Tables
<1> DEFINE event == [request_id |-> i, event_type |-> type,
                     payload |-> payload, created_at |-> clock]
<1>1. Append(view.audit, event) \in Seq(AuditRow)
  BY AppendProperties DEF Tables
<1>2. AddAudit(view, i, type, payload) = [view EXCEPT !.audit = Append(view.audit, event)]
  BY DEF AddAudit
<1> HIDE DEF event
<1> QED
  BY <1>1, <1>2 DEF Tables

(***************************************************************************)
(* The row a create call inserts is one.                                   *)
(***************************************************************************)
LEMMA NewRowType ==
  ASSUME TypeOK, NEW t \in Threads, call[t] \in CreateCall, triage[t] \in Triage
  PROVE  NewRow(t) \in Row
BY DEF TypeOK, NewRow, CreateCall, Row, InitialStatus, RequestStatus, payload_fingerprint

(***************************************************************************)
(* A decision leads to a status.                                           *)
(***************************************************************************)
LEMMA NewStatusType == \A decision \in Decision : NewStatus(decision) \in RequestStatus
BY DEF Decision, NewStatus, RequestStatus

-----------------------------------------------------------------------------
(***************************************************************************)
(* The inductive invariant.  Types alone are not inductive: that a status  *)
(* update finds a row, and that what is inserted is a row, follows from    *)
(* what the thread holds at that step, and that from the lock.             *)
(***************************************************************************)
IInv == TypeOK /\ OneTransaction /\ Holding

(***************************************************************************)
(* The store before any call satisfies it.                                 *)
(***************************************************************************)
LEMMA InitIInv == Init => IInv
<1> SUFFICES ASSUME Init PROVE IInv
  OBVIOUS
<1>1. db \in Tables /\ work = db
  BY DEF Init, StoreInit, Tables
<1>2. TypeOK
  BY <1>1 DEF TypeOK, Init, StoreInit
<1>3. OneTransaction
  BY SentinelAssumption DEF OneTransaction, Init, StoreInit, WriterSteps
<1>4. Holding
  BY DEF Holding, Init, CreateSteps, DecideSteps
<1> QED
  BY <1>2, <1>3, <1>4 DEF IInv

(***************************************************************************)
(* Every step of a create call preserves it.                               *)
(***************************************************************************)
LEMMA CreateIInv ==
  ASSUME IInv, NEW t \in Threads, CreateStep(t)
  PROVE  IInv'
<1> USE DEF IInv, CreateSteps, DecideSteps, WriterSteps
<1>1. CASE Precheck(t)
  <2> USE <1>1 DEF Precheck, AnswerExisting, Holders, Goto, Reply, storeVars, locals
  <2>1. TypeOK'
    BY DEF TypeOK, Answer
  <2>2. OneTransaction'
    BY DEF OneTransaction, TypeOK
  <2>3. Holding'
    BY DEF Holding, TypeOK
  <2> QED
    BY <2>1, <2>2, <2>3
<1>2. CASE CallProvider(t)
  <2> USE <1>2 DEF CallProvider, Goto, storeVars
  <2>1. TypeOK'
    BY DEF TypeOK
  <2>2. OneTransaction'
    BY DEF OneTransaction, TypeOK
  <2>3. Holding'
    BY DEF Holding, TypeOK
  <2> QED
    BY <2>1, <2>2, <2>3
<1>3. CASE ProviderFails(t)
  <2> USE <1>3 DEF ProviderFails, Goto, Reply, storeVars, locals
  <2>1. TypeOK'
    BY DEF TypeOK, Answer
  <2>2. OneTransaction'
    BY DEF OneTransaction, TypeOK
  <2>3. Holding'
    BY DEF Holding, TypeOK
  <2> QED
    BY <2>1, <2>2, <2>3
<1>4. CASE Recheck(t)
  <2> USE <1>4 DEF Recheck, AnswerExisting, Holders, FreshIds, Goto, Reply, storeVars, locals
  <2>1. TypeOK'
    BY DEF TypeOK, Answer
  <2>2. OneTransaction'
    BY DEF OneTransaction, TypeOK
  <2>3. Holding'
    BY DEF Holding, TypeOK
  <2> QED
    BY <2>1, <2>2, <2>3
<1>5. CASE InsertRequest(t)
  <2> USE <1>5 DEF InsertRequest, Begin, Goto, storeVars, locals
  <2>1. TypeOK'
    BY PutRequestType, NewRowType DEF TypeOK, Holding
  <2>2. OneTransaction'
    BY SentinelAssumption DEF OneTransaction, TypeOK
  <2>3. Holding'
    BY SentinelAssumption DEF Holding, OneTransaction, TypeOK
  <2> QED
    BY <2>1, <2>2, <2>3
<1>6. CASE AuditCreate(t)
  <2> USE <1>6 DEF AuditCreate, Goto, storeVars, locals
  <2>1. TypeOK'
    BY AddAuditType DEF TypeOK, Holding, AuditRow, CreatedPayload, InitialStatus, RequestStatus
  <2>2. OneTransaction'
    BY SentinelAssumption DEF OneTransaction, TypeOK
  <2>3. Holding'
    BY DEF Holding, OneTransaction, TypeOK
  <2> QED
    BY <2>1, <2>2, <2>3
<1>7. CASE CommitCreate(t)
  <2> USE <1>7 DEF CommitCreate, Commit, Goto, storeVars, locals
  <2>1. TypeOK'
    BY DEF TypeOK
  <2>2. OneTransaction'
    BY SentinelAssumption DEF OneTransaction, TypeOK
  <2>3. Holding'
    BY DEF Holding, TypeOK
  <2> QED
    BY <2>1, <2>2, <2>3
<1>8. CASE Resolve(t)
  <2> USE <1>8 DEF Resolve, AnswerExisting, Holders, Goto, Reply, storeVars, locals
  <2>1. TypeOK'
    BY DEF TypeOK, Answer
  <2>2. OneTransaction'
    BY DEF OneTransaction, TypeOK
  <2>3. Holding'
    BY DEF Holding, TypeOK
  <2> QED
    BY <2>1, <2>2, <2>3
<1>9. CASE ReadBack(t)
  <2> USE <1>9 DEF ReadBack, Goto, Reply, storeVars, locals
  <2>1. TypeOK'
    BY DEF TypeOK, Answer, Holding
  <2>2. OneTransaction'
    BY DEF OneTransaction, TypeOK
  <2>3. Holding'
    BY DEF Holding, TypeOK
  <2> QED
    BY <2>1, <2>2, <2>3
<1> QED
  BY <1>1, <1>2, <1>3, <1>4, <1>5, <1>6, <1>7, <1>8, <1>9 DEF CreateStep

(***************************************************************************)
(* Every step of a decision call preserves it.                             *)
(***************************************************************************)
LEMMA DecideIInv ==
  ASSUME IInv, NEW t \in Threads, DecideStep(t)
  PROVE  IInv'
<1> USE DEF IInv, CreateSteps, DecideSteps, WriterSteps
<1>1. CASE BeginImmediate(t)
  <2> USE <1>1 DEF BeginImmediate, Begin, Goto, storeVars, locals
  <2>1. TypeOK'
    BY DEF TypeOK
  <2>2. OneTransaction'
    BY SentinelAssumption DEF OneTransaction, TypeOK
  <2>3. Holding'
    BY DEF Holding, TypeOK
  <2> QED
    BY <2>1, <2>2, <2>3
<1>2. CASE CheckOpen(t)
  <2> USE <1>2 DEF CheckOpen, Rollback, Goto, Reply, storeVars, locals
  <2>1. TypeOK'
    BY DEF TypeOK, Answer
  <2>2. OneTransaction'
    BY SentinelAssumption DEF OneTransaction, TypeOK
  <2>3. Holding'
    BY DEF Holding, OneTransaction, TypeOK
  <2> QED
    BY <2>1, <2>2, <2>3
<1>3. CASE InsertDecision(t)
  <2> USE <1>3 DEF InsertDecision, Goto, storeVars, locals
  <2>1. TypeOK'
    BY AddDecisionType DEF TypeOK, Holding, DecideCall, DecisionRow, Exists
  <2>2. OneTransaction'
    BY SentinelAssumption DEF OneTransaction, TypeOK
  <2>3. Holding'
    BY DEF Holding, OneTransaction, TypeOK, AddDecision, Exists, IsFinal, Tables
  <2> QED
    BY <2>1, <2>2, <2>3
<1>4. CASE UpdateStatus(t)
  <2> USE <1>4 DEF UpdateStatus, Goto, storeVars, locals
  <2>1. TypeOK'
    BY SetStatusType, NewStatusType DEF TypeOK, Holding, DecideCall
  <2>2. OneTransaction'
    BY SentinelAssumption DEF OneTransaction, TypeOK
  <2>3. Holding'
    <3>1. \A i : Exists(work, i) => Exists(work', i)
      BY SetStatusType, NewStatusType DEF TypeOK, Holding, DecideCall
    <3> QED
      BY <3>1 DEF Holding, OneTransaction, TypeOK
  <2> QED
    BY <2>1, <2>2, <2>3
<1>5. CASE AuditDecide(t)
  <2> USE <1>5 DEF AuditDecide, Goto, storeVars, locals
  <2>1. TypeOK'
    BY AddAuditType, NewStatusType
    DEF TypeOK, Holding, DecideCall, AuditRow, DecidedPayload, Exists
  <2>2. OneTransaction'
    BY SentinelAssumption DEF OneTransaction, TypeOK
  <2>3. Holding'
    BY DEF Holding, OneTransaction, TypeOK, AddAudit, Exists, Tables
  <2> QED
    BY <2>1, <2>2, <2>3
<1>6. CASE CommitDecide(t)
  <2> USE <1>6 DEF CommitDecide, Commit, Goto, Reply, locals
  <2>1. TypeOK'
    BY DEF TypeOK, Answer, Holding, DecideCall, Exists
  <2>2. OneTransaction'
    BY SentinelAssumption DEF OneTransaction, TypeOK
  <2>3. Holding'
    BY DEF Holding, TypeOK
  <2> QED
    BY <2>1, <2>2, <2>3
<1> QED
  BY <1>1, <1>2, <1>3, <1>4, <1>5, <1>6 DEF DecideStep

(***************************************************************************)
(* So do the arrival of a call, every failure, and the rest.               *)
(***************************************************************************)
LEMMA OtherIInv ==
  ASSUME IInv,
         \/ \E t \in Threads :
              Start(t) \/ BusyTimeout(t) \/ StatementFails(t) \/ Finish(t)
         \/ Crash
         \/ Tick
  PROVE  IInv'
<1> USE DEF IInv, CreateSteps, DecideSteps, WriterSteps
<1>1. ASSUME NEW t \in Threads, Start(t) PROVE IInv'
  <2>1. CASE \E key \in Keys \cup {NoKey}, payload \in Payloads : StartCreate(t, key, payload)
    <3> USE <2>1 DEF StartCreate, Goto, storeVars
    <3>1. TypeOK'
      BY DEF TypeOK, CreateCall
    <3>2. OneTransaction'
      BY DEF OneTransaction, TypeOK
    <3>3. Holding'
      BY DEF Holding, TypeOK, CreateCall
    <3> QED
      BY <3>1, <3>2, <3>3
  <2>2. CASE \E i \in Ids \cup {NoId}, decision \in Decision, reviewer \in Reviewers :
               StartDecide(t, i, decision, reviewer)
    <3> USE <2>2 DEF StartDecide, Goto, storeVars
    <3>1. TypeOK'
      BY DEF TypeOK, DecideCall
    <3>2. OneTransaction'
      BY DEF OneTransaction, TypeOK
    <3>3. Holding'
      BY DEF Holding, TypeOK, DecideCall
    <3> QED
      BY <3>1, <3>2, <3>3
  <2> QED
    BY <1>1, <2>1, <2>2 DEF Start
<1>2. ASSUME NEW t \in Threads, BusyTimeout(t) PROVE IInv'
  <2> USE <1>2 DEF BusyTimeout, Goto, Reply, storeVars, locals
  <2>1. TypeOK'
    BY DEF TypeOK, Answer
  <2>2. OneTransaction'
    BY DEF OneTransaction, TypeOK
  <2>3. Holding'
    BY DEF Holding, TypeOK
  <2> QED
    BY <2>1, <2>2, <2>3
<1>3. ASSUME NEW t \in Threads, StatementFails(t) PROVE IInv'
  <2> USE <1>3 DEF StatementFails, Rollback, Goto, Reply, storeVars, locals
  <2>1. TypeOK'
    BY DEF TypeOK, Answer
  <2>2. OneTransaction'
    BY SentinelAssumption DEF OneTransaction, TypeOK
  <2>3. Holding'
    BY DEF Holding, OneTransaction, TypeOK
  <2> QED
    BY <2>1, <2>2, <2>3
<1>4. ASSUME NEW t \in Threads, Finish(t) PROVE IInv'
  <2> USE <1>4 DEF Finish, Goto, storeVars
  <2>1. TypeOK'
    BY DEF TypeOK
  <2>2. OneTransaction'
    BY DEF OneTransaction, TypeOK
  <2>3. Holding'
    BY DEF Holding, TypeOK
  <2> QED
    BY <2>1, <2>2, <2>3
<1>5. CASE Crash
  <2> USE <1>5 DEF Crash, Rollback
  <2>1. TypeOK'
    BY DEF TypeOK
  <2>2. OneTransaction'
    BY SentinelAssumption DEF OneTransaction, TypeOK
  <2>3. Holding'
    BY DEF Holding, TypeOK
  <2> QED
    BY <2>1, <2>2, <2>3
<1>6. CASE Tick
  <2> USE <1>6 DEF Tick, apiVars
  <2>1. TypeOK'
    BY DEF TypeOK
  <2>2. OneTransaction'
    BY DEF OneTransaction
  <2>3. Holding'
    BY DEF Holding
  <2> QED
    BY <2>1, <2>2, <2>3
<1> QED
  BY <1>1, <1>2, <1>3, <1>4, <1>5, <1>6

(***************************************************************************)
(* The inductive invariant holds throughout.                               *)
(***************************************************************************)
THEOREM Inductive == Spec => []IInv
<1>1. IInv /\ [Next]_vars => IInv'
  <2> SUFFICES ASSUME IInv, [Next]_vars PROVE IInv'
    OBVIOUS
  <2>1. CASE Next
    BY <2>1, CreateIInv, DecideIInv, OtherIInv DEF Next, Step
  <2>2. CASE UNCHANGED vars
    BY <2>2 DEF vars, storeVars, apiVars, IInv, TypeOK, OneTransaction, Holding
  <2> QED
    BY <2>1, <2>2
<1> QED
  BY InitIInv, <1>1, PTL DEF Spec

(***************************************************************************)
(* Every variable keeps its type.                                          *)
(***************************************************************************)
THEOREM TypeCorrect == Spec => []TypeOK
BY Inductive, PTL DEF IInv

(***************************************************************************)
(* The lock is held by exactly the thread inside a transaction, and        *)
(* nothing is staged while nobody holds it.                                *)
(***************************************************************************)
THEOREM LockDiscipline == Spec => []OneTransaction
BY Inductive, PTL DEF IInv

(***************************************************************************)
(* Every thread has what its step needs.  In particular, once a decision   *)
(* has passed its check, nobody else can remove or finalize its target     *)
(* before it updates it.                                                   *)
(***************************************************************************)
THEOREM CallsHold == Spec => []Holding
BY Inductive, PTL DEF IInv

-----------------------------------------------------------------------------
(***************************************************************************)
(* One request per key.  The committed tables inherit it from the staged   *)
(* ones at a commit, so both are needed: the unique index is enforced on   *)
(* what the transaction sees.                                              *)
(***************************************************************************)
KeysInv == KeysUniqueIn(db) /\ KeysUniqueIn(work)

(***************************************************************************)
(* Tables whose rows keep their keys have the same holders.                *)
(***************************************************************************)
LEMMA SameKeys ==
  ASSUME NEW before, NEW after, KeysUniqueIn(before),
         \A i \in Ids : Exists(after, i) =>
           /\ Exists(before, i)
           /\ after.requests[i].idempotency_key = before.requests[i].idempotency_key
  PROVE  KeysUniqueIn(after)
BY DEF KeysUniqueIn, Holders

(***************************************************************************)
(* Every step keeps keys unique.                                           *)
(***************************************************************************)
LEMMA KeysStep == IInv /\ KeysInv /\ [Next]_vars => KeysInv'
<1> SUFFICES ASSUME IInv, KeysInv, [Next]_vars PROVE KeysInv'
  OBVIOUS
<1>1. CASE UNCHANGED <<db, work>>
  BY <1>1 DEF KeysInv, KeysUniqueIn, Holders, Exists
<1>2. ASSUME NEW t \in Threads, InsertRequest(t), Holders(work, call[t].key) = {}
      PROVE  KeysInv'
  <2>1. /\ db' = db
        /\ work' = [work EXCEPT !.requests = [work.requests EXCEPT ![id[t]] = NewRow(t)]]
    BY <1>2 DEF InsertRequest, PutRequest
  <2>2. id[t] \in Ids /\ NewRow(t).idempotency_key = call[t].key /\ work \in Tables
    BY <1>2 DEF InsertRequest, IInv, TypeOK, Holding, CreateSteps, NewRow
  <2>3. ASSUME NEW key \in Keys, NEW i \in Holders(work', key), i # id[t]
        PROVE  i \in Holders(work, key)
    BY <2>1, <2>2, <2>3 DEF Holders, Exists, Tables
  <2>4. ASSUME NEW key \in Keys, id[t] \in Holders(work', key)
        PROVE  Holders(work, key) = {}
    BY <1>2, <2>1, <2>2, <2>4 DEF Holders, Exists, Tables
  <2>5. KeysUniqueIn(work')
    BY <2>3, <2>4 DEF KeysInv, KeysUniqueIn
  <2> QED
    BY <2>1, <2>5 DEF KeysInv, KeysUniqueIn, Holders, Exists
<1>3. ASSUME NEW t \in Threads, UpdateStatus(t) PROVE KeysInv'
  <2>1. /\ db' = db
        /\ Exists(work, call[t].target) /\ work \in Tables
        /\ work' = SetStatus(work, call[t].target, NewStatus(call[t].decision), now[t])
        /\ NewStatus(call[t].decision) \in RequestStatus /\ now[t] \in Nat
    BY <1>3, NewStatusType DEF UpdateStatus, IInv, TypeOK, Holding, DecideSteps, DecideCall
  <2>2. \A i \in Ids : Exists(work', i) =>
          /\ Exists(work, i)
          /\ work'.requests[i].idempotency_key = work.requests[i].idempotency_key
    BY <2>1, SetStatusType
  <2>3. KeysUniqueIn(work')
    BY <2>2, SameKeys DEF KeysInv
  <2> QED
    BY <2>1, <2>3 DEF KeysInv, KeysUniqueIn, Holders, Exists
<1>4. ASSUME db' = db, work'.requests = work.requests PROVE KeysInv'
  BY <1>4 DEF KeysInv, KeysUniqueIn, Holders, Exists
<1>5. ASSUME NEW t \in Threads, AuditCreate(t) \/ AuditDecide(t) \/ InsertDecision(t)
      PROVE  KeysInv'
  <2>1. db' = db /\ work'.requests = work.requests
    BY <1>5 DEF AuditCreate, AuditDecide, InsertDecision, AddAudit, AddDecision,
                IInv, TypeOK, Tables
  <2> QED
    BY <1>4, <2>1
<1>6. ASSUME Commit \/ Rollback PROVE KeysInv'
  BY <1>6 DEF Commit, Rollback, KeysInv, KeysUniqueIn, Holders, Exists
<1>7. ASSUME NEW t \in Threads, CreateStep(t) PROVE KeysInv'
  BY <1>1, <1>2, <1>5, <1>6, <1>7
  DEF CreateStep, Precheck, CallProvider, ProviderFails, Recheck, InsertRequest,
      CommitCreate, Resolve, ReadBack, storeVars
<1>8. ASSUME NEW t \in Threads, DecideStep(t) PROVE KeysInv'
  BY <1>1, <1>3, <1>5, <1>6, <1>8
  DEF DecideStep, BeginImmediate, CheckOpen, CommitDecide, storeVars
<1>9. ASSUME NEW t \in Threads,
             Start(t) \/ BusyTimeout(t) \/ StatementFails(t) \/ Finish(t)
      PROVE  KeysInv'
  BY <1>1, <1>6, <1>9
  DEF Start, StartCreate, StartDecide, BusyTimeout, StatementFails, Finish, storeVars
<1> QED
  BY <1>1, <1>6, <1>7, <1>8, <1>9 DEF Next, Step, Crash, Tick, vars, storeVars

(***************************************************************************)
(* No two stored requests ever have one idempotency key.                   *)
(***************************************************************************)
THEOREM OneRequestPerKey == Spec => []KeysUnique
<1>1. Init => KeysInv
  BY DEF Init, StoreInit, KeysInv, KeysUniqueIn, Holders, Exists
<1>2. KeysInv => KeysUnique
  BY DEF KeysInv, KeysUnique
<1> QED
  BY Inductive, KeysStep, <1>1, <1>2, PTL DEF Spec

-----------------------------------------------------------------------------
(***************************************************************************)
(* ApprovalApi implements ApprovalLedger: whatever threads, failures and   *)
(* crashes do, what other connections read changes by one whole            *)
(* registration or decision at a time.                                     *)
(***************************************************************************)

(***************************************************************************)
(* The ids of two threads differ, and an id about to be inserted is new to *)
(* both views.  A transaction loses no row.                                *)
(***************************************************************************)
UniqueIds == \A t, u \in Threads : t # u /\ id[t] # NoId => id[t] # id[u]

FreshRows ==
  \A t \in Threads : pc[t] = "insert" => ~Exists(db, id[t]) /\ ~Exists(work, id[t])

RowsStay == \A i : Exists(db, i) => Exists(work, i)

(***************************************************************************)
(* The event each handler writes.                                          *)
(***************************************************************************)
NewEvent(t) ==
  IF pc[t] \in CreateSteps
  THEN [request_id |-> id[t], event_type |-> "request_created",
        payload |-> [status |-> InitialStatus(triage[t]), triage |-> triage[t]]]
  ELSE [request_id |-> call[t].target, event_type |-> "human_decision_recorded",
        payload |-> [decision |-> call[t].decision, reviewer |-> call[t].reviewer,
                     new_status |-> NewStatus(call[t].decision)]]

(***************************************************************************)
(* What the open transaction has done so far, step by step: what the       *)
(* staged tables hold relative to the committed ones.                      *)
(***************************************************************************)
StagedCreate(t) ==
  /\ ~Exists(db, id[t])
  /\ Holders(db, call[t].key) = {}
  /\ work.requests = [db.requests EXCEPT ![id[t]] = NewRow(t)]

StagedDecision(t) ==
  LET i == call[t].target IN
  /\ Exists(db, i) /\ ~IsFinal(db, i)
  /\ EntriesIn(work) = [EntriesIn(db) EXCEPT ![i].status = NewStatus(call[t].decision)]
  /\ \A j \in Ids : j # i => work.requests[j] = db.requests[j]
  /\ work.requests[i].created_at = db.requests[i].created_at

StagedBy(t) ==
  /\ pc[t] \in {"create_audit", "create_commit"} => StagedCreate(t)
  /\ pc[t] \in {"check", "decision"} => work = db
  /\ pc[t] = "status" => work.requests = db.requests
  /\ pc[t] \in {"decide_audit", "decide_commit"} => StagedDecision(t)
  /\ pc[t] \in {"create_audit", "status", "decide_audit"} => work.audit = db.audit
  /\ pc[t] \in {"create_commit", "decide_commit"} =>
       HistoryIn(work) = Append(HistoryIn(db), NewEvent(t))

Staged == \A t \in Threads : StagedBy(t)

RInv == UniqueIds /\ FreshRows /\ RowsStay /\ Staged

(***************************************************************************)
(* An audit row extends the history by its event.                          *)
(***************************************************************************)
LEMMA HistoryGrows ==
  ASSUME NEW view \in Tables, NEW base, base.audit = view.audit,
         NEW i \in Ids, NEW type, NEW payload, clock \in Nat,
         [request_id |-> i, event_type |-> type,
          payload |-> payload, created_at |-> clock] \in AuditRow
  PROVE  HistoryIn(AddAudit(view, i, type, payload)) =
           Append(HistoryIn(base),
                  [request_id |-> i, event_type |-> type, payload |-> payload])
<1> DEFINE row   == [request_id |-> i, event_type |-> type,
                     payload |-> payload, created_at |-> clock]
           event == [request_id |-> i, event_type |-> type, payload |-> payload]
           Part(r) == [request_id |-> r.request_id, event_type |-> r.event_type,
                       payload |-> r.payload]
           Parts == {Part(r) : r \in AuditRow}
           n == Len(view.audit)
<1>1. view.audit \in Seq(AuditRow) /\ n \in Nat
  BY LenProperties DEF Tables
<1>2. AddAudit(view, i, type, payload).audit = Append(view.audit, row)
  BY DEF AddAudit, Tables
<1>3. /\ Append(view.audit, row) \in Seq(AuditRow)
      /\ Len(Append(view.audit, row)) = n + 1
      /\ \A k \in 1..n : Append(view.audit, row)[k] = view.audit[k]
      /\ Append(view.audit, row)[n + 1] = row
  BY <1>1, AppendProperties
<1>4. Part(row) = event /\ event \in Parts
  OBVIOUS
<1> HIDE DEF row, event
<1>5. HistoryIn(base) = [k \in 1..n |-> Part(view.audit[k])]
  BY DEF HistoryIn
<1>6. HistoryIn(AddAudit(view, i, type, payload)) =
        [k \in 1..(n + 1) |-> Part(Append(view.audit, row)[k])]
  BY <1>2, <1>3 DEF HistoryIn
<1>7. \A k \in 1..n : view.audit[k] \in AuditRow
  BY <1>1, ElementOfSeq
<1>8. /\ [k \in 1..n |-> Part(view.audit[k])] \in [1..n -> Parts]
      /\ [k \in 1..(n + 1) |-> Part(Append(view.audit, row)[k])] \in [1..(n + 1) -> Parts]
  <2>1. \A k \in 1..(n + 1) : Append(view.audit, row)[k] \in AuditRow
    BY <1>3, ElementOfSeq
  <2> QED
    BY <1>7, <2>1
<1> DEFINE before == HistoryIn(base)
           after  == HistoryIn(AddAudit(view, i, type, payload))
<1>9. /\ before \in Seq(Parts) /\ Len(before) = n
      /\ after \in Seq(Parts) /\ Len(after) = n + 1
      /\ \A k \in 1..n : before[k] = Part(view.audit[k])
      /\ \A k \in 1..(n + 1) : after[k] = Part(Append(view.audit, row)[k])
  <2> HIDE DEF Part, Parts, n
  <2>1. Seq(Parts) = UNION {[1..m -> Parts] : m \in Nat} /\ n + 1 \in Nat
    BY <1>1, SeqDef
  <2>2. before \in Seq(Parts) /\ after \in Seq(Parts)
    BY <1>1, <1>5, <1>6, <1>8, <2>1
  <2>3. Len(before) = n /\ Len(after) = n + 1
    BY <1>1, <1>5, <1>6, <1>8
  <2> QED
    BY <1>5, <1>6, <2>2, <2>3
<1>10. \A k \in 1..(n + 1) : after[k] = IF k = n + 1 THEN event ELSE before[k]
  <2> HIDE DEF Part, Parts, n, before, after
  <2> QED
    BY <1>1, <1>3, <1>4, <1>9
<1> HIDE DEF Part, Parts, n, before, after
<1>11. /\ Append(before, event) \in Seq(Parts) /\ Len(Append(before, event)) = n + 1
       /\ \A k \in 1..n : Append(before, event)[k] = before[k]
       /\ Append(before, event)[n + 1] = event
  BY <1>4, <1>9, AppendProperties
<1>12. after = Append(before, event)
  <2>1. \A k \in 1..Len(after) : after[k] = Append(before, event)[k]
    BY <1>1, <1>9, <1>10, <1>11
  <2> QED
    BY <1>9, <1>11, <2>1, SeqEqual
<1> QED
  BY <1>12 DEF before, after, event

-----------------------------------------------------------------------------
(***************************************************************************)
(* Who moves, and what the others keep.                                    *)
(***************************************************************************)
ThreadStep(t) == Start(t) \/ Step(t) \/ StatementFails(t) \/ Finish(t)

Keeps(u) ==
  /\ pc'[u] = pc[u] /\ call'[u] = call[u] /\ triage'[u] = triage[u]
  /\ id'[u] = id[u] /\ now'[u] = now[u]

(***************************************************************************)
(* A thread changes its own variables only.                                *)
(***************************************************************************)
LEMMA OthersKeep ==
  ASSUME TypeOK, NEW t \in Threads, ThreadStep(t), NEW u \in Threads, u # t
  PROVE  Keeps(u)
<1> USE DEF TypeOK, Keeps, Goto, Reply, locals
<1>1. CASE Start(t)
  BY <1>1 DEF Start, StartCreate, StartDecide
<1>2. CASE CreateStep(t)
  BY <1>2 DEF CreateStep, Precheck, CallProvider, ProviderFails, Recheck, AnswerExisting,
              InsertRequest, AuditCreate, CommitCreate, Resolve, ReadBack
<1>3. CASE DecideStep(t)
  BY <1>3 DEF DecideStep, BeginImmediate, CheckOpen, InsertDecision, UpdateStatus,
              AuditDecide, CommitDecide
<1>4. CASE BusyTimeout(t) \/ StatementFails(t) \/ Finish(t)
  BY <1>4 DEF BusyTimeout, StatementFails, Finish
<1> QED
  BY <1>1, <1>2, <1>3, <1>4 DEF ThreadStep, Step

(***************************************************************************)
(* A thread changes the tables only inside its transaction, which nobody   *)
(* else is in, or to open it, when nobody is in one.                       *)
(***************************************************************************)
LEMMA OthersOutside ==
  ASSUME IInv, NEW t \in Threads, ThreadStep(t), ~ UNCHANGED <<db, work>>,
         NEW u \in Threads, u # t
  PROVE  pc[u] \notin WriterSteps
<1>1. writer \in {t, Nobody}
  <2> USE DEF IInv, OneTransaction, WriterSteps, storeVars
  <2>1. CASE Start(t)
    BY <2>1 DEF Start, StartCreate, StartDecide
  <2>2. CASE CreateStep(t)
    BY <2>2 DEF CreateStep, Precheck, CallProvider, ProviderFails, Recheck,
                InsertRequest, AuditCreate, CommitCreate, Resolve, ReadBack
  <2>3. CASE DecideStep(t)
    BY <2>3 DEF DecideStep, BeginImmediate, CheckOpen, InsertDecision, UpdateStatus,
                AuditDecide, CommitDecide
  <2>4. CASE BusyTimeout(t) \/ StatementFails(t) \/ Finish(t)
    BY <2>4 DEF BusyTimeout, StatementFails, Finish
  <2> QED
    BY <2>1, <2>2, <2>3, <2>4 DEF ThreadStep, Step
<1> QED
  BY <1>1, SentinelAssumption DEF IInv, OneTransaction

(***************************************************************************)
(* Nothing is claimed of a thread outside a transaction.                   *)
(***************************************************************************)
LEMMA StagedOutside ==
  ASSUME NEW t \in Threads, pc'[t] \notin WriterSteps
  PROVE  StagedBy(t)'
BY DEF StagedBy, WriterSteps

(***************************************************************************)
(* What is claimed of a thread stays while it and the tables do.           *)
(***************************************************************************)
LEMMA StagedSame ==
  ASSUME NEW t \in Threads, StagedBy(t), Keeps(t), UNCHANGED <<db, work>>
  PROVE  StagedBy(t)'
<1>1. NewRow(t)' = NewRow(t) /\ NewEvent(t)' = NewEvent(t)
  BY DEF NewRow, NewEvent, Keeps
<1>2. HistoryIn(work)' = HistoryIn(work) /\ HistoryIn(db)' = HistoryIn(db)
      /\ EntriesIn(work)' = EntriesIn(work) /\ EntriesIn(db)' = EntriesIn(db)
  BY DEF HistoryIn, EntriesIn
<1>3. StagedCreate(t)' <=> StagedCreate(t)
  BY <1>1 DEF StagedCreate, Holders, Exists, Keeps
<1>4. StagedDecision(t)' <=> StagedDecision(t)
  BY <1>2 DEF StagedDecision, Exists, IsFinal, Keeps
<1> QED
  BY <1>1, <1>2, <1>3, <1>4 DEF StagedBy, Keeps

(***************************************************************************)
(* The rows of either view after a step were in one of them before, but    *)
(* for the one inserted, and what is committed stays.                      *)
(***************************************************************************)
LEMMA RowMoves ==
  ASSUME IInv, RowsStay, NEW t \in Threads, ThreadStep(t)
  PROVE  /\ \A i : Exists(db', i) => Exists(work, i)
         /\ \A i : Exists(work', i) => Exists(work, i) \/ (pc[t] = "insert" /\ i = id[t])
         /\ RowsStay'
<1>1. CASE UNCHANGED <<db, work>>
  BY <1>1 DEF RowsStay, Exists
<1>2. CASE Commit \/ Rollback
  BY <1>2 DEF Commit, Rollback, RowsStay, Exists
<1>3. ASSUME InsertRequest(t), work' = PutRequest(work, id[t], NewRow(t))
      PROVE  /\ \A i : Exists(work', i) => Exists(work, i) \/ (pc[t] = "insert" /\ i = id[t])
             /\ \A i : Exists(work, i) => Exists(work', i)
  <2>1. id[t] \in Ids /\ NewRow(t) \in Row /\ work \in Tables /\ pc[t] = "insert"
    BY <1>3, NewRowType DEF InsertRequest, IInv, TypeOK, Holding, CreateSteps
  <2>2. work'.requests = [work.requests EXCEPT ![id[t]] = NewRow(t)]
    BY <1>3, <2>1 DEF PutRequest, Tables
  <2> QED
    BY <2>1, <2>2, SentinelAssumption DEF Exists, Tables
<1>4. ASSUME UpdateStatus(t)
      PROVE  \A i : Exists(work', i) <=> Exists(work, i)
  BY <1>4, SetStatusType, NewStatusType
  DEF UpdateStatus, IInv, TypeOK, Holding, DecideSteps, DecideCall
<1>5. ASSUME AuditCreate(t) \/ AuditDecide(t) \/ InsertDecision(t)
      PROVE  \A i : Exists(work', i) <=> Exists(work, i)
  BY <1>5 DEF AuditCreate, AuditDecide, InsertDecision, AddAudit, AddDecision,
              IInv, TypeOK, Tables, Exists
<1>6. CASE Start(t) \/ BusyTimeout(t) \/ StatementFails(t) \/ Finish(t)
  BY <1>1, <1>2, <1>6
  DEF Start, StartCreate, StartDecide, BusyTimeout, StatementFails, Finish, storeVars
<1>7. CASE CreateStep(t)
  <2>1. CASE InsertRequest(t)
    <3>1. db' = db /\ (work' = work \/ work' = PutRequest(work, id[t], NewRow(t)))
      BY <2>1 DEF InsertRequest
    <3>2. CASE work' = PutRequest(work, id[t], NewRow(t))
      BY <1>3, <2>1, <3>1, <3>2 DEF RowsStay, Exists
    <3> QED
      BY <1>1, <3>1, <3>2
  <2>2. CASE AuditCreate(t)
    BY <1>5, <2>2 DEF AuditCreate, RowsStay, Exists
  <2> QED
    BY <1>1, <1>2, <1>7, <2>1, <2>2
    DEF CreateStep, Precheck, CallProvider, ProviderFails, Recheck, CommitCreate,
        Resolve, ReadBack, storeVars
<1>8. CASE DecideStep(t)
  <2>1. CASE InsertDecision(t) \/ AuditDecide(t)
    BY <1>5, <2>1 DEF InsertDecision, AuditDecide, RowsStay, Exists
  <2>2. CASE UpdateStatus(t)
    BY <1>4, <2>2 DEF UpdateStatus, RowsStay, Exists
  <2> QED
    BY <1>1, <1>2, <1>8, <2>1, <2>2 DEF DecideStep, BeginImmediate, CheckOpen, CommitDecide,
       storeVars
<1> QED
  BY <1>6, <1>7, <1>8 DEF ThreadStep, Step

(***************************************************************************)
(* A thread reaches the insert with an id that nobody has.                 *)
(***************************************************************************)
LEMMA IdMoves ==
  ASSUME IInv, NEW t \in Threads, ThreadStep(t)
  PROVE  /\ id'[t] \in {id[t], NoId} \cup FreshIds
         /\ pc'[t] = "insert" => id'[t] \in FreshIds /\ UNCHANGED <<db, work>>
<1> USE DEF IInv, TypeOK, Goto, Reply, locals, storeVars
<1>1. CASE Start(t)
  BY <1>1 DEF Start, StartCreate, StartDecide
<1>2. CASE CreateStep(t)
  BY <1>2 DEF CreateStep, Precheck, CallProvider, ProviderFails, Recheck, AnswerExisting,
              InsertRequest, AuditCreate, CommitCreate, Resolve, ReadBack
<1>3. CASE DecideStep(t)
  BY <1>3 DEF DecideStep, BeginImmediate, CheckOpen, InsertDecision, UpdateStatus,
              AuditDecide, CommitDecide
<1>4. CASE BusyTimeout(t) \/ StatementFails(t) \/ Finish(t)
  BY <1>4 DEF BusyTimeout, StatementFails, Finish
<1> QED
  BY <1>1, <1>2, <1>3, <1>4 DEF ThreadStep, Step

(***************************************************************************)
(* A step keeps ids apart and rows where they are.                         *)
(***************************************************************************)
LEMMA FreshStep ==
  ASSUME IInv, RInv, [Next]_vars
  PROVE  (UniqueIds /\ FreshRows /\ RowsStay)'
<1> USE DEF RInv
<1>1. ASSUME NEW t \in Threads, ThreadStep(t)
      PROVE  (UniqueIds /\ FreshRows /\ RowsStay)'
  <2>1. \A u \in Threads : u # t => Keeps(u)
    BY <1>1, OthersKeep DEF IInv
  <2>2. UniqueIds'
    BY <1>1, <2>1, IdMoves DEF UniqueIds, FreshIds, Keeps
  <2>3. pc'[t] = "insert" => ~Exists(db', id'[t]) /\ ~Exists(work', id'[t])
    BY <1>1, IdMoves DEF FreshIds, RowsStay, Exists
  <2>4. ASSUME NEW u \in Threads, u # t, pc'[u] = "insert"
        PROVE  ~Exists(db', id'[u]) /\ ~Exists(work', id'[u])
    <3>1. pc[u] = "insert" /\ id'[u] = id[u] /\ id[u] \in Ids
      BY <2>1, <2>4 DEF Keeps, IInv, Holding, CreateSteps
    <3>2. ~Exists(work, id[u]) /\ id[u] # id[t]
      BY <2>4, <3>1, ApiAssumption DEF FreshRows, UniqueIds
    <3> QED
      BY <1>1, <3>1, <3>2, RowMoves
  <2>5. FreshRows'
    BY <2>3, <2>4 DEF FreshRows, Exists
  <2> QED
    BY <1>1, <2>2, <2>5, RowMoves
<1>2. CASE Crash
  BY <1>2 DEF Crash, Rollback, UniqueIds, FreshRows, RowsStay, Exists
<1>3. CASE Tick \/ UNCHANGED vars
  BY <1>3 DEF Tick, vars, storeVars, apiVars, UniqueIds, FreshRows, RowsStay, Exists
<1> QED
  BY <1>1, <1>2, <1>3 DEF Next, ThreadStep

(***************************************************************************)
(* A step of a create keeps what is claimed of its thread.                 *)
(***************************************************************************)
LEMMA StagedCreateStep ==
  ASSUME IInv, RInv, NEW t \in Threads, CreateStep(t)
  PROVE  StagedBy(t)'
<1> USE DEF CreateSteps, DecideSteps, WriterSteps
<1>1. CASE InsertRequest(t) /\ pc'[t] = "create_audit"
  <2>1. /\ work' = PutRequest(db, id[t], NewRow(t)) /\ db' = db
        /\ Holders(db, call[t].key) = {}
        /\ pc'[t] = "create_audit" /\ pc[t] = "insert"
    BY <1>1 DEF InsertRequest, Begin, Goto, IInv, OneTransaction, TypeOK
  <2>2. ~Exists(db, id[t]) /\ db \in Tables
    BY <2>1 DEF RInv, FreshRows, IInv, TypeOK
  <2>3. /\ work'.requests = [db.requests EXCEPT ![id[t]] = NewRow(t)]
        /\ work'.audit = db.audit
    BY <2>1, <2>2 DEF PutRequest, Tables
  <2>4. UNCHANGED <<call, triage, id, now>>
    BY <1>1 DEF InsertRequest, locals
  <2>5. StagedCreate(t)'
    BY <2>1, <2>2, <2>3, <2>4 DEF StagedCreate, Holders, Exists, NewRow
  <2> QED
    BY <2>1, <2>3, <2>5 DEF StagedBy
<1>2. CASE AuditCreate(t)
  <2> DEFINE payload == [status |-> InitialStatus(triage[t]), triage |-> triage[t]]
  <2>1. /\ work' = AddAudit(work, id[t], "request_created", payload)
        /\ db' = db /\ UNCHANGED <<call, triage, id, now>>
        /\ pc'[t] = "create_commit" /\ pc[t] = "create_audit"
    BY <1>2 DEF AuditCreate, Goto, IInv, TypeOK, locals
  <2>2. /\ work \in Tables /\ clock \in Nat /\ id[t] \in Ids
        /\ payload \in CreatedPayload
    BY <2>1 DEF IInv, TypeOK, Holding, CreatedPayload, InitialStatus, RequestStatus
  <2>3. StagedCreate(t) /\ work.audit = db.audit
    BY <2>1 DEF RInv, Staged, StagedBy
  <2>4. HistoryIn(work') = Append(HistoryIn(db),
          [request_id |-> id[t], event_type |-> "request_created", payload |-> payload])
    <3> HIDE DEF payload
    <3>1. [request_id |-> id[t], event_type |-> "request_created",
           payload |-> payload, created_at |-> clock] \in AuditRow
      BY <2>2 DEF AuditRow
    <3> QED
      BY <2>1, <2>2, <2>3, <3>1, HistoryGrows
  <2>5. NewEvent(t)' =
          [request_id |-> id[t], event_type |-> "request_created", payload |-> payload]
    BY <2>1 DEF NewEvent
  <2>6. HistoryIn(work)' = Append(HistoryIn(db), NewEvent(t))'
    <3> HIDE DEF payload
    <3>1. HistoryIn(db)' = HistoryIn(db)
      BY <2>1 DEF HistoryIn
    <3> QED
      BY <2>4, <2>5, <3>1
  <2>7. work'.requests = work.requests
    BY <2>1, <2>2 DEF AddAudit, Tables
  <2>8. StagedCreate(t)'
    BY <2>1, <2>3, <2>7 DEF StagedCreate, Holders, Exists, NewRow
  <2> QED
    BY <2>1, <2>6, <2>8 DEF StagedBy
<1>3. CASE pc'[t] \notin WriterSteps
  BY <1>3, StagedOutside
<1> QED
  BY <1>1, <1>2, <1>3
  DEF CreateStep, Precheck, CallProvider, ProviderFails, Recheck, AnswerExisting,
      InsertRequest, CommitCreate, Resolve, ReadBack, Goto, Reply, IInv, TypeOK

(***************************************************************************)
(* So does a step of a decision.                                           *)
(***************************************************************************)
LEMMA StagedDecideStep ==
  ASSUME IInv, RInv, NEW t \in Threads, DecideStep(t)
  PROVE  StagedBy(t)'
<1> USE DEF CreateSteps, DecideSteps, WriterSteps
<1> DEFINE i == call[t].target
           status == NewStatus(call[t].decision)
<1>1. CASE BeginImmediate(t) \/ (CheckOpen(t) /\ pc'[t] = "decision")
  <2>1. CASE BeginImmediate(t)
    <3>1. pc'[t] = "check" /\ work' = work /\ db' = db /\ work = db
      BY <2>1 DEF BeginImmediate, Begin, Goto, IInv, TypeOK, OneTransaction
    <3> QED
      BY <3>1 DEF StagedBy
  <2>2. CASE CheckOpen(t) /\ pc'[t] = "decision"
    <3>1. work = db
      BY <2>2 DEF CheckOpen, RInv, Staged, StagedBy
    <3>2. work' = db'
      BY <2>2, <3>1 DEF CheckOpen, Rollback, storeVars
    <3> QED
      BY <2>2, <3>2 DEF StagedBy
  <2> QED
    BY <1>1, <2>1, <2>2
<1>2. CASE InsertDecision(t)
  <2>1. /\ pc'[t] = "status" /\ db' = db /\ work = db /\ work \in Tables
        /\ \E row : work' = AddDecision(work, row)
    BY <1>2 DEF InsertDecision, Goto, IInv, TypeOK, RInv, Staged, StagedBy
  <2>2. work'.requests = work.requests /\ work'.audit = work.audit
    BY <2>1 DEF AddDecision, Tables
  <2> QED
    BY <2>1, <2>2 DEF StagedBy
<1>3. CASE UpdateStatus(t)
  <2>1. /\ pc'[t] = "decide_audit" /\ pc[t] = "status" /\ db' = db /\ call' = call
        /\ work' = SetStatus(work, i, status, now[t])
    BY <1>3 DEF UpdateStatus, Goto, IInv, TypeOK, locals
  <2>2. /\ work \in Tables /\ db \in Tables /\ now[t] \in Nat
        /\ status \in RequestStatus
        /\ Exists(work, i) /\ ~IsFinal(work, i)
        /\ work.requests = db.requests /\ work.audit = db.audit
    BY <2>1, NewStatusType
    DEF IInv, TypeOK, Holding, DecideCall, RInv, Staged, StagedBy
  <2>3. Exists(db, i) /\ ~IsFinal(db, i) /\ i \in Ids
    BY <2>2 DEF Exists, IsFinal
  <2> DEFINE after == SetStatus(work, i, status, now[t])
  <2> HIDE DEF after, status, i
  <2>4. /\ after \in Tables /\ after.audit = db.audit
        /\ \A j \in Ids : j # i => after.requests[j] = db.requests[j]
        /\ after.requests[i].idempotency_key = db.requests[i].idempotency_key
        /\ after.requests[i].payload = db.requests[i].payload
        /\ after.requests[i].triage = db.requests[i].triage
        /\ after.requests[i].created_at = db.requests[i].created_at
        /\ after.requests[i].status = status
        /\ after.requests[i] # NoRow
    <3>1. /\ after \in Tables /\ after.audit = work.audit
          /\ \A j : Exists(work, j) <=> Exists(after, j)
          /\ \A j \in Ids : j # i => after.requests[j] = work.requests[j]
          /\ after.requests[i].idempotency_key = work.requests[i].idempotency_key
          /\ after.requests[i].payload = work.requests[i].payload
          /\ after.requests[i].triage = work.requests[i].triage
          /\ after.requests[i].created_at = work.requests[i].created_at
          /\ after.requests[i].status = status
      BY <2>2, SetStatusType DEF after
    <3> QED
      BY <2>2, <3>1 DEF Exists
  <2>5. EntriesIn(after) = [EntriesIn(db) EXCEPT ![i].status = status]
    BY <2>2, <2>3, <2>4 DEF EntriesIn, Exists
  <2>6. /\ EntriesIn(work') = [EntriesIn(db') EXCEPT ![i].status = status]
        /\ work'.audit = db'.audit
    BY <2>1, <2>4, <2>5 DEF after
  <2>7. /\ \A j \in Ids : j # i => work'.requests[j] = db'.requests[j]
        /\ work'.requests[i].created_at = db'.requests[i].created_at
    BY <2>1, <2>4 DEF after
  <2>8. StagedDecision(t)'
    BY <2>1, <2>3, <2>6, <2>7 DEF StagedDecision, Exists, IsFinal, i, status
  <2> QED
    BY <2>1, <2>6, <2>8 DEF StagedBy
<1>4. CASE AuditDecide(t)
  <2> DEFINE payload == [decision |-> call[t].decision, reviewer |-> call[t].reviewer,
                         new_status |-> status]
  <2>1. /\ work' = AddAudit(work, i, "human_decision_recorded", payload)
        /\ db' = db /\ UNCHANGED <<call, triage, id, now>>
        /\ pc'[t] = "decide_commit" /\ pc[t] = "decide_audit"
    BY <1>4 DEF AuditDecide, Goto, IInv, TypeOK, locals
  <2>2. work \in Tables /\ clock \in Nat /\ i \in Ids /\ payload \in DecidedPayload
    BY <2>1, NewStatusType DEF IInv, TypeOK, Holding, Exists, DecideCall, DecidedPayload
  <2>3. StagedDecision(t) /\ work.audit = db.audit
    BY <2>1 DEF RInv, Staged, StagedBy
  <2>4. HistoryIn(work') = Append(HistoryIn(db),
          [request_id |-> i, event_type |-> "human_decision_recorded", payload |-> payload])
    <3> HIDE DEF payload, i
    <3>1. [request_id |-> i, event_type |-> "human_decision_recorded",
           payload |-> payload, created_at |-> clock] \in AuditRow
      BY <2>2 DEF AuditRow
    <3> QED
      BY <2>1, <2>2, <2>3, <3>1, HistoryGrows
  <2>5. NewEvent(t)' =
          [request_id |-> i, event_type |-> "human_decision_recorded", payload |-> payload]
    BY <2>1 DEF NewEvent
  <2>6. HistoryIn(work)' = Append(HistoryIn(db), NewEvent(t))'
    <3> HIDE DEF payload, i
    <3>1. HistoryIn(db)' = HistoryIn(db)
      BY <2>1 DEF HistoryIn
    <3> QED
      BY <2>4, <2>5, <3>1
  <2>7. work'.requests = work.requests
    BY <2>1, <2>2 DEF AddAudit, Tables
  <2>8. EntriesIn(work') = EntriesIn(work) /\ EntriesIn(db') = EntriesIn(db)
    BY <2>1, <2>7 DEF EntriesIn
  <2>9. StagedDecision(t)'
    BY <2>1, <2>3, <2>7, <2>8 DEF StagedDecision, Exists, IsFinal
  <2> QED
    BY <2>1, <2>6, <2>9 DEF StagedBy
<1>5. CASE pc'[t] \notin WriterSteps
  BY <1>5, StagedOutside
<1> QED
  BY <1>1, <1>2, <1>3, <1>4, <1>5
  DEF DecideStep, CheckOpen, CommitDecide, Goto, Reply, IInv, TypeOK

(***************************************************************************)
(* The invariant of the refinement is one.                                 *)
(***************************************************************************)
LEMMA RInvStep ==
  ASSUME IInv, RInv, [Next]_vars
  PROVE  RInv'
<1>1. ASSUME NEW t \in Threads, ThreadStep(t) PROVE Staged'
  <2>1. StagedBy(t)'
    <3>1. CASE CreateStep(t) \/ DecideStep(t)
      BY <3>1, StagedCreateStep, StagedDecideStep
    <3>2. CASE Start(t) \/ BusyTimeout(t) \/ StatementFails(t) \/ Finish(t)
      <4>1. pc'[t] \notin WriterSteps
        BY <3>2 DEF Start, StartCreate, StartDecide, BusyTimeout, StatementFails, Finish,
                    Goto, Reply, IInv, TypeOK, WriterSteps
      <4> QED
        BY <4>1, StagedOutside
    <3> QED
      BY <1>1, <3>1, <3>2 DEF ThreadStep, Step
  <2>2. ASSUME NEW u \in Threads, u # t PROVE StagedBy(u)'
    <3>1. Keeps(u) /\ StagedBy(u)
      BY <1>1, <2>2, OthersKeep DEF IInv, RInv, Staged
    <3>2. CASE UNCHANGED <<db, work>>
      BY <3>1, <3>2, StagedSame
    <3>3. CASE ~ UNCHANGED <<db, work>>
      <4>1. pc'[u] \notin WriterSteps
        BY <1>1, <2>2, <3>1, <3>3, OthersOutside DEF Keeps
      <4> QED
        BY <4>1, StagedOutside
    <3> QED
      BY <3>2, <3>3
  <2> QED
    BY <2>1, <2>2 DEF Staged
<1>2. ASSUME Crash PROVE Staged'
  BY <1>2, StagedOutside DEF Crash, Staged, WriterSteps
<1>3. ASSUME Tick \/ UNCHANGED vars PROVE Staged'
  <2>1. \A t \in Threads : Keeps(t) /\ StagedBy(t)
    BY <1>3 DEF Tick, vars, apiVars, Keeps, RInv, Staged
  <2> QED
    BY <1>3, <2>1, StagedSame DEF Tick, vars, storeVars, Staged
<1> QED
  BY <1>1, <1>2, <1>3, FreshStep DEF RInv, Next, ThreadStep

-----------------------------------------------------------------------------
(***************************************************************************)
(* The commit of a create call is a registration in the ledger.            *)
(***************************************************************************)
LEMMA CommitCreateMaps ==
  ASSUME IInv, RInv, NEW t \in Threads, CommitCreate(t)
  PROVE  Ledger!Next
<1> DEFINE key     == call[t].key
           payload == call[t].payload
           status  == InitialStatus(triage[t])
           entry   == [key |-> key, payload |-> payload, triage |-> triage[t],
                       status |-> status]
<1>1. /\ pc[t] = "create_commit" /\ db' = work
      /\ StagedCreate(t) /\ HistoryIn(work) = Append(HistoryIn(db), NewEvent(t))
      /\ id[t] \in Ids /\ call[t] \in CreateCall /\ triage[t] \in Triage
      /\ db \in Tables
  BY DEF CommitCreate, Commit, RInv, Staged, StagedBy, IInv, TypeOK, Holding, CreateSteps
<1>2. key \in Keys \cup {NoKey} /\ payload \in Payloads
  BY <1>1 DEF CreateCall
<1>3. Entries[id[t]] = NoRow
  BY <1>1 DEF Entries, EntriesIn, StagedCreate, Exists
<1>4. Ledger!KeyFree(key)
  <2> SUFFICES ASSUME NEW i \in Ids, Entries[i] # NoRow, key # NoKey
               PROVE  Entries[i].key # key
    BY DEF Ledger!KeyFree
  <2>1. Exists(db, i) /\ Entries[i].key = db.requests[i].idempotency_key
    BY DEF Entries, EntriesIn, Exists
  <2> QED
    BY <1>1, <2>1 DEF StagedCreate, Holders
<1>5. NewRow(t) # NoRow
  BY <1>1, NewRowType, SentinelAssumption DEF IInv
<1>6. Entries' = [Entries EXCEPT ![id[t]] = entry]
  <2>1. Entries' = EntriesIn(work)
    BY <1>1 DEF Entries, EntriesIn
  <2>2. work.requests[id[t]] = NewRow(t)
        /\ \A i \in Ids : i # id[t] => work.requests[i] = db.requests[i]
    BY <1>1 DEF StagedCreate, Tables
  <2>3. entry = [key |-> NewRow(t).idempotency_key, payload |-> NewRow(t).payload,
                 triage |-> NewRow(t).triage, status |-> NewRow(t).status]
    BY DEF NewRow
  <2> HIDE DEF entry
  <2>4. EntriesIn(work) = [EntriesIn(db) EXCEPT ![id[t]] = entry]
    <3>1. EntriesIn(work)[id[t]] = entry
      BY <1>1, <1>5, <2>2, <2>3 DEF EntriesIn
    <3>2. \A i \in Ids : i # id[t] => EntriesIn(work)[i] = EntriesIn(db)[i]
      BY <2>2 DEF EntriesIn
    <3>3. /\ EntriesIn(work) = [i \in Ids |-> EntriesIn(work)[i]]
          /\ EntriesIn(db) = [i \in Ids |-> EntriesIn(db)[i]]
      BY DEF EntriesIn
    <3> QED
      BY <3>1, <3>2, <3>3
  <2> QED
    BY <2>1, <2>4 DEF Entries
<1>7. History' = Append(History,
        [request_id |-> id[t], event_type |-> "request_created",
         payload |-> [status |-> status, triage |-> triage[t]]])
  BY <1>1 DEF History, HistoryIn, NewEvent, CreateSteps
<1>8. Ledger!Register(id[t], key, payload, triage[t])
  BY <1>3, <1>4, <1>6, <1>7 DEF Ledger!Register, Ledger!InitialStatus, InitialStatus
<1> QED
  BY <1>1, <1>2, <1>8 DEF Ledger!Next, Ledger!Triage, Triage

(***************************************************************************)
(* The commit of a decision call is a decision.                            *)
(***************************************************************************)
LEMMA CommitDecideMaps ==
  ASSUME IInv, RInv, NEW t \in Threads, CommitDecide(t)
  PROVE  Ledger!Next
<1> DEFINE i == call[t].target
           status == NewStatus(call[t].decision)
<1>1. /\ pc[t] = "decide_commit" /\ db' = work
      /\ StagedDecision(t) /\ HistoryIn(work) = Append(HistoryIn(db), NewEvent(t))
      /\ call[t] \in DecideCall /\ i \in Ids
  BY DEF CommitDecide, Commit, RInv, Staged, StagedBy, StagedDecision, Exists,
         IInv, TypeOK, Holding, DecideSteps
<1>2. call[t].decision \in Decision /\ call[t].reviewer \in Reviewers
  BY <1>1 DEF DecideCall
<1>3. Entries[i] # NoRow /\ Entries[i].status \notin FinalStatus
  <2>1. db.requests[i] # NoRow /\ db.requests[i].status \notin FinalStatus
    BY <1>1 DEF StagedDecision, Exists, IsFinal
  <2>2. Entries[i] = [key |-> db.requests[i].idempotency_key,
                      payload |-> db.requests[i].payload,
                      triage |-> db.requests[i].triage,
                      status |-> db.requests[i].status]
    BY <1>1, <2>1 DEF Entries, EntriesIn
  <2>3. Entries[i] \in Ledger!Entry
    BY <1>1, <2>1, <2>2
    DEF IInv, TypeOK, Tables, Row, Ledger!Entry, Ledger!RequestStatus, RequestStatus,
        Ledger!Triage, Triage
  <2> QED
    BY <2>1, <2>2, <2>3, LedgerNulls
<1>4. Entries' = [Entries EXCEPT ![i].status = status]
  BY <1>1 DEF Entries, EntriesIn, StagedDecision
<1>5. History' = Append(History,
        [request_id |-> i, event_type |-> "human_decision_recorded",
         payload |-> [decision |-> call[t].decision, reviewer |-> call[t].reviewer,
                      new_status |-> status]])
  BY <1>1 DEF History, HistoryIn, NewEvent, CreateSteps
<1>6. Ledger!Decide(i, call[t].decision, call[t].reviewer)
  BY <1>3, <1>4, <1>5
  DEF Ledger!Decide, Ledger!NewStatus, NewStatus, Ledger!FinalStatus, FinalStatus
<1> QED
  BY <1>1, <1>2, <1>6 DEF Ledger!Next, Ledger!Decision, Decision

(***************************************************************************)
(* Nothing else changes what is committed.                                 *)
(***************************************************************************)
LEMMA OnlyCommits ==
  ASSUME IInv, [Next]_vars
  PROVE  db' = db \/ \E t \in Threads : CommitCreate(t) \/ CommitDecide(t)
<1>1. ASSUME NEW t \in Threads, CreateStep(t), ~CommitCreate(t) PROVE db' = db
  BY <1>1 DEF CreateStep, Precheck, CallProvider, ProviderFails, Recheck, InsertRequest,
              AuditCreate, Resolve, ReadBack, storeVars
<1>2. ASSUME NEW t \in Threads, DecideStep(t), ~CommitDecide(t) PROVE db' = db
  BY <1>2 DEF DecideStep, BeginImmediate, CheckOpen, InsertDecision, UpdateStatus,
              AuditDecide, Rollback, storeVars
<1>3. ASSUME NEW t \in Threads,
             Start(t) \/ BusyTimeout(t) \/ StatementFails(t) \/ Finish(t)
      PROVE  db' = db
  BY <1>3 DEF Start, StartCreate, StartDecide, BusyTimeout, StatementFails, Finish,
              Rollback, storeVars
<1> QED
  BY <1>1, <1>2, <1>3 DEF Next, Step, Crash, Rollback, Tick, vars, storeVars

(***************************************************************************)
(* The committed tables behave like the ledger, whatever the threads do    *)
(* and wherever calls, statements or the process fail.                     *)
(***************************************************************************)
THEOREM Refinement == Spec => ImplementsLedger
<1>1. Init => Ledger!Init
  BY DEF Init, StoreInit, Ledger!Init, Entries, EntriesIn, History, HistoryIn
<1>2. Init => RInv
  BY ApiAssumption DEF Init, StoreInit, RInv, UniqueIds, FreshRows, RowsStay, Staged, StagedBy
<1>3. IInv /\ RInv /\ [Next]_vars => RInv'
  BY RInvStep
<1>4. IInv /\ RInv /\ [Next]_vars => [Ledger!Next]_<<Entries, History>>
  <2> SUFFICES ASSUME IInv, RInv, [Next]_vars PROVE [Ledger!Next]_<<Entries, History>>
    OBVIOUS
  <2>1. CASE db' = db
    BY <2>1 DEF Entries, EntriesIn, History, HistoryIn
  <2>2. CASE \E t \in Threads : CommitCreate(t) \/ CommitDecide(t)
    BY <2>2, CommitCreateMaps, CommitDecideMaps
  <2> QED
    BY <2>1, <2>2, OnlyCommits
<1> QED
  BY <1>1, <1>2, <1>3, <1>4, Inductive, PTL
  DEF Spec, ImplementsLedger, Ledger!Spec, Ledger!ledgerVars

(***************************************************************************)
(* What is proved of the ledger is therefore true of the committed tables. *)
(***************************************************************************)
Proved == INSTANCE ApprovalLedger_proofs
  WITH NoEntry <- NoRow, entries <- Entries, history <- History

(***************************************************************************)
(* The ledger proved about is the one implemented.                         *)
(***************************************************************************)
LEMMA SameLedger ==
  /\ Ledger!Init <=> Proved!Init
  /\ Ledger!Next <=> Proved!Next
  /\ AuditExplainsStatus <=> Proved!HistoryExplainsStatus
  /\ FinalClosesHistory <=> Proved!FinalClosesHistory
<1>1. Ledger!Init <=> Proved!Init
  BY DEF Ledger!Init, Proved!Init
<1>2. /\ Ledger!Triage = Proved!Triage /\ Ledger!Decision = Proved!Decision
      /\ Ledger!FinalStatus = Proved!FinalStatus
      /\ \A x : Ledger!InitialStatus(x) = Proved!InitialStatus(x)
      /\ \A x : Ledger!NewStatus(x) = Proved!NewStatus(x)
      /\ \A x : Ledger!KeyFree(x) <=> Proved!KeyFree(x)
      /\ \A x : Ledger!EventStatus(x) = Proved!EventStatus(x)
      /\ \A x : Ledger!FirstEvent(x) <=> Proved!FirstEvent(x)
      /\ \A x : Ledger!LastEvent(x) <=> Proved!LastEvent(x)
  BY DEF Ledger!Triage, Proved!Triage, Ledger!Decision, Proved!Decision,
         Ledger!FinalStatus, Proved!FinalStatus, Ledger!InitialStatus, Proved!InitialStatus,
         Ledger!NewStatus, Proved!NewStatus, Ledger!KeyFree, Proved!KeyFree,
         Ledger!EventStatus, Proved!EventStatus, Ledger!FirstEvent, Proved!FirstEvent,
         Ledger!LastEvent, Proved!LastEvent
<1>3. Ledger!Next <=> Proved!Next
  BY <1>2 DEF Ledger!Next, Proved!Next, Ledger!Register, Proved!Register,
              Ledger!Decide, Proved!Decide
<1>4. AuditExplainsStatus <=> Proved!HistoryExplainsStatus
  BY <1>2 DEF AuditExplainsStatus, Ledger!HistoryExplainsStatus, Proved!HistoryExplainsStatus
<1>5. FinalClosesHistory <=> Proved!FinalClosesHistory
  BY <1>2 DEF FinalClosesHistory, Ledger!FinalClosesHistory, Proved!FinalClosesHistory
<1> QED
  BY <1>1, <1>3, <1>4, <1>5

(***************************************************************************)
(* The ledger's invariants, read off the committed tables.                 *)
(***************************************************************************)
LEMMA TablesExplained == Spec => [](AuditExplainsStatus /\ FinalClosesHistory)
<1>1. NoKey \notin Keys /\ NoRow \notin Proved!Entry
  BY SentinelAssumption, LedgerNulls
  DEF Ledger!Entry, Proved!Entry, Ledger!Triage, Proved!Triage,
      Ledger!RequestStatus, Proved!RequestStatus
<1>2. Ledger!Init => Proved!LedgerInv
  BY <1>1, SameLedger, Proved!LedgerInit
<1>3. Proved!LedgerInv /\ [Ledger!Next]_<<Entries, History>> => Proved!LedgerInv'
  BY <1>1, SameLedger, Proved!LedgerStep DEF Proved!ledgerVars
<1>4. Proved!LedgerInv => AuditExplainsStatus /\ FinalClosesHistory
  BY SameLedger DEF Proved!LedgerInv
<1> QED
  BY <1>2, <1>3, <1>4, Refinement, PTL
  DEF ImplementsLedger, Ledger!Spec, Ledger!ledgerVars

(***************************************************************************)
(* The audit log explains every status, although status and event are      *)
(* written by different statements that may fail.                          *)
(***************************************************************************)
THEOREM Explained == Spec => []AuditExplainsStatus
BY TablesExplained, PTL

(***************************************************************************)
(* Nothing is recorded of a request after its final decision, however      *)
(* reviewers race.                                                         *)
(***************************************************************************)
THEOREM FinalCloses == Spec => []FinalClosesHistory
BY TablesExplained, PTL

-----------------------------------------------------------------------------
(***************************************************************************)
(* A commit keeps every row it finds, but for the status and the time of   *)
(* the decided one, which is not final.                                    *)
(***************************************************************************)
LEMMA RowsKept ==
  ASSUME IInv, RInv, [Next]_vars, NEW i \in Ids, Exists(db, i)
  PROVE  /\ Exists(db', i)
         /\ IsFinal(db, i) => db'.requests[i] = db.requests[i]
         /\ db'.requests[i].idempotency_key = db.requests[i].idempotency_key
         /\ db'.requests[i].payload = db.requests[i].payload
         /\ db'.requests[i].triage = db.requests[i].triage
         /\ db'.requests[i].created_at = db.requests[i].created_at
<1>1. Exists(db', i)
  BY FreshStep, OnlyCommits DEF CommitCreate, CommitDecide, Commit, RInv, RowsStay, Exists
<1>2. CASE db' = db
  BY <1>2
<1>3. ASSUME NEW t \in Threads, CommitCreate(t) PROVE db'.requests[i] = db.requests[i]
  BY <1>3 DEF CommitCreate, Commit, RInv, Staged, StagedBy, StagedCreate, IInv, TypeOK, Tables,
              Exists
<1>4. ASSUME NEW t \in Threads, CommitDecide(t), i # call[t].target
      PROVE  db'.requests[i] = db.requests[i]
  BY <1>4 DEF CommitDecide, Commit, RInv, Staged, StagedBy, StagedDecision
<1>5. ASSUME NEW t \in Threads, CommitDecide(t), i = call[t].target
      PROVE  /\ ~IsFinal(db, i)
             /\ db'.requests[i].idempotency_key = db.requests[i].idempotency_key
             /\ db'.requests[i].payload = db.requests[i].payload
             /\ db'.requests[i].triage = db.requests[i].triage
             /\ db'.requests[i].created_at = db.requests[i].created_at
  <2>1. db' = work /\ StagedDecision(t)
    BY <1>5 DEF CommitDecide, Commit, RInv, Staged, StagedBy
  <2>2. /\ EntriesIn(work)[i].key = EntriesIn(db)[i].key
        /\ EntriesIn(work)[i].payload = EntriesIn(db)[i].payload
        /\ EntriesIn(work)[i].triage = EntriesIn(db)[i].triage
    <3> DEFINE entry == EntriesIn(db)[i]
    <3>1. /\ EntriesIn(work) = [EntriesIn(db) EXCEPT ![i].status = NewStatus(call[t].decision)]
          /\ DOMAIN EntriesIn(db) = Ids
      BY <1>5, <2>1 DEF StagedDecision, EntriesIn
    <3>2. entry = [key |-> db.requests[i].idempotency_key, payload |-> db.requests[i].payload,
                   triage |-> db.requests[i].triage, status |-> db.requests[i].status]
      BY DEF EntriesIn, Exists
    <3>3. EntriesIn(work)[i] = [entry EXCEPT !.status = NewStatus(call[t].decision)]
      BY <3>1, NewStatusType DEF EntriesIn
    <3> HIDE DEF entry
    <3> QED
      BY <3>2, <3>3 DEF entry
  <2>3. \A view \in {db, work} :
          Exists(view, i) =>
            /\ EntriesIn(view)[i].key = view.requests[i].idempotency_key
            /\ EntriesIn(view)[i].payload = view.requests[i].payload
            /\ EntriesIn(view)[i].triage = view.requests[i].triage
    BY DEF EntriesIn, Exists
  <2> QED
    BY <1>1, <1>5, <2>1, <2>2, <2>3 DEF StagedDecision
<1> QED
  BY <1>1, <1>2, <1>3, <1>4, <1>5, OnlyCommits

(***************************************************************************)
(* A final request never changes again, and no request loses its key, its  *)
(* payload, its triage or its creation time.                               *)
(***************************************************************************)
THEOREM Kept == Spec => RequestsKeep
<1>1. Init => RInv
  BY ApiAssumption DEF Init, StoreInit, RInv, UniqueIds, FreshRows, RowsStay, Staged, StagedBy
<1>2. IInv /\ RInv /\ [Next]_vars => RInv'
  BY RInvStep
<1>3. IInv /\ RInv /\ [Next]_vars =>
        [\A i \in Ids : Exists(db, i) =>
           /\ Exists(db', i)
           /\ IsFinal(db, i) => db'.requests[i] = db.requests[i]
           /\ \A field \in {"idempotency_key", "payload", "triage", "created_at"} :
                db'.requests[i][field] = db.requests[i][field]]_vars
  BY RowsKept
<1> QED
  BY <1>1, <1>2, <1>3, Inductive, PTL DEF Spec, RequestsKeep

=============================================================================
