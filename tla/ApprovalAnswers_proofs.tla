----------------------- MODULE ApprovalAnswers_proofs -----------------------
(***************************************************************************)
(* Proofs about what the API tells: every answer to a create or a decision *)
(* is true of the committed tables, and the tables agree with the audit    *)
(* log row by row and in time.                                             *)
(***************************************************************************)
EXTENDS ApprovalApi_proofs, FiniteSetTheorems

-----------------------------------------------------------------------------
(***************************************************************************)
(* What the log tables hold relative to each other.  A stored fingerprint  *)
(* is the payload's, unless the request came without a key.                *)
(***************************************************************************)
PrintsIn(view) ==
  \A i \in Ids : Exists(view, i) =>
    view.requests[i].request_fingerprint =
      IF view.requests[i].idempotency_key = NoKey
      THEN NoPrint
      ELSE payload_fingerprint(view.requests[i].payload)

PrintsMatch == PrintsIn(db) /\ PrintsIn(work)

(***************************************************************************)
(* The rows a decision writes, and the event either handler writes at a    *)
(* time.                                                                   *)
(***************************************************************************)
DecisionOf(t) ==
  [request_id |-> call[t].target, decision |-> call[t].decision,
   reviewer |-> call[t].reviewer, decided_at |-> now[t]]

StampedEvent(t, time) ==
  IF pc[t] \in CreateSteps
  THEN [request_id |-> id[t], event_type |-> "request_created",
        payload |-> [status |-> InitialStatus(triage[t]), triage |-> triage[t]],
        created_at |-> time]
  ELSE [request_id |-> call[t].target, event_type |-> "human_decision_recorded",
        payload |-> [decision |-> call[t].decision, reviewer |-> call[t].reviewer,
                     new_status |-> NewStatus(call[t].decision)],
        created_at |-> time]

(***************************************************************************)
(* No committed row or event is of later than a time.                      *)
(***************************************************************************)
TimesBy(time) ==
  /\ \A i \in Ids : Exists(db, i) => db.requests[i].created_at <= time
  /\ \A n \in DOMAIN db.audit : db.audit[n].created_at <= time

(***************************************************************************)
(* What the open transaction has added to the two logs so far, step by     *)
(* step.  Its audit event is of a time at which everything committed, and  *)
(* the time the thread read itself, was past.                              *)
(***************************************************************************)
LoggedBy(t) ==
  /\ pc[t] \in {"create_audit", "create_commit", "check", "decision"} =>
       work.decisions = db.decisions
  /\ pc[t] \in {"status", "decide_audit", "decide_commit"} =>
       work.decisions = Append(db.decisions, DecisionOf(t))
  /\ pc[t] \in {"decide_audit", "decide_commit"} =>
       work.requests[call[t].target].updated_at = now[t]
  /\ pc[t] \in {"create_commit", "decide_commit"} =>
       \E time \in 0..clock :
         /\ TimesBy(time) /\ now[t] <= time
         /\ work.audit = Append(db.audit, StampedEvent(t, time))

Logged == \A t \in Threads : LoggedBy(t)

(***************************************************************************)
(* Every stored time is past.                                              *)
(***************************************************************************)
TimesPast == TimesBy(clock) /\ \A t \in Threads : now[t] <= clock

(***************************************************************************)
(* Both logs are about requests that are stored.                           *)
(***************************************************************************)
LogsRefer ==
  /\ \A n \in DOMAIN db.audit : Exists(db, db.audit[n].request_id)
  /\ \A k \in DOMAIN db.decisions : Exists(db, db.decisions[k].request_id)

(***************************************************************************)
(* What a thread will find: after its commit the row it inserted, and at   *)
(* any step of a decision a target that is stored, if the caller named     *)
(* one.                                                                    *)
(***************************************************************************)
RowRead(t) ==
  pc[t] = "readback" =>
    /\ Exists(db, id[t])
    /\ db.requests[id[t]].payload = call[t].payload
    /\ db.requests[id[t]].idempotency_key = call[t].key

TargetStored(t) ==
  pc[t] \in DecideSteps /\ call[t].target \in Ids => Exists(db, call[t].target)

Foreseen == \A t \in Threads : RowRead(t) /\ TargetStored(t)

(***************************************************************************)
(* What the answers and the logs rest on, beside what the refinement knows *)
(* (RInv). Neither CreateAnswers nor DecisionsMirrored is inductive        *)
(* without it.                                                             *)
(***************************************************************************)
AInv ==
  /\ PrintsMatch /\ Logged /\ TimesPast /\ LogsRefer /\ Foreseen

(***************************************************************************)
(* One more element at the end of a sequence.                              *)
(***************************************************************************)
LEMMA AppendFacts ==
  ASSUME NEW S, NEW s \in Seq(S), NEW x \in S
  PROVE  /\ Append(s, x) \in Seq(S)
         /\ Len(s) \in Nat /\ Len(Append(s, x)) = Len(s) + 1
         /\ DOMAIN s = 1..Len(s) /\ DOMAIN Append(s, x) = 1..(Len(s) + 1)
         /\ \A k \in 1..Len(s) : Append(s, x)[k] = s[k]
         /\ Append(s, x)[Len(s) + 1] = x
BY AppendProperties, LenProperties

(***************************************************************************)
(* What a step can do to the two views of the tables.                      *)
(***************************************************************************)
LEMMA StoreMoves ==
  ASSUME IInv, [Next]_vars
  PROVE  \/ UNCHANGED <<db, work>>
         \/ db' = work /\ work' = work
         \/ db' = db /\ work' = db
         \/ \E t \in Threads : /\ InsertRequest(t) /\ db' = db
                               /\ work' = PutRequest(work, id[t], NewRow(t))
         \/ \E t \in Threads : UpdateStatus(t) /\ db' = db
         \/ db' = db /\ work'.requests = work.requests
<1>1. ASSUME NEW t \in Threads, AuditCreate(t) \/ AuditDecide(t) \/ InsertDecision(t)
      PROVE  db' = db /\ work'.requests = work.requests
  BY <1>1 DEF AuditCreate, AuditDecide, InsertDecision, AddAudit, AddDecision,
              IInv, TypeOK, Tables
<1>2. ASSUME NEW t \in Threads, InsertRequest(t)
      PROVE  db' = db /\ (work' = work \/ work' = PutRequest(work, id[t], NewRow(t)))
  BY <1>2 DEF InsertRequest
<1>3. ASSUME NEW t \in Threads, UpdateStatus(t) PROVE db' = db
  BY <1>3 DEF UpdateStatus
<1>4. ASSUME NEW t \in Threads, Precheck(t) \/ CallProvider(t) \/ ProviderFails(t)
             \/ Recheck(t) \/ Resolve(t) \/ ReadBack(t) \/ Start(t) \/ BusyTimeout(t)
             \/ Finish(t) \/ BeginImmediate(t)
      PROVE  UNCHANGED <<db, work>>
  BY <1>4 DEF Precheck, CallProvider, ProviderFails, Recheck, Resolve, ReadBack, Start,
              StartCreate, StartDecide, BusyTimeout, Finish, BeginImmediate, storeVars
<1>5. ASSUME NEW t \in Threads, CommitCreate(t) \/ CommitDecide(t)
      PROVE  db' = work /\ work' = work
  BY <1>5 DEF CommitCreate, CommitDecide, Commit
<1>6. ASSUME NEW t \in Threads, CheckOpen(t) \/ StatementFails(t)
      PROVE  UNCHANGED <<db, work>> \/ (db' = db /\ work' = db)
  BY <1>6 DEF CheckOpen, StatementFails, Rollback, storeVars
<1>7. CASE Crash \/ Tick \/ UNCHANGED vars
  BY <1>7 DEF Crash, Rollback, Tick, vars, storeVars
<1> QED
  BY <1>1, <1>2, <1>3, <1>4, <1>5, <1>6, <1>7 DEF Next, Step, CreateStep, DecideStep

(***************************************************************************)
(* A fingerprint stays the payload's.                                      *)
(***************************************************************************)
LEMMA PrintsStep ==
  ASSUME IInv, PrintsMatch, [Next]_vars
  PROVE  PrintsMatch'
<1>1. ASSUME NEW before, NEW after, PrintsIn(before), after.requests = before.requests
      PROVE  PrintsIn(after)
  BY <1>1 DEF PrintsIn, Exists
<1>2. PrintsIn(db)' <=> PrintsIn(db')
  BY DEF PrintsIn, Exists
<1>3. PrintsIn(work)' <=> PrintsIn(work')
  BY DEF PrintsIn, Exists
<1>4. ASSUME NEW t \in Threads, InsertRequest(t), work' = PutRequest(work, id[t], NewRow(t))
      PROVE  PrintsIn(work')
  <2>1. id[t] \in Ids /\ work \in Tables
    BY <1>4 DEF InsertRequest, IInv, TypeOK, Holding, CreateSteps
  <2>2. work'.requests = [work.requests EXCEPT ![id[t]] = NewRow(t)]
    BY <1>4, <2>1 DEF PutRequest, Tables
  <2>3. /\ work'.requests[id[t]] = NewRow(t)
        /\ \A i \in Ids : i # id[t] => work'.requests[i] = work.requests[i]
    BY <2>1, <2>2 DEF Tables
  <2>4. NewRow(t).request_fingerprint =
          IF NewRow(t).idempotency_key = NoKey
          THEN NoPrint ELSE payload_fingerprint(NewRow(t).payload)
    BY DEF NewRow
  <2> QED
    BY <2>3, <2>4 DEF PrintsMatch, PrintsIn, Exists
<1>5. ASSUME NEW t \in Threads, UpdateStatus(t) PROVE PrintsIn(work')
  <2> DEFINE i == call[t].target
  <2>1. /\ Exists(work, i) /\ work \in Tables
        /\ work' = SetStatus(work, i, NewStatus(call[t].decision), now[t])
        /\ NewStatus(call[t].decision) \in RequestStatus /\ now[t] \in Nat
    BY <1>5, NewStatusType DEF UpdateStatus, IInv, TypeOK, Holding, DecideSteps, DecideCall
  <2>2. /\ \A j : Exists(work, j) <=> Exists(work', j)
        /\ \A j \in Ids : j # i => work'.requests[j] = work.requests[j]
        /\ work'.requests[i].idempotency_key = work.requests[i].idempotency_key
        /\ work'.requests[i].request_fingerprint = work.requests[i].request_fingerprint
        /\ work'.requests[i].payload = work.requests[i].payload
    BY <2>1, SetStatusType
  <2> QED
    BY <2>2 DEF PrintsMatch, PrintsIn
<1> QED
  BY <1>1, <1>2, <1>3, <1>4, <1>5, StoreMoves DEF PrintsMatch

(***************************************************************************)
(* The event a handler writes is a row of the audit log.                   *)
(***************************************************************************)
LEMMA StampedEventType ==
  ASSUME IInv, NEW t \in Threads, NEW time \in Nat,
         \/ pc[t] \in {"create_audit", "create_commit"}
         \/ pc[t] \in {"decide_audit", "decide_commit"}
  PROVE  StampedEvent(t, time) \in AuditRow
<1>1. CASE pc[t] \in {"create_audit", "create_commit"}
  BY <1>1 DEF StampedEvent, CreateSteps, IInv, TypeOK, Holding, AuditRow, CreatedPayload,
              InitialStatus, RequestStatus
<1>2. CASE pc[t] \in {"decide_audit", "decide_commit"}
  BY <1>2, NewStatusType
  DEF StampedEvent, CreateSteps, DecideSteps, IInv, TypeOK, Holding, Exists, DecideCall,
      AuditRow, DecidedPayload
<1> QED
  BY <1>1, <1>2

(***************************************************************************)
(* What is claimed of a thread's log entries stays while it and the tables *)
(* do.                                                                     *)
(***************************************************************************)
LEMMA LoggedSame ==
  ASSUME NEW t \in Threads, LoggedBy(t), Keeps(t), UNCHANGED <<db, work>>,
         clock \in Nat, clock' \in Nat, clock <= clock'
  PROVE  LoggedBy(t)'
<1>1. \A time : StampedEvent(t, time)' = StampedEvent(t, time)
  BY DEF StampedEvent, Keeps
<1>2. DecisionOf(t)' = DecisionOf(t)
  BY DEF DecisionOf, Keeps
<1>3. \A time : TimesBy(time)' <=> TimesBy(time)
  BY DEF TimesBy, Exists
<1>4. 0..clock \subseteq 0..clock'
  OBVIOUS
<1>5. ASSUME pc'[t] \in {"create_commit", "decide_commit"}
      PROVE  \E time \in 0..clock' :
               /\ TimesBy(time)' /\ now'[t] <= time
               /\ work'.audit = Append(db'.audit, StampedEvent(t, time)')
  <2>1. PICK time \in 0..clock :
          /\ TimesBy(time) /\ now[t] <= time
          /\ work.audit = Append(db.audit, StampedEvent(t, time))
    BY <1>5 DEF LoggedBy, Keeps
  <2> QED
    BY <1>1, <1>3, <1>4, <2>1 DEF Keeps
<1> QED
  BY <1>2, <1>5 DEF LoggedBy, Keeps

(***************************************************************************)
(* Nothing is claimed of a thread outside a transaction.                   *)
(***************************************************************************)
LEMMA LoggedOutside ==
  ASSUME NEW t \in Threads, pc'[t] \notin WriterSteps
  PROVE  LoggedBy(t)'
BY DEF LoggedBy, WriterSteps

(***************************************************************************)
(* The event is written at a time that is now, and so past for ever.       *)
(***************************************************************************)
LEMMA EventNow ==
  ASSUME IInv, RInv, TimesPast, NEW t \in Threads, AuditCreate(t) \/ AuditDecide(t)
  PROVE  \E time \in 0..clock :
           /\ TimesBy(time) /\ now[t] <= time
           /\ work'.audit = Append(db.audit, StampedEvent(t, time))
           /\ StampedEvent(t, time)' = StampedEvent(t, time)
<1>1. work \in Tables /\ clock \in Nat
  BY DEF IInv, TypeOK
<1>2. TimesBy(clock) /\ now[t] <= clock
  BY DEF TimesPast
<1>3. work.audit = db.audit
  BY DEF AuditCreate, AuditDecide, RInv, Staged, StagedBy
<1>4. CASE AuditCreate(t)
  <2>1. work'.audit = Append(work.audit, StampedEvent(t, clock))
    BY <1>1, <1>4 DEF AuditCreate, AddAudit, Tables, StampedEvent, CreateSteps
  <2>2. \A time : StampedEvent(t, time)' = StampedEvent(t, time)
    BY <1>4 DEF AuditCreate, StampedEvent, Goto, CreateSteps, locals, IInv, TypeOK
  <2> QED
    BY <1>1, <1>2, <1>3, <2>1, <2>2
<1>5. CASE AuditDecide(t)
  <2>1. work'.audit = Append(work.audit, StampedEvent(t, clock))
    BY <1>1, <1>5 DEF AuditDecide, AddAudit, Tables, StampedEvent, CreateSteps
  <2>2. \A time : StampedEvent(t, time)' = StampedEvent(t, time)
    BY <1>5 DEF AuditDecide, StampedEvent, Goto, CreateSteps, locals, IInv, TypeOK
  <2> QED
    BY <1>1, <1>2, <1>3, <2>1, <2>2
<1> QED
  BY <1>4, <1>5

(***************************************************************************)
(* A step of a create keeps what is claimed of its thread's log entries.   *)
(***************************************************************************)
LEMMA LoggedCreateStep ==
  ASSUME IInv, RInv, TimesPast, Logged, NEW t \in Threads, CreateStep(t)
  PROVE  LoggedBy(t)'
<1> USE DEF WriterSteps
<1>1. CASE InsertRequest(t) /\ pc'[t] = "create_audit"
  <2>1. work' = PutRequest(db, id[t], NewRow(t)) /\ db' = db /\ db \in Tables
    BY <1>1 DEF InsertRequest, Begin, Goto, IInv, OneTransaction, TypeOK
  <2>2. work'.decisions = db.decisions
    BY <2>1 DEF PutRequest, Tables
  <2> QED
    BY <1>1, <2>1, <2>2 DEF LoggedBy
<1>2. CASE AuditCreate(t)
  <2>1. /\ pc'[t] = "create_commit" /\ pc[t] = "create_audit" /\ work \in Tables
        /\ db' = db /\ now' = now /\ clock' = clock
    BY <1>2 DEF AuditCreate, Goto, IInv, TypeOK, locals
  <2>2. work'.decisions = work.decisions
    BY <1>2, <2>1 DEF AuditCreate, AddAudit, Tables
  <2>3. work.decisions = db.decisions
    BY <2>1 DEF Logged, LoggedBy
  <2>4. \E time \in 0..clock' :
          /\ TimesBy(time)' /\ now'[t] <= time
          /\ work'.audit = Append(db'.audit, StampedEvent(t, time)')
    <3>1. \A time : TimesBy(time)' <=> TimesBy(time)
      BY <2>1 DEF TimesBy, Exists
    <3> QED
      BY <1>2, <2>1, <3>1, EventNow
  <2> QED
    BY <2>1, <2>2, <2>3, <2>4 DEF LoggedBy
<1>3. CASE pc'[t] \notin WriterSteps
  BY <1>3, LoggedOutside
<1> QED
  BY <1>1, <1>2, <1>3
  DEF CreateStep, Precheck, CallProvider, ProviderFails, Recheck, AnswerExisting,
      InsertRequest, CommitCreate, Resolve, ReadBack, Goto, Reply, IInv, TypeOK

(***************************************************************************)
(* So does a step of a decision.                                           *)
(***************************************************************************)
LEMMA LoggedDecideStep ==
  ASSUME IInv, RInv, TimesPast, Logged, NEW t \in Threads, DecideStep(t)
  PROVE  LoggedBy(t)'
<1> USE DEF WriterSteps
<1>1. CASE BeginImmediate(t)
  <2>1. pc'[t] = "check" /\ work' = work /\ db' = db /\ work = db
    BY <1>1 DEF BeginImmediate, Begin, Goto, IInv, TypeOK, OneTransaction
  <2> QED
    BY <2>1 DEF LoggedBy
<1>2. CASE CheckOpen(t) /\ pc'[t] = "decision"
  <2>1. pc[t] = "check" /\ (UNCHANGED <<db, work>> \/ (db' = db /\ work' = db))
    BY <1>2 DEF CheckOpen, Rollback, storeVars
  <2>2. work.decisions = db.decisions
    BY <2>1 DEF Logged, LoggedBy
  <2> QED
    BY <1>2, <2>1, <2>2 DEF LoggedBy
<1>3. CASE InsertDecision(t)
  <2>1. /\ pc'[t] = "status" /\ pc[t] = "decision" /\ db' = db /\ UNCHANGED <<call, now>>
        /\ work' = AddDecision(work, DecisionOf(t)) /\ work \in Tables
    BY <1>3 DEF InsertDecision, DecisionOf, Goto, IInv, TypeOK, locals
  <2>2. work'.decisions = Append(db.decisions, DecisionOf(t))
    BY <2>1 DEF AddDecision, Tables, Logged, LoggedBy
  <2>3. DecisionOf(t)' = DecisionOf(t)
    BY <2>1 DEF DecisionOf
  <2> QED
    BY <2>1, <2>2, <2>3 DEF LoggedBy
<1>4. CASE UpdateStatus(t)
  <2>1. /\ pc'[t] = "decide_audit" /\ pc[t] = "status" /\ db' = db /\ UNCHANGED <<call, now>>
        /\ work' = SetStatus(work, call[t].target, NewStatus(call[t].decision), now[t])
        /\ work \in Tables /\ Exists(work, call[t].target)
        /\ NewStatus(call[t].decision) \in RequestStatus /\ now[t] \in Nat
    BY <1>4, NewStatusType
    DEF UpdateStatus, Goto, IInv, TypeOK, Holding, DecideSteps, DecideCall, locals
  <2>2. /\ work'.decisions = work.decisions
        /\ work'.requests[call[t].target].updated_at = now[t]
    BY <2>1, SetStatusType
  <2>3. work.decisions = Append(db.decisions, DecisionOf(t))
    BY <2>1 DEF Logged, LoggedBy
  <2>4. DecisionOf(t)' = DecisionOf(t)
    BY <2>1 DEF DecisionOf
  <2> QED
    BY <2>1, <2>2, <2>3, <2>4 DEF LoggedBy
<1>5. CASE AuditDecide(t)
  <2>1. /\ pc'[t] = "decide_commit" /\ pc[t] = "decide_audit" /\ work \in Tables
        /\ db' = db /\ UNCHANGED <<call, now, clock>>
    BY <1>5 DEF AuditDecide, Goto, IInv, TypeOK, locals
  <2>2. work'.decisions = work.decisions /\ work'.requests = work.requests
    BY <1>5, <2>1 DEF AuditDecide, AddAudit, Tables
  <2>3. /\ work.decisions = Append(db.decisions, DecisionOf(t))
        /\ work.requests[call[t].target].updated_at = now[t]
    BY <2>1 DEF Logged, LoggedBy
  <2>4. DecisionOf(t)' = DecisionOf(t)
    BY <2>1 DEF DecisionOf
  <2>5. \E time \in 0..clock' :
          /\ TimesBy(time)' /\ now'[t] <= time
          /\ work'.audit = Append(db'.audit, StampedEvent(t, time)')
    <3>1. \A time : TimesBy(time)' <=> TimesBy(time)
      BY <2>1 DEF TimesBy, Exists
    <3> QED
      BY <1>5, <2>1, <3>1, EventNow
  <2> QED
    BY <2>1, <2>2, <2>3, <2>4, <2>5 DEF LoggedBy
<1>6. CASE pc'[t] \notin WriterSteps
  BY <1>6, LoggedOutside
<1> QED
  BY <1>1, <1>2, <1>3, <1>4, <1>5, <1>6
  DEF DecideStep, CheckOpen, CommitDecide, Goto, Reply, IInv, TypeOK

(***************************************************************************)
(* Time does not go back.                                                  *)
(***************************************************************************)
LEMMA ClockMoves ==
  ASSUME IInv, [Next]_vars
  PROVE  /\ clock \in Nat /\ clock' \in Nat /\ clock <= clock'
<1>1. clock \in Nat
  BY DEF IInv, TypeOK
<1>2. ASSUME NEW t \in Threads, CreateStep(t) PROVE clock' = clock
  BY <1>2 DEF CreateStep, Precheck, CallProvider, ProviderFails, Recheck, InsertRequest,
              AuditCreate, CommitCreate, Commit, Resolve, ReadBack, storeVars
<1>3. ASSUME NEW t \in Threads, DecideStep(t) PROVE clock' = clock
  BY <1>3 DEF DecideStep, BeginImmediate, CheckOpen, InsertDecision, UpdateStatus,
              AuditDecide, CommitDecide, Commit, Rollback, storeVars
<1>4. ASSUME NEW t \in Threads,
             Start(t) \/ BusyTimeout(t) \/ StatementFails(t) \/ Finish(t)
      PROVE  clock' = clock
  BY <1>4 DEF Start, StartCreate, StartDecide, BusyTimeout, StatementFails, Finish,
              Rollback, storeVars
<1>5. CASE Tick
  BY <1>1, <1>5 DEF Tick
<1> QED
  BY <1>1, <1>2, <1>3, <1>4, <1>5 DEF Next, Step, Crash, Rollback, vars, storeVars

(***************************************************************************)
(* Every step keeps what is claimed of the log entries.                    *)
(***************************************************************************)
LEMMA LoggedStep ==
  ASSUME IInv, RInv, TimesPast, Logged, [Next]_vars
  PROVE  Logged'
<1>1. ASSUME NEW t \in Threads, ThreadStep(t) PROVE Logged'
  <2>1. LoggedBy(t)'
    <3>1. CASE CreateStep(t) \/ DecideStep(t)
      BY <3>1, LoggedCreateStep, LoggedDecideStep
    <3>2. CASE Start(t) \/ BusyTimeout(t) \/ StatementFails(t) \/ Finish(t)
      <4>1. pc'[t] \notin WriterSteps
        BY <3>2 DEF Start, StartCreate, StartDecide, BusyTimeout, StatementFails, Finish,
                    Goto, Reply, IInv, TypeOK, WriterSteps
      <4> QED
        BY <4>1, LoggedOutside
    <3> QED
      BY <1>1, <3>1, <3>2 DEF ThreadStep, Step
  <2>2. ASSUME NEW u \in Threads, u # t PROVE LoggedBy(u)'
    <3>1. Keeps(u) /\ LoggedBy(u)
      BY <1>1, <2>2, OthersKeep DEF IInv, Logged
    <3>2. CASE UNCHANGED <<db, work>>
      BY <3>1, <3>2, LoggedSame, ClockMoves
    <3>3. CASE ~ UNCHANGED <<db, work>>
      <4>1. pc'[u] \notin WriterSteps
        BY <1>1, <2>2, <3>1, <3>3, OthersOutside DEF Keeps
      <4> QED
        BY <4>1, LoggedOutside
    <3> QED
      BY <3>2, <3>3
  <2> QED
    BY <2>1, <2>2 DEF Logged
<1>2. ASSUME Crash PROVE Logged'
  BY <1>2, LoggedOutside DEF Crash, Logged, WriterSteps
<1>3. ASSUME Tick \/ UNCHANGED vars PROVE Logged'
  <2>1. \A t \in Threads : Keeps(t) /\ LoggedBy(t)
    BY <1>3 DEF Tick, vars, apiVars, Keeps, Logged
  <2> QED
    BY <1>3, <2>1, LoggedSame, ClockMoves DEF Tick, vars, storeVars, Logged
<1> QED
  BY <1>1, <1>2, <1>3 DEF Next, ThreadStep

-----------------------------------------------------------------------------

(***************************************************************************)
(* What the commit of a create adds to the committed tables: its row, and  *)
(* its event, of a time between the row's own and now.                     *)
(***************************************************************************)
CreateCommitted(t) ==
  /\ id[t] \in Ids /\ ~Exists(db, id[t]) /\ Exists(db', id[t])
  /\ db'.requests[id[t]] = NewRow(t)
  /\ \A j \in Ids : j # id[t] => db'.requests[j] = db.requests[j]
  /\ db'.decisions = db.decisions
  /\ \E time \in 0..clock :
       /\ TimesBy(time) /\ now[t] <= time
       /\ StampedEvent(t, time) \in AuditRow
       /\ db'.audit = Append(db.audit, StampedEvent(t, time))

(***************************************************************************)
(* The commit of a create adds one row and one event.                      *)
(***************************************************************************)
LEMMA CommitCreateAdds ==
  ASSUME IInv, RInv, Logged, NEW t \in Threads, CommitCreate(t)
  PROVE  CreateCommitted(t)
<1>1. /\ pc[t] = "create_commit" /\ db' = work /\ StagedCreate(t) /\ LoggedBy(t)
      /\ id[t] \in Ids /\ call[t] \in CreateCall /\ triage[t] \in Triage
      /\ db \in Tables /\ clock \in Nat
  BY DEF CommitCreate, Commit, RInv, Staged, StagedBy, Logged, IInv, TypeOK, Holding, CreateSteps
<1>2. /\ work.requests[id[t]] = NewRow(t)
      /\ \A j \in Ids : j # id[t] => work.requests[j] = db.requests[j]
  BY <1>1 DEF StagedCreate, Tables
<1>3. NewRow(t) # NoRow
  BY <1>1, NewRowType, SentinelAssumption DEF IInv
<1>4. \A time \in 0..clock : StampedEvent(t, time) \in AuditRow
  BY <1>1, StampedEventType
<1> QED
  BY <1>1, <1>2, <1>3, <1>4 DEF CreateCommitted, StagedCreate, LoggedBy, Exists

(***************************************************************************)
(* What the commit of a decision changes: the open row it names, one       *)
(* decision, and one event, of a time that is not before the decision's.   *)
(***************************************************************************)
DecisionCommitted(t) ==
  LET i == call[t].target IN
  /\ Exists(db, i) /\ Exists(db', i)
  /\ \A j \in Ids : j # i => db'.requests[j] = db.requests[j]
  /\ db'.requests[i].created_at = db.requests[i].created_at
  /\ db'.requests[i].updated_at = now[t]
  /\ DecisionOf(t) \in DecisionRow
  /\ db'.decisions = Append(db.decisions, DecisionOf(t))
  /\ \E time \in 0..clock :
       /\ TimesBy(time) /\ now[t] <= time
       /\ StampedEvent(t, time) \in AuditRow
       /\ db'.audit = Append(db.audit, StampedEvent(t, time))

(***************************************************************************)
(* The commit of a decision adds one decision and one event, and changes   *)
(* the status and the time of one row.                                     *)
(***************************************************************************)
LEMMA CommitDecideAdds ==
  ASSUME IInv, RInv, Logged, NEW t \in Threads, CommitDecide(t)
  PROVE  DecisionCommitted(t)
<1>1. /\ pc[t] = "decide_commit" /\ db' = work /\ StagedDecision(t) /\ LoggedBy(t)
      /\ call[t] \in DecideCall /\ now[t] \in Nat /\ clock \in Nat
      /\ Exists(work, call[t].target)
  BY DEF CommitDecide, Commit, RInv, Staged, StagedBy, Logged, IInv, TypeOK, Holding, DecideSteps
<1>2. DecisionOf(t) \in DecisionRow
  BY <1>1 DEF DecisionOf, DecisionRow, DecideCall, Exists
<1>3. \A time \in 0..clock : StampedEvent(t, time) \in AuditRow
  BY <1>1, StampedEventType
<1> QED
  BY <1>1, <1>2, <1>3 DEF DecisionCommitted, StagedDecision, LoggedBy, Exists

(***************************************************************************)
(* Nothing committed is ever of a later time than now, and neither is what *)
(* a thread has read of the clock.                                         *)
(***************************************************************************)
LEMMA TimesStep ==
  ASSUME IInv, RInv, Logged, TimesPast, [Next]_vars
  PROVE  TimesPast'
<1> USE DEF TimesPast
<1>1. clock \in Nat /\ clock' \in Nat /\ clock <= clock'
  BY ClockMoves
<1>2. \A t \in Threads : now[t] \in Nat
  BY DEF IInv, TypeOK
<1>3. \A t \in Threads : now'[t] <= clock'
  <2>1. ASSUME NEW t \in Threads, ThreadStep(t) PROVE \A u \in Threads : now'[u] <= clock'
    <3>1. \A u \in Threads : u # t => now'[u] = now[u]
      BY <2>1, OthersKeep DEF Keeps, IInv
    <3>2. now'[t] \in {now[t], clock, 0}
      BY <2>1
      DEF IInv, TypeOK, ThreadStep, Step, Start, StartCreate, StartDecide, CreateStep,
          Precheck, CallProvider, ProviderFails, Recheck, InsertRequest, AuditCreate,
          CommitCreate, Resolve, ReadBack, DecideStep, BeginImmediate, CheckOpen,
          InsertDecision, UpdateStatus, AuditDecide, CommitDecide, BusyTimeout,
          StatementFails, Finish, locals
    <3> QED
      BY <1>1, <1>2, <3>1, <3>2
  <2> QED
    BY <1>1, <1>2, <2>1 DEF Next, ThreadStep, Crash, Tick, vars, apiVars
<1>4. TimesBy(clock)'
  <2>0. db \in Tables
    BY DEF IInv, TypeOK
  <2>1. /\ \A i \in Ids : Exists(db, i) =>
             db.requests[i].created_at \in Nat /\ db.requests[i].created_at <= clock
        /\ \A n \in DOMAIN db.audit :
             db.audit[n].created_at \in Nat /\ db.audit[n].created_at <= clock
    BY <2>0, ElementOfSeq DEF TimesBy, Tables, Exists, Row, AuditRow
  <2>2. CASE db' = db
    BY <1>1, <2>1, <2>2 DEF TimesBy, Exists
  <2>3. ASSUME NEW t \in Threads, NEW time \in 0..clock,
               StampedEvent(t, time) \in AuditRow,
               db'.audit = Append(db.audit, StampedEvent(t, time))
        PROVE  \A n \in DOMAIN db'.audit : db'.audit[n].created_at <= clock'
    <3>1. StampedEvent(t, time).created_at = time
      BY DEF StampedEvent
    <3>2. db.audit \in Seq(AuditRow)
      BY <2>0 DEF Tables
    <3>3. /\ DOMAIN db.audit = 1..Len(db.audit) /\ DOMAIN db'.audit = 1..(Len(db.audit) + 1)
          /\ \A n \in 1..Len(db.audit) : db'.audit[n] = db.audit[n]
          /\ db'.audit[Len(db.audit) + 1] = StampedEvent(t, time)
          /\ Len(db.audit) \in Nat
      BY <2>3, <3>2, AppendFacts
    <3> QED
      BY <1>1, <2>1, <3>1, <3>3
  <2>4. ASSUME NEW t \in Threads, CommitCreate(t)
        PROVE  TimesBy(clock)'
    <3>1. CreateCommitted(t)
      BY <2>4, CommitCreateAdds
    <3>2. NewRow(t).created_at = now[t]
      BY DEF NewRow
    <3>3. \A i \in Ids : Exists(db', i) => db'.requests[i].created_at <= clock'
      BY <1>1, <1>2, <2>1, <3>1, <3>2 DEF CreateCommitted, Exists
    <3> QED
      BY <2>3, <3>1, <3>3 DEF CreateCommitted, TimesBy, Exists
  <2>5. ASSUME NEW t \in Threads, CommitDecide(t)
        PROVE  TimesBy(clock)'
    <3>1. DecisionCommitted(t)
      BY <2>5, CommitDecideAdds
    <3>3. \A i \in Ids : Exists(db', i) => db'.requests[i].created_at <= clock'
      BY <1>1, <2>1, <3>1 DEF DecisionCommitted, Exists
    <3> QED
      BY <2>3, <3>1, <3>3 DEF DecisionCommitted, TimesBy, Exists
  <2> QED
    BY <2>2, <2>4, <2>5, OnlyCommits
<1> QED
  BY <1>3, <1>4

(***************************************************************************)
(* What is committed stays: rows by RowsKept, and both logs, which only    *)
(* grow at their end.                                                      *)
(***************************************************************************)
LEMMA LogsGrow ==
  ASSUME IInv, RInv, Logged, [Next]_vars
  PROVE  /\ \A n \in DOMAIN db.audit : n \in DOMAIN db'.audit /\ db'.audit[n] = db.audit[n]
         /\ \A k \in DOMAIN db.decisions :
              k \in DOMAIN db'.decisions /\ db'.decisions[k] = db.decisions[k]
<1>1. db.audit \in Seq(AuditRow) /\ db.decisions \in Seq(DecisionRow)
  BY DEF IInv, TypeOK, Tables
<1>2. ASSUME NEW row \in AuditRow, db'.audit = Append(db.audit, row)
      PROVE  \A n \in DOMAIN db.audit : n \in DOMAIN db'.audit /\ db'.audit[n] = db.audit[n]
  BY <1>1, <1>2, AppendFacts
<1>3. ASSUME NEW t \in Threads, CommitCreate(t)
      PROVE  /\ db'.decisions = db.decisions
             /\ \E row \in AuditRow : db'.audit = Append(db.audit, row)
  BY <1>3, CommitCreateAdds DEF CreateCommitted
<1>4. ASSUME NEW t \in Threads, CommitDecide(t)
      PROVE  /\ \E row \in DecisionRow : db'.decisions = Append(db.decisions, row)
             /\ \E row \in AuditRow : db'.audit = Append(db.audit, row)
  BY <1>4, CommitDecideAdds DEF DecisionCommitted
<1>5. ASSUME NEW row \in DecisionRow, db'.decisions = Append(db.decisions, row)
      PROVE  \A k \in DOMAIN db.decisions :
               k \in DOMAIN db'.decisions /\ db'.decisions[k] = db.decisions[k]
  BY <1>1, <1>5, AppendFacts
<1> QED
  BY <1>2, <1>3, <1>4, <1>5, OnlyCommits

(***************************************************************************)
(* A new entry of either log is about a request that is stored by then.    *)
(***************************************************************************)
LEMMA LogsReferStep ==
  ASSUME IInv, RInv, Logged, LogsRefer, [Next]_vars
  PROVE  LogsRefer'
<1>1. db.audit \in Seq(AuditRow) /\ db.decisions \in Seq(DecisionRow)
  BY DEF IInv, TypeOK, Tables
<1>2. \A i : Exists(db, i) => Exists(db', i)
  BY RowsKept DEF Exists
<1>3. CASE db' = db
  BY <1>3 DEF LogsRefer, Exists
<1>4. ASSUME NEW row \in AuditRow, db'.audit = Append(db.audit, row),
             Exists(db', row.request_id)
      PROVE  \A n \in DOMAIN db'.audit : Exists(db', db'.audit[n].request_id)
  <2>1. /\ DOMAIN db.audit = 1..Len(db.audit) /\ DOMAIN db'.audit = 1..(Len(db.audit) + 1)
        /\ \A n \in 1..Len(db.audit) : db'.audit[n] = db.audit[n]
        /\ db'.audit[Len(db.audit) + 1] = row /\ Len(db.audit) \in Nat
    BY <1>1, <1>4, AppendFacts
  <2> QED
    BY <1>2, <1>4, <2>1 DEF LogsRefer
<1>5. ASSUME NEW row \in DecisionRow, db'.decisions = Append(db.decisions, row),
             Exists(db', row.request_id)
      PROVE  \A k \in DOMAIN db'.decisions : Exists(db', db'.decisions[k].request_id)
  <2>1. /\ DOMAIN db.decisions = 1..Len(db.decisions)
        /\ DOMAIN db'.decisions = 1..(Len(db.decisions) + 1)
        /\ \A n \in 1..Len(db.decisions) : db'.decisions[n] = db.decisions[n]
        /\ db'.decisions[Len(db.decisions) + 1] = row /\ Len(db.decisions) \in Nat
    BY <1>1, <1>5, AppendFacts
  <2> QED
    BY <1>2, <1>5, <2>1 DEF LogsRefer
<1>6. ASSUME NEW t \in Threads, CommitCreate(t) PROVE LogsRefer'
  <2>1. CreateCommitted(t)
    BY <1>6, CommitCreateAdds
  <2>2. \A time : StampedEvent(t, time).request_id = id[t]
    BY <1>6 DEF CommitCreate, StampedEvent, CreateSteps
  <2>3. \A n \in DOMAIN db'.audit : Exists(db', db'.audit[n].request_id)
    BY <1>4, <2>1, <2>2 DEF CreateCommitted
  <2> QED
    BY <1>2, <2>1, <2>3 DEF CreateCommitted, LogsRefer, Exists
<1>7. ASSUME NEW t \in Threads, CommitDecide(t) PROVE LogsRefer'
  <2>1. DecisionCommitted(t)
    BY <1>7, CommitDecideAdds
  <2>2. \A time : StampedEvent(t, time).request_id = call[t].target
    BY <1>7 DEF CommitDecide, StampedEvent, CreateSteps
  <2>3. \A n \in DOMAIN db'.audit : Exists(db', db'.audit[n].request_id)
    BY <1>4, <2>1, <2>2 DEF DecisionCommitted
  <2>4. DecisionOf(t).request_id = call[t].target
    BY DEF DecisionOf
  <2>5. \A k \in DOMAIN db'.decisions : Exists(db', db'.decisions[k].request_id)
    BY <1>5, <2>1, <2>4 DEF DecisionCommitted
  <2> QED
    BY <2>3, <2>5 DEF LogsRefer, Exists
<1> QED
  BY <1>3, <1>6, <1>7, OnlyCommits

(***************************************************************************)
(* What a thread was to find it still finds: nothing committed is lost.    *)
(***************************************************************************)
LEMMA ForeseenKept ==
  ASSUME IInv, RInv, [Next]_vars, NEW t \in Threads, Keeps(t), RowRead(t), TargetStored(t)
  PROVE  RowRead(t)' /\ TargetStored(t)'
<1>1. \A i : Exists(db, i) => /\ Exists(db', i)
                              /\ db'.requests[i].payload = db.requests[i].payload
                              /\ db'.requests[i].idempotency_key = db.requests[i].idempotency_key
  BY RowsKept DEF Exists
<1> QED
  BY <1>1 DEF Keeps, RowRead, TargetStored, Exists

(***************************************************************************)
(* What a thread has read or checked stays true until it uses it, whatever *)
(* the others commit.                                                      *)
(***************************************************************************)
LEMMA ForeseenStep ==
  ASSUME IInv, RInv, Logged, Foreseen, [Next]_vars
  PROVE  Foreseen'
<1>1. ASSUME NEW t \in Threads, ThreadStep(t) PROVE RowRead(t)'
  <2>1. CASE CommitCreate(t)
    <3>1. CreateCommitted(t)
      BY <2>1, CommitCreateAdds
    <3>2. UNCHANGED <<id, call>>
      BY <2>1 DEF CommitCreate, locals
    <3> QED
      BY <3>1, <3>2 DEF CreateCommitted, RowRead, NewRow, Exists
  <2>2. CASE pc'[t] # "readback"
    BY <2>2 DEF RowRead
  <2> QED
    BY <1>1, <2>1, <2>2
    DEF IInv, TypeOK, ThreadStep, Step, Start, StartCreate, StartDecide, CreateStep, Precheck,
        CallProvider, ProviderFails, Recheck, AnswerExisting, InsertRequest, AuditCreate,
        Resolve, ReadBack, DecideStep, BeginImmediate, CheckOpen, InsertDecision,
        UpdateStatus, AuditDecide, CommitDecide, BusyTimeout, StatementFails, Finish,
        Goto, Reply
<1>2. ASSUME NEW t \in Threads, ThreadStep(t) PROVE TargetStored(t)'
  <2> USE DEF DecideSteps
  <2>1. CASE \E i \in Ids \cup {NoId}, decision \in Decision, reviewer \in Reviewers :
               StartDecide(t, i, decision, reviewer)
    <3>1. PICK i \in Ids \cup {NoId} : /\ RoomToDecide(i) /\ call'[t].target = i /\ db' = db
      BY <2>1 DEF StartDecide, IInv, TypeOK, storeVars
    <3>2. i \in Ids => Exists(db, i)
      BY <3>1, ApiAssumption DEF RoomToDecide, IsFinal
    <3> QED
      BY <3>1, <3>2 DEF TargetStored, Exists
  <2>2. CASE DecideStep(t)
    <3>1. pc[t] \in DecideSteps /\ call' = call
      BY <2>2 DEF DecideStep, BeginImmediate, CheckOpen, InsertDecision, UpdateStatus,
                  AuditDecide, CommitDecide, locals
    <3>2. call[t].target \in Ids => Exists(db', call[t].target)
      BY <3>1, RowsKept DEF Foreseen, TargetStored
    <3> QED
      BY <3>1, <3>2 DEF TargetStored, Exists
  <2>3. CASE pc'[t] \notin DecideSteps
    BY <2>3 DEF TargetStored
  <2> QED
    BY <1>2, <2>1, <2>2, <2>3
    DEF IInv, TypeOK, ThreadStep, Step, Start, StartCreate, CreateStep, Precheck, CallProvider,
        ProviderFails, Recheck, AnswerExisting, InsertRequest, AuditCreate, CommitCreate,
        Resolve, ReadBack, BusyTimeout, StatementFails, Finish, Goto, Reply
<1>3. ASSUME NEW t \in Threads, ThreadStep(t) PROVE Foreseen'
  <2>1. ASSUME NEW u \in Threads, u # t PROVE RowRead(u)' /\ TargetStored(u)'
    BY <1>3, <2>1, OthersKeep, ForeseenKept DEF IInv, Foreseen
  <2> QED
    BY <1>1, <1>2, <1>3, <2>1 DEF Foreseen
<1>4. CASE Crash
  BY <1>4 DEF Crash, Foreseen, RowRead, TargetStored, DecideSteps
<1>5. CASE Tick \/ UNCHANGED vars
  <2>1. \A t \in Threads : Keeps(t)
    BY <1>5 DEF Tick, vars, apiVars, Keeps
  <2> QED
    BY <2>1, ForeseenKept DEF Foreseen
<1> QED
  BY <1>3, <1>4, <1>5 DEF Next, ThreadStep

(***************************************************************************)
(* The parts together are kept by every step.                              *)
(***************************************************************************)
LEMMA AInvStep ==
  ASSUME IInv, RInv, AInv, [Next]_vars
  PROVE  AInv'
BY PrintsStep, LoggedStep, TimesStep, LogsReferStep, ForeseenStep DEF AInv

(***************************************************************************)
(* They hold of the empty tables.                                          *)
(***************************************************************************)
LEMMA InitAInv == Init => AInv
<1> SUFFICES ASSUME Init PROVE AInv
  OBVIOUS
<1>1. /\ \A i : ~Exists(db, i) /\ ~Exists(work, i)
      /\ DOMAIN db.audit = {} /\ DOMAIN db.decisions = {} /\ clock = 0
  BY DEF Init, StoreInit, Exists
<1>2. \A t \in Threads : pc[t] = "idle" /\ now[t] = 0
  BY DEF Init
<1> QED
  BY <1>1, <1>2
  DEF AInv, PrintsMatch, PrintsIn, Logged, LoggedBy, TimesPast, TimesBy, LogsRefer,
      Foreseen, RowRead, TargetStored, DecideSteps

(***************************************************************************)
(* So the three parts together hold in every state of every behaviour.     *)
(***************************************************************************)
LEMMA LogsInductive == Spec => [](IInv /\ RInv /\ AInv)
<1>1. Init => RInv
  BY ApiAssumption DEF Init, StoreInit, RInv, UniqueIds, FreshRows, RowsStay, Staged, StagedBy
<1>2. IInv /\ RInv /\ [Next]_vars => RInv'
  BY RInvStep
<1>3. IInv /\ RInv /\ AInv /\ [Next]_vars => AInv'
  BY AInvStep
<1> QED
  BY <1>1, <1>2, <1>3, InitAInv, Inductive, PTL DEF Spec

-----------------------------------------------------------------------------

(***************************************************************************)
(* The answer to one thread's create call, or decision call, is true of    *)
(* the committed tables.                                                   *)
(***************************************************************************)
CreateTold(t) ==
  pc[t] = "done" /\ call[t] \in CreateCall =>
    /\ answer[t].code = 201 =>
         /\ answer[t].id \in Ids
         /\ Exists(db, answer[t].id)
         /\ db.requests[answer[t].id].payload = call[t].payload
         /\ db.requests[answer[t].id].idempotency_key = call[t].key
         /\ call[t].key = NoKey => answer[t].id = id[t]
    /\ answer[t].code = 409 =>
         \E i \in Holders(db, call[t].key) : db.requests[i].payload # call[t].payload
    /\ answer[t].code # 404

DecideTold(t) ==
  pc[t] = "done" /\ call[t] \in DecideCall =>
    LET i == call[t].target IN
    /\ answer[t].code = 200 =>
         /\ \E n \in DOMAIN db.decisions : db.decisions[n] = DecisionOf(t)
         /\ \E n \in DOMAIN db.audit :
              /\ db.audit[n].request_id = i
              /\ db.audit[n].event_type = "human_decision_recorded"
              /\ db.audit[n].payload.reviewer = call[t].reviewer
              /\ db.audit[n].payload.decision = call[t].decision
    /\ answer[t].code = 409 => IsFinal(db, i)
    /\ answer[t].code = 404 => i \notin Ids

Told == \A t \in Threads : CreateTold(t) /\ DecideTold(t)

(***************************************************************************)
(* A create call is not a decision call.                                   *)
(***************************************************************************)
LEMMA KindsDiffer == CreateCall \cap DecideCall = {}
BY DEF CreateCall, DecideCall

(***************************************************************************)
(* What was answered stays true: nothing committed is lost, and final is   *)
(* final.                                                                  *)
(***************************************************************************)
LEMMA ToldKept ==
  ASSUME IInv, RInv, AInv, [Next]_vars, NEW t \in Threads, CreateTold(t), DecideTold(t),
         Keeps(t), answer'[t] = answer[t]
  PROVE  CreateTold(t)' /\ DecideTold(t)'
<1> USE DEF Keeps
<1>1. \A i : Exists(db, i) =>
        /\ Exists(db', i)
        /\ IsFinal(db, i) => db'.requests[i] = db.requests[i]
        /\ db'.requests[i].payload = db.requests[i].payload
        /\ db'.requests[i].idempotency_key = db.requests[i].idempotency_key
  BY RowsKept DEF Exists
<1>2. \A i : IsFinal(db, i) => IsFinal(db', i)
  BY <1>1 DEF IsFinal
<1>3. \A key : Holders(db, key) \subseteq Holders(db', key)
  BY <1>1 DEF Holders
<1>4. CreateTold(t)'
  <2> SUFFICES ASSUME pc[t] = "done", call[t] \in CreateCall
               PROVE  CreateTold(t)'
    BY DEF CreateTold
  <2>1. answer[t].code = 409 =>
          \E i \in Holders(db', call[t].key) : db'.requests[i].payload # call[t].payload
    BY <1>1, <1>3 DEF CreateTold, Holders
  <2>2. (\E i \in Holders(db', call[t].key) : db'.requests[i].payload # call[t].payload)
        <=> (\E i \in Holders(db, call[t].key) : db.requests[i].payload # call[t].payload)'
    BY DEF Holders, Exists
  <2> QED
    BY <1>1, <2>1, <2>2 DEF CreateTold, Exists
<1>5. DecideTold(t)'
  <2> SUFFICES ASSUME pc[t] = "done", call[t] \in DecideCall
               PROVE  DecideTold(t)'
    BY DEF DecideTold
  <2>1. DecisionOf(t)' = DecisionOf(t)
    BY DEF DecisionOf
  <2>2. answer[t].code = 200 => \E n \in DOMAIN db'.decisions : db'.decisions[n] = DecisionOf(t)
    BY LogsGrow DEF DecideTold, AInv
  <2>3. answer[t].code = 200 =>
          \E n \in DOMAIN db'.audit :
            /\ db'.audit[n].request_id = call[t].target
            /\ db'.audit[n].event_type = "human_decision_recorded"
            /\ db'.audit[n].payload.reviewer = call[t].reviewer
            /\ db'.audit[n].payload.decision = call[t].decision
    BY LogsGrow DEF DecideTold, AInv
  <2>4. IsFinal(db, call[t].target)' <=> IsFinal(db', call[t].target)
    BY DEF IsFinal, Exists
  <2> QED
    BY <1>2, <2>1, <2>2, <2>3, <2>4 DEF DecideTold
<1> QED
  BY <1>4, <1>5

(***************************************************************************)
(* A key that is taken answers for the request that holds it: its stored   *)
(* fingerprint tells the caller's payload from another.                    *)
(***************************************************************************)
LEMMA ExistingTold ==
  ASSUME IInv, AInv, NEW t \in Threads, AnswerExisting(t), call[t] \in CreateCall,
         UNCHANGED <<db, call>>
  PROVE  CreateTold(t)'
<1>1. PICK i \in Holders(db, call[t].key) :
        IF Conflicts(db.requests[i], call[t].payload)
        THEN Reply(t, 409, NoId)
        ELSE Reply(t, 201, i)
  BY DEF AnswerExisting
<1>2. /\ i \in Ids /\ Exists(db, i)
      /\ db.requests[i].idempotency_key = call[t].key /\ call[t].key # NoKey
  BY <1>1 DEF Holders
<1>3. /\ db.requests[i].payload \in Payloads
      /\ db.requests[i].request_fingerprint = db.requests[i].payload
  BY <1>2 DEF IInv, TypeOK, Tables, Row, Exists, AInv, PrintsMatch, PrintsIn, payload_fingerprint
<1>4. Conflicts(db.requests[i], call[t].payload) <=> db.requests[i].payload # call[t].payload
  BY <1>3, SentinelAssumption DEF Conflicts, payload_fingerprint
<1>5. i \in Holders(db, call[t].key)'
  BY <1>2 DEF Holders, Exists
<1>6. CASE Conflicts(db.requests[i], call[t].payload)
  <2>1. answer'[t].code = 409
    BY <1>1, <1>6 DEF Reply, IInv, TypeOK
  <2> QED
    BY <1>4, <1>5, <1>6, <2>1 DEF CreateTold
<1>7. CASE ~Conflicts(db.requests[i], call[t].payload)
  <2>1. answer'[t].code = 201 /\ answer'[t].id = i
    BY <1>1, <1>7 DEF Reply, IInv, TypeOK
  <2> QED
    BY <1>2, <1>4, <1>7, <2>1 DEF CreateTold, Exists
<1> QED
  BY <1>6, <1>7

(***************************************************************************)
(* A step of a create that answers tells the truth.                        *)
(***************************************************************************)
LEMMA CreateStepTold ==
  ASSUME IInv, RInv, AInv, NEW t \in Threads, CreateStep(t)
  PROVE  CreateTold(t)' /\ DecideTold(t)'
<1>1. call[t] \in CreateCall /\ call' = call
  BY DEF CreateStep, Precheck, CallProvider, ProviderFails, Recheck, InsertRequest,
         AuditCreate, CommitCreate, Resolve, ReadBack, locals, IInv, Holding, CreateSteps
<1>2. DecideTold(t)'
  BY <1>1, KindsDiffer DEF DecideTold
<1>3. CASE AnswerExisting(t) /\ db' = db
  BY <1>1, <1>2, <1>3, ExistingTold
<1>4. ASSUME Reply(t, 500, NoId) \/ Reply(t, 503, NoId)
      PROVE  CreateTold(t)'
  <2>1. answer'[t].code \in {500, 503}
    BY <1>4 DEF Reply, IInv, TypeOK
  <2> QED
    BY <2>1 DEF CreateTold
<1>5. CASE ReadBack(t)
  <2>1. /\ Exists(db, id[t]) /\ id[t] \in Ids /\ db' = db /\ id' = id
        /\ db.requests[id[t]].payload = call[t].payload
        /\ db.requests[id[t]].idempotency_key = call[t].key
    BY <1>5 DEF ReadBack, AInv, Foreseen, RowRead, Exists, storeVars, locals
  <2>2. answer'[t].code = 201 /\ answer'[t].id = id[t]
    BY <1>5, <2>1 DEF ReadBack, Reply, IInv, TypeOK
  <2> QED
    BY <1>1, <1>2, <2>1, <2>2 DEF CreateTold, Exists
<1>6. CASE pc'[t] # "done"
  BY <1>2, <1>6 DEF CreateTold
<1>7. CASE Precheck(t) \/ Recheck(t) \/ Resolve(t) \/ ProviderFails(t)
  BY <1>2, <1>3, <1>4, <1>6, <1>7
  DEF Precheck, Recheck, Resolve, ProviderFails, Goto, IInv, TypeOK, storeVars
<1>8. CASE CallProvider(t) \/ InsertRequest(t) \/ AuditCreate(t) \/ CommitCreate(t)
  BY <1>2, <1>6, <1>8
  DEF CallProvider, InsertRequest, AuditCreate, CommitCreate, Goto, IInv, TypeOK
<1> QED
  BY <1>2, <1>5, <1>7, <1>8 DEF CreateStep

(***************************************************************************)
(* So does a step of a decision: a 200 once both its entries are           *)
(* committed, a refusal while the lock keeps the target as it was read.    *)
(***************************************************************************)
LEMMA DecideStepTold ==
  ASSUME IInv, RInv, AInv, NEW t \in Threads, DecideStep(t)
  PROVE  CreateTold(t)' /\ DecideTold(t)'
<1>1. call[t] \in DecideCall /\ UNCHANGED <<call, now>>
  BY DEF DecideStep, BeginImmediate, CheckOpen, InsertDecision, UpdateStatus,
         AuditDecide, CommitDecide, locals, IInv, Holding, DecideSteps
<1>2. CreateTold(t)'
  BY <1>1, KindsDiffer DEF CreateTold
<1>3. CASE CheckOpen(t) /\ pc'[t] = "done"
  <2> DEFINE i == call[t].target
  <2>1. /\ pc[t] = "check" /\ db' = db
        /\ \/ ~Exists(work, i) /\ answer'[t].code = 404
           \/ IsFinal(work, i) /\ answer'[t].code = 409
    BY <1>3 DEF CheckOpen, Reply, Goto, Rollback, storeVars, IInv, TypeOK, Holding
  <2>2. work = db
    BY <2>1 DEF RInv, Staged, StagedBy
  <2>3. ~Exists(work, i) => i \notin Ids
    BY <2>1, <2>2 DEF AInv, Foreseen, TargetStored, DecideSteps
  <2>4. IsFinal(work, i) => IsFinal(db, i)'
    BY <1>1, <2>1, <2>2 DEF IsFinal, Exists
  <2> QED
    BY <1>1, <1>2, <2>1, <2>3, <2>4 DEF DecideTold
<1>4. CASE CommitDecide(t)
  <2>1. DecisionCommitted(t) /\ pc[t] = "decide_commit"
    BY <1>4, CommitDecideAdds DEF AInv, CommitDecide
  <2>2. db.audit \in Seq(AuditRow) /\ db.decisions \in Seq(DecisionRow)
    BY DEF IInv, TypeOK, Tables
  <2>3. PICK time \in 0..clock : /\ StampedEvent(t, time) \in AuditRow
                                 /\ db'.audit = Append(db.audit, StampedEvent(t, time))
    BY <2>1 DEF DecisionCommitted
  <2>4. \E n \in DOMAIN db'.audit : db'.audit[n] = StampedEvent(t, time)
    BY <2>2, <2>3, AppendFacts
  <2>5. \E n \in DOMAIN db'.decisions : db'.decisions[n] = DecisionOf(t)
    <3>1. /\ DecisionOf(t) \in DecisionRow
          /\ db'.decisions = Append(db.decisions, DecisionOf(t))
      BY <2>1 DEF DecisionCommitted
    <3> QED
      BY <2>2, <3>1, AppendFacts
  <2>6. /\ StampedEvent(t, time).request_id = call[t].target
        /\ StampedEvent(t, time).event_type = "human_decision_recorded"
        /\ StampedEvent(t, time).payload.reviewer = call[t].reviewer
        /\ StampedEvent(t, time).payload.decision = call[t].decision
    BY <2>1 DEF StampedEvent, CreateSteps
  <2>7. \E n \in DOMAIN db'.audit :
          /\ db'.audit[n].request_id = call[t].target
          /\ db'.audit[n].event_type = "human_decision_recorded"
          /\ db'.audit[n].payload.reviewer = call[t].reviewer
          /\ db'.audit[n].payload.decision = call[t].decision
    BY <2>4, <2>6
  <2>8. answer'[t].code = 200
    BY <1>4 DEF CommitDecide, Reply, IInv, TypeOK
  <2>9. DecisionOf(t)' = DecisionOf(t)
    BY <1>1 DEF DecisionOf
  <2> QED
    BY <1>1, <1>2, <2>5, <2>7, <2>8, <2>9 DEF DecideTold
<1>5. CASE pc'[t] # "done"
  BY <1>2, <1>5 DEF DecideTold
<1> QED
  BY <1>3, <1>4, <1>5
  DEF DecideStep, BeginImmediate, InsertDecision, UpdateStatus, AuditDecide, Goto, IInv, TypeOK

(***************************************************************************)
(* A thread answers for itself only.                                       *)
(***************************************************************************)
LEMMA OthersAnswers ==
  ASSUME TypeOK, NEW t \in Threads, ThreadStep(t), NEW u \in Threads, u # t
  PROVE  answer'[u] = answer[u]
<1> USE DEF TypeOK, Goto, Reply
<1>1. CASE Start(t)
  BY <1>1 DEF Start, StartCreate, StartDecide
<1>2. CASE CreateStep(t)
  BY <1>2 DEF CreateStep, Precheck, CallProvider, ProviderFails, Recheck, AnswerExisting,
              InsertRequest, AuditCreate, CommitCreate, Resolve, ReadBack
<1>3. CASE DecideStep(t)
  BY <1>3 DEF DecideStep, BeginImmediate, CheckOpen, InsertDecision, UpdateStatus,
              AuditDecide, CommitDecide
<1>4. CASE BusyTimeout(t) \/ StatementFails(t) \/ Finish(t)
  BY <1>4 DEF BusyTimeout, StatementFails, Finish
<1> QED
  BY <1>1, <1>2, <1>3, <1>4 DEF ThreadStep, Step

(***************************************************************************)
(* An answer is true when it is given and stays true until the client has  *)
(* it.                                                                     *)
(***************************************************************************)
LEMMA ToldStep ==
  ASSUME IInv, RInv, AInv, Told, [Next]_vars
  PROVE  Told'
<1>1. ASSUME NEW t \in Threads, ThreadStep(t) PROVE CreateTold(t)' /\ DecideTold(t)'
  <2>1. CASE Start(t) \/ Finish(t)
    <3>1. pc'[t] # "done"
      BY <2>1 DEF Start, StartCreate, StartDecide, Finish, Goto, IInv, TypeOK
    <3> QED
      BY <3>1 DEF CreateTold, DecideTold
  <2>2. CASE BusyTimeout(t) \/ StatementFails(t)
    <3>1. answer'[t].code = 500
      BY <2>2 DEF BusyTimeout, StatementFails, Reply, IInv, TypeOK
    <3> QED
      BY <3>1 DEF CreateTold, DecideTold
  <2> QED
    BY <1>1, <2>1, <2>2, CreateStepTold, DecideStepTold DEF ThreadStep, Step
<1>2. ASSUME NEW t \in Threads, ThreadStep(t) PROVE Told'
  <2>1. ASSUME NEW u \in Threads, u # t PROVE CreateTold(u)' /\ DecideTold(u)'
    BY <1>2, <2>1, OthersKeep, OthersAnswers, ToldKept DEF IInv, Told
  <2> QED
    BY <1>1, <1>2, <2>1 DEF Told
<1>3. CASE Crash
  BY <1>3 DEF Crash, Told, CreateTold, DecideTold
<1>4. CASE Tick \/ UNCHANGED vars
  <2>1. \A t \in Threads : Keeps(t) /\ answer'[t] = answer[t]
    BY <1>4 DEF Tick, vars, apiVars, Keeps
  <2> QED
    BY <2>1, ToldKept DEF Told
<1> QED
  BY <1>2, <1>3, <1>4 DEF Next, ThreadStep

(***************************************************************************)
(* Both kinds of answer are true, in every behaviour.                      *)
(***************************************************************************)
LEMMA Answers == Spec => [](CreateAnswers /\ DecideAnswers)
<1>1. Init => Told
  BY DEF Init, Told, CreateTold, DecideTold
<1>2. IInv /\ RInv /\ AInv /\ Told /\ [Next]_vars => Told'
  BY ToldStep
<1>3. Told => CreateAnswers /\ DecideAnswers
  BY DEF Told, CreateTold, DecideTold, DecisionOf, CreateAnswers, DecideAnswers
<1> QED
  BY <1>1, <1>2, <1>3, LogsInductive, PTL DEF Spec

(***************************************************************************)
(* What POST /requests answered is true of the committed tables and stays  *)
(* true, whatever other callers, failures and restarts do between the      *)
(* answer and the next look: a 201 names a request with the caller's key   *)
(* and payload, and a 409 a taken key with another payload.                *)
(***************************************************************************)
THEOREM CreatesTold == Spec => []CreateAnswers
BY Answers, PTL

(***************************************************************************)
(* What POST /requests/{id}/decision answered is true of the committed     *)
(* tables and stays true: a 200 has its decision and its event, a 409 a    *)
(* final request, a 404 no request.                                        *)
(***************************************************************************)
THEOREM DecisionsTold == Spec => []DecideAnswers
BY Answers, PTL

-----------------------------------------------------------------------------

(***************************************************************************)
(* One more audit row leaves the decision events before it their ranks,    *)
(* and is the next of them if it is one.                                   *)
(***************************************************************************)
LEMMA RankGrows ==
  ASSUME NEW before \in Tables, NEW after, NEW row \in AuditRow,
         after.audit = Append(before.audit, row)
  PROVE  LET last   == Len(before.audit) + 1
             events == DecisionEvents(before)
         IN
         /\ events \subseteq DOMAIN before.audit
         /\ \A n \in events : /\ Rank(after, n) = Rank(before, n)
                              /\ Rank(before, n) \in 1..Cardinality(events)
         /\ row.event_type = "human_decision_recorded" =>
              /\ DecisionEvents(after) = events \cup {last}
              /\ Cardinality(DecisionEvents(after)) = Cardinality(events) + 1
              /\ Rank(after, last) = Cardinality(events) + 1
         /\ row.event_type # "human_decision_recorded" => DecisionEvents(after) = events
<1> DEFINE last   == Len(before.audit) + 1
           events == DecisionEvents(before)
<1>1. /\ DOMAIN before.audit = 1..Len(before.audit)
      /\ DOMAIN after.audit = 1..last
      /\ \A n \in 1..Len(before.audit) : after.audit[n] = before.audit[n]
      /\ after.audit[last] = row /\ Len(before.audit) \in Nat
  <2>1. before.audit \in Seq(AuditRow)
    BY DEF Tables
  <2> QED
    BY <2>1, AppendFacts
<1>2. events \subseteq 1..Len(before.audit) /\ IsFiniteSet(events)
  <2>1. events \subseteq 1..Len(before.audit)
    BY <1>1 DEF DecisionEvents
  <2>2. IsFiniteSet(1..Len(before.audit))
    BY <1>1, FS_Interval
  <2> QED
    BY <2>1, <2>2, FS_Subset
<1>3. /\ \A n \in 1..Len(before.audit) : n \in DecisionEvents(after) <=> n \in events
      /\ DecisionEvents(after) \subseteq 1..last
      /\ last \in DecisionEvents(after) <=> row.event_type = "human_decision_recorded"
  BY <1>1 DEF DecisionEvents
<1>4. ASSUME NEW n \in events
      PROVE  /\ Rank(after, n) = Rank(before, n)
             /\ Rank(before, n) \in 1..Cardinality(events)
  <2> DEFINE upto == {m \in events : m <= n}
  <2>1. upto = {m \in DecisionEvents(after) : m <= n}
    BY <1>1, <1>2, <1>3, <1>4
  <2>2. /\ IsFiniteSet(upto) /\ Cardinality(upto) <= Cardinality(events)
    BY <1>2, FS_Subset
  <2>3. upto # {}
    BY <1>1, <1>2, <1>4
  <2>4. Cardinality(upto) \in Nat /\ Cardinality(upto) # 0 /\ Cardinality(events) \in Nat
    BY <1>2, <2>2, <2>3, FS_EmptySet, FS_CardinalityType
  <2>5. Rank(before, n) = Cardinality(upto) /\ Rank(after, n) = Cardinality(upto)
    BY <2>1 DEF Rank
  <2> HIDE DEF upto
  <2> QED
    BY <2>2, <2>4, <2>5
<1>5. ASSUME row.event_type = "human_decision_recorded"
      PROVE  /\ DecisionEvents(after) = events \cup {last}
             /\ Cardinality(DecisionEvents(after)) = Cardinality(events) + 1
             /\ Rank(after, last) = Cardinality(events) + 1
  <2>1. DecisionEvents(after) = events \cup {last}
    BY <1>1, <1>2, <1>3, <1>5
  <2>2. last \notin events
    BY <1>1, <1>2
  <2>3. Cardinality(DecisionEvents(after)) = Cardinality(events) + 1
    BY <1>2, <2>1, <2>2, FS_AddElement
  <2>4. {m \in DecisionEvents(after) : m <= last} = DecisionEvents(after)
    BY <1>1, <1>2, <2>1
  <2> QED
    BY <2>1, <2>3, <2>4 DEF Rank
<1>6. ASSUME row.event_type # "human_decision_recorded"
      PROVE  DecisionEvents(after) = events
  <2>1. \A n \in DecisionEvents(after) : n \in 1..Len(before.audit)
    BY <1>1, <1>3, <1>6
  <2>2. \A n : n \in DecisionEvents(after) <=> n \in events
    BY <1>2, <1>3, <2>1
  <2> QED
    BY <2>2
<1>7. events \subseteq DOMAIN before.audit
  BY DEF DecisionEvents
<1> QED
  BY <1>4, <1>5, <1>6, <1>7

(***************************************************************************)
(* Another kind of audit row leaves the decision events as they are.       *)
(***************************************************************************)
LEMMA RanksStay ==
  ASSUME NEW before \in Tables, NEW after, NEW row \in AuditRow,
         after.audit = Append(before.audit, row),
         row.event_type # "human_decision_recorded"
  PROVE  /\ DecisionEvents(after) = DecisionEvents(before)
         /\ DecisionEvents(before) \subseteq DOMAIN before.audit
         /\ \A n \in DecisionEvents(before) : Rank(after, n) = Rank(before, n)
BY RankGrows

(***************************************************************************)
(* A commit keeps the decisions table and the audit log in step.           *)
(***************************************************************************)
LEMMA MirroredStep ==
  ASSUME IInv, RInv, AInv, DecisionsMirrored, [Next]_vars
  PROVE  DecisionsMirrored'
<1>1. db \in Tables /\ db.audit \in Seq(AuditRow) /\ db.decisions \in Seq(DecisionRow)
  BY DEF IInv, TypeOK, Tables
<1>2. DecisionsMirrored' <=> MirroredIn(db')
  BY DEF DecisionsMirrored, MirroredIn, DecisionEvents, Rank, LastRow
<1>3. MirroredIn(db)
  BY DEF DecisionsMirrored
<1>4. CASE db' = db
  BY <1>2, <1>3, <1>4
<1>5. ASSUME NEW t \in Threads, CommitCreate(t) PROVE MirroredIn(db')
  <2>1. CreateCommitted(t)
    BY <1>5, CommitCreateAdds DEF AInv
  <2>2. PICK time \in 0..clock : /\ StampedEvent(t, time) \in AuditRow
                                 /\ db'.audit = Append(db.audit, StampedEvent(t, time))
    BY <2>1 DEF CreateCommitted
  <2>3. StampedEvent(t, time).event_type # "human_decision_recorded"
    BY <1>5 DEF CommitCreate, StampedEvent, CreateSteps
  <2>4. /\ DecisionEvents(db') = DecisionEvents(db)
        /\ DecisionEvents(db) \subseteq DOMAIN db.audit
        /\ \A n \in DecisionEvents(db) : Rank(db', n) = Rank(db, n)
    BY <1>1, <2>2, <2>3, RanksStay
  <2>5. \A n \in DOMAIN db.audit : db'.audit[n] = db.audit[n]
    BY <1>1, <2>2, AppendFacts
  <2>6. db'.decisions = db.decisions
    BY <2>1 DEF CreateCommitted
  <2>7. ASSUME NEW k \in DOMAIN db.decisions
        PROVE  db'.requests[db.decisions[k].request_id] = db.requests[db.decisions[k].request_id]
    BY <2>1, <2>7 DEF CreateCommitted, AInv, LogsRefer, Exists
  <2>8. Cardinality(DecisionEvents(db')) = Len(db'.decisions)
    BY <1>3, <2>4, <2>6 DEF MirroredIn
  <2>9. ASSUME NEW n \in DecisionEvents(db')
        PROVE  LET r == db'.decisions[Rank(db', n)] IN
               /\ db'.audit[n].request_id = r.request_id
               /\ db'.audit[n].payload = [decision |-> r.decision, reviewer |-> r.reviewer,
                                          new_status |-> NewStatus(r.decision)]
    <3>1. /\ n \in DecisionEvents(db) /\ db'.audit[n] = db.audit[n]
          /\ db'.decisions[Rank(db', n)] = db.decisions[Rank(db, n)]
      BY <2>4, <2>5, <2>6, <2>9
    <3> QED
      BY <1>3, <3>1 DEF MirroredIn
  <2>10. ASSUME NEW k \in DOMAIN db'.decisions, LastRow(db'.decisions, k)
         PROVE  db'.requests[db'.decisions[k].request_id].updated_at = db'.decisions[k].decided_at
    <3>1. k \in DOMAIN db.decisions /\ LastRow(db.decisions, k)
      BY <2>6, <2>10
    <3>2. db.requests[db.decisions[k].request_id].updated_at = db.decisions[k].decided_at
      BY <1>3, <3>1 DEF MirroredIn
    <3> QED
      BY <2>6, <2>7, <3>1, <3>2
  <2> QED
    BY <2>8, <2>9, <2>10 DEF MirroredIn
<1>6. ASSUME NEW t \in Threads, CommitDecide(t) PROVE MirroredIn(db')
  <2> DEFINE i == call[t].target
             N == Len(db.decisions)
             row == DecisionOf(t)
  <2>1. DecisionCommitted(t)
    BY <1>6, CommitDecideAdds DEF AInv
  <2>2. PICK time \in 0..clock : /\ StampedEvent(t, time) \in AuditRow
                                 /\ db'.audit = Append(db.audit, StampedEvent(t, time))
    BY <2>1 DEF DecisionCommitted
  <2> DEFINE event == StampedEvent(t, time)
             last  == Len(db.audit) + 1
  <2>3. /\ event.request_id = i /\ event.event_type = "human_decision_recorded"
        /\ event.payload = [decision |-> row.decision, reviewer |-> row.reviewer,
                            new_status |-> NewStatus(row.decision)]
        /\ row.request_id = i /\ row.decided_at = now[t]
    BY <1>6 DEF CommitDecide, StampedEvent, CreateSteps, DecisionOf
  <2> HIDE DEF row, event, i
  <2>4. /\ DecisionEvents(db') = DecisionEvents(db) \cup {last}
        /\ Cardinality(DecisionEvents(db')) = Cardinality(DecisionEvents(db)) + 1
        /\ Rank(db', last) = Cardinality(DecisionEvents(db)) + 1
        /\ DecisionEvents(db) \subseteq DOMAIN db.audit
        /\ \A n \in DecisionEvents(db) : /\ Rank(db', n) = Rank(db, n)
                                         /\ Rank(db, n) \in 1..Cardinality(DecisionEvents(db))
    BY <1>1, <2>2, <2>3, RankGrows DEF event
  <2>5. /\ \A n \in DOMAIN db.audit : db'.audit[n] = db.audit[n]
        /\ db'.audit[last] = event
    BY <1>1, <2>2, AppendFacts DEF event
  <2>6. /\ db'.decisions = Append(db.decisions, row) /\ row \in DecisionRow
        /\ Exists(db, i) /\ Exists(db', i)
        /\ \A j \in Ids : j # i => db'.requests[j] = db.requests[j]
        /\ db'.requests[i].updated_at = now[t]
    BY <2>1 DEF DecisionCommitted, row, i
  <2>7. /\ DOMAIN db.decisions = 1..N /\ DOMAIN db'.decisions = 1..(N + 1)
        /\ Len(db'.decisions) = N + 1 /\ N \in Nat
        /\ \A k \in 1..N : db'.decisions[k] = db.decisions[k]
        /\ db'.decisions[N + 1] = row
    BY <1>1, <2>6, AppendFacts
  <2>8. Cardinality(DecisionEvents(db)) = N
    BY <1>3 DEF MirroredIn
  <2>9. ASSUME NEW n \in DecisionEvents(db')
        PROVE  LET r == db'.decisions[Rank(db', n)] IN
               /\ db'.audit[n].request_id = r.request_id
               /\ db'.audit[n].payload = [decision |-> r.decision, reviewer |-> r.reviewer,
                                          new_status |-> NewStatus(r.decision)]
    <3>1. CASE n = last
      BY <2>3, <2>4, <2>5, <2>7, <2>8, <3>1
    <3>2. CASE n \in DecisionEvents(db)
      <4>1. /\ db'.audit[n] = db.audit[n]
            /\ db'.decisions[Rank(db', n)] = db.decisions[Rank(db, n)]
        BY <2>4, <2>5, <2>7, <2>8, <3>2
      <4> QED
        BY <1>3, <3>2, <4>1 DEF MirroredIn
    <3> QED
      BY <2>4, <2>9, <3>1, <3>2
  <2>10. ASSUME NEW k \in DOMAIN db'.decisions, LastRow(db'.decisions, k)
         PROVE  db'.requests[db'.decisions[k].request_id].updated_at = db'.decisions[k].decided_at
    <3>1. CASE k = N + 1
      BY <2>3, <2>6, <2>7, <3>1
    <3>2. CASE k \in 1..N
      <4>1. db.decisions[k].request_id # i
        <5>1. N + 1 \in DOMAIN db'.decisions /\ N + 1 > k
          BY <2>7, <3>2
        <5>2. db'.decisions[N + 1].request_id # db'.decisions[k].request_id
          BY <2>10, <5>1 DEF LastRow
        <5> QED
          BY <2>3, <2>7, <3>2, <5>2
      <4>2. LastRow(db.decisions, k)
        <5>1. ASSUME NEW m \in 1..N, m > k
              PROVE  db.decisions[m].request_id # db.decisions[k].request_id
          <6>1. m \in DOMAIN db'.decisions
            BY <2>7, <5>1
          <6>2. db'.decisions[m].request_id # db'.decisions[k].request_id
            BY <2>10, <5>1, <6>1 DEF LastRow
          <6> QED
            BY <2>7, <3>2, <5>1, <6>2
        <5> QED
          BY <2>7, <5>1 DEF LastRow
      <4>3. db.decisions[k].request_id \in Ids
        BY <2>7, <3>2 DEF AInv, LogsRefer, Exists
      <4> QED
        BY <1>3, <2>6, <2>7, <3>2, <4>1, <4>2, <4>3 DEF MirroredIn
    <3> QED
      BY <2>7, <2>10, <3>1, <3>2
  <2> QED
    BY <2>4, <2>7, <2>8, <2>9, <2>10 DEF MirroredIn
<1> QED
  BY <1>2, <1>4, <1>5, <1>6, OnlyCommits

(***************************************************************************)
(* A commit writes its event at a time that nothing before it exceeds, the *)
(* decision or the row it reports included.                                *)
(***************************************************************************)
LEMMA OrderedStep ==
  ASSUME IInv, RInv, AInv, DecisionsMirrored, AuditInOrder, [Next]_vars
  PROVE  AuditInOrder'
<1>1. db \in Tables /\ db.audit \in Seq(AuditRow) /\ db.decisions \in Seq(DecisionRow)
  BY DEF IInv, TypeOK, Tables
<1>2. AuditInOrder' <=> OrderedIn(db')
  BY DEF AuditInOrder, OrderedIn, DecisionEvents, Rank
<1>3. OrderedIn(db)
  BY DEF AuditInOrder
<1>4. CASE db' = db
  BY <1>2, <1>3, <1>4
<1>5. ASSUME NEW t \in Threads, NEW time \in 0..clock, TimesBy(time),
             StampedEvent(t, time) \in AuditRow,
             db'.audit = Append(db.audit, StampedEvent(t, time))
      PROVE  /\ \A m, n \in DOMAIN db'.audit :
                  m < n => db'.audit[m].created_at <= db'.audit[n].created_at
             /\ DOMAIN db'.audit = DOMAIN db.audit \cup {Len(db.audit) + 1}
             /\ \A n \in DOMAIN db.audit : db'.audit[n] = db.audit[n]
             /\ db'.audit[Len(db.audit) + 1] = StampedEvent(t, time)
             /\ db'.audit[Len(db.audit) + 1].created_at = time
  <2>1. StampedEvent(t, time).created_at = time
    BY DEF StampedEvent
  <2>2. /\ DOMAIN db.audit = 1..Len(db.audit) /\ DOMAIN db'.audit = 1..(Len(db.audit) + 1)
        /\ \A n \in 1..Len(db.audit) : db'.audit[n] = db.audit[n]
        /\ db'.audit[Len(db.audit) + 1] = StampedEvent(t, time) /\ Len(db.audit) \in Nat
    BY <1>1, <1>5, AppendFacts
  <2>3. ASSUME NEW m \in DOMAIN db'.audit, NEW n \in DOMAIN db'.audit, m < n
        PROVE  db'.audit[m].created_at <= db'.audit[n].created_at
    <3>1. CASE n \in 1..Len(db.audit)
      <4>1. m \in DOMAIN db.audit /\ n \in DOMAIN db.audit
        BY <2>2, <2>3, <3>1
      <4>2. db.audit[m].created_at <= db.audit[n].created_at
        BY <1>3, <2>3, <4>1 DEF OrderedIn
      <4> QED
        BY <2>2, <4>1, <4>2
    <3>2. CASE n = Len(db.audit) + 1
      <4>1. m \in DOMAIN db.audit /\ db'.audit[m] = db.audit[m]
        BY <2>2, <2>3, <3>2
      <4>2. db.audit[m].created_at <= time
        BY <1>5, <4>1 DEF TimesBy
      <4> QED
        BY <2>1, <2>2, <3>2, <4>1, <4>2
    <3> QED
      BY <2>2, <3>1, <3>2
  <2> QED
    BY <2>1, <2>2, <2>3
<1>6. ASSUME NEW t \in Threads, CommitCreate(t) PROVE OrderedIn(db')
  <2>1. CreateCommitted(t)
    BY <1>6, CommitCreateAdds DEF AInv
  <2>2. PICK time \in 0..clock :
          /\ TimesBy(time) /\ now[t] <= time /\ StampedEvent(t, time) \in AuditRow
          /\ db'.audit = Append(db.audit, StampedEvent(t, time))
    BY <2>1 DEF CreateCommitted
  <2>3. /\ StampedEvent(t, time).event_type # "human_decision_recorded"
        /\ StampedEvent(t, time).request_id = id[t]
    BY <1>6 DEF CommitCreate, StampedEvent, CreateSteps
  <2>4. /\ DecisionEvents(db') = DecisionEvents(db)
        /\ DecisionEvents(db) \subseteq DOMAIN db.audit
        /\ \A n \in DecisionEvents(db) : Rank(db', n) = Rank(db, n)
    BY <1>1, <2>2, <2>3, RanksStay
  <2>5. db'.decisions = db.decisions
    BY <2>1 DEF CreateCommitted
  <2>6. db'.requests[id[t]].created_at = now[t]
    BY <2>1 DEF CreateCommitted, NewRow
  <2>7. ASSUME NEW n \in DOMAIN db'.audit
        PROVE  db'.requests[db'.audit[n].request_id].created_at <= db'.audit[n].created_at
    <3>1. CASE n \in DOMAIN db.audit
      <4>1. db'.audit[n] = db.audit[n] /\ Exists(db, db.audit[n].request_id)
        BY <1>5, <2>2, <3>1 DEF AInv, LogsRefer
      <4>2. db'.requests[db.audit[n].request_id] = db.requests[db.audit[n].request_id]
        BY <2>1, <4>1 DEF CreateCommitted, Exists
      <4> QED
        BY <1>3, <3>1, <4>1, <4>2 DEF OrderedIn
    <3>2. CASE n = Len(db.audit) + 1
      BY <1>5, <2>2, <2>3, <2>6, <3>2
    <3> QED
      BY <1>5, <2>2, <3>1, <3>2
  <2> QED
    BY <1>3, <1>5, <2>2, <2>4, <2>5, <2>7 DEF OrderedIn
<1>7. ASSUME NEW t \in Threads, CommitDecide(t) PROVE OrderedIn(db')
  <2> DEFINE N == Len(db.decisions)
             last == Len(db.audit) + 1
  <2>1. DecisionCommitted(t)
    BY <1>7, CommitDecideAdds DEF AInv
  <2>2. PICK time \in 0..clock :
          /\ TimesBy(time) /\ now[t] <= time /\ StampedEvent(t, time) \in AuditRow
          /\ db'.audit = Append(db.audit, StampedEvent(t, time))
    BY <2>1 DEF DecisionCommitted
  <2>3. /\ StampedEvent(t, time).event_type = "human_decision_recorded"
        /\ StampedEvent(t, time).request_id = call[t].target
        /\ DecisionOf(t).decided_at = now[t]
    BY <1>7 DEF CommitDecide, StampedEvent, CreateSteps, DecisionOf
  <2>4. /\ DecisionEvents(db') = DecisionEvents(db) \cup {last}
        /\ Rank(db', last) = Cardinality(DecisionEvents(db)) + 1
        /\ DecisionEvents(db) \subseteq DOMAIN db.audit
        /\ \A n \in DecisionEvents(db) : /\ Rank(db', n) = Rank(db, n)
                                         /\ Rank(db, n) \in 1..Cardinality(DecisionEvents(db))
    BY <1>1, <2>2, <2>3, RankGrows
  <2>5. Cardinality(DecisionEvents(db)) = N
    BY DEF DecisionsMirrored, MirroredIn
  <2>6. /\ \A k \in 1..N : db'.decisions[k] = db.decisions[k]
        /\ db'.decisions[N + 1] = DecisionOf(t)
    BY <1>1, <2>1, AppendFacts DEF DecisionCommitted
  <2>7. ASSUME NEW n \in DecisionEvents(db')
        PROVE  db'.decisions[Rank(db', n)].decided_at <= db'.audit[n].created_at
    <3>1. CASE n = last
      BY <1>5, <2>2, <2>3, <2>4, <2>5, <2>6, <3>1
    <3>2. CASE n \in DecisionEvents(db)
      <4>1. /\ db'.audit[n] = db.audit[n]
            /\ db'.decisions[Rank(db', n)] = db.decisions[Rank(db, n)]
        BY <1>5, <2>2, <2>4, <2>5, <2>6, <3>2
      <4> QED
        BY <1>3, <3>2, <4>1 DEF OrderedIn
    <3> QED
      BY <2>4, <2>7, <3>1, <3>2
  <2>8. \A i \in Ids : Exists(db, i) => db'.requests[i].created_at = db.requests[i].created_at
    BY <2>1 DEF DecisionCommitted
  <2>9. ASSUME NEW n \in DOMAIN db'.audit
        PROVE  db'.requests[db'.audit[n].request_id].created_at <= db'.audit[n].created_at
    <3>1. CASE n \in DOMAIN db.audit
      <4>1. db'.audit[n] = db.audit[n] /\ Exists(db, db.audit[n].request_id)
        BY <1>5, <2>2, <3>1 DEF AInv, LogsRefer
      <4> QED
        BY <1>3, <2>8, <3>1, <4>1 DEF OrderedIn, Exists
    <3>2. CASE n = last
      <4>1. Exists(db, call[t].target) /\ call[t].target \in Ids
        BY <2>1 DEF DecisionCommitted, Exists
      <4> QED
        BY <1>5, <2>2, <2>3, <2>8, <3>2, <4>1 DEF TimesBy
    <3> QED
      BY <1>5, <2>2, <3>1, <3>2
  <2> QED
    BY <1>5, <2>2, <2>7, <2>9 DEF OrderedIn
<1> QED
  BY <1>2, <1>4, <1>6, <1>7, OnlyCommits

(***************************************************************************)
(* Decisions, statuses and audit events agree, in every behaviour.         *)
(***************************************************************************)
LEMMA LogsAgree == Spec => [](DecisionsMirrored /\ AuditInOrder)
<1>1. Init => DecisionsMirrored /\ AuditInOrder
  <2> SUFFICES ASSUME Init PROVE DecisionsMirrored /\ AuditInOrder
    OBVIOUS
  <2>1. DOMAIN db.audit = {} /\ DOMAIN db.decisions = {} /\ Len(db.decisions) = 0
    BY DEF Init, StoreInit
  <2>2. DecisionEvents(db) = {}
    BY <2>1 DEF DecisionEvents
  <2> QED
    BY <2>1, <2>2, FS_EmptySet DEF DecisionsMirrored, MirroredIn, AuditInOrder, OrderedIn
<1>2. IInv /\ RInv /\ AInv /\ DecisionsMirrored /\ AuditInOrder /\ [Next]_vars =>
        DecisionsMirrored' /\ AuditInOrder'
  BY MirroredStep, OrderedStep
<1> QED
  BY <1>1, <1>2, LogsInductive, PTL DEF Spec

(***************************************************************************)
(* The decisions table and the audit log agree row by row, although a      *)
(* decision writes them in different statements, and the status update     *)
(* between them gives a request the time of its last decision.             *)
(***************************************************************************)
THEOREM Mirrored == Spec => []DecisionsMirrored
BY LogsAgree, PTL

(***************************************************************************)
(* The audit log is in the order of its times, and no event is of an       *)
(* earlier time than what it reports, although a decision reads its time   *)
(* before it waits for the lock and the event's is read inside the         *)
(* transaction.                                                            *)
(***************************************************************************)
THEOREM Ordered == Spec => []AuditInOrder
BY LogsAgree, PTL

=============================================================================
