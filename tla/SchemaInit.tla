----------------------------- MODULE SchemaInit -----------------------------
(***************************************************************************)
(* The start of the store: get_store caches a RequestStore (main.py), and  *)
(* making one runs init_db (storage.py), which brings the database file,   *)
(* whatever version of the program left it, to the present schema.  The    *)
(* cache has no lock, so first requests in several threads run init_db at  *)
(* once, while a thread that already has a store uses it.                  *)
(*                                                                         *)
(* The sqlite3 module opens a transaction before the first UPDATE and not  *)
(* before DDL: CREATE and ALTER commit by themselves until the backfill    *)
(* has updated a row, and belong to its transaction from there on.         *)
(***************************************************************************)
EXTENDS Integers, FiniteSets

CONSTANTS
  Threads, Ids, Keys, Payloads,
  NoKey, NoPrint, NoRow, Nobody, NoCall, NoAnswer,
  MaxFaults     \* bound on failed statements and crashes

VARIABLES
  file,         \* the committed database
  work,         \* the database as the open transaction sees it
  writer,       \* the thread with an open transaction, or Nobody
  cached,       \* get_store's cache holds a store
  pc, call, answer,
  seen,         \* request_columns of init_db
  todo,         \* rows the backfill has fetched and not yet updated
  faults

locals == <<call, seen, todo>>
vars == <<file, work, writer, cached, pc, call, answer, seen, todo, faults>>

Columns == {"id", "idempotency_key", "request_fingerprint"}

Objects == {"idx_requests_idempotency_key", "decisions", "audit_events"}

Row ==
  [idempotency_key     : Keys \cup {NoKey},
   request_fingerprint : Payloads \cup {NoPrint},
   payload             : Payloads]

(***************************************************************************)
(* A database without columns has no table yet.                            *)
(***************************************************************************)
Database ==
  [columns : SUBSET Columns, objects : SUBSET Objects, rows : [Ids -> Row \cup {NoRow}]]

CreateCall == [key : Keys, payload : Payloads]

Probe == [key |-> NoKey]    \* GET /health, which needs the store too

Answer == [code : {200, 409, 500}] \cup [code : {201}, id : Ids]

InitSteps ==
  {"create_table", "table_info", "alter_key", "alter_print", "fetch", "update",
   "index", "decisions", "audit", "commit"}

ASSUME SchemaAssumption ==
  /\ NoKey \notin Keys /\ NoPrint \notin Payloads /\ NoRow \notin Row
  /\ Nobody \notin Threads
  /\ NoCall \notin CreateCall \cup {Probe} /\ NoAnswer \notin Answer
  /\ MaxFaults \in Nat

-----------------------------------------------------------------------------
Stored(base) == {i \in Ids : base.rows[i] # NoRow}

Holders(base, key) ==
  {i \in Stored(base) : key # NoKey /\ base.rows[i].idempotency_key = key}

Unprinted(base) ==
  {i \in Stored(base) : /\ base.rows[i].idempotency_key # NoKey
                        /\ base.rows[i].request_fingerprint = NoPrint}

(***************************************************************************)
(* What every version of the program leaves behind: values only in columns *)
(* that exist, fingerprints that are the payload's, and unique keys.       *)
(***************************************************************************)
SoundRow(base, row) ==
  /\ "id" \in base.columns
  /\ row.idempotency_key # NoKey => "idempotency_key" \in base.columns
  /\ row.request_fingerprint # NoPrint =>
       "request_fingerprint" \in base.columns /\ row.request_fingerprint = row.payload

Sound(base) ==
  /\ base.columns # {} => "id" \in base.columns
  /\ \A i \in Stored(base) : SoundRow(base, base.rows[i])
  /\ \A key \in Keys : \A i, j \in Holders(base, key) : i = j

(***************************************************************************)
(* The present schema, with the backfill done.                             *)
(***************************************************************************)
Migrated(base) ==
  base.columns = Columns /\ base.objects = Objects /\ Unprinted(base) = {}

-----------------------------------------------------------------------------
(***************************************************************************)
(* Columns came in this order, the index with its column, and fingerprints *)
(* only for keyed rows.                                                    *)
(***************************************************************************)
LegacyFile(base) ==
  /\ Sound(base)
  /\ base.columns \in {{}, {"id"}, {"id", "idempotency_key"}, Columns}
  /\ base.columns = {} => base.objects = {}
  /\ "idx_requests_idempotency_key" \in base.objects => "idempotency_key" \in base.columns
  /\ \A i \in Stored(base) :
       base.rows[i].idempotency_key = NoKey => base.rows[i].request_fingerprint = NoPrint

Init ==
  /\ file \in {base \in Database : LegacyFile(base)}
  /\ work = file
  /\ writer = Nobody
  /\ cached = FALSE
  /\ pc = [t \in Threads |-> "idle"]
  /\ call = [t \in Threads |-> NoCall]
  /\ answer = [t \in Threads |-> NoAnswer]
  /\ seen = [t \in Threads |-> {}]
  /\ todo = [t \in Threads |-> {}]
  /\ faults = 0

Goto(t, step) == pc' = [pc EXCEPT ![t] = step]

Reply(t, result) == answer' = [answer EXCEPT ![t] = result] /\ Goto(t, "done")

(***************************************************************************)
(* The variables of init_db end with it.                                   *)
(***************************************************************************)
Forget(ts) ==
  /\ seen' = [t \in Threads |-> IF t \in ts THEN {} ELSE seen[t]]
  /\ todo' = [t \in Threads |-> IF t \in ts THEN {} ELSE todo[t]]

(***************************************************************************)
(* connect() on an exception: roll back what is open, answer 500.          *)
(***************************************************************************)
Fail(t) ==
  /\ IF writer = t THEN work' = file /\ writer' = Nobody ELSE UNCHANGED <<work, writer>>
  /\ Reply(t, [code |-> 500])
  /\ Forget({t})
  /\ UNCHANGED <<file, cached, call>>

(***************************************************************************)
(* A statement of t that makes base of the database: part of the open      *)
(* transaction if t has one, and otherwise a transaction of its own, which *)
(* waits for the lock.                                                     *)
(***************************************************************************)
Write(t, base) ==
  /\ work' = base
  /\ \/ writer = t /\ UNCHANGED file
     \/ writer = Nobody /\ file' = base
  /\ UNCHANGED writer

-----------------------------------------------------------------------------
(***************************************************************************)
(* get_store: the cached store, or a new one.                              *)
(***************************************************************************)
Use(t) ==
  IF call'[t] = Probe THEN Reply(t, [code |-> 200]) ELSE Goto(t, "lookup") /\ UNCHANGED answer

(* Fault: the store is published before it is initialised. *)
GetStorePublished(t, request) ==
  /\ pc[t] = "idle"
  /\ call' = [call EXCEPT ![t] = request]
  /\ cached' = TRUE
  /\ IF cached THEN Use(t) ELSE Goto(t, "create_table") /\ UNCHANGED answer
  /\ UNCHANGED <<file, work, writer, seen, todo, faults>>

get_store(t, request) ==
  /\ pc[t] = "idle"
  /\ call' = [call EXCEPT ![t] = request]
  /\ IF cached THEN Use(t) ELSE Goto(t, "create_table") /\ UNCHANGED answer
  /\ UNCHANGED <<file, work, writer, cached, seen, todo, faults>>

CreateTable(t) ==
  /\ pc[t] = "create_table"
  /\ IF file.columns = {}
     THEN Write(t, [work EXCEPT !.columns = Columns])
     ELSE UNCHANGED <<file, work, writer>>
  /\ Goto(t, "table_info")
  /\ UNCHANGED <<cached, locals, answer, faults>>

ReadColumns(t) ==
  /\ pc[t] = "table_info"
  /\ seen' = [seen EXCEPT ![t] = file.columns]
  /\ Goto(t, "alter_key")
  /\ UNCHANGED <<file, work, writer, cached, call, todo, answer, faults>>

(* Fault: the column is added without looking whether it is there. *)
AddColumnAlways(t, step, column, next) ==
  /\ pc[t] = step
  /\ IF column \in work.columns
     THEN Fail(t)
     ELSE /\ Write(t, [work EXCEPT !.columns = @ \cup {column}])
          /\ Goto(t, next)
          /\ UNCHANGED <<cached, locals, answer>>
  /\ UNCHANGED faults

(* Fault: the table is made anew with the column, and its rows are gone. *)
AddColumnAnew(t, step, column, next) ==
  /\ pc[t] = step
  /\ \/ column \in seen[t] /\ UNCHANGED <<file, work, writer>>
     \/ column \notin seen[t] /\ Write(t, [work EXCEPT !.columns = @ \cup {column},
                                                       !.rows = [i \in Ids |-> NoRow]])
  /\ Goto(t, next)
  /\ UNCHANGED <<cached, locals, answer, faults>>

(***************************************************************************)
(* ALTER TABLE ADD COLUMN, when table_info did not list the column.  It    *)
(* fails if another thread has added it since.                             *)
(***************************************************************************)
AddColumn(t, step, column, next) ==
  /\ pc[t] = step
  /\ IF column \notin seen[t] /\ column \in file.columns
     THEN Fail(t)
     ELSE /\ IF column \in seen[t]
             THEN UNCHANGED <<file, work, writer>>
             ELSE Write(t, [work EXCEPT !.columns = @ \cup {column}])
          /\ Goto(t, next)
          /\ UNCHANGED <<cached, locals, answer>>
  /\ UNCHANGED faults

(* Fault: only the start that adds the column looks for rows to backfill. *)
FetchOnce(t) ==
  /\ pc[t] = "fetch"
  /\ todo' = [todo EXCEPT ![t] =
       IF "request_fingerprint" \in seen[t] THEN {} ELSE Unprinted(file)]
  /\ Goto(t, "update")
  /\ UNCHANGED <<file, work, writer, cached, call, seen, answer, faults>>

FetchUnprinted(t) ==
  /\ pc[t] = "fetch"
  /\ todo' = [todo EXCEPT ![t] = Unprinted(file)]
  /\ Goto(t, "update")
  /\ UNCHANGED <<file, work, writer, cached, call, seen, answer, faults>>

(***************************************************************************)
(* The fingerprint of a fetched row, whose payload never changes.  The     *)
(* first update opens the transaction.                                     *)
(***************************************************************************)
Backfill(t) ==
  /\ pc[t] = "update"
  /\ IF todo[t] = {}
     THEN Goto(t, "index") /\ UNCHANGED <<work, writer, todo>>
     ELSE /\ writer \in {t, Nobody}
          /\ writer' = t
          /\ \E i \in todo[t] :
               /\ work' = [work EXCEPT !.rows[i].request_fingerprint = work.rows[i].payload]
               /\ todo' = [todo EXCEPT ![t] = @ \ {i}]
          /\ UNCHANGED pc
  /\ UNCHANGED <<file, cached, call, seen, answer, faults>>

(***************************************************************************)
(* CREATE ... IF NOT EXISTS: one step for each object the properties name. *)
(***************************************************************************)
Make(t, step, object, next) ==
  /\ pc[t] = step
  /\ IF object \in file.objects \cup (IF writer = t THEN work.objects ELSE {})
     THEN UNCHANGED <<file, work, writer>>
     ELSE Write(t, [work EXCEPT !.objects = @ \cup {object}])
  /\ Goto(t, next)
  /\ UNCHANGED <<cached, locals, answer, faults>>

(***************************************************************************)
(* The end of init_db; get_store caches the store.                         *)
(***************************************************************************)
CommitInit(t) ==
  /\ pc[t] = "commit"
  /\ IF writer = t THEN file' = work /\ writer' = Nobody ELSE UNCHANGED <<file, writer>>
  /\ cached' = TRUE
  /\ call' = call /\ Use(t)
  /\ Forget({t})
  /\ UNCHANGED <<work, faults>>

-----------------------------------------------------------------------------
(***************************************************************************)
(* A keyed create with the store: the lookup, and the insert in its own    *)
(* transaction, which the unique index may refuse.  (ApprovalApi has every *)
(* step of it, over a store that is ready.)                                *)
(***************************************************************************)
AnswerExisting(t) ==
  \E i \in Holders(file, call[t].key) :
    Reply(t, IF file.rows[i].request_fingerprint \in {NoPrint, call[t].payload}
             THEN [code |-> 201, id |-> i] ELSE [code |-> 409])

Lookup(t) ==
  /\ pc[t] = "lookup"
  /\ \/ AnswerExisting(t)
     \/ /\ Holders(file, call[t].key) = {}
        /\ Goto(t, "insert") /\ UNCHANGED answer
  /\ UNCHANGED <<file, work, writer, cached, locals, faults>>

Insert(t) ==
  /\ pc[t] = "insert"
  /\ writer = Nobody
  /\ IF "idx_requests_idempotency_key" \in file.objects /\ Holders(file, call[t].key) # {}
     THEN AnswerExisting(t) /\ UNCHANGED <<file, work, writer>>
     ELSE \E i \in Ids \ Stored(file) :
            /\ Write(t, [work EXCEPT !.rows[i] =
                 [idempotency_key |-> call[t].key, request_fingerprint |-> call[t].payload,
                  payload |-> call[t].payload]])
            /\ Reply(t, [code |-> 201, id |-> i])
  /\ UNCHANGED <<cached, locals, faults>>

Finish(t) ==
  /\ pc[t] = "done"
  /\ Goto(t, "idle")
  /\ call' = [call EXCEPT ![t] = NoCall]
  /\ answer' = [answer EXCEPT ![t] = NoAnswer]
  /\ UNCHANGED <<file, work, writer, cached, seen, todo, faults>>

(***************************************************************************)
(* A statement of init_db fails (the busy timeout, a full disk), or the    *)
(* process dies and starts again.                                          *)
(***************************************************************************)
StatementFails(t) ==
  /\ pc[t] \in InitSteps
  /\ faults < MaxFaults /\ faults' = faults + 1
  /\ Fail(t)

Crash ==
  /\ faults < MaxFaults /\ faults' = faults + 1
  /\ work' = file /\ writer' = Nobody /\ cached' = FALSE
  /\ pc' = [t \in Threads |-> "idle"]
  /\ call' = [t \in Threads |-> NoCall]
  /\ answer' = [t \in Threads |-> NoAnswer]
  /\ Forget(Threads)
  /\ UNCHANGED file

(***************************************************************************)
(* A create is admitted while a row is left for it (Ids is a bound).       *)
(***************************************************************************)
Room(key) ==
  \/ Holders(file, key) # {}
  \/ Cardinality({t \in Threads : call[t] \in CreateCall}) < Cardinality(Ids \ Stored(file))

Arrive(t) ==
  \E request \in CreateCall \cup {Probe} :
    (request = Probe \/ Room(request.key)) /\ get_store(t, request)

InitDb(t) ==
  \/ CreateTable(t)
  \/ ReadColumns(t)
  \/ AddColumn(t, "alter_key", "idempotency_key", "alter_print")
  \/ AddColumn(t, "alter_print", "request_fingerprint", "fetch")
  \/ FetchUnprinted(t)
  \/ Backfill(t)
  \/ Make(t, "index", "idx_requests_idempotency_key", "decisions")
  \/ Make(t, "decisions", "decisions", "audit")
  \/ Make(t, "audit", "audit_events", "commit")
  \/ CommitInit(t)

Next ==
  \/ \E t \in Threads :
       Arrive(t) \/ InitDb(t) \/ Lookup(t) \/ Insert(t) \/ Finish(t) \/ StatementFails(t)
  \/ Crash

(***************************************************************************)
(* Docker probes GET /health every few seconds, so requests keep coming; a *)
(* thread that can run does.                                               *)
(***************************************************************************)
Fairness ==
  \A t \in Threads : WF_vars(Arrive(t)) /\ WF_vars(InitDb(t)) /\ WF_vars(Lookup(t))
                     /\ WF_vars(Insert(t)) /\ WF_vars(Finish(t))

Spec == Init /\ [][Next]_vars /\ Fairness

-----------------------------------------------------------------------------
(***************************************************************************)
(* Properties                                                              *)
(***************************************************************************)
TypeOK ==
  /\ file \in Database /\ work \in Database
  /\ writer \in Threads \cup {Nobody}
  /\ cached \in BOOLEAN
  /\ pc \in [Threads -> {"idle", "lookup", "insert", "done"} \cup InitSteps]
  /\ call \in [Threads -> CreateCall \cup {Probe, NoCall}]
  /\ answer \in [Threads -> Answer \cup {NoAnswer}]
  /\ seen \in [Threads -> SUBSET Columns]
  /\ todo \in [Threads -> SUBSET Ids]
  /\ faults \in Nat

(***************************************************************************)
(* Wherever crashes and failed statements stopped earlier starts, and      *)
(* however the threads of this one interleave: a store that is in use has  *)
(* the whole schema under it and no keyed row without its fingerprint.     *)
(***************************************************************************)
ReadyMeansMigrated == cached => Migrated(file)

(***************************************************************************)
(* No start, whole or broken off, leaves a file that is not sound: keys    *)
(* stay unique although creates run before some thread has made the index, *)
(* and a stored fingerprint is the one of its row's payload.               *)
(***************************************************************************)
FileSound == Sound(file)

(***************************************************************************)
(* A key stays bound to its payload across the migration: a create that is *)
(* answered with a stored request gave that request's payload, also for    *)
(* rows stored before fingerprints were.                                   *)
(***************************************************************************)
KeysBound ==
  \A t \in Threads : pc[t] = "done" /\ call[t] \in CreateCall /\ answer[t].code = 201 =>
    /\ answer[t].id \in Stored(file)
    /\ file.rows[answer[t].id].payload = call[t].payload
    /\ file.rows[answer[t].id].idempotency_key = call[t].key

(***************************************************************************)
(* Starting the store adds and never takes away: columns and objects stay, *)
(* rows keep their key, payload and fingerprint, and a row that had one or *)
(* was not there does not turn up without one.                             *)
(***************************************************************************)
Grows(old, new) ==
  /\ old.columns \subseteq new.columns /\ old.objects \subseteq new.objects
  /\ Unprinted(new) \subseteq Unprinted(old)
  /\ \A i \in Stored(old) :
       /\ i \in Stored(new)
       /\ new.rows[i].idempotency_key = old.rows[i].idempotency_key
       /\ new.rows[i].payload = old.rows[i].payload
       /\ old.rows[i].request_fingerprint # NoPrint => new.rows[i] = old.rows[i]

OnlyAdds == [][Grows(file, file')]_vars

(***************************************************************************)
(* The thread that loses the race to add a column answers 500 and leaves   *)
(* nothing behind that keeps the store from coming up: once faults stop,   *)
(* a store is cached for good.                                             *)
(***************************************************************************)
ComesUp == <>[]cached

=============================================================================
