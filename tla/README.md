# Specifications of the AI Ops Approval Workflow

TLA+ modules, TLC configurations and TLAPS proofs for this repository: an API
that takes operational requests, triages them with rules or with a language
model, stores them in SQLite, and records the decisions of human reviewers with
an audit trail. Paths below are relative to the repository's root.

## Inventory

| Component | Code | State | Operations | Talks to |
| --- | --- | --- | --- | --- |
| Request store, transactions | `src/ai_ops_approval/storage.py` | tables `requests`, `decisions`, `audit_events`; SQLite's write lock; one connection per call | `create_request`, `record_decision`, `get_request`, `get_request_by_idempotency_key` | called by the handlers from the worker threads |
| Request store, schema | `storage.py` `init_db`, `_backfill_request_fingerprints` | the schema, the column `request_fingerprint`, the unique index | create, add the column, back-fill, index | run by the first call of `get_store` |
| Request store, reads | `storage.py` `list_requests`, `audit_events`, `metrics` | none | three read endpoints | dashboard |
| Handlers | `main.py` | what each worker thread holds; two `lru_cache`s | `POST /requests`, `POST /requests/{id}/decision`, reads | store, triage provider |
| Deterministic triage | `domain.py` | none (pure) | `triage_request`, `infer_category` | mock and fallback provider |
| Triage providers | `llm.py`, `settings.py` | none beyond the call in progress | mock, OpenAI, fallback; coercion and forced review of a model's answer | OpenAI over HTTP, handlers |
| Authentication and schemas | `main.py`, `schemas.py`, `settings.py` | none | accept or refuse a call | in front of the handlers |
| Dashboard | `static/app.js` | cached requests, metrics, events, selection, dialog | `refreshAll`, select, decide | the API, over fetch |
| n8n workflow | `workflows/ai_ops_approval_n8n.json`, `docker/n8n-entrypoint.sh` | execution ids in n8n's volume | check the webhook key, derive the idempotency key, create the request | `POST /requests` |

What is hard in this system:

* **Concurrency.** FastAPI runs the handlers, plain functions, in a pool of
  threads. Each store call opens its own connection, so only SQLite's lock and
  the unique index order them. A create looks its key up in the handler, spends
  up to minutes in the provider, looks the key up again, and then inserts. A
  decision reads its time, waits for the lock, checks, and writes three tables.
* **Failure.** A statement or a commit may raise, the busy timeout (10 s) may
  expire, the process may die at any point; a model's reply may be unusable in
  some twenty ways, all of which should become one exception, and four do not.
* **Rules with several inputs.** Whether a person sees a request follows from
  the category, the priority, the amount, the tier, the words and a confidence,
  each with thresholds, in an order that matters; a model may answer anything.

What makes each part correct:

* store and handlers: one request per idempotency key; an answer is true of what
  is committed; a final request never changes; decisions, statuses and audit
  events change together or not at all; the lock always comes back and every
  call is answered;
* triage: which requests skip the reviewer has a closed form, although the code
  reaches it over scores, flags and a confidence (it is not all that the documents
  intend, see Findings); of two equally matched categories the one listed first wins;
* providers: a model can demand a review, and can waive one only if the rules would
  review for the category they infer (the documents allow it less, see Findings); an
  unusable reply becomes a fallback result or a `TriageProviderError`, apart from what
  the decoders raise; what is returned can be served;
* schema: whoever initialises it, in whatever order and with whatever crash, the
  result is one schema with every keyed row fingerprinted;
* metrics: what the two halves of an answer can disagree in, and in which direction;
* dashboard: a decision goes to the request it was chosen for; what the page says
  of it is true, and the page shows it or says why not; the tables belong together;
* n8n: a submission with a key is one request; an answer is a request with the
  client's own payload.

`PROJECT.json` lists the hazards at their lines, each with its properties.

## Modules

| Module | Models | Kind |
| --- | --- | --- |
| `ApprovalDomain` | statuses, decisions, the status a decision or a triage leads to (`domain.py`, `storage.py`) | definitions |
| `ApprovalLedger` | what the store promises: requests enter once, are decided until final, each time with one event | abstract specification |
| `RequestStore` | the tables as rows, the statements of the two write transactions, begin, commit, roll back | definitions and the store's state |
| `ApprovalApi` | both write handlers as interleaved steps of threads over the store, with failures and crashes; implements `ApprovalLedger` | specification |
| `DeterministicTriage` | `triage_request` | pure operators |
| `TriageProvider` | one `provider.triage` call in each mode | specification |
| `SchemaInit` | `get_store` and `init_db` in several threads, over every file an older version can have left | specification |
| `LedgerReads` | `metrics()`, two SELECTs over a ledger that goes on | specification, over `ApprovalLedger` |
| `Dashboard` | the page: refreshes, selection, dialogs, the decision in flight | specification, over `ApprovalLedger` |
| `N8nWorkflow` | the request webhook: keys, the backend call, lost answers, the loss of n8n's volume | specification, over `ApprovalLedger` |
| `MCLedgerReads`, `MCApprovalApi` | the bound on the ledger's history; symmetry | for TLC |
| `ApprovalLedger_proofs` | theorems on `ApprovalLedger` | TLAPS |
| `ApprovalApi_proofs` | types, the lock and keys in `ApprovalApi`; that it implements `ApprovalLedger`, and what follows | TLAPS |
| `ApprovalAnswers_proofs` | what `ApprovalApi` answers is true, and its logs agree | TLAPS |
| `TriageProvider_proofs` | the rules and the providers, for any text, amount and tier | TLAPS |
| `SchemaInit_proofs`, `LedgerReads_proofs`, `Dashboard_proofs`, `N8nWorkflow_proofs` | the safety properties of these four | TLAPS |

`ApprovalApi` extends `RequestStore`, which extends `ApprovalDomain`; it
instantiates `ApprovalLedger` with `entries` and `history` read off the committed
tables. `TriageProvider` extends `DeterministicTriage`; towards `ApprovalApi` it
is the action `CallProvider` / `ProviderFails`, which allow any result and any
failure, so what holds of the API holds for every provider.

The three clients of the API, `LedgerReads`, `Dashboard` and `N8nWorkflow`, do not
extend the API but the ledger it implements: each of their calls is one step of
the ledger, or a look at it, because the refinement says that this is all a client
can see of the API. What the ledger leaves out is added where it matters, as calls
that fail and answers that are late or lost. `SchemaInit` comes before all of them:
its property `ReadyMeansMigrated` is why `RequestStore` may start from tables that
have every column and the unique index.

### How `ApprovalApi` corresponds to the code

* `db` is the committed state and `work` the state inside the open write
  transaction. The database is in WAL mode, so a `SELECT` outside a write
  transaction reads `db` whatever a writer has staged, and `writer` is the one
  thread that has SQLite's write lock. `connect()` commits, rolls back or closes
  on every path: `Commit` and `Rollback`.
* `pc[t]` is the place of thread `t` in its handler. For a create:
  `precheck` (the handler's lookup) → `triage` → `recheck` (the store's lookup;
  the uuid and the time are drawn right after it) → `insert` (implicit `BEGIN`,
  waits for the lock, checks the unique index) → `create_audit` →
  `create_commit` → `readback`, or `resolve` after an `IntegrityError`. For a
  decision: `begin` (`BEGIN IMMEDIATE`; the time was read when the call started)
  → `check` → `decision` → `status` → `decide_audit` → `decide_commit`.
  A step is one statement and what the thread then does on its own.
* `call`, `triage`, `id`, `now` are the handler's local variables and `answer` is
  the HTTP answer; `Finish` frees the thread.
* `StatementFails` is any exception from SQLite at any statement or commit;
  `BusyTimeout` is the one that ends a wait for the lock; `Crash` ends the
  process and starts it with the committed state.

Abstractions: a payload, a key, a reviewer is a model value; of a triage result
only the category and the review flag are kept, which is all that the store's
control depends on. The fingerprint is a function of the payload that tells any
two apart (SHA-256 of canonical JSON). uuid4 never repeats (`FreshIds`). The
clock does not run backwards. Notes of a decision are left out: they are stored
and never read by a decision. Calls refused with 401 or 422 touch nothing.

### How the triage modules correspond to the code

A text is the set of the keyword terms that occur in it, closed under the terms
that contain one another (`fraude` contains `fraud`). Confidences are hundredths.
A model reply is either an object that passes the checks of `coerce_triage_result`
(`ModelTriage`: any category and priority, a confidence in or out of range, any of the
flags that the rules read, up to ten flags), or it is faulty, with one or two of the
`Defects`. `Checks` lists these in the order in which `triage`,
`parse_openai_triage_response`, `extract_response_text` and `coerce_triage_result` come
to them, and `Noticed` is what the code meets first. `Exception` says what becomes of
it: a `TriageProviderError`, except for four. `response.json()` and `json.loads` raise
`RecursionError` for JSON nested too deep; `json.loads` of the text raises a plain
`ValueError` for an integer of more than 4300 digits, where the code expects
`JSONDecodeError` only (for the body it expects any `ValueError`); and `float()` raises
`OverflowError` for an integer above its range.

### How `SchemaInit` corresponds to the code

`file` is the committed database, reduced to the columns and objects the
properties name and, of a row, its key, payload and fingerprint; `work` is what
the thread with an open transaction sees. `sqlite3` opens a transaction before an
`UPDATE` and not before DDL, so `CREATE` and `ALTER` commit by themselves until the
backfill has updated a row and belong to its transaction from there on: `Write`.
`pc` walks through `init_db` statement by statement: `create_table` → `table_info`
→ `alter_key` → `alter_print` → `fetch` → `update` (once for each row) → `index` →
`decisions` → `audit` → `commit`. `get_store` is an `lru_cache` without a lock: a
thread that misses runs `init_db`, whatever others do, and the cache is set at the
end. `Lookup` and `Insert` are a keyed create in two steps; `ApprovalApi` has all of
it. Objects that no property reads (three indexes) are left out with the statements
that make them. Assumed of older files (`LegacyFile`): the columns came in the order
in which the code adds them, and keys are unique (with a duplicate key the index could
never be made, and no start would succeed).

### How `LedgerReads` corresponds to the code

`SelectFirst` and `SelectSecond` are the statements of `metrics()`, which run on one
connection without a transaction, so each has its own snapshot; `rows` keeps what the
first returned and `Metrics` makes the answer of both. `Total` is `sum` over the counts,
written as a cardinality, so that it can be reasoned about. The other read endpoints
are one statement each.

### How `Dashboard` corresponds to the code

Handlers run to their next `await`. A table on the page is a number: it shows the
ledger as it was after so many events, which is all that a fetch can return.
`refreshAll` is `StartRefresh`, one `Serve` for each table (at any time, in any
order) and `ApplyRefresh` or `RefreshFails` (one rejected promise rejects all; a 401
opens the key dialog instead of setting the health label). There are two callers,
the button and `handleDecisionSubmit`, which awaits its refresh; so two can be on
their way at once. `SubmitDecision` is the handler up to its POST, which reads the
selection again; `ServePost` is the server; `DecisionAnswered` and `DecisionFailed`
are its two continuations, and a lost answer of a recorded decision is a
`DecisionFailed`. A refresh drops a selection that is no longer listed, also behind
an open dialog. Dialogs are modal. Left out: search and filter, the view switch, the
key (that it is refused is a choice), rendering.

### How `N8nWorkflow` corresponds to the code

`Submit` is the webhook with the code node that chooses the key; `CreateBackendRequest`
is the call to `POST /requests`, a registration or the request that holds the key;
`RespondWithTriage` is the answer. n8n does not retry, so everything else that can
happen to an execution is `RunFails`, before or after the backend has recorded the
request. `LoseVolume` starts the numbers of executions again while the database
stays, as they are two volumes (`compose.yml`). A generated key is its number. A
client that has no answer may send the same submission again. `OwnKeys` assumes that
no client writes a key of its own in the form n8n gives to generated ones. The
decision webhook keeps nothing and passes on one decision, which is a step of the
ledger already.

Definitions introduced by the comment `Fault:` are variants of the definition
that follows them, with a mistake somebody could make there. No specification
uses them. They are what the properties are tried against: with the variant in
the definition's place, TLC finds the property violated.

## Runs

| Run | Instance | What it shows |
| --- | --- | --- |
| `ledger` | 2 ids, 1 key, up to 5 events, 1 reader | the ledger's own promises: `LedgerTypeOK`, `HistoryExplainsStatus` (the audit log alone explains every status), `FinalClosesHistory` (nothing is recorded after a final decision); and of the metrics over it: `MetricsAgree` (the statuses may lag behind the categories and never lead, and neither counts what is not there), `FinalCountsNeverFall` (from one answer to the next no total falls, and no count of final requests) |
| `api_creates` | 3 threads, 2 ids, 1 key, 2 payloads, no decisions | `KeysUnique`; `CreateAnswers` (a 201 names a stored request with this key and payload, a 409 means that the key has another payload) |
| `api_decisions` | 2 threads, 1 id, 2 decisions, clock to 1, fair | `ImplementsLedger` (every commit is one whole step of the ledger; nothing else changes what a reader sees); the store's and the handlers' invariants `TypeOK`, `OneTransaction`, `Holding`; `DecideAnswers`; `AuditExplainsStatus`, `FinalClosesHistory` on the real tables; `DecisionsMirrored` (decisions and audit log agree row by row, `updated_at` with both); `AuditInOrder`; `RequestsKeep` (a final row never changes, and no row loses its key, payload, triage); `LockReleased`, `CallsAnswered` |
| `schema_init` | 2 threads, 2 rows, 1 key, 2 payloads, 1 fault | `ReadyMeansMigrated` (a store in use has the whole schema under it, every keyed row fingerprinted); `FileSound` (no start, whole or broken off, leaves duplicate keys or wrong fingerprints); `KeysBound` (a create is answered only with its own payload's request, also one older than fingerprints); `OnlyAdds`; `ComesUp` (the loser of the race for a column answers 500, and still the store comes up for good) |
| `triage` | all modes; texts of up to 4 of 14 words, 5 amounts, 2 tiers; all usable replies, and every two defects | `RulesReviewUnlessHarmless` (closed form of what is not reviewed), `FraudWinsTies`, `ModelWaivesOnlyCategory` (what a model can waive, and what it cannot), `FailuresFallBack` (what becomes of a faulty reply), `ResultCanBeServed` |
| `dashboard` | 2 ids, 2 reviewers, 2 tables, approve and request_changes, up to 3 events | `PostsWhatWasChosen` (a decision goes to the request its dialog was opened for); `TablesOfOneRefresh` (the tables become the answers of one refresh, all of them, and none older than its start); `RecordedMeansRecorded` and `ToastWithDecision` (what the page reports is true, and the page shows it or that it cannot); `ButtonComesBack` |
| `n8n` | 2 clients sending twice, 3 ids, 3 executions, 1 loss | `AnsweredWithOwnPayload` (an answer is a request with the client's own payload, also after numbers begin again; it need not be the client's own request then); `KeyedSubmittedOnce`; `KeylessNotSwallowed` (while the volume lasts two keyless submissions are never taken for one) |
| `api_repeats`, `triage_fraud`, `triage_bypass`, `triage_escapes`, `dashboard_overlap` | see Findings | a documented statement the code does not keep |

### Bounds, and why they are enough

* *Threads.* A conflict on a key or on a request needs two; three in
  `api_creates` let one call win the key, one lose at the index and one arrive in
  between, and let two losers resolve against one winner. One store call is in
  its transaction at a time, so more threads only add waiting.
* *Ids, keys, payloads.* Two ids and one key allow a keyed and a keyless request
  or two keyless ones; two payloads tell a repeat from a conflict. Calls of
  different keys meet only in the write lock, which keyless calls show too.
* *Decisions* (`MaxDecisions`) bounds the rows of `decisions`, through
  `RoomToDecide`: two allow two reviewers to race on an open request, and
  `request_changes` and then a final decision, with refused ones after it. Reads of
  final and of unknown requests are always admitted. `RoomToCreate` admits a create
  only while an id is left for it, so that running out of ids is never a behaviour
  of the model.
* *Clock* (`MaxClock`): two instants tell the time that a decision reads before it
  waits for the lock from the time of its event. Where no property speaks of time
  it is 0.
* *History* (`MaxHistory`): five events over two requests; three in the dashboard
  runs, enough for two requests and a decision, or for one request and the decisions
  of two reviewers. With the history full the server records no more and a POST fails.
* *Readers.* One: readers do not meet.
* *Keys and requests in the refinement.* `ImplementsLedger` is checked by TLC with one
  request without a key, and proved for any number of requests and keys; two requests
  meet in the key and the lock alone, and the key is what `api_creates` is about.
* *Start* (`MaxFaults`): one fault, a crash or a failed statement, after any older
  start that broke off, as `Init` has every file such a start can leave. Two threads
  race for every statement; two rows let one be fetched and the other be inserted.
* *Page.* `Tables` has two of the three tables that a refresh fetches together, the
  third is treated alike; `Choices` has one final decision and one that is not.
* *n8n* (`MaxExecutions`, `MaxAttempts`, `MaxLosses`): three executions let both
  clients submit and one repeat it, before and after the loss; ids for all of them.
* *Triage.* Four words suffice for two categories to tie at two each; the words
  are chosen with `login`, which counts for two categories, and the terms that
  contain others; the amounts stand on both sides of both thresholds. Where a
  model answers, `ModelVocabulary` has a word for fraud, one for something destructive,
  one of a security signal that is forced by nothing, and one of no consequence. Two
  defects of a reply show every order of two checks.
* *Symmetry* (threads and ids; `api_creates`): no definition picks a thread or an id or
  compares two by anything but equality. It is not used for liveness.

`CHECK_DEADLOCK FALSE` is set in the triage runs (a call ends) and in `n8n` (the
clients stop). The others check deadlock: an idle system always has something a
client may ask.

### Fairness

`FairSpec` assumes weak fairness of `Step(t)`, what thread `t` does next if
nothing fails, for each thread separately. The operating system schedules the
threads, a provider call is cut by httpx's timeout (`llm_timeout_seconds`, at
most 120), and a wait for the lock ends with success or with the busy timeout of
10 seconds, which is why `BusyTimeout` is part of `Step`. Without it a thread
could lose the lock for ever to others: SQLite does not queue them. Nothing
assumes that clients call, that statements fail, that the process crashes, that
a client collects its answer, or that time passes.

`SchemaInit` assumes weak fairness of each thread and of `Arrive`: the Dockerfile's
health check asks for `/health`, which needs the store, every ten seconds, so calls
keep coming. Faults are bounded and not fair.

`Dashboard` assumes that the server answers (`CallsAnswered`) and that a fetch
settles, with an answer or with an error, and nothing of the user.

### Findings

* `api_repeats`: README.md:156 says that a repeated call "return[s] the existing
  request without running triage again". The lookup and the insert are not one
  step: a repeat that arrives while the first call is in triage runs it, too
  (`main.py:174`), and is then answered with the first call's request. The stored
  data stay right; a second model call is paid for.
* `triage_fraud`: docs/architecture.md:57 says that fraud signals always require
  review. The rules' fraud signal is the *winning category* (`domain.py:137`), so
  "fraud payment invoice" is a billing request without review.
* `triage_bypass`: docs/architecture.md:57 also says that model output cannot bypass the
  deterministic rules, and README.md:230 names security signals. What is forced on a
  model (`must_force_human_review`) knows three words for fraud and not the category
  that the rules would infer: "suspicious login", a fraud request to the rules, is stored
  without review when the model calls it harmless (`llm.py:274`). What is forced
  is `ModelWaivesOnlyCategory`; a model's own category `fraud_risk` forces nothing.
* `triage_escapes`: four defects of a reply pass the fallback provider, which catches
  `TriageProviderError` only (`llm.py:185`), and end the call as a 500, though
  README.md:17 promises the fallback: a confidence such as 10^400 (`OverflowError`,
  `llm.py:248`), an integer of more than 4300 digits in the text (`ValueError`,
  `llm.py:207`), and JSON nested too deep in the text or in the body (`RecursionError`,
  `llm.py:207` and `168`).
* `dashboard_overlap`: docs/demo_script.md:56 says of a decision that the queue,
  metrics, status and audit log "update after the decision". `refreshAll` (`app.js:102`)
  applies answers in the order in which they arrive. A refresh started before the
  decision, answered after the one that the decision awaits, puts the page back to
  before the decision, and it stays so, online and at rest.

Seen while modelling, with no statement in the repository against it: the two halves
of a metrics answer can differ by the creates between the SELECTs (`MetricsAgree`
says in which direction); the answer to a decision closes whatever decision dialog is
open by then, or writes its error into it; after the loss of n8n's volume a keyless
submission can meet an old key, and is then a conflict, or is answered with an older
request of the same payload; the page lists the newest 500 requests, so that
`review_required` can count one it does not list; the loser of the race to add a
column answers its call with 500; a retried
`approve` whose answer was lost is a 409, and a retried `request_changes` is
recorded twice; `decided_at` and `updated_at` are read before the lock is waited
for and need not follow the order in which decisions are recorded (the audit
event's own time does, see `AuditInOrder`); a model's text with an unpaired
surrogate passes the checks of its length and is stored, and no answer that contains
it can be encoded.

## Proofs

`ApprovalApi_proofs` proves, for all finite sets of threads and ids, all keys,
payloads, reviewers, categories and bounds (the finiteness of `ApiAssumption` is
used by the model only), from `SentinelAssumption` and
`ApiAssumption` (the null values are not members of the sets they stand beside):

* `TypeCorrect`, `LockDiscipline`, `CallsHold`: `TypeOK`, `OneTransaction` and
  `Holding` are invariants. None of the three is inductive alone. A `status` step
  keeps the tables well-typed only if its row exists; that is in `Holding`; and
  that it still exists at that step, whatever other threads did since the check,
  needs that nobody else changes `work`, which is `OneTransaction`. Their
  conjunction `IInv` is inductive: theorem `Inductive`, from one lemma for the
  steps of a create, one for those of a decision and one for the rest.
* `OneRequestPerKey`: `KeysUnique`. The index is enforced on what the transaction
  sees, and a commit makes that what is stored, so the invariant is
  `KeysInv`: uniqueness in `db` and in `work`.

The lemmas `PutRequestType`, `AddDecisionType`, `SetStatusType`, `AddAuditType`
say what each statement does to a view of the tables.

`ApprovalLedger_proofs` proves `LedgerTypeCorrect`, `LedgerExplained` and
`LedgerFinalCloses` for histories of any length, from `LedgerAssumption`.
`FinalClosesHistory` says nothing of `entries`, which is what the guard of a
decision reads, so it is strengthened by `FinalRecorded`: once an event has
announced a final status, the entry has one. Both kinds of step are first reduced
to one form, an event appended and its entry set (`RegisterStep`, `DecideStep`),
and then treated by one lemma (`StepKeepsInv`).

The second half of `ApprovalApi_proofs` proves `Refinement`, which is `Spec =>
ImplementsLedger`. A commit copies `work` to `db`, so the proof must know what
`work` holds at that moment: the invariant `Staged` says, for each place inside a
transaction, how the staged tables differ from the committed ones. It is kept
because only the thread inside the transaction changes either (`OthersKeep`,
`OthersOutside`, from `OneTransaction`). An insert needs in addition that its id
is still free, hence `UniqueIds`, `FreshRows` and `RowsStay`. Then
`CommitCreateMaps` and `CommitDecideMaps` show that the two commits are
`Register` and `Decide`, and `OnlyCommits` that nothing else changes `db`. From
it and from the ledger's invariants follow `Explained` and `FinalCloses`, the
properties of the committed tables; `Kept` proves `RequestsKeep` from `Staged`.
These proofs use `LedgerNulls` besides: the null of a row is no ledger entry.

`ApprovalAnswers_proofs` proves, on top of it, `CreatesTold` and `DecisionsTold`
(`CreateAnswers`, `DecideAnswers`), and `Mirrored` and `Ordered` (`DecisionsMirrored`,
`AuditInOrder`). An answer is given some steps after the commit that makes it true, and
kept until the client has it, so the proof has three layers. `AInv` says what a thread
will find: a stored fingerprint is that of the stored payload (`PrintsMatch`), the
row a create has committed is there to be read back (`Foreseen`), and the open
transaction has added one row to each log, its event at a time that nothing committed is
later than (`Logged`, `TimesPast`, `LogsRefer`). `CommitCreateAdds` and
`CommitDecideAdds` turn this into what a commit appends, and `Told`, the answers thread by
thread, is kept because nothing committed is lost and final is final (`ToldKept`). The
two log properties speak of the k-th decision event; `Rank` counts the decision events up
to a place in the log, and a commit changes no rank but adds one.

`TriageProvider_proofs` proves all five properties of the run `triage`, for every
vocabulary, every number of words, all amounts and tiers, from `ProviderAssumption`:
`RulesReviewed`, `TiesToFraud`, `OnlyCategoryWaived`, `FallbackKept`, `ResultsServed`.
The invariant `TInv` says what the result of a call was made of, and what was raised for
which first defect; the rest is about the
rules: that of five scores there is a first greatest, which `infer_category` takes
(`FirstGreatest`, `InferredCategory`); that no number of flags lifts the confidence of a
request without category over the bar of 75 (`ConfidenceBar`); and for which categories
and flags the priority is high (`PriorityRaised`). Together they are the closed form
`Harmless`.

`SchemaInit_proofs` proves `StoreMigrated`, `FileStaysSound`, `KeysStayBound` and
`StartsOnlyAdd`, for any number of threads, rows and faults, from `SchemaAssumption`.
`ReadyMeansMigrated` is not inductive: `cached` may have been set by one thread while
another is still adding columns, and a thread that passed `fetch` relies on no keyed
row without a fingerprint turning up afterwards. The invariant says, for each place in
`init_db`, what is already in the file or in the thread's open transaction, and
`OnlyAdds` is what keeps it true of the threads that do not move.

`LedgerReads_proofs` proves `MetricsConsistent` and `FinalCountsGrow` for any readers,
requests and categories, from `LedgerAssumption`. A sum of counts is the size of what was
counted (`ClassesCounted`: a bijection from the requests to the numbers of their
classes), so both SELECTs count all requests of their moment; `ReadsInv` says that what a
reader has read is behind the ledger, and that its last answer is behind what it has read
since. `MetricsAgree` alone is not inductive: it says nothing of the rows between the
two SELECTs.

`Dashboard_proofs` proves `RightRequest`, `OneRefresh`, `ToastTells` and `ToastShows`
for any requests, tables and histories, from `DashboardAssumption` and
`LedgerAssumption`. `DInv` adds that a selection behind an open dialog is that of the
dialog or none (`DialogInv`), that what a refresh has got is no older than its start
(`RefreshInv`), and that a decision is recorded before the refresh that it awaits
starts (`PostInv`); together they give the toast. The history only grows (`Kept`).

`N8nWorkflow_proofs` proves `OwnPayload`, `KeyedOnce` and `KeylessApart` for any
clients, keys and bounds. `FlowInv` says what an execution knows of its request, that a
key has one holder, and, until the volume is lost, that each number belongs to one
client and so does the request that has it as its key (`NumbersFit`).

The three clients are specified over the ledger, so each is also shown to leave it what it
promises: `ReadsKeepLedger`, `PageKeepsLedger` and `FlowKeepsLedger` prove that their
specifications imply that of `ApprovalLedger` (for the page and the webhook this needs
their invariants, as what they send must be something the ledger accepts). The theorems
of `ApprovalLedger_proofs` hold of them therefore.

Every safety invariant and action property of the passing runs is a theorem. Checked by
TLC only is liveness, as fairness is outside the prover's reach: `LockReleased`,
`CallsAnswered`, `ComesUp`, `ButtonComesBack`.

## Not modelled

* The LIMITs of the lists and the status filter: single statements on the committed
  tables, of which a property would restate the query.
* The search field, the view switch and the rendering of the dashboard; the decision
  webhook and the secret of n8n.
* Authentication, schema validation, headers, the wording of actions and
  rationales, logging, HTML and CSS: they change no state modelled here. Settings
  under which a model cannot be asked at all, such as an API key that no HTTP header
  can carry.
* Two API processes on one database file: `compose.yml` runs one; SQLite would
  order them like the threads here.

## Plan

Order is by importance to the system.

1. Done: domain, store, API, ledger, the refinement and its proof, triage, providers,
   the start of the store, metrics, dashboard and n8n, the last three over the ledger.
2. Done: the safety properties of all runs as theorems.
3. Proofs that join the parts: that a result of `TriageProvider` is one that
   `ApprovalApi` stores, and that a store which `SchemaInit` calls ready is one from
   which `RequestStore` may start.
