---------------------------- MODULE LedgerReads ----------------------------
(***************************************************************************)
(* GET /metrics (main.py, RequestStore.metrics) over the ledger.  Its two  *)
(* SELECTs run outside a transaction, so each counts the requests of its   *)
(* own moment and creates and decisions commit between them.               *)
(***************************************************************************)
EXTENDS ApprovalLedger, FiniteSets

CONSTANTS
  Readers,
  NoRows, NoMetrics

VARIABLES
  rows,      \* reader -> what its first SELECT returned
  metrics    \* reader -> its last answer

readVars == <<rows, metrics>>

(* Fault: the SELECTs are written in the other order. *)
StatementsSwapped == <<"category", "status">>

Statements == <<"status", "category">>

Entries == {i \in Ids : entries[i] # NoEntry}

(***************************************************************************)
(* SELECT column, COUNT( * ) GROUP BY column.                              *)
(***************************************************************************)
CountBy(column) ==
  IF column = "status"
  THEN [s \in RequestStatus |-> Cardinality({i \in Entries : entries[i].status = s})]
  ELSE [c \in Categories |-> Cardinality({i \in Entries : entries[i].triage.category = c})]

(***************************************************************************)
(* sum(counts.values()): each value has as many numbers as it counts.      *)
(***************************************************************************)
Total(counts) == Cardinality(UNION {{v} \X (1..counts[v]) : v \in DOMAIN counts})

(***************************************************************************)
(* The answer; review_required, approved and rejected are by_status of it. *)
(***************************************************************************)
Metrics(found) ==
  [total_requests |-> Total(found["status"]),
   by_status |-> found["status"], by_category |-> found["category"]]

ReadsInit ==
  /\ Init
  /\ rows = [r \in Readers |-> NoRows]
  /\ metrics = [r \in Readers |-> NoMetrics]

SelectFirst(r) ==
  /\ rows[r] = NoRows
  /\ rows' = [rows EXCEPT ![r] = CountBy(Statements[1])]
  /\ UNCHANGED <<ledgerVars, metrics>>

SelectSecond(r) ==
  /\ rows[r] # NoRows
  /\ metrics' = [metrics EXCEPT ![r] =
       Metrics([column \in {"status", "category"} |->
                  IF column = Statements[1] THEN rows[r] ELSE CountBy(column)])]
  /\ rows' = [rows EXCEPT ![r] = NoRows]
  /\ UNCHANGED ledgerVars

(***************************************************************************)
(* A statement fails or the process dies: the call ends in a 500.          *)
(***************************************************************************)
ReadFails(r) ==
  /\ rows[r] # NoRows
  /\ rows' = [rows EXCEPT ![r] = NoRows]
  /\ UNCHANGED <<ledgerVars, metrics>>

ReadsNext ==
  \/ Next /\ UNCHANGED readVars
  \/ \E r \in Readers : SelectFirst(r) \/ SelectSecond(r) \/ ReadFails(r)

ReadsSpec == ReadsInit /\ [][ReadsNext]_<<ledgerVars, readVars>>

-----------------------------------------------------------------------------
(***************************************************************************)
(* The two halves of an answer differ only in one direction: the statuses  *)
(* are counted first, so a create between the SELECTs shows in by_category *)
(* alone, and neither half counts a request that is not stored.            *)
(***************************************************************************)
MetricsAgree ==
  \A r \in Readers : metrics[r] # NoMetrics =>
    /\ metrics[r].total_requests <= Total(metrics[r].by_category)
    /\ Total(metrics[r].by_category) <= Cardinality(Entries)

(***************************************************************************)
(* From one answer to the next of a reader no total falls, and neither do  *)
(* the requests counted as approved or rejected: final is final, also in   *)
(* the figures, whatever commits between the SELECTs and the calls.        *)
(***************************************************************************)
FinalCountsNeverFall ==
  [][\A r \in Readers : metrics[r] # NoMetrics =>
       /\ metrics'[r].total_requests >= metrics[r].total_requests
       /\ \A s \in FinalStatus : metrics'[r].by_status[s] >= metrics[r].by_status[s]
    ]_<<ledgerVars, readVars>>

=============================================================================
