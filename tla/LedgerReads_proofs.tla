------------------------- MODULE LedgerReads_proofs -------------------------
(***************************************************************************)
(* Proofs about GET /metrics, for any number of readers and requests: the  *)
(* two halves of an answer differ in one direction only, and no reader     *)
(* sees a total or a final count fall.                                     *)
(***************************************************************************)
EXTENDS LedgerReads, ApprovalLedger_proofs, FiniteSetTheorems, FunctionTheorems

-----------------------------------------------------------------------------
(***************************************************************************)
(* Counting a finite set by classes and adding the counts up gives the     *)
(* size of the set: each element is one of the numbers of its class.       *)
(***************************************************************************)
LEMMA ClassesCounted ==
  ASSUME NEW S, IsFiniteSet(S), NEW K, NEW cls \in [S -> K], NEW counts,
         counts = [k \in K |-> Cardinality({x \in S : cls[x] = k})]
  PROVE  Total(counts) = Cardinality(S)
<1> DEFINE C(k) == {x \in S : cls[x] = k}
           g == [k \in K |-> CHOOSE f : f \in Bijection(C(k), 1..Cardinality(C(k)))]
           P == UNION {{v} \X (1..counts[v]) : v \in DOMAIN counts}
           H == [x \in S |-> <<cls[x], g[cls[x]][x]>>]
<1>1. \A k \in K : g[k] \in Bijection(C(k), 1..Cardinality(C(k)))
  <2> SUFFICES ASSUME NEW k \in K PROVE g[k] \in Bijection(C(k), 1..Cardinality(C(k)))
    OBVIOUS
  <2>1. IsFiniteSet(C(k))
    BY FS_Subset
  <2>2. ExistsBijection(1..Cardinality(C(k)), C(k))
    BY <2>1, FS_CardinalityType
  <2>3. ExistsBijection(C(k), 1..Cardinality(C(k)))
    BY <2>2, Fun_ExistsBijSymmetric
  <2> QED
    BY <2>3, Zenon DEF ExistsBijection
<1>2. \A k \in K : /\ g[k] \in [C(k) -> 1..Cardinality(C(k))]
                   /\ \A x, y \in C(k) : g[k][x] = g[k][y] => x = y
                   /\ \A n \in 1..Cardinality(C(k)) : \E x \in C(k) : g[k][x] = n
  <2> SUFFICES ASSUME NEW k \in K
               PROVE  /\ g[k] \in [C(k) -> 1..Cardinality(C(k))]
                      /\ \A x, y \in C(k) : g[k][x] = g[k][y] => x = y
                      /\ \A n \in 1..Cardinality(C(k)) : \E x \in C(k) : g[k][x] = n
    OBVIOUS
  <2> DEFINE f == g[k]
             D == C(k)
             T == 1..Cardinality(C(k))
  <2>1. f \in Bijection(D, T)
    BY <1>1
  <2>2. /\ f \in [D -> T]
        /\ \A x, y \in D : f[x] = f[y] => x = y
        /\ \A n \in T : \E x \in D : f[x] = n
    <3> HIDE DEF f, D, T
    <3> QED
      BY <2>1 DEF Bijection, Injection, Surjection, IsInjective
  <2> QED
    BY <2>2
<1>3. \A k \in K : k \in DOMAIN counts /\ counts[k] = Cardinality(C(k))
  OBVIOUS
<1>4. DOMAIN counts = K
  OBVIOUS
<1>5. \A x \in S : cls[x] \in K /\ x \in C(cls[x])
  OBVIOUS
<1> HIDE DEF g
<1>6. H \in [S -> P]
  <2> SUFFICES ASSUME NEW x \in S PROVE <<cls[x], g[cls[x]][x]>> \in P
    OBVIOUS
  <2>1. PICK k \in K : k = cls[x] /\ x \in C(k)
    BY <1>5
  <2>2. g[k][x] \in 1..counts[k]
    <3>1. g[k] \in [C(k) -> 1..Cardinality(C(k))] /\ counts[k] = Cardinality(C(k))
      BY <1>2, <1>3
    <3> HIDE DEF C
    <3> QED
      BY <2>1, <3>1
  <2>3. PICK n \in 1..counts[k] : n = g[k][x]
    BY <2>2
  <2>4. <<k, n>> \in {k} \X (1..counts[k])
    OBVIOUS
  <2>5. {k} \X (1..counts[k]) \in {{v} \X (1..counts[v]) : v \in DOMAIN counts}
    BY <1>4
  <2>6. <<k, n>> \in P
    BY <2>4, <2>5
  <2> QED
    BY <2>1, <2>3, <2>6
<1>7. ASSUME NEW x \in S, NEW y \in S, H[x] = H[y] PROVE x = y
  <2>1. cls[x] = cls[y] /\ g[cls[x]][x] = g[cls[x]][y]
    BY <1>7
  <2>2. x \in C(cls[x]) /\ y \in C(cls[x]) /\ cls[x] \in K
    BY <1>5, <2>1
  <2> QED
    BY <1>2, <2>1, <2>2
<1>8. \A q \in P : \E x \in S : H[x] = q
  <2> SUFFICES ASSUME NEW q \in P PROVE \E x \in S : H[x] = q
    OBVIOUS
  <2>1. PICK k \in K : q \in {k} \X (1..counts[k])
    BY <1>4
  <2>2. PICK n \in 1..Cardinality(C(k)) : q = <<k, n>>
    BY <1>3, <2>1
  <2>3. PICK x \in C(k) : g[k][x] = n
    BY <1>2, <2>2
  <2> QED
    BY <2>2, <2>3
<1> HIDE DEF H
<1>9. ExistsBijection(S, P)
  <2>1. H \in Bijection(S, P)
    BY <1>6, <1>7, <1>8, Fun_IsBij
  <2> QED
    BY <2>1 DEF ExistsBijection
<1> HIDE DEF P
<1>10. Cardinality(P) = Cardinality(S)
  BY <1>9, FS_Bijection
<1> QED
  BY <1>10 DEF P, Total

(***************************************************************************)
(* So each SELECT counts every stored request once.                        *)
(***************************************************************************)
LEMMA SelectsCountAll ==
  ASSUME LedgerTypeOK, IsFiniteSet(Entries)
  PROVE  /\ Total(CountBy("status")) = Cardinality(Entries)
         /\ Total(CountBy("category")) = Cardinality(Entries)
<1>1. \A i \in Entries : entries[i] \in Entry
  BY DEF LedgerTypeOK, Entries
<1>2. Total(CountBy("status")) = Cardinality(Entries)
  <2> DEFINE cls == [i \in Entries |-> entries[i].status]
  <2>1. cls \in [Entries -> RequestStatus]
    BY <1>1 DEF Entry
  <2>2. CountBy("status") = [s \in RequestStatus |-> Cardinality({i \in Entries : cls[i] = s})]
    <3>1. \A s : {i \in Entries : cls[i] = s} = {i \in Entries : entries[i].status = s}
      OBVIOUS
    <3> QED
      BY <3>1 DEF CountBy
  <2> HIDE DEF cls
  <2> QED
    BY <2>1, <2>2, ClassesCounted
<1>3. Total(CountBy("category")) = Cardinality(Entries)
  <2> DEFINE cls == [i \in Entries |-> entries[i].triage.category]
  <2>1. cls \in [Entries -> Categories]
    BY <1>1 DEF Entry, Triage
  <2>2. CountBy("category") = [c \in Categories |-> Cardinality({i \in Entries : cls[i] = c})]
    <3>1. \A c : {i \in Entries : cls[i] = c} = {i \in Entries : entries[i].triage.category = c}
      OBVIOUS
    <3> QED
      BY <3>1 DEF CountBy
  <2> HIDE DEF cls
  <2> QED
    BY <2>1, <2>2, ClassesCounted
<1> QED
  BY <1>2, <1>3

-----------------------------------------------------------------------------
(***************************************************************************)
(* Counts by status as a SELECT found them, now or earlier: nothing that   *)
(* they count has gone, and what they count as final still is.             *)
(***************************************************************************)
Behind(counts) ==
  /\ Total(counts) \in Nat /\ Total(counts) <= Cardinality(Entries)
  /\ \A s \in FinalStatus : counts[s] \in Nat /\ counts[s] <= CountBy("status")[s]

(***************************************************************************)
(* The first half of an answer of earlier counts, the second of later      *)
(* ones, and the answer before it counted no more than either.             *)
(***************************************************************************)
ReadsInv ==
  /\ LedgerInv
  /\ IsFiniteSet(Entries)
  /\ rows = [r \in Readers |-> rows[r]]
  /\ metrics = [r \in Readers |-> metrics[r]]
  /\ \A r \in Readers : rows[r] # NoRows => Behind(rows[r])
  /\ \A r \in Readers : metrics[r] # NoMetrics =>
       /\ Behind(metrics[r].by_status)
       /\ metrics[r].total_requests = Total(metrics[r].by_status)
       /\ Total(metrics[r].by_category) \in Nat
       /\ metrics[r].total_requests <= Total(metrics[r].by_category)
       /\ Total(metrics[r].by_category) <= Cardinality(Entries)
  /\ \A r \in Readers : rows[r] # NoRows /\ metrics[r] # NoMetrics =>
       /\ metrics[r].total_requests <= Total(rows[r])
       /\ \A s \in FinalStatus : metrics[r].by_status[s] <= rows[r][s]

-----------------------------------------------------------------------------
(***************************************************************************)
(* A step of the ledger takes no request away and no final request back.   *)
(***************************************************************************)
LEMMA LedgerGrows ==
  ASSUME LedgerTypeOK, [Next]_ledgerVars
  PROVE  /\ Entries \subseteq Entries'
         /\ Entries' = Entries \/ \E i : Entries' = Entries \cup {i}
         /\ \A i \in Entries : entries[i].status \in FinalStatus =>
              entries'[i].status = entries[i].status
<1>1. ASSUME NEW i, NEW event, Step(i, event), Registers(i, event) \/ Decides(i, event)
      PROVE  /\ Entries' = Entries \cup {i}
             /\ \A j \in Entries : entries[j].status \in FinalStatus =>
                  entries'[j].status = entries[j].status
  <2>1. /\ i \in Ids /\ entries'[i] # NoEntry
        /\ \A j \in Ids : j # i => entries'[j] = entries[j]
    BY <1>1, LedgerAssumption DEF Step
  <2>2. \A j \in Ids : entries'[j] # NoEntry <=> entries[j] # NoEntry \/ j = i
    BY <2>1
  <2>3. i \in Entries => entries[i].status \notin FinalStatus
    BY <1>1 DEF Registers, Decides, Entries
  <2> QED
    BY <2>1, <2>2, <2>3 DEF Entries
<1>2. ASSUME NEW i \in Ids, NEW key \in Keys \cup {NoKey}, NEW payload \in Payloads,
             NEW triage \in Triage, Register(i, key, payload, triage)
      PROVE  \E j, event : Step(j, event) /\ (Registers(j, event) \/ Decides(j, event))
  BY <1>2, RegisterStep
<1>3. ASSUME NEW i \in Ids, NEW decision \in Decision, NEW reviewer \in Reviewers,
             Decide(i, decision, reviewer)
      PROVE  \E j, event : Step(j, event) /\ (Registers(j, event) \/ Decides(j, event))
  BY <1>3, DecideStep
<1>4. CASE UNCHANGED ledgerVars
  BY <1>4 DEF ledgerVars, Entries
<1>5. CASE Next
  <2>1. PICK i, event : Step(i, event) /\ (Registers(i, event) \/ Decides(i, event))
    BY <1>2, <1>3, <1>5 DEF Next
  <2> QED
    BY <1>1, <2>1
<1> QED
  BY <1>4, <1>5

(***************************************************************************)
(* What was counted stays counted: the size of the ledger and its final    *)
(* counts do not fall.                                                     *)
(***************************************************************************)
LEMMA CountsGrow ==
  ASSUME LedgerTypeOK, IsFiniteSet(Entries), [Next]_ledgerVars
  PROVE  /\ IsFiniteSet(Entries')
         /\ Cardinality(Entries) \in Nat /\ Cardinality(Entries') \in Nat
         /\ Cardinality(Entries) <= Cardinality(Entries')
         /\ \A s \in FinalStatus :
              /\ CountBy("status")[s] \in Nat /\ CountBy("status")'[s] \in Nat
              /\ CountBy("status")[s] <= CountBy("status")'[s]
<1>1. /\ Entries \subseteq Entries'
      /\ Entries' = Entries \/ \E i : Entries' = Entries \cup {i}
      /\ \A i \in Entries : entries[i].status \in FinalStatus =>
           entries'[i].status = entries[i].status
  BY LedgerGrows
<1>2. IsFiniteSet(Entries')
  BY <1>1, FS_AddElement
<1>3. /\ Cardinality(Entries) \in Nat /\ Cardinality(Entries') \in Nat
      /\ Cardinality(Entries) <= Cardinality(Entries')
  BY <1>1, <1>2, FS_CardinalityType, FS_Subset
<1>4. ASSUME NEW s \in FinalStatus
      PROVE  /\ CountBy("status")[s] \in Nat /\ CountBy("status")'[s] \in Nat
             /\ CountBy("status")[s] <= CountBy("status")'[s]
  <2> DEFINE before == {i \in Entries : entries[i].status = s}
             after == {i \in Entries' : entries'[i].status = s}
  <2>1. before \in SUBSET after
    BY <1>1, <1>4
  <2>2. IsFiniteSet(before) /\ IsFiniteSet(after)
    BY <1>2, FS_Subset
  <2>3. /\ CountBy("status")[s] = Cardinality(before)
        /\ CountBy("status")'[s] = Cardinality(after)
    <3>1. s \in RequestStatus
      BY <1>4 DEF FinalStatus, RequestStatus
    <3> QED
      BY <3>1 DEF CountBy
  <2> HIDE DEF before, after
  <2> QED
    BY <2>1, <2>2, <2>3, FS_CardinalityType, FS_Subset
<1> QED
  BY <1>2, <1>3, <1>4

(***************************************************************************)
(* Counts that were behind still are.                                      *)
(***************************************************************************)
LEMMA BehindStays ==
  ASSUME LedgerTypeOK, IsFiniteSet(Entries), [Next]_ledgerVars,
         NEW CONSTANT counts, Behind(counts)
  PROVE  Behind(counts)'
<1>1. /\ Cardinality(Entries) \in Nat /\ Cardinality(Entries') \in Nat
      /\ Cardinality(Entries) <= Cardinality(Entries')
      /\ \A s \in FinalStatus :
           /\ CountBy("status")[s] \in Nat /\ CountBy("status")'[s] \in Nat
           /\ CountBy("status")[s] <= CountBy("status")'[s]
  BY CountsGrow
<1> QED
  BY <1>1 DEF Behind

(***************************************************************************)
(* What a SELECT finds now is behind, and ahead of all that was.           *)
(***************************************************************************)
LEMMA SelectNow ==
  ASSUME LedgerTypeOK, IsFiniteSet(Entries)
  PROVE  /\ Behind(CountBy("status"))
         /\ Total(CountBy("status")) = Cardinality(Entries)
         /\ Total(CountBy("category")) = Cardinality(Entries)
         /\ Cardinality(Entries) \in Nat
<1>1. /\ Total(CountBy("status")) = Cardinality(Entries)
      /\ Total(CountBy("category")) = Cardinality(Entries)
      /\ Cardinality(Entries) \in Nat
  BY SelectsCountAll, FS_CardinalityType
<1>2. \A s \in FinalStatus : CountBy("status")[s] \in Nat
  <2> SUFFICES ASSUME NEW s \in FinalStatus PROVE CountBy("status")[s] \in Nat
    OBVIOUS
  <2>1. CountBy("status")[s] = Cardinality({i \in Entries : entries[i].status = s})
    BY DEF CountBy, FinalStatus, RequestStatus
  <2>2. IsFiniteSet({i \in Entries : entries[i].status = s})
    BY FS_Subset
  <2> QED
    BY <2>1, <2>2, FS_CardinalityType
<1> QED
  BY <1>1, <1>2 DEF Behind

-----------------------------------------------------------------------------
(***************************************************************************)
(* Nothing has been read of the empty ledger.                              *)
(***************************************************************************)
LEMMA ReadsInvStart == ReadsInit => ReadsInv
<1> SUFFICES ASSUME ReadsInit PROVE ReadsInv
  OBVIOUS
<1>1. LedgerInv
  BY LedgerInit DEF ReadsInit
<1>2. Entries = {} /\ IsFiniteSet({})
  BY FS_EmptySet DEF ReadsInit, Init, Entries
<1> QED
  BY <1>1, <1>2 DEF ReadsInit, ReadsInv

(***************************************************************************)
(* A commit of another leaves what has been read where it was: behind.     *)
(***************************************************************************)
LEMMA CommitKeepsReads ==
  ASSUME ReadsInv, [Next]_ledgerVars, UNCHANGED readVars
  PROVE  ReadsInv'
<1>1. LedgerInv'
  BY LedgerStep DEF ReadsInv
<1>2. LedgerTypeOK /\ IsFiniteSet(Entries)
  BY DEF ReadsInv, LedgerInv
<1>3. /\ IsFiniteSet(Entries)'
      /\ Cardinality(Entries) \in Nat /\ Cardinality(Entries)' \in Nat
      /\ Cardinality(Entries) <= Cardinality(Entries)'
  BY <1>2, CountsGrow
<1>4. \A counts : Behind(counts) => Behind(counts)'
  BY <1>2, BehindStays
<1>5. rows' = rows /\ metrics' = metrics
  BY DEF readVars
<1>6. ASSUME NEW r \in Readers, rows[r] # NoRows
      PROVE  Behind(rows[r])'
  <2>1. Behind(rows[r])
    BY <1>6 DEF ReadsInv
  <2> QED
    BY <1>3, <1>4, <1>5, <2>1
<1>7. ASSUME NEW r \in Readers, metrics[r] # NoMetrics
      PROVE  /\ Behind(metrics[r].by_status)'
             /\ metrics[r].total_requests = Total(metrics[r].by_status)
             /\ Total(metrics[r].by_category) \in Nat
             /\ metrics[r].total_requests <= Total(metrics[r].by_category)
             /\ Total(metrics[r].by_category) <= Cardinality(Entries)'
  <2>1. /\ Behind(metrics[r].by_status)
        /\ metrics[r].total_requests = Total(metrics[r].by_status)
        /\ Total(metrics[r].by_category) \in Nat
        /\ metrics[r].total_requests <= Total(metrics[r].by_category)
        /\ Total(metrics[r].by_category) <= Cardinality(Entries)
    BY <1>7 DEF ReadsInv
  <2>2. Behind(metrics[r].by_status)'
    BY <1>4, <1>5, <2>1
  <2> QED
    BY <1>3, <2>1, <2>2
<1>8. /\ rows = [r \in Readers |-> rows[r]] /\ metrics = [r \in Readers |-> metrics[r]]
      /\ \A r \in Readers : rows[r] # NoRows /\ metrics[r] # NoMetrics =>
           /\ metrics[r].total_requests <= Total(rows[r])
           /\ \A s \in FinalStatus : metrics[r].by_status[s] <= rows[r][s]
  BY DEF ReadsInv
<1> QED
  BY <1>1, <1>3, <1>5, <1>6, <1>7, <1>8 DEF ReadsInv

(***************************************************************************)
(* The first SELECT reads what is stored now, which is no less than any    *)
(* answer so far has counted.                                              *)
(***************************************************************************)
LEMMA FirstKeepsReads ==
  ASSUME ReadsInv, NEW r \in Readers, SelectFirst(r)
  PROVE  ReadsInv'
<1>1. /\ rows' = [rows EXCEPT ![r] = CountBy("status")]
      /\ UNCHANGED <<ledgerVars, metrics>>
  BY DEF SelectFirst, Statements
<1>2. UNCHANGED <<entries, history, metrics, Entries>>
  BY <1>1 DEF ledgerVars, Entries
<1>3. LedgerInv'
  BY <1>2, LedgerStep DEF ReadsInv, ledgerVars
<1>4. /\ Behind(CountBy("status"))
      /\ Total(CountBy("status")) = Cardinality(Entries)
      /\ Cardinality(Entries) \in Nat
  BY SelectNow DEF ReadsInv, LedgerInv
<1>5. \A counts : Behind(counts)' <=> Behind(counts)
  BY <1>2 DEF Behind, CountBy
<1>6. /\ rows' = [q \in Readers |-> rows'[q]]
      /\ rows'[r] = CountBy("status") /\ \A q \in Readers : q # r => rows'[q] = rows[q]
  BY <1>1 DEF ReadsInv
<1>7. ASSUME NEW q \in Readers, rows'[q] # NoRows PROVE Behind(rows[q])'
  <2>1. Behind(rows'[q])
    BY <1>4, <1>6, <1>7 DEF ReadsInv
  <2> QED
    BY <1>5, <2>1
<1>8. ASSUME NEW q \in Readers, metrics[q] # NoMetrics
      PROVE  /\ Behind(metrics[q].by_status)'
             /\ metrics[q].total_requests = Total(metrics[q].by_status)
             /\ Total(metrics[q].by_category) \in Nat
             /\ metrics[q].total_requests <= Total(metrics[q].by_category)
             /\ Total(metrics[q].by_category) <= Cardinality(Entries)
             /\ rows'[q] # NoRows =>
                  /\ metrics[q].total_requests <= Total(rows'[q])
                  /\ \A s \in FinalStatus : metrics[q].by_status[s] <= rows'[q][s]
  <2>1. /\ Behind(metrics[q].by_status)
        /\ metrics[q].total_requests = Total(metrics[q].by_status)
        /\ Total(metrics[q].by_category) \in Nat
        /\ metrics[q].total_requests <= Total(metrics[q].by_category)
        /\ Total(metrics[q].by_category) <= Cardinality(Entries)
    BY <1>8 DEF ReadsInv
  <2>2. Behind(metrics[q].by_status)'
    BY <1>2, <1>5, <2>1
  <2>3. CASE q = r
    BY <1>4, <1>6, <2>1, <2>2, <2>3 DEF Behind
  <2>4. CASE q # r
    BY <1>6, <1>8, <2>1, <2>2, <2>4 DEF ReadsInv
  <2> QED
    BY <2>3, <2>4
<1> QED
  BY <1>2, <1>3, <1>6, <1>7, <1>8 DEF ReadsInv

(***************************************************************************)
(* The second SELECT makes an answer of the rows read before and of the    *)
(* requests of now, which are no fewer.                                    *)
(***************************************************************************)
LEMMA SecondAnswers ==
  ASSUME ReadsInv, NEW r \in Readers, SelectSecond(r)
  PROVE  /\ Behind(rows[r])
         /\ metrics' = [metrics EXCEPT ![r] = metrics'[r]]
         /\ rows' = [rows EXCEPT ![r] = NoRows]
         /\ UNCHANGED ledgerVars
         /\ metrics'[r].by_status = rows[r]
         /\ metrics'[r].total_requests = Total(rows[r])
         /\ metrics'[r].by_category = CountBy("category")
<1>1. /\ metrics' = [metrics EXCEPT ![r] =
           Metrics([column \in {"status", "category"} |->
                      IF column = "status" THEN rows[r] ELSE CountBy(column)])]
      /\ rows' = [rows EXCEPT ![r] = NoRows]
      /\ UNCHANGED ledgerVars
      /\ rows[r] # NoRows
  BY DEF SelectSecond, Statements
<1> DEFINE answer == Metrics([column \in {"status", "category"} |->
                                IF column = "status" THEN rows[r] ELSE CountBy(column)])
<1>2. /\ answer.by_status = rows[r] /\ answer.total_requests = Total(rows[r])
      /\ answer.by_category = CountBy("category")
  BY DEF Metrics
<1> HIDE DEF answer
<1>3. metrics' = [metrics EXCEPT ![r] = answer]
  BY <1>1 DEF answer
<1>4. metrics'[r] = answer
  BY <1>3 DEF ReadsInv
<1> QED
  BY <1>1, <1>2, <1>3, <1>4 DEF ReadsInv

(***************************************************************************)
(* So the answer agrees with itself and with the one before it.            *)
(***************************************************************************)
LEMMA SecondKeepsReads ==
  ASSUME ReadsInv, NEW r \in Readers, SelectSecond(r)
  PROVE  ReadsInv'
<1>1. /\ Behind(rows[r])
      /\ metrics' = [metrics EXCEPT ![r] = metrics'[r]]
      /\ rows' = [rows EXCEPT ![r] = NoRows]
      /\ UNCHANGED ledgerVars
      /\ metrics'[r].by_status = rows[r]
      /\ metrics'[r].total_requests = Total(rows[r])
      /\ metrics'[r].by_category = CountBy("category")
  BY SecondAnswers
<1>2. UNCHANGED <<entries, history, Entries>>
  BY <1>1 DEF ledgerVars, Entries
<1>3. LedgerInv'
  BY <1>2, LedgerStep DEF ReadsInv, ledgerVars
<1>4. /\ Total(CountBy("category")) = Cardinality(Entries)
      /\ Cardinality(Entries) \in Nat
  BY SelectNow DEF ReadsInv, LedgerInv
<1>5. \A counts : Behind(counts)' <=> Behind(counts)
  BY <1>2 DEF Behind, CountBy
<1>6. /\ rows' = [q \in Readers |-> rows'[q]] /\ metrics' = [q \in Readers |-> metrics'[q]]
      /\ rows'[r] = NoRows
      /\ \A q \in Readers : q # r => rows'[q] = rows[q] /\ metrics'[q] = metrics[q]
  BY <1>1 DEF ReadsInv
<1>7. ASSUME NEW q \in Readers, rows'[q] # NoRows
      PROVE  /\ Behind(rows[q])'
             /\ metrics'[q] # NoMetrics =>
                  /\ metrics'[q].total_requests <= Total(rows'[q])
                  /\ \A s \in FinalStatus : metrics'[q].by_status[s] <= rows'[q][s]
  <2>1. q # r
    BY <1>6, <1>7
  <2>2. Behind(rows'[q])
    BY <1>6, <1>7, <2>1 DEF ReadsInv
  <2>3. Behind(rows[q])'
    BY <1>5, <2>2
  <2> QED
    BY <1>6, <1>7, <2>1, <2>3 DEF ReadsInv
<1>8. ASSUME NEW q \in Readers, metrics'[q] # NoMetrics
      PROVE  /\ Behind(metrics[q].by_status)'
             /\ metrics'[q].total_requests = Total(metrics'[q].by_status)
             /\ Total(metrics'[q].by_category) \in Nat
             /\ metrics'[q].total_requests <= Total(metrics'[q].by_category)
             /\ Total(metrics'[q].by_category) <= Cardinality(Entries)
  <2>1. CASE q = r
    <3>1. Behind(metrics'[q].by_status)
      BY <1>1, <2>1
    <3>2. Behind(metrics[q].by_status)'
      BY <1>5, <3>1
    <3>3. Total(rows[r]) <= Cardinality(Entries)
      BY <1>1 DEF Behind
    <3> QED
      BY <1>1, <1>4, <2>1, <3>2, <3>3
  <2>2. CASE q # r
    <3>1. metrics'[q] = metrics[q]
      BY <1>6, <2>2
    <3>2. /\ Behind(metrics'[q].by_status)
          /\ metrics'[q].total_requests = Total(metrics'[q].by_status)
          /\ Total(metrics'[q].by_category) \in Nat
          /\ metrics'[q].total_requests <= Total(metrics'[q].by_category)
          /\ Total(metrics'[q].by_category) <= Cardinality(Entries)
      BY <1>8, <3>1 DEF ReadsInv
    <3>3. Behind(metrics[q].by_status)'
      BY <1>5, <3>2
    <3> QED
      BY <3>2, <3>3
  <2> QED
    BY <2>1, <2>2
<1> QED
  BY <1>2, <1>3, <1>6, <1>7, <1>8 DEF ReadsInv

(***************************************************************************)
(* A call that fails forgets its rows.                                     *)
(***************************************************************************)
LEMMA FailKeepsReads ==
  ASSUME ReadsInv, NEW r \in Readers, ReadFails(r)
  PROVE  ReadsInv'
<1>1. /\ rows' = [rows EXCEPT ![r] = NoRows]
      /\ UNCHANGED <<ledgerVars, metrics>>
  BY DEF ReadFails
<1>2. UNCHANGED <<entries, history, metrics, Entries>>
  BY <1>1 DEF ledgerVars, Entries
<1>3. LedgerInv'
  BY <1>2, LedgerStep DEF ReadsInv, ledgerVars
<1>4. \A counts : Behind(counts)' <=> Behind(counts)
  BY <1>2 DEF Behind, CountBy
<1>5. /\ rows' = [q \in Readers |-> rows'[q]]
      /\ rows'[r] = NoRows /\ \A q \in Readers : q # r => rows'[q] = rows[q]
  BY <1>1 DEF ReadsInv
<1>6. ASSUME NEW q \in Readers, rows'[q] # NoRows
      PROVE  /\ Behind(rows[q])'
             /\ metrics[q] # NoMetrics =>
                  /\ metrics[q].total_requests <= Total(rows'[q])
                  /\ \A s \in FinalStatus : metrics[q].by_status[s] <= rows'[q][s]
  <2>1. rows'[q] = rows[q]
    BY <1>5, <1>6
  <2>2. Behind(rows'[q])
    BY <1>6, <2>1 DEF ReadsInv
  <2>3. Behind(rows[q])'
    BY <1>4, <2>2
  <2> QED
    BY <1>6, <2>1, <2>3 DEF ReadsInv
<1>7. ASSUME NEW q \in Readers, metrics[q] # NoMetrics
      PROVE  Behind(metrics[q].by_status)'
  <2>1. Behind(metrics[q].by_status)
    BY <1>7 DEF ReadsInv
  <2> QED
    BY <1>2, <1>4, <2>1
<1> QED
  BY <1>2, <1>3, <1>5, <1>6, <1>7 DEF ReadsInv

(***************************************************************************)
(* Every step of the readers and of the ledger keeps what was read behind. *)
(***************************************************************************)
LEMMA ReadsInvStep == ReadsInv /\ [ReadsNext]_<<ledgerVars, readVars>> => ReadsInv'
<1> SUFFICES ASSUME ReadsInv, [ReadsNext]_<<ledgerVars, readVars>> PROVE ReadsInv'
  OBVIOUS
<1>1. CASE Next /\ UNCHANGED readVars
  BY <1>1, CommitKeepsReads
<1>2. ASSUME NEW r \in Readers, SelectFirst(r) \/ SelectSecond(r) \/ ReadFails(r)
      PROVE  ReadsInv'
  BY <1>2, FirstKeepsReads, SecondKeepsReads, FailKeepsReads
<1>3. CASE UNCHANGED <<ledgerVars, readVars>>
  BY <1>3, CommitKeepsReads
<1> QED
  BY <1>1, <1>2, <1>3 DEF ReadsNext

(***************************************************************************)
(* The invariant holds however the SELECTs and the commits interleave.     *)
(***************************************************************************)
LEMMA ReadsInvHolds == ReadsSpec => []ReadsInv
BY ReadsInvStart, ReadsInvStep, PTL DEF ReadsSpec

-----------------------------------------------------------------------------
(***************************************************************************)
(* In every answer of GET /metrics the total is at most the sum of the     *)
(* categories, and that at most what is stored.                            *)
(***************************************************************************)
THEOREM MetricsConsistent == ReadsSpec => []MetricsAgree
<1>1. ReadsInv => MetricsAgree
  BY DEF ReadsInv, MetricsAgree
<1> QED
  BY <1>1, ReadsInvHolds, PTL

(***************************************************************************)
(* From one answer of a reader to its next neither the total nor the       *)
(* approved nor the rejected requests get fewer.                           *)
(***************************************************************************)
THEOREM FinalCountsGrow == ReadsSpec => FinalCountsNeverFall
<1> DEFINE Grows ==
      \A r \in Readers : metrics[r] # NoMetrics =>
        /\ metrics'[r].total_requests >= metrics[r].total_requests
        /\ \A s \in FinalStatus : metrics'[r].by_status[s] >= metrics[r].by_status[s]
<1>1. ReadsInv /\ [ReadsNext]_<<ledgerVars, readVars>> => [Grows]_<<ledgerVars, readVars>>
  <2> SUFFICES ASSUME ReadsInv, ReadsNext, NEW q \in Readers, metrics[q] # NoMetrics
               PROVE  /\ metrics'[q].total_requests >= metrics[q].total_requests
                      /\ \A s \in FinalStatus :
                           metrics'[q].by_status[s] >= metrics[q].by_status[s]
    OBVIOUS
  <2>1. /\ metrics[q].total_requests \in Nat
        /\ \A s \in FinalStatus : metrics[q].by_status[s] \in Nat
    BY DEF ReadsInv, Behind
  <2>2. CASE metrics'[q] = metrics[q]
    BY <2>1, <2>2
  <2>3. ASSUME NEW r \in Readers, SelectSecond(r), q = r
        PROVE  /\ metrics'[q].total_requests >= metrics[q].total_requests
               /\ \A s \in FinalStatus :
                    metrics'[q].by_status[s] >= metrics[q].by_status[s]
    <3>1. /\ Behind(rows[q]) /\ metrics'[q].by_status = rows[q]
          /\ metrics'[q].total_requests = Total(rows[q])
      BY <2>3, SecondAnswers
    <3>2. rows[q] # NoRows
      BY <2>3 DEF SelectSecond
    <3>3. /\ metrics[q].total_requests <= Total(rows[q])
          /\ \A s \in FinalStatus : metrics[q].by_status[s] <= rows[q][s]
      BY <3>2 DEF ReadsInv
    <3> QED
      BY <2>1, <3>1, <3>3 DEF Behind
  <2>4. ASSUME NEW r \in Readers, SelectSecond(r), q # r PROVE metrics'[q] = metrics[q]
    BY <2>4, SecondAnswers DEF ReadsInv
  <2>5. ASSUME NEW r \in Readers, SelectFirst(r) \/ ReadFails(r)
        PROVE  metrics'[q] = metrics[q]
    BY <2>5 DEF SelectFirst, ReadFails
  <2>6. CASE UNCHANGED readVars
    BY <2>2, <2>6 DEF readVars
  <2> QED
    BY <2>2, <2>3, <2>4, <2>5, <2>6 DEF ReadsNext
<1>2. ReadsSpec => [][Grows]_<<ledgerVars, readVars>>
  BY <1>1, ReadsInvHolds, PTL DEF ReadsSpec
<1> QED
  BY <1>2 DEF FinalCountsNeverFall

(***************************************************************************)
(* Reading leaves no trace: a ledger that is read is a ledger.             *)
(***************************************************************************)
THEOREM ReadsKeepLedger == ReadsSpec => Spec
<1>1. [ReadsNext]_<<ledgerVars, readVars>> => [Next]_ledgerVars
  BY DEF ReadsNext, SelectFirst, SelectSecond, ReadFails
<1>2. ReadsInit => Init
  BY DEF ReadsInit
<1> QED
  BY <1>1, <1>2, PTL DEF ReadsSpec, Spec

=============================================================================
