----------------------- MODULE TriageProvider_proofs -----------------------
(***************************************************************************)
(* Proofs about the rules and the providers, for every vocabulary, length  *)
(* of text, amount and tier.                                               *)
(***************************************************************************)
EXTENDS TriageProvider, FiniteSetTheorems, TLAPS

-----------------------------------------------------------------------------
(***************************************************************************)
(* The terms of a category are finitely many.                              *)
(***************************************************************************)
LEMMA NineFinite ==
  ASSUME NEW a, NEW b, NEW c, NEW d, NEW e, NEW f, NEW g, NEW h, NEW i
  PROVE  IsFiniteSet({a, b, c, d, e, f, g, h, i})
<1>1. IsFiniteSet({a} \cup {b} \cup {c})
  BY FS_Singleton, FS_Union
<1>2. IsFiniteSet({d} \cup {e} \cup {f})
  BY FS_Singleton, FS_Union
<1>3. IsFiniteSet({g} \cup {h} \cup {i})
  BY FS_Singleton, FS_Union
<1>4. IsFiniteSet(({a} \cup {b} \cup {c}) \cup ({d} \cup {e} \cup {f}) \cup ({g} \cup {h} \cup {i}))
  BY <1>1, <1>2, <1>3, FS_Union
<1>5. {a, b, c, d, e, f, g, h, i} =
        ({a} \cup {b} \cup {c}) \cup ({d} \cup {e} \cup {f}) \cup ({g} \cup {h} \cup {i})
  OBVIOUS
<1> QED
  BY <1>4, <1>5

(***************************************************************************)
(* So every category's terms can be counted.                               *)
(***************************************************************************)
LEMMA KeywordsFinite == \A c \in DOMAIN KEYWORDS : IsFiniteSet(KEYWORDS[c])
<1>1. IsFiniteSet(KEYWORDS.fraud_risk)
  BY NineFinite DEF KEYWORDS
<1>2. IsFiniteSet(KEYWORDS.billing)
  <2> DEFINE nine == {"payment", "pagamento", "invoice", "nota", "billing",
                     "cobranca", "refund", "reembolso", "1"}
  <2>1. IsFiniteSet(nine)
    BY NineFinite
  <2>2. KEYWORDS.billing \in SUBSET nine
    BY DEF KEYWORDS
  <2> HIDE DEF nine
  <2> QED
    BY <2>1, <2>2, FS_Subset
<1>3. IsFiniteSet(KEYWORDS.access)
  <2> DEFINE nine == {"access", "acesso", "password", "senha", "login",
                     "permission", "permissao", "1", "2"}
  <2>1. IsFiniteSet(nine)
    BY NineFinite
  <2>2. KEYWORDS.access \in SUBSET nine
    BY DEF KEYWORDS
  <2> HIDE DEF nine
  <2> QED
    BY <2>1, <2>2, FS_Subset
<1>4. IsFiniteSet(KEYWORDS.data_quality)
  <2> DEFINE nine == {"duplicate", "duplicado", "inconsistent", "inconsistente", "missing data",
                     "dados", "schema", "csv", "1"}
  <2>1. IsFiniteSet(nine)
    BY NineFinite
  <2>2. KEYWORDS.data_quality \in SUBSET nine
    BY DEF KEYWORDS
  <2> HIDE DEF nine
  <2> QED
    BY <2>1, <2>2, FS_Subset
<1>5. IsFiniteSet(KEYWORDS.customer_support)
  <2> DEFINE nine == {"customer", "cliente", "support", "suporte", "complaint",
                     "reclamacao", "1", "2", "3"}
  <2>1. IsFiniteSet(nine)
    BY NineFinite
  <2>2. KEYWORDS.customer_support \in SUBSET nine
    BY DEF KEYWORDS
  <2> HIDE DEF nine
  <2> QED
    BY <2>1, <2>2, FS_Subset
<1>6. DOMAIN KEYWORDS = {"fraud_risk", "billing", "access", "data_quality", "customer_support"}
  BY DEF KEYWORDS
<1> QED
  BY <1>1, <1>2, <1>3, <1>4, <1>5, <1>6

(***************************************************************************)
(* The order names every category with terms, once.                        *)
(***************************************************************************)
LEMMA OrderCovers ==
  /\ DOMAIN KeywordOrder = 1..5
  /\ \A n \in 1..5 : KeywordOrder[n] \in DOMAIN KEYWORDS
  /\ \A c \in DOMAIN KEYWORDS : \E n \in 1..5 : KeywordOrder[n] = c
  /\ \A n \in 1..5 : KeywordOrder[n] = "fraud_risk" <=> n = 1
  /\ DOMAIN KEYWORDS \subseteq RequestCategory \ {"general"}
<1>1. DOMAIN KEYWORDS = {"fraud_risk", "billing", "access", "data_quality", "customer_support"}
  BY DEF KEYWORDS
<1>2. DOMAIN KeywordOrder = 1..5
  BY DEF KeywordOrder
<1>3. /\ KeywordOrder[1] = "fraud_risk" /\ KeywordOrder[2] = "billing"
      /\ KeywordOrder[3] = "access" /\ KeywordOrder[4] = "data_quality"
      /\ KeywordOrder[5] = "customer_support"
  BY DEF KeywordOrder
<1>4. 1..5 = {1, 2, 3, 4, 5}
  OBVIOUS
<1> QED
  BY <1>1, <1>2, <1>3, <1>4 DEF RequestCategory

(***************************************************************************)
(* A score is a number, however many words a text has.                     *)
(***************************************************************************)
LEMMA ScoreType == \A text : \A n \in 1..5 : Score(text, n) \in Nat
<1> SUFFICES ASSUME NEW text, NEW n \in 1..5 PROVE Score(text, n) \in Nat
  OBVIOUS
<1>1. IsFiniteSet(KEYWORDS[KeywordOrder[n]])
  BY KeywordsFinite, OrderCovers
<1>2. IsFiniteSet(KEYWORDS[KeywordOrder[n]] \cap text)
  BY <1>1, FS_Intersection
<1> QED
  BY <1>2, FS_CardinalityType DEF Score

(***************************************************************************)
(* Of five scores there is a first greatest.                               *)
(***************************************************************************)
LEMMA FirstGreatest ==
  ASSUME NEW s, \A n \in 1..5 : s[n] \in Nat
  PROVE  \E n \in 1..5 : \A m \in 1..5 : s[m] <= s[n] /\ (m < n => s[m] < s[n])
<1>1. 1..5 = {1, 2, 3, 4, 5}
  OBVIOUS
<1>2. s[1] \in Nat /\ s[2] \in Nat /\ s[3] \in Nat /\ s[4] \in Nat /\ s[5] \in Nat
  OBVIOUS
<1> DEFINE First(n) == \A m \in {1, 2, 3, 4, 5} : s[m] <= s[n] /\ (m < n => s[m] < s[n])
<1>3. First(1) \/ First(2) \/ First(3) \/ First(4) \/ First(5)
  BY <1>2
<1> QED
  BY <1>1, <1>3

(***************************************************************************)
(* infer_category, read off its scores: "general" if no term occurs, and   *)
(* otherwise the first category in the dictionary's order of which the     *)
(* most terms do.                                                          *)
(***************************************************************************)
LEMMA InferredCategory ==
  ASSUME NEW text
  PROVE  \/ /\ infer_category(text) = "general"
            /\ \A n \in 1..5 : Score(text, n) = 0
         \/ \E n \in 1..5 :
              /\ infer_category(text) = KeywordOrder[n] /\ Score(text, n) > 0
              /\ \A m \in 1..5 : /\ Score(text, m) <= Score(text, n)
                                 /\ m < n => Score(text, m) < Score(text, n)
<1> DEFINE S(n) == Score(text, n)
           s == [n \in 1..5 |-> S(n)]
           best == {n \in DOMAIN KeywordOrder : \A m \in DOMAIN KeywordOrder : S(m) <= S(n)}
           first == CHOOSE n \in best : \A m \in best : n <= m
<1>1. \A n \in 1..5 : S(n) \in Nat
  BY ScoreType
<1>2. best = {n \in 1..5 : \A m \in 1..5 : S(m) <= S(n)}
  BY OrderCovers
<1>3. infer_category(text) = IF S(first) = 0 THEN "general" ELSE KeywordOrder[first]
  BY DEF infer_category
<1> HIDE DEF S
<1>4. PICK k \in 1..5 : \A m \in 1..5 : S(m) <= S(k) /\ (m < k => S(m) < S(k))
  <2>1. \E n \in 1..5 : \A m \in 1..5 : s[m] <= s[n] /\ (m < n => s[m] < s[n])
    BY <1>1, FirstGreatest
  <2> QED
    BY <2>1
<1>5. k \in best /\ \A m \in best : k <= m
  <2>1. ASSUME NEW m \in best, m < k PROVE FALSE
    <3>1. m \in 1..5 /\ S(k) <= S(m) /\ S(m) < S(k)
      BY <1>2, <1>4, <2>1
    <3> QED
      BY <1>1, <3>1
  <2> QED
    BY <1>2, <1>4, <2>1
<1> HIDE DEF best
<1>6. first \in best /\ \A m \in best : first <= m
  BY <1>5
<1>7. first = k
  BY <1>2, <1>5, <1>6
<1> HIDE DEF first
<1> QED
  BY <1>1, <1>3, <1>4, <1>7 DEF S

(***************************************************************************)
(* Some category is always inferred.                                       *)
(***************************************************************************)
LEMMA CategoryType == \A text : infer_category(text) \in RequestCategory
BY InferredCategory, OrderCovers DEF RequestCategory

-----------------------------------------------------------------------------
(***************************************************************************)
(* Which flags the rules raise.                                            *)
(***************************************************************************)
LEMMA FlagsRaised ==
  ASSUME NEW p, p.amount \in Nat, NEW category
  PROVE  /\ "high_amount_at_risk" \in RiskFlags(p, category) <=> p.amount >= 1000
         /\ "sensitive_customer" \in RiskFlags(p, category) <=> p.tier \in SensitiveTiers
         /\ "fraud_or_security_signal" \in RiskFlags(p, category) <=> category = "fraud_risk"
         /\ "destructive_action_requested" \in RiskFlags(p, category) <=>
              p.text \cap DestructiveTerms # {}
<1>1. "high_amount_at_risk" \in RiskFlags(p, category) <=> p.amount >= 1000
  BY DEF RiskFlags
<1>2. "sensitive_customer" \in RiskFlags(p, category) <=> p.tier \in SensitiveTiers
  BY DEF RiskFlags
<1>3. "fraud_or_security_signal" \in RiskFlags(p, category) <=> category = "fraud_risk"
  BY DEF RiskFlags
<1>4. "destructive_action_requested" \in RiskFlags(p, category) <=>
        p.text \cap DestructiveTerms # {}
  BY DEF RiskFlags
<1> QED
  BY <1>1, <1>2, <1>3, <1>4

(***************************************************************************)
(* A set with one more element.                                            *)
(***************************************************************************)
LEMMA OneMore ==
  ASSUME NEW S, NEW x, NEW n \in Nat, IsFiniteSet(S), Cardinality(S) <= n
  PROVE  IsFiniteSet(S \cup {x}) /\ Cardinality(S \cup {x}) <= n + 1
<1>1. /\ IsFiniteSet(S \cup {x})
      /\ Cardinality(S \cup {x}) = IF x \in S THEN Cardinality(S) ELSE Cardinality(S) + 1
  BY FS_AddElement
<1>2. Cardinality(S) \in Nat
  BY FS_CardinalityType
<1> QED
  BY <1>1, <1>2

(***************************************************************************)
(* A set of at most six things has at most six elements.                   *)
(***************************************************************************)
LEMMA SixAtMost ==
  ASSUME NEW a, NEW b, NEW c, NEW d, NEW e, NEW f, NEW S, S \subseteq {a, b, c, d, e, f}
  PROVE  IsFiniteSet(S) /\ Cardinality(S) \in Nat /\ Cardinality(S) <= 6
<1> DEFINE S1 == {a}
           S2 == S1 \cup {b}
           S3 == S2 \cup {c}
           S4 == S3 \cup {d}
           S5 == S4 \cup {e}
           S6 == S5 \cup {f}
<1>1. S \in SUBSET S6
  OBVIOUS
<1>2. IsFiniteSet(S1) /\ Cardinality(S1) <= 1
  <2>1. IsFiniteSet({a}) /\ Cardinality({a}) = 1
    BY FS_Singleton, Zenon
  <2> QED
    BY <2>1
<1> HIDE DEF S1
<1>3. IsFiniteSet(S2) /\ Cardinality(S2) <= 2
  BY <1>2, OneMore, 1 \in Nat, 1 + 1 = 2
<1> HIDE DEF S2
<1>4. IsFiniteSet(S3) /\ Cardinality(S3) <= 3
  BY <1>3, OneMore, 2 \in Nat, 2 + 1 = 3
<1> HIDE DEF S3
<1>5. IsFiniteSet(S4) /\ Cardinality(S4) <= 4
  BY <1>4, OneMore, 3 \in Nat, 3 + 1 = 4
<1> HIDE DEF S4
<1>6. IsFiniteSet(S5) /\ Cardinality(S5) <= 5
  BY <1>5, OneMore, 4 \in Nat, 4 + 1 = 5
<1> HIDE DEF S5
<1>7. IsFiniteSet(S6) /\ Cardinality(S6) <= 6
  BY <1>6, OneMore, 5 \in Nat, 5 + 1 = 6
<1> HIDE DEF S6
<1>8. IsFiniteSet(S) /\ Cardinality(S) <= Cardinality(S6)
  BY <1>1, <1>7, FS_Subset
<1>9. Cardinality(S) \in Nat /\ Cardinality(S6) \in Nat
  BY <1>7, <1>8, FS_CardinalityType
<1> QED
  BY <1>7, <1>8, <1>9

(***************************************************************************)
(* The flags of a model are ten at most.                                   *)
(***************************************************************************)
LEMMA ModelFlagsFew ==
  ASSUME NEW flags, flags \subseteq ReadFlags \cup OtherFlags
  PROVE  Cardinality(flags) \in Nat /\ Cardinality(flags) <= 10
<1> DEFINE S6 == ReadFlags \cup {"flag 1", "flag 2", "flag 3"}
           S7 == S6 \cup {"flag 4"}
           S8 == S7 \cup {"flag 5"}
           S9 == S8 \cup {"flag 6"}
           S10 == S9 \cup {"flag 7"}
<1>1. flags \in SUBSET S10
  BY DEF OtherFlags
<1>2. S6 \subseteq {"destructive_change", "fraud_or_security_signal", "sensitive_customer",
                   "flag 1", "flag 2", "flag 3"}
  BY DEF ReadFlags
<1> HIDE DEF S6
<1>3. IsFiniteSet(S6) /\ Cardinality(S6) <= 6
  BY <1>2, SixAtMost
<1>4. IsFiniteSet(S7) /\ Cardinality(S7) <= 7
  BY <1>3, OneMore, 6 \in Nat, 6 + 1 = 7
<1> HIDE DEF S7
<1>5. IsFiniteSet(S8) /\ Cardinality(S8) <= 8
  BY <1>4, OneMore, 7 \in Nat, 7 + 1 = 8
<1> HIDE DEF S8
<1>6. IsFiniteSet(S9) /\ Cardinality(S9) <= 9
  BY <1>5, OneMore, 8 \in Nat, 8 + 1 = 9
<1> HIDE DEF S9
<1>7. IsFiniteSet(S10) /\ Cardinality(S10) <= 10
  BY <1>6, OneMore, 9 \in Nat, 9 + 1 = 10
<1> HIDE DEF S10
<1>8. IsFiniteSet(flags) /\ Cardinality(flags) <= Cardinality(S10)
  BY <1>1, <1>7, FS_Subset
<1>9. Cardinality(flags) \in Nat /\ Cardinality(S10) \in Nat
  BY <1>7, <1>8, FS_CardinalityType
<1> QED
  BY <1>7, <1>8, <1>9

(***************************************************************************)
(* The rules raise at most six flags.                                      *)
(***************************************************************************)
LEMMA FlagsFew ==
  ASSUME NEW p, NEW category
  PROVE  LET flags == RiskFlags(p, category) IN
         IsFiniteSet(flags) /\ Cardinality(flags) \in Nat /\ Cardinality(flags) <= 6
<1>1. RiskFlags(p, category) \subseteq
        {"high_amount_at_risk", "medium_amount_at_risk", "sensitive_customer",
         "urgency_signal", "fraud_or_security_signal", "destructive_action_requested"}
  BY DEF RiskFlags
<1> QED
  BY <1>1, SixAtMost

(***************************************************************************)
(* The confidence is a percentage, and below the bar of 75 exactly for a   *)
(* request of no category: no number of flags makes up for it.             *)
(***************************************************************************)
LEMMA ConfidenceBar ==
  ASSUME NEW p, NEW category
  PROVE  LET confidence == Confidence(category, RiskFlags(p, category)) IN
         /\ confidence \in 0..100
         /\ confidence < 75 <=> category = "general"
<1>1. Cardinality(RiskFlags(p, category)) \in Nat
  BY FlagsFew
<1> QED
  BY <1>1 DEF Confidence, Least

(***************************************************************************)
(* The priority the rules give is high or critical exactly for a fraud or  *)
(* access request, a high amount, and a medium one of a sensitive customer.*)
(***************************************************************************)
LEMMA PriorityRaised ==
  ASSUME NEW category \in RequestCategory, NEW flags,
         category = "fraud_risk" <=> "fraud_or_security_signal" \in flags
  PROVE  LET priority == PriorityOf(category, flags) IN
         /\ priority \in Priority
         /\ priority \in {"high", "critical"} <=>
              \/ category \in {"fraud_risk", "access"}
              \/ "high_amount_at_risk" \in flags
              \/ category \in {"billing", "data_quality"} /\ "sensitive_customer" \in flags
BY DEF PriorityOf, RiskPriority, CategoryPriority, RequestCategory, Priority

-----------------------------------------------------------------------------
(***************************************************************************)
(* Where a call is says what came back and what was made of it: the rules' *)
(* result for the mock provider and, marked, for a fallback; the model's   *)
(* own, coerced; or the exception of a failure.  This is inductive, and    *)
(* the properties about results follow from it with the lemmas about the   *)
(* rules.                                                                  *)
(***************************************************************************)
Failed == [kind : {"faulty"}, defects : SUBSET Defects]

Answered == [kind : {"triage"}, data : ModelTriage]

ByRules == mode = "mock" /\ outcome = triage_request(payload)

ByModel ==
  mode # "mock" /\ reply \in Answered /\ outcome = coerce_triage_result(reply.data, payload)

ByFallback ==
  /\ mode = "fallback" /\ reply \in Failed
  /\ outcome = [triage_request(payload) EXCEPT !.risk_flags = @ \cup {"llm_fallback_used"}]

Raised ==
  /\ mode # "mock" /\ reply \in Failed
  /\ IF outcome = "TriageProviderError" THEN mode = "openai"
                                        ELSE Noticed(reply.defects) \cap Escaping # {}

TInv ==
  /\ mode \in {"mock", "openai", "fallback"}
  /\ payload.amount \in Nat
  /\ stage \in {"start", "replied", "failed", "returned", "raised"}
  /\ stage = "start" => reply = Pending
  /\ stage = "replied" => mode # "mock" /\ reply \in Answered
  /\ stage = "failed" => mode # "mock" /\ reply \in Failed
  /\ stage = "returned" => (ByRules /\ reply = Pending) \/ ByModel \/ ByFallback
  /\ stage = "raised" => Raised

(***************************************************************************)
(* A call starts with nothing back from the model.                         *)
(***************************************************************************)
LEMMA TInvStart == Init => TInv
<1> SUFFICES ASSUME Init PROVE TInv
  OBVIOUS
<1>1. mode \in {"mock", "openai", "fallback"}
  BY ProviderAssumption DEF Init
<1>2. payload.amount \in Nat
  BY ProviderAssumption DEF Init, Payload
<1> QED
  BY <1>1, <1>2 DEF Init, TInv

(***************************************************************************)
(* Of what can be wrong with a reply, only what Escaping names is made     *)
(* another exception than the one that is caught.                          *)
(***************************************************************************)
LEMMA OthersExpected ==
  ASSUME NEW defect, Exception(defect) # "TriageProviderError"
  PROVE  defect \in Escaping
BY DEF Exception, Escaping

(***************************************************************************)
(* Each step makes of the reply what the next stage says of it.            *)
(***************************************************************************)
LEMMA TInvStep == TInv /\ [Next]_vars => TInv'
<1> SUFFICES ASSUME TInv, [Next]_vars PROVE TInv'
  OBVIOUS
<1>1. CASE UseRules
  <2>1. /\ stage' = "returned" /\ UNCHANGED <<mode, payload, reply>>
        /\ stage = "start" /\ mode = "mock" /\ outcome' = triage_request(payload)
    BY <1>1 DEF UseRules, Return
  <2>2. (ByRules /\ reply = Pending)'
    BY <2>1 DEF TInv, ByRules
  <2> QED
    BY <2>1, <2>2 DEF TInv
<1>2. CASE ModelAnswers
  <2>1. PICK data \in ModelTriage : reply' = [kind |-> "triage", data |-> data]
    BY <1>2 DEF ModelAnswers
  <2>2. reply' \in Answered
    BY <2>1 DEF Answered
  <2> QED
    BY <1>2, <2>2 DEF ModelAnswers, TInv
<1>3. CASE ModelFails
  <2>1. PICK one, other \in Defects : reply' = [kind |-> "faulty", defects |-> {one, other}]
    BY <1>3 DEF ModelFails
  <2>2. {one, other} \in SUBSET Defects
    OBVIOUS
  <2>3. reply' \in Failed
    BY <2>1, <2>2 DEF Failed
  <2> QED
    BY <1>3, <2>3 DEF ModelFails, TInv
<1>4. CASE UseReply
  <2>1. /\ stage' = "returned" /\ UNCHANGED <<mode, payload, reply>>
        /\ stage = "replied" /\ outcome' = coerce_triage_result(reply.data, payload)
    BY <1>4 DEF UseReply, Return
  <2>2. ByModel'
    BY <2>1 DEF TInv, ByModel
  <2> QED
    BY <2>1, <2>2 DEF TInv
<1>5. CASE HandleFailure
  <2>1. stage = "failed" /\ mode # "mock" /\ reply \in Failed
    BY <1>5 DEF HandleFailure, TInv
  <2>2. UNCHANGED <<mode, payload, reply>>
    BY <1>5 DEF HandleFailure, Return, Raise
  <2>3. PICK defect \in Noticed(reply.defects) :
          \/ /\ mode = "openai" \/ Exception(defect) # "TriageProviderError"
             /\ Raise(Exception(defect))
          \/ /\ mode = "fallback" /\ Exception(defect) = "TriageProviderError"
             /\ Return([triage_request(payload) EXCEPT
                          !.risk_flags = @ \cup {"llm_fallback_used"}])
    BY <1>5 DEF HandleFailure
  <2>4. CASE /\ mode = "openai" \/ Exception(defect) # "TriageProviderError"
             /\ Raise(Exception(defect))
    <3>1. stage' = "raised" /\ outcome' = Exception(defect)
      BY <2>4 DEF Raise
    <3>2. outcome' # "TriageProviderError" => Noticed(reply.defects) \cap Escaping # {}
      BY <3>1, OthersExpected
    <3>3. Raised'
      BY <2>1, <2>2, <2>4, <3>1, <3>2 DEF Raised
    <3> QED
      BY <2>2, <3>1, <3>3 DEF TInv
  <2>5. CASE /\ mode = "fallback"
             /\ Return([triage_request(payload) EXCEPT
                          !.risk_flags = @ \cup {"llm_fallback_used"}])
    <3>1. /\ stage' = "returned"
          /\ outcome' = [triage_request(payload) EXCEPT
                           !.risk_flags = @ \cup {"llm_fallback_used"}]
      BY <2>5 DEF Return
    <3>2. ByFallback'
      BY <2>1, <2>2, <2>5, <3>1 DEF ByFallback
    <3> QED
      BY <2>2, <3>1, <3>2 DEF TInv
  <2> QED
    BY <2>3, <2>4, <2>5
<1>6. CASE UNCHANGED vars
  BY <1>6 DEF vars, TInv, ByRules, ByModel, ByFallback, Raised
<1> QED
  BY <1>1, <1>2, <1>3, <1>4, <1>5, <1>6 DEF Next

(***************************************************************************)
(* The invariant holds of every call.                                      *)
(***************************************************************************)
LEMMA TInvHolds == Spec => []TInv
BY TInvStart, TInvStep, PTL DEF Spec

-----------------------------------------------------------------------------
(***************************************************************************)
(* What the rules decide, whatever the text, the amount and the tier: they *)
(* ask for a review of everything that is not Harmless and of nothing that *)
(* is, and their result is one the API can serve.                          *)
(***************************************************************************)
LEMMA RulesReview ==
  ASSUME NEW p, p.amount \in Nat
  PROVE  triage_request(p).requires_human_review <=> ~Harmless(p)
<1> DEFINE category == infer_category(p.text)
           flags == RiskFlags(p, category)
           priority == PriorityOf(category, flags)
           confidence == Confidence(category, flags)
<1>1. triage_request(p).requires_human_review = NeedsReview(priority, confidence, flags)
  BY DEF triage_request
<1>2. category \in RequestCategory
  BY CategoryType
<1>3. /\ "high_amount_at_risk" \in flags <=> p.amount >= 1000
      /\ "sensitive_customer" \in flags <=> p.tier \in SensitiveTiers
      /\ "fraud_or_security_signal" \in flags <=> category = "fraud_risk"
      /\ "destructive_action_requested" \in flags <=> p.text \cap DestructiveTerms # {}
  BY FlagsRaised
<1>4. confidence < 75 <=> category = "general"
  BY ConfidenceBar
<1> HIDE DEF confidence, flags, category
<1>5. priority \in {"high", "critical"} <=>
        \/ category \in {"fraud_risk", "access"}
        \/ "high_amount_at_risk" \in flags
        \/ category \in {"billing", "data_quality"} /\ "sensitive_customer" \in flags
  BY <1>2, <1>3, PriorityRaised
<1> HIDE DEF priority
<1>6. NeedsReview(priority, confidence, flags) <=>
        \/ priority \in {"high", "critical"} \/ category = "general"
        \/ "destructive_action_requested" \in flags \/ "sensitive_customer" \in flags
  BY <1>4 DEF NeedsReview
<1>7. NeedsReview(priority, confidence, flags) <=>
        \/ category \in {"fraud_risk", "access", "general"}
        \/ "high_amount_at_risk" \in flags
        \/ "destructive_action_requested" \in flags \/ "sensitive_customer" \in flags
  BY <1>5, <1>6
<1>8. Harmless(p) <=>
        /\ category \in {"billing", "data_quality", "customer_support"}
        /\ "high_amount_at_risk" \notin flags
        /\ "sensitive_customer" \notin flags /\ "destructive_action_requested" \notin flags
  BY <1>3 DEF Harmless, category
<1> QED
  BY <1>1, <1>2, <1>7, <1>8 DEF RequestCategory

(***************************************************************************)
(* A result of the rules is within the response model's bounds.            *)
(***************************************************************************)
LEMMA RulesServe ==
  ASSUME NEW p
  PROVE  LET result == triage_request(p) IN
         /\ result.category \in RequestCategory /\ result.priority \in Priority
         /\ result.confidence \in 0..100
         /\ IsFiniteSet(result.risk_flags) /\ Cardinality(result.risk_flags) \in Nat
         /\ Cardinality(result.risk_flags) <= 6
<1> DEFINE category == infer_category(p.text)
           flags == RiskFlags(p, category)
<1>1. category \in RequestCategory
  BY CategoryType
<1>2. Confidence(category, flags) \in 0..100
  BY ConfidenceBar
<1>3. /\ IsFiniteSet(flags) /\ Cardinality(flags) \in Nat
      /\ Cardinality(flags) <= 6
  BY FlagsFew
<1>4. PriorityOf(category, flags) \in Priority
  BY <1>1 DEF PriorityOf, RiskPriority, CategoryPriority, Priority
<1> QED
  BY <1>1, <1>2, <1>3, <1>4 DEF triage_request

(***************************************************************************)
(* The coerced result of a model: its category, priority and flags are the *)
(* model's, of these ten at most, and its confidence is a percentage.      *)
(***************************************************************************)
LEMMA ModelServes ==
  ASSUME NEW data \in ModelTriage, NEW p
  PROVE  LET result == coerce_triage_result(data, p) IN
         /\ result.category \in RequestCategory /\ result.priority \in Priority
         /\ result.confidence \in 0..100
         /\ Cardinality(result.risk_flags) <= 10
<1> DEFINE result == coerce_triage_result(data, p)
<1>1. /\ data.category \in RequestCategory /\ data.priority \in Priority
      /\ data.confidence \in Int /\ data.risk_flags \subseteq ReadFlags \cup OtherFlags
  BY DEF ModelTriage
<1>2. /\ result.category = data.category /\ result.priority = data.priority
      /\ result.confidence = IF data.confidence < 0 THEN 0 ELSE Least(data.confidence, 100)
      /\ result.risk_flags = data.risk_flags
  BY DEF coerce_triage_result, ModelTriage
<1>3. result.confidence \in 0..100
  BY <1>1, <1>2 DEF Least
<1>4. Cardinality(result.risk_flags) <= 10
  BY <1>1, <1>2, ModelFlagsFew
<1> QED
  BY <1>1, <1>2, <1>3, <1>4

(***************************************************************************)
(* A coerced result asks for a review if the model or a rule does.         *)
(***************************************************************************)
LEMMA ModelReview ==
  ASSUME NEW data \in ModelTriage, NEW p
  PROVE  coerce_triage_result(data, p).requires_human_review <=>
           \/ data.requires_human_review
           \/ must_force_human_review(p, data.priority, data.risk_flags)
BY DEF coerce_triage_result, ModelTriage

-----------------------------------------------------------------------------
(***************************************************************************)
(* The rules let through, without a reviewer, the harmless requests and no *)
(* others: for every text, amount and tier, not only the checked ones.     *)
(***************************************************************************)
THEOREM RulesReviewed == Spec => []RulesReviewUnlessHarmless
<1>1. TInv => RulesReviewUnlessHarmless
  BY RulesReview DEF TInv, ByRules, ByModel, ByFallback, RulesReviewUnlessHarmless
<1> QED
  BY <1>1, TInvHolds, PTL

(***************************************************************************)
(* A request is given a category of which most of its terms are, and a tie *)
(* with fraud_risk goes to fraud_risk.                                     *)
(***************************************************************************)
THEOREM TiesToFraud == Spec => []FraudWinsTies
<1>1. TInv => FraudWinsTies
  <2> SUFFICES ASSUME TInv, stage = "returned", mode = "mock" PROVE FraudWinsTies
    BY DEF FraudWinsTies
  <2>1. outcome.category = infer_category(payload.text)
    BY DEF TInv, ByRules, ByModel, ByFallback, triage_request
  <2> DEFINE Matches(c) == Cardinality(KEYWORDS[c] \cap payload.text)
  <2>2. \A n \in 1..5 : Matches(KeywordOrder[n]) = Score(payload.text, n)
    BY DEF Score
  <2>3. \A n \in 1..5 : Score(payload.text, n) \in Nat
    BY ScoreType
  <2> HIDE DEF Matches
  <2>4. \A c \in DOMAIN KEYWORDS : \E n \in 1..5 : KeywordOrder[n] = c
    BY OrderCovers
  <2>5. CASE outcome.category = "general"
    <3>1. \A n \in 1..5 : KeywordOrder[n] # "general"
      BY OrderCovers
    <3>2. \A n \in 1..5 : Score(payload.text, n) = 0
      BY <2>1, <2>5, <3>1, InferredCategory
    <3>3. \A c \in DOMAIN KEYWORDS : Matches(c) = 0
      BY <2>2, <2>4, <3>2
    <3> QED
      BY <2>5, <3>3 DEF FraudWinsTies, Matches
  <2>6. CASE outcome.category # "general"
    <3>1. PICK n \in 1..5 :
            /\ outcome.category = KeywordOrder[n] /\ Score(payload.text, n) > 0
            /\ \A m \in 1..5 : /\ Score(payload.text, m) <= Score(payload.text, n)
                               /\ m < n => Score(payload.text, m) < Score(payload.text, n)
      BY <2>1, <2>6, InferredCategory
    <3>2. Matches(outcome.category) > 0
      BY <2>2, <3>1
    <3>3. \A c \in DOMAIN KEYWORDS : Matches(c) <= Matches(outcome.category)
      BY <2>2, <2>4, <3>1
    <3>4. ASSUME outcome.category # "fraud_risk"
          PROVE  Matches("fraud_risk") < Matches(outcome.category)
      <4>1. n # 1 /\ KeywordOrder[1] = "fraud_risk"
        BY <3>1, <3>4, OrderCovers
      <4>2. 1 \in 1..5 /\ 1 < n
        BY <4>1
      <4> QED
        BY <2>2, <3>1, <4>1, <4>2
    <3> QED
      BY <2>6, <3>2, <3>3, <3>4 DEF FraudWinsTies, Matches
  <2> QED
    BY <2>5, <2>6
<1> QED
  BY <1>1, TInvHolds, PTL

(***************************************************************************)
(* A review is forced, whatever the model answers, by its own wish, its    *)
(* priority or destructive flag, by the words for fraud and destruction,   *)
(* the amount and the tier: what else the rules would review, they would   *)
(* for the category that they infer.                                       *)
(***************************************************************************)
THEOREM OnlyCategoryWaived == Spec => []ModelWaivesOnlyCategory
<1>1. TInv => ModelWaivesOnlyCategory
  <2> SUFFICES ASSUME TInv, stage = "returned", reply.kind = "triage",
                      ~outcome.requires_human_review
               PROVE  /\ ~reply.data.requires_human_review
                      /\ outcome.priority \in {"low", "medium"}
                      /\ "destructive_change" \notin outcome.risk_flags
                      /\ payload.text \cap
                           ({"fraud", "fraude", "chargeback"} \cup DestructiveTerms) = {}
                      /\ payload.amount < 1000 /\ payload.tier \notin SensitiveTiers
                      /\ triage_request(payload).requires_human_review =>
                           infer_category(payload.text) \in {"fraud_risk", "access", "general"}
    BY DEF ModelWaivesOnlyCategory
  <2>1. ByModel
    BY DEF TInv, ByModel, ByFallback, Failed, Pending
  <2>2. /\ reply.data \in ModelTriage
        /\ outcome = coerce_triage_result(reply.data, payload)
    BY <2>1 DEF ByModel, Answered
  <2>3. /\ ~reply.data.requires_human_review
        /\ ~must_force_human_review(payload, reply.data.priority, reply.data.risk_flags)
    BY <2>2, ModelReview
  <2>4. /\ outcome.priority = reply.data.priority /\ reply.data.priority \in Priority
        /\ outcome.risk_flags = reply.data.risk_flags
    BY <2>2 DEF coerce_triage_result, ModelTriage
  <2>5. /\ reply.data.priority \notin {"high", "critical"}
        /\ ~(payload.amount >= 1000) /\ payload.tier \notin SensitiveTiers
        /\ payload.text \cap {"fraud", "fraude", "chargeback", "delete", "cancel", "cancelar"} = {}
        /\ "destructive_change" \notin reply.data.risk_flags
    BY <2>3 DEF must_force_human_review
  <2>6. payload.amount \in Nat
    BY DEF TInv
  <2>7. payload.amount < 1000 /\ payload.text \cap DestructiveTerms = {}
    BY <2>5, <2>6 DEF DestructiveTerms
  <2>8. ASSUME triage_request(payload).requires_human_review
        PROVE  infer_category(payload.text) \in {"fraud_risk", "access", "general"}
    <3>1. ~Harmless(payload)
      BY <2>6, <2>8, RulesReview
    <3>2. infer_category(payload.text) \notin {"billing", "data_quality", "customer_support"}
      BY <2>5, <2>7, <3>1 DEF Harmless
    <3> QED
      BY <3>2, CategoryType DEF RequestCategory
  <2> QED
    BY <2>3, <2>4, <2>5, <2>7, <2>8 DEF Priority, DestructiveTerms
<1> QED
  BY <1>1, TInvHolds, PTL

(***************************************************************************)
(* A faulty reply is answered as the rules would, marked, or is a 503      *)
(* where there is no fallback, unless what the code meets first in it is   *)
(* one of the four decoding errors that nobody catches.                    *)
(***************************************************************************)
THEOREM FallbackKept == Spec => []FailuresFallBack
<1>1. TInv => FailuresFallBack
  <2> SUFFICES ASSUME TInv, stage \in {"returned", "raised"}, reply.kind = "faulty"
               PROVE  FailuresFallBack
    BY DEF FailuresFallBack
  <2>1. CASE stage = "raised"
    BY <2>1 DEF TInv, Raised, FailuresFallBack
  <2>2. CASE stage = "returned"
    <3>1. ByFallback
      BY <2>2 DEF TInv, ByModel, Answered, Pending
    <3>2. /\ mode = "fallback"
          /\ "llm_fallback_used" \in outcome.risk_flags
          /\ outcome.requires_human_review = triage_request(payload).requires_human_review
      BY <3>1 DEF ByFallback, triage_request
    <3>3. triage_request(payload).requires_human_review <=> ~Harmless(payload)
      BY RulesReview DEF TInv
    <3>4. outcome.requires_human_review <=> ~Harmless(payload)
      BY <3>2, <3>3, Zenon
    <3> QED
      BY <2>2, <3>2, <3>4 DEF FailuresFallBack
  <2> QED
    BY <2>1, <2>2
<1> QED
  BY <1>1, TInvHolds, PTL

(***************************************************************************)
(* A result of the rules, of the model or of the fallback is one that the  *)
(* response model accepts.                                                 *)
(***************************************************************************)
THEOREM ResultsServed == Spec => []ResultCanBeServed
<1>1. TInv => ResultCanBeServed
  <2> SUFFICES ASSUME TInv, stage = "returned"
               PROVE  /\ outcome.category \in RequestCategory /\ outcome.priority \in Priority
                      /\ outcome.confidence \in 0..100
                      /\ Cardinality(outcome.risk_flags) <= 10
    BY DEF ResultCanBeServed
  <2>1. CASE ByRules
    <3>1. /\ outcome.category \in RequestCategory /\ outcome.priority \in Priority
          /\ outcome.confidence \in 0..100
          /\ Cardinality(outcome.risk_flags) \in Nat /\ Cardinality(outcome.risk_flags) <= 6
      BY <2>1, RulesServe DEF ByRules
    <3> QED
      BY <3>1
  <2>2. CASE ByModel
    BY <2>2, ModelServes DEF ByModel, Answered
  <2>3. CASE ByFallback
    <3> DEFINE result == triage_request(payload)
    <3>1. /\ result.category \in RequestCategory /\ result.priority \in Priority
          /\ result.confidence \in 0..100
          /\ IsFiniteSet(result.risk_flags) /\ Cardinality(result.risk_flags) \in Nat
          /\ Cardinality(result.risk_flags) <= 6
      BY RulesServe
    <3>2. /\ outcome.category = result.category /\ outcome.priority = result.priority
          /\ outcome.confidence = result.confidence
          /\ outcome.risk_flags = result.risk_flags \cup {"llm_fallback_used"}
      BY <2>3 DEF ByFallback, triage_request
    <3> HIDE DEF result
    <3>3. /\ IsFiniteSet(outcome.risk_flags)
          /\ Cardinality(outcome.risk_flags) <= 6 + 1
      <4>1. /\ IsFiniteSet(result.risk_flags \cup {"llm_fallback_used"})
            /\ Cardinality(result.risk_flags \cup {"llm_fallback_used"}) <= 6 + 1
        <5> DEFINE S == result.risk_flags
        <5>1. IsFiniteSet(S) /\ Cardinality(S) <= 6 /\ 6 \in Nat
          BY <3>1
        <5> HIDE DEF S
        <5>2. /\ IsFiniteSet(S \cup {"llm_fallback_used"})
              /\ Cardinality(S \cup {"llm_fallback_used"}) <= 6 + 1
          BY <5>1, OneMore
        <5> QED
          BY <5>2 DEF S
      <4> QED
        BY <3>2, <4>1
    <3>4. Cardinality(outcome.risk_flags) \in Nat
      BY <3>3, FS_CardinalityType
    <3> QED
      BY <3>1, <3>2, <3>3, <3>4
  <2> QED
    BY <2>1, <2>2, <2>3 DEF TInv
<1> QED
  BY <1>1, TInvHolds, PTL

=============================================================================
