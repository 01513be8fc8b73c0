------------------------ MODULE DeterministicTriage ------------------------
(***************************************************************************)
(* triage_request (domain.py): the rules that classify a request without a *)
(* model.  A text is the set of the terms that occur in it, the only thing *)
(* the rules ask of a title and a description; confidences are hundredths. *)
(***************************************************************************)
EXTENDS Integers, FiniteSets, Sequences

RequestCategory ==
  {"billing", "fraud_risk", "access", "data_quality", "customer_support", "general"}

Priority == {"low", "medium", "high", "critical"}

KEYWORDS ==
  [fraud_risk |->
     {"fraud", "fraude", "chargeback", "suspicious", "suspeito", "risk", "risco",
      "login", "account takeover"},
   billing |->
     {"payment", "pagamento", "invoice", "nota", "billing", "cobranca", "refund",
      "reembolso"},
   access |->
     {"access", "acesso", "password", "senha", "login", "permission", "permissao"},
   data_quality |->
     {"duplicate", "duplicado", "inconsistent", "inconsistente", "missing data",
      "dados", "schema", "csv"},
   customer_support |->
     {"customer", "cliente", "support", "suporte", "complaint", "reclamacao"}]

(* The order of the dictionary, which decides between equal scores. *)
KeywordOrder == <<"fraud_risk", "billing", "access", "data_quality", "customer_support">>

UrgencyTerms == {"urgent", "urgente", "blocked", "bloqueado"}

DestructiveTerms == {"delete", "cancel", "cancelar"}

SensitiveTiers == {"enterprise", "vip", "strategic"}

Terms == UNION {KEYWORDS[c] : c \in DOMAIN KEYWORDS} \cup UrgencyTerms \cup DestructiveTerms

(***************************************************************************)
(* A text in which a term occurs has every term inside that term, too.     *)
(***************************************************************************)
Inside ==
  [fraude |-> "fraud", inconsistente |-> "inconsistent", urgente |-> "urgent",
   cancelar |-> "cancel"]

TextOf(words) == words \cup {Inside[word] : word \in words \cap DOMAIN Inside}

-----------------------------------------------------------------------------
Score(text, n) == Cardinality(KEYWORDS[KeywordOrder[n]] \cap text)

(* Fault: of equal scores the last category wins. *)
InferLastCategory(text) ==
  LET best == {n \in DOMAIN KeywordOrder :
                 \A m \in DOMAIN KeywordOrder : Score(text, m) <= Score(text, n)}
      last == CHOOSE n \in best : \A m \in best : n >= m
  IN  IF Score(text, last) = 0 THEN "general" ELSE KeywordOrder[last]

infer_category(text) ==
  LET best == {n \in DOMAIN KeywordOrder :
                 \A m \in DOMAIN KeywordOrder : Score(text, m) <= Score(text, n)}
      first == CHOOSE n \in best : \A m \in best : n <= m
  IN  IF Score(text, first) = 0 THEN "general" ELSE KeywordOrder[first]

RiskFlags(payload, category) ==
  {flag \in {"high_amount_at_risk", "medium_amount_at_risk", "sensitive_customer",
             "urgency_signal", "fraud_or_security_signal",
             "destructive_action_requested"} :
     CASE flag = "high_amount_at_risk"          -> payload.amount >= 1000
       [] flag = "medium_amount_at_risk"        -> 300 <= payload.amount /\ payload.amount < 1000
       [] flag = "sensitive_customer"           -> payload.tier \in SensitiveTiers
       [] flag = "urgency_signal"               -> payload.text \cap UrgencyTerms # {}
       [] flag = "fraud_or_security_signal"     -> category = "fraud_risk"
       [] flag = "destructive_action_requested" -> payload.text \cap DestructiveTerms # {}}

(***************************************************************************)
(* The category sets a priority; a high amount or a fraud signal replaces  *)
(* it; then a sensitive customer and an urgency signal each raise one.     *)
(***************************************************************************)
CategoryPriority(category) ==
  CASE category \in {"fraud_risk", "access"}    -> "high"
    [] category \in {"billing", "data_quality"} -> "medium"
    [] OTHER                                    -> "low"

RiskPriority(category, flags) ==
  IF flags \cap {"high_amount_at_risk", "fraud_or_security_signal"} = {}
  THEN CategoryPriority(category)
  ELSE IF "destructive_action_requested" \in flags THEN "critical" ELSE "high"

PriorityOf(category, flags) ==
  LET priority == RiskPriority(category, flags) IN
  CASE priority = "medium" /\ "sensitive_customer" \in flags -> "high"
    [] priority = "low" /\ "urgency_signal" \in flags        -> "medium"
    [] OTHER                                                 -> priority

Least(a, b) == IF a <= b THEN a ELSE b

Confidence(category, flags) ==
  Least(62 + (IF category = "general" THEN 0 ELSE 18) + Least(4 * Cardinality(flags), 12), 94)

(* Fault: a sensitive customer is left to the priority. *)
NeedsReviewByPriority(priority, confidence, flags) ==
  \/ priority \in {"high", "critical"}
  \/ confidence < 75
  \/ "destructive_action_requested" \in flags

NeedsReview(priority, confidence, flags) ==
  \/ priority \in {"high", "critical"}
  \/ confidence < 75
  \/ flags \cap {"destructive_action_requested", "sensitive_customer"} # {}

triage_request(payload) ==
  LET category   == infer_category(payload.text)
      flags      == RiskFlags(payload, category)
      priority   == PriorityOf(category, flags)
      confidence == Confidence(category, flags)
  IN  [category              |-> category,
       priority              |-> priority,
       confidence            |-> confidence,
       requires_human_review |-> NeedsReview(priority, confidence, flags),
       risk_flags            |-> flags]

=============================================================================
