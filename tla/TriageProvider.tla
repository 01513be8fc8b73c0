--------------------------- MODULE TriageProvider ---------------------------
(***************************************************************************)
(* provider.triage (llm.py): one call of the provider that settings chose  *)
(* - the rules alone ("mock"), the OpenAI model ("openai"), or the model   *)
(* with the rules to fall back on ("fallback").  The model may answer      *)
(* anything: the replies below are the ways in which llm.py and the        *)
(* decoders it calls tell one answer from another.                         *)
(***************************************************************************)
EXTENDS DeterministicTriage

CONSTANTS
  Modes,            \* the provider modes to check
  Vocabulary,       \* the words a request may be made of
  ModelVocabulary,  \* the words of a request that goes to the model
  MaxWords,         \* bound on the words of one request
  Amounts,          \* amounts at risk, in currency units
  Tiers             \* customer tiers, lower-cased

ASSUME ProviderAssumption ==
  /\ Modes \subseteq {"mock", "openai", "fallback"}
  /\ Vocabulary \cup ModelVocabulary \subseteq Terms
  /\ MaxWords \in Nat
  /\ Amounts \subseteq Nat

VARIABLES
  mode,        \* which provider build_triage_provider made
  payload,     \* the request
  stage,       \* where the call is
  reply,       \* what came back from the model
  outcome      \* what the provider returned or raised

vars == <<mode, payload, stage, reply, outcome>>

-----------------------------------------------------------------------------
Payload(vocabulary) ==
  [text : {TextOf(words) : words \in {w \in SUBSET vocabulary : Cardinality(w) <= MaxWords}},
   amount : Amounts,
   tier : Tiers]

(***************************************************************************)
(* What can be wrong with a call of the model, in the order in which the   *)
(* code meets it: with the exchange, the text in its body, and the object  *)
(* in the text.  What json.loads trips over first is a matter of where it  *)
(* stands in the text.                                                     *)
(***************************************************************************)
Exchange == <<{"no api key"}, {"HTTP error"}, {"body is not JSON", "body nested too deep"},
              {"body is not an object"}>>

Text == <<{"output is not a list"}, {"no output text"},
          {"text is not JSON", "text nested too deep", "text has too long an integer"},
          {"text is not an object"}>>

Schema == <<{"category missing or unknown"}, {"priority missing or unknown"},
            {"confidence missing or not a number", "confidence overflows"},
            {"another field missing"}, {"review flag is not a boolean"},
            {"suggested action of a wrong length"}, {"rationale of a wrong length"},
            {"risk flags too many or of a wrong length"}>>

Checks == Exchange \o Text \o Schema

Defects == UNION {Checks[n] : n \in DOMAIN Checks}

Noticed(defects) ==
  {defect \in defects : \E n \in DOMAIN Checks :
     defect \in Checks[n] /\ \A m \in 1..(n - 1) : defects \cap Checks[m] = {}}

(* Fault: the coercion relies on the schema that the model was given. *)
ExceptionUnchecked(defect) ==
  CASE defect = "confidence overflows" -> "OverflowError"
    [] defect \in {"body nested too deep", "text nested too deep"} -> "RecursionError"
    [] defect = "text has too long an integer" -> "ValueError"
    [] defect = "category missing or unknown" -> "KeyError"
    [] OTHER -> "TriageProviderError"

(***************************************************************************)
(* What a defect is made.  Four are not expected: JSON may be nested too   *)
(* deep to decode, int() takes at most 4300 digits (of which the text's    *)
(* decoder is not forgiven the ValueError, the body's is), and an integer  *)
(* that it takes may be too large for a float.                             *)
(***************************************************************************)
Exception(defect) ==
  CASE defect = "confidence overflows" -> "OverflowError"
    [] defect \in {"body nested too deep", "text nested too deep"} -> "RecursionError"
    [] defect = "text has too long an integer" -> "ValueError"
    [] OTHER -> "TriageProviderError"

(***************************************************************************)
(* An object without a defect: the confidence is any number; of the flags, *)
(* ten at most, it matters which the rules read and how many there are.    *)
(***************************************************************************)
ReadFlags == {"destructive_change", "fraud_or_security_signal", "sensitive_customer"}

OtherFlags == {"flag 1", "flag 2", "flag 3", "flag 4", "flag 5", "flag 6", "flag 7"}

ModelTriage ==
  [category : RequestCategory, priority : Priority, confidence : {-50, 0, 87, 150},
   requires_human_review : BOOLEAN,
   risk_flags : (SUBSET ReadFlags) \cup {flags \cup OtherFlags : flags \in SUBSET ReadFlags}]

Pending == [kind |-> "none"]

-----------------------------------------------------------------------------
(* Fault: that the text names fraud is left to the priority. *)
ForceWithoutFraud(p, priority, flags) ==
  \/ priority \in {"high", "critical"}
  \/ p.amount >= 1000
  \/ p.tier \in SensitiveTiers
  \/ p.text \cap {"delete", "cancel", "cancelar"} # {}
  \/ "destructive_change" \in flags

must_force_human_review(p, priority, flags) ==
  \/ priority \in {"high", "critical"}
  \/ p.amount >= 1000
  \/ p.tier \in SensitiveTiers
  \/ p.text \cap {"fraud", "fraude", "chargeback", "delete", "cancel", "cancelar"} # {}
  \/ "destructive_change" \in flags    \* "destructive" occurs in a flag

(* Fault: a confidence above one is not cut. *)
CoerceUnclamped(data, p) ==
  [data EXCEPT
     !.confidence = IF @ < 0 THEN 0 ELSE @,
     !.requires_human_review =
        @ \/ must_force_human_review(p, data.priority, data.risk_flags)]

coerce_triage_result(data, p) ==
  [data EXCEPT
     !.confidence = IF @ < 0 THEN 0 ELSE Least(@, 100),
     !.requires_human_review =
        @ \/ must_force_human_review(p, data.priority, data.risk_flags)]

-----------------------------------------------------------------------------
Init ==
  /\ mode \in Modes
  /\ payload \in Payload(IF mode = "mock" THEN Vocabulary ELSE ModelVocabulary)
  /\ stage = "start"
  /\ reply = Pending
  /\ outcome = Pending

Return(result) ==
  outcome' = result /\ stage' = "returned" /\ UNCHANGED <<mode, payload, reply>>

Raise(error) ==
  outcome' = error /\ stage' = "raised" /\ UNCHANGED <<mode, payload, reply>>

UseRules ==
  /\ stage = "start" /\ mode = "mock"
  /\ Return(triage_request(payload))

ModelAnswers ==
  /\ stage = "start" /\ mode # "mock"
  /\ \E data \in ModelTriage : reply' = [kind |-> "triage", data |-> data]
  /\ stage' = "replied"
  /\ UNCHANGED <<mode, payload, outcome>>

(***************************************************************************)
(* Two defects at a time, or one, tell the order of the checks; a defect   *)
(* hides those behind it.                                                  *)
(***************************************************************************)
ModelFails ==
  /\ stage = "start" /\ mode # "mock"
  /\ \E one, other \in Defects : reply' = [kind |-> "faulty", defects |-> {one, other}]
  /\ stage' = "failed"
  /\ UNCHANGED <<mode, payload, outcome>>

UseReply ==
  /\ stage = "replied"
  /\ Return(coerce_triage_result(reply.data, payload))

HandleFailure ==
  /\ stage = "failed"
  /\ \E defect \in Noticed(reply.defects) :
       \/ /\ mode = "openai" \/ Exception(defect) # "TriageProviderError"
          /\ Raise(Exception(defect))
       \/ /\ mode = "fallback" /\ Exception(defect) = "TriageProviderError"
          /\ Return([triage_request(payload) EXCEPT
                       !.risk_flags = @ \cup {"llm_fallback_used"}])

Next == UseRules \/ ModelAnswers \/ ModelFails \/ UseReply \/ HandleFailure

Spec == Init /\ [][Next]_vars

-----------------------------------------------------------------------------
(***************************************************************************)
(* Properties                                                              *)
(***************************************************************************)

(***************************************************************************)
(* What the rules let through without a reviewer, in closed form, although *)
(* the code reaches it over scores, flags, priorities and a confidence: a  *)
(* billing, data or support request below the high amount, of an ordinary  *)
(* customer, that asks for nothing destructive - and those always.         *)
(***************************************************************************)
Harmless(p) ==
  /\ infer_category(p.text) \in {"billing", "data_quality", "customer_support"}
  /\ p.amount < 1000
  /\ p.tier \notin SensitiveTiers
  /\ p.text \cap DestructiveTerms = {}

RulesReviewUnlessHarmless ==
  mode = "mock" /\ stage = "returned" =>
    (outcome.requires_human_review <=> ~Harmless(payload))

(***************************************************************************)
(* The first of two equally matched categories in the dictionary's order   *)
(* is taken, so that a request as much about fraud as about anything else  *)
(* is a fraud request: no category has a higher score than the one taken,  *)
(* and fraud_risk has a lower one unless it is taken itself.               *)
(***************************************************************************)
FraudWinsTies ==
  stage = "returned" /\ mode = "mock" =>
    LET Matches(c) == Cardinality(KEYWORDS[c] \cap payload.text) IN
    /\ outcome.category = "general" => \A c \in DOMAIN KEYWORDS : Matches(c) = 0
    /\ outcome.category # "general" =>
         /\ Matches(outcome.category) > 0
         /\ \A c \in DOMAIN KEYWORDS : Matches(c) <= Matches(outcome.category)
         /\ outcome.category # "fraud_risk" =>
              Matches("fraud_risk") < Matches(outcome.category)

(***************************************************************************)
(* All that a model can waive is a review for the category that the rules  *)
(* infer: if the model wants a reviewer, gives a high priority or names    *)
(* something destructive, or the text names fraud or something             *)
(* destructive, or the amount or the tier is one that must be reviewed,    *)
(* there is a review.                                                      *)
(***************************************************************************)
ModelWaivesOnlyCategory ==
  stage = "returned" /\ reply.kind = "triage" /\ ~outcome.requires_human_review =>
    /\ ~reply.data.requires_human_review
    /\ outcome.priority \in {"low", "medium"}
    /\ "destructive_change" \notin outcome.risk_flags
    /\ payload.text \cap ({"fraud", "fraude", "chargeback"} \cup DestructiveTerms) = {}
    /\ payload.amount < 1000 /\ payload.tier \notin SensitiveTiers
    /\ triage_request(payload).requires_human_review =>
         infer_category(payload.text) \in {"fraud_risk", "access", "general"}

(* What json.loads and float() raise something unexpected for. *)
Escaping == {"body nested too deep", "text nested too deep", "text has too long an integer",
             "confidence overflows"}

(***************************************************************************)
(* Whatever is wrong with a reply, a call of the fallback provider fails   *)
(* only if the first defect that the code meets is one that a decoder or   *)
(* float() raises something unexpected for; any other reply without a      *)
(* usable result is answered as the rules would, and says so.  Without the *)
(* fallback it is the TriageProviderError that the handler makes a 503.    *)
(***************************************************************************)
FailuresFallBack ==
  stage \in {"returned", "raised"} /\ reply.kind = "faulty" =>
    /\ stage = "returned" => /\ mode = "fallback"
                             /\ outcome.requires_human_review <=> ~Harmless(payload)
                             /\ "llm_fallback_used" \in outcome.risk_flags
    /\ stage = "raised" =>
         IF outcome = "TriageProviderError" THEN mode = "openai"
                                            ELSE Noticed(reply.defects) \cap Escaping # {}

(***************************************************************************)
(* Whatever is returned, its category, priority, confidence and number of  *)
(* flags are such as the response model of the API serves; a result it     *)
(* refuses would be stored and then fail every read.                       *)
(***************************************************************************)
ResultCanBeServed ==
  stage = "returned" =>
    /\ outcome.category \in RequestCategory /\ outcome.priority \in Priority
    /\ outcome.confidence \in 0..100
    /\ Cardinality(outcome.risk_flags) <= 10

(***************************************************************************)
(* docs/architecture.md: fraud signals always require human review.        *)
(***************************************************************************)
FraudSignalsReviewed ==
  stage = "returned" /\ "fraud" \in payload.text => outcome.requires_human_review

(***************************************************************************)
(* docs/architecture.md: model output cannot bypass deterministic review   *)
(* rules, of which the fraud signal is one.                                *)
(***************************************************************************)
SignalNotBypassed ==
  stage = "returned" /\ reply.kind = "triage"
    /\ "fraud_or_security_signal" \in triage_request(payload).risk_flags =>
      outcome.requires_human_review

(***************************************************************************)
(* README: deterministic fallback when the LLM provider is unavailable.    *)
(***************************************************************************)
FallbackAnswers == mode = "fallback" => stage # "raised"

=============================================================================
