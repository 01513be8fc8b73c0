\* A call ends with its result or its exception.
SPECIFICATION Spec
CONSTANTS
  Modes = {"mock", "openai", "fallback"}
  Vocabulary = {"fraude", "risk", "login", "account takeover", "payment", "invoice", "access", "csv", "schema", "customer", "support", "urgente", "delete", "cancelar"}
  ModelVocabulary = {"fraude", "login", "payment", "cancelar"}
  MaxWords = 4
  Amounts = {0, 299, 300, 999, 1000}
  Tiers = {"standard", "vip"}
CHECK_DEADLOCK FALSE
INVARIANTS
  RulesReviewUnlessHarmless
  FraudWinsTies
  ModelWaivesOnlyCategory
  FailuresFallBack
  ResultCanBeServed
