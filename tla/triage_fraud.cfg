\* A call ends with its result or its exception.
SPECIFICATION Spec
CONSTANTS
  Modes = {"mock"}
  Vocabulary = {"fraud", "payment", "invoice"}
  ModelVocabulary = {"payment"}
  MaxWords = 3
  Amounts = {100}
  Tiers = {"standard"}
CHECK_DEADLOCK FALSE
INVARIANTS
  FraudSignalsReviewed
