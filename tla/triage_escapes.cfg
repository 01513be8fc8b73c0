\* A call ends with its result or its exception.
SPECIFICATION Spec
CONSTANTS
  Modes = {"fallback"}
  Vocabulary = {"payment"}
  ModelVocabulary = {"payment"}
  MaxWords = 1
  Amounts = {100}
  Tiers = {"standard"}
CHECK_DEADLOCK FALSE
INVARIANTS
  FallbackAnswers
