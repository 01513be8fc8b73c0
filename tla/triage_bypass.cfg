\* A call ends with its result or its exception.
SPECIFICATION Spec
CONSTANTS
  Modes = {"openai"}
  Vocabulary = {"suspicious", "login"}
  ModelVocabulary = {"suspicious", "login"}
  MaxWords = 2
  Amounts = {100}
  Tiers = {"standard"}
CHECK_DEADLOCK FALSE
INVARIANTS
  SignalNotBypassed
