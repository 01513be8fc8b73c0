\* Clients stop sending, and the ledger has no decisions here.
SPECIFICATION FlowSpec
CONSTANTS
  Ids = {i1, i2, i3}
  Keys = {1, 2, 3, own}
  Payloads = {p1, p2}
  Categories = {billing}
  Reviewers = {r1}
  NoKey = NoKey
  NoEntry = NoEntry
  Clients = {c1, c2}
  NoClient = NoClient
  NoAnswer = NoAnswer
  MaxExecutions = 3
  MaxAttempts = 2
  MaxLosses = 1
CHECK_DEADLOCK FALSE
INVARIANTS
  AnsweredWithOwnPayload
  KeyedSubmittedOnce
  KeylessNotSwallowed
