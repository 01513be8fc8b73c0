SPECIFICATION MCSpec
CONSTANTS
  Ids = {i1, i2}
  Keys = {k1}
  Payloads = {p1}
  Categories = {billing}
  Reviewers = {r1}
  NoKey = NoKey
  NoEntry = NoEntry
  Readers = {reader}
  NoRows = NoRows
  NoMetrics = NoMetrics
  MaxHistory = 5
INVARIANTS
  LedgerTypeOK
  HistoryExplainsStatus
  FinalClosesHistory
  MetricsAgree
PROPERTIES
  FinalCountsNeverFall
