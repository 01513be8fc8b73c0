SPECIFICATION FairSpec
CONSTANTS
  Threads = {t1, t2}
  Ids = {i1}
  Keys = {}
  Payloads = {p1}
  Categories = {billing}
  Reviewers = {r1}
  NoKey = NoKey
  NoPrint = NoPrint
  NoRow = NoRow
  Nobody = Nobody
  NoId = NoId
  NoCall = NoCall
  NoTriage = NoTriage
  NoAnswer = NoAnswer
  MaxDecisions = 2
  MaxClock = 1
INVARIANTS
  TypeOK
  OneTransaction
  Holding
  DecideAnswers
  AuditExplainsStatus
  FinalClosesHistory
  DecisionsMirrored
  AuditInOrder
PROPERTIES
  RequestsKeep
  ImplementsLedger
  LockReleased
  CallsAnswered
