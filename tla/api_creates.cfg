SPECIFICATION Spec
CONSTANTS
  Threads = {t1, t2, t3}
  Ids = {i1, i2}
  Keys = {k1}
  Payloads = {p1, p2}
  Categories = {billing}
  Reviewers = {r1}
  NoKey = NoKey
  NoPrint = NoPrint
  NoRow = NoRow
  Nobody = Nobody
  NoId = NoId
  NoCall = NoCall
  NoTriage = NoTriage
  NoAnswer = NoAnswer
  MaxDecisions = 0
  MaxClock = 0
SYMMETRY Symmetry
INVARIANTS
  KeysUnique
  CreateAnswers
