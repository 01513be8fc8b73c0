SPECIFICATION Spec
CONSTANTS
  Threads = {t1, t2}
  Ids = {i1, i2}
  Keys = {k1}
  Payloads = {p1, p2}
  NoKey = NoKey
  NoPrint = NoPrint
  NoRow = NoRow
  Nobody = Nobody
  NoCall = NoCall
  NoAnswer = NoAnswer
  MaxFaults = 1
INVARIANTS
  ReadyMeansMigrated
  FileSound
  KeysBound
PROPERTIES
  OnlyAdds
  ComesUp
