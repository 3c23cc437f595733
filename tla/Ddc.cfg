SPECIFICATION Spec
CONSTANTS
  a = a
  b = b
  m1 = m1
  m2 = m2
  m3 = m3
  Station = {a, b}
  Msg = {m1, m2, m3}
  NeedsAck = {m1, m2}
  Source <- MCSource
  Timeout = 2
  MaxId = 3
  LinkCap = 2
INVARIANTS TypeOK WaitsOnce
PROPERTIES IsAtLeastOnce
