SPECIFICATION Spec
CONSTANTS
  a = a
  b = b
  ff = ff
  Pages = 2
  PageSize = 4
  Erased = ff
  Data = {a, b}
  Lengths = {1, 2, 4, 6}
  Buffers <- MCBuffers
  MaxCalls = 3
INVARIANTS TypeOK OthersKept StoredAsAsked
