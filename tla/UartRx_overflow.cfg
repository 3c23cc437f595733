SPECIFICATION Spec
CONSTANTS
  Size = 3
  MaxArrivals = 7
  MaxNested = 2
INVARIANTS OverflowLosesOne
