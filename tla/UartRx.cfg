SPECIFICATION Spec
CONSTANTS
  Size = 3
  MaxArrivals = 7
  MaxNested = 1
INVARIANTS TypeOK NoLossWithoutOverflow OverflowLosesOne AvailableIsKept
PROPERTIES InOrder
