CONSTANTS
  Sizes = {8, 12}
  Bits = 4
  Frames <- MCFrames
  MaxPayload = 8
  CounterMod = 12
  MaxLost = 2
  Lossy = {1}
SPECIFICATION Spec
INVARIANTS
  TypeOK
  FreshBytesKept
  PayloadInBounds
PROPERTIES
  WholeFrameDelivered
  IsLossyLink
