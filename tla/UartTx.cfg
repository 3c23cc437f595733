SPECIFICATION FairSpec
CONSTANTS
  Size = 3
  Byte = {b1, b2}
  NoByte = NoByte
  HasIsr = FALSE
  IsrPolls = TRUE
  IsrNests = FALSE
INVARIANTS TypeOK NeverStuck RoomIsKept
PROPERTIES IsQueue CallsReturn BytesLeave
