SPECIFICATION Spec
CONSTANTS
  Size = 3
  Byte = {b1, b2}
  NoByte = NoByte
  HasIsr = TRUE
  IsrPolls = TRUE
  IsrNests = FALSE
PROPERTIES WriteAddsOne
