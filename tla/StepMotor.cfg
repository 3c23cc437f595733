SPECIFICATION Spec
CONSTANTS
  Motor = {m1, m2}
  Tim2Ch1 = m1
  Tim3Ch1 = m2
  Step = {1, 4}
  Rate = {1, 3}
  Limit = {0}
  Delay = {1, 2}
  Period = 2
  MaxCount = 2
  None = none
INVARIANT TypeOK
PROPERTIES StepsAsAsked MoveEnds
CHECK_DEADLOCK FALSE
