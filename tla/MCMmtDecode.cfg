SPECIFICATION Spec
CONSTANTS
  BufSize = 19
  MaxArgs = 2
  Traces <- MCTraces
  Noise <- MCNoise
INVARIANTS
  TypeOK
  DeliveredAsRecorded
  EndsWithTheTrace
PROPERTIES
  Ends
CHECK_DEADLOCK FALSE
