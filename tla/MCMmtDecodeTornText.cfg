SPECIFICATION Spec
CONSTANTS
  BufSize = 19
  MaxArgs = 2
  Traces <- TextTraces
  Noise <- MCNoise
INVARIANTS
  TextEndsAtEor
CHECK_DEADLOCK FALSE
