SPECIFICATION Spec
CONSTANTS
  Type <- MCType
  ByteBits = 4
  WordBits = 8
  ZeroRun <- MCZeroRun
  StartBits <- MCStartBits
  Codes <- MCCodes
  StartCode = {1}
  Calls <- MCCalls
  MaxCalls <- MCMaxCalls
  MaxUnits = 2
INVARIANTS
  RoundTrip
  HasMore
  Resync
CHECK_DEADLOCK FALSE
