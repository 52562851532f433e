SPECIFICATION Spec
CONSTANTS
  Ctx = {"even", "sure"}
  CtxInit <- MCCtxInit
  SliceQp = {26}
  rangeTabLPS <- MCRangeTabLPS
  transIdxLPS <- MCTransIdxLPS
  transIdxMPS <- MCTransIdxMPS
  MaxBins = 6
  MaxDamaged = 3
INVARIANTS
  TypeOK
  EncoderNeverFails
  OffsetInRange
  RoundTrip
CHECK_DEADLOCK FALSE
