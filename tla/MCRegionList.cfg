SPECIFICATION Spec
CONSTANTS
  Node = {n1, n2, n3, n4, n5}
  NULL = NULL
  NoRange = NoRange
  Limit = 8
  Starts <- MCStarts
  Lens <- MCLens
INVARIANTS
  TypeOK
  LinksOK
  CursorLive
  OnlyEmptyRejected
  MaximalRuns
PROPERTIES
  ImplementsWrittenBytes
  CallReturns
CHECK_DEADLOCK FALSE
