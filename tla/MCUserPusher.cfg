SPECIFICATION USpec
CONSTANTS
  Words <- MCWords
  Chipset = 16
  DefaultHandle <- NoDefault
  Created <- MCCreated
  NameOf <- MCNameOf
  MaxObjects = 1
  MaxCount = 3
  NoMethod = NoMethod
  Values <- MCValues
  Mappings <- MCMappings
  NULL = NULL
INVARIANTS
  PrintsInside
  NothingPending
PROPERTIES
  CallReturns
CHECK_DEADLOCK FALSE
