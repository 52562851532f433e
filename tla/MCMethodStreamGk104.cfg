SPECIFICATION Spec
CONSTANTS
  Words <- WideWords
  Chipset = 228
  DefaultHandle <- Defaults
  Created <- MCCreated
  NameOf <- MCNameOf
  MaxObjects = 2
  MaxCount = 3
  NoMethod = NoMethod
INVARIANTS
  TypeOK
  BoundAsTold
PROPERTIES
  ImplementsMethodQueue
CHECK_DEADLOCK FALSE
