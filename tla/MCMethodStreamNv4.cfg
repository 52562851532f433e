SPECIFICATION Spec
CONSTANTS
  Words <- Nv4Words
  Chipset = 64
  DefaultHandle <- NoDefault
  Created <- MCCreated
  NameOf <- MCNameOf
  MaxObjects = 2
  MaxCount = 3
  NoMethod = NoMethod
PROPERTIES
  ImplementsMethodQueue
CHECK_DEADLOCK FALSE
