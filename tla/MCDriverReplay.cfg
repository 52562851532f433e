SPECIFICATION DSpec
CONSTANTS
  Words <- MCWords
  Chipset = 64
  DefaultHandle <- NoDefault
  Created = {}
  NameOf <- NoName
  MaxObjects = 1
  MaxCount = 3
  NoMethod = NoMethod
  Values = {}
  Mappings <- MCMappings
  NULL = NULL
  Buffer <- MCBuffer
  Commands <- MCCommands
  JumpBack <- MCJumpBack
INVARIANTS
  AllDecoded
PROPERTIES
  DecodedAsSubmitted
CHECK_DEADLOCK FALSE
