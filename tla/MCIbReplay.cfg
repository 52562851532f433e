SPECIFICATION RSpec
CONSTANTS
  Words <- MCWords
  Chipset = 192
  DefaultHandle <- NoDefault
  Created = {}
  NameOf <- NoName
  MaxObjects = 1
  MaxCount = 3
  NoMethod = NoMethod
  LowWords = 8
  Slots = 4
  RingStart = 1
  RingSlots = 2
  Mappings <- MCMappings
  Buffer <- MCBuffer
  Commands <- MCCommands
INVARIANTS
  AllDecoded
PROPERTIES
  DecodedAsSubmitted
  CallReturns
CHECK_DEADLOCK FALSE
