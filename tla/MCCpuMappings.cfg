SPECIFICATION Spec
CONSTANTS
  Object = {o1, o2}
  Mapping = {m1, m2, m3}
  Id <- MCId
  Addr <- MCAddr
  Offset <- MCOffset
  Tag <- MCTag
  FirstSlots = 1
  NULL = NULL
SYMMETRY Addresses
INVARIANTS
  TypeOK
  Linked
  Owned
  MunmapAccepted
  InsideTable
CHECK_DEADLOCK FALSE
