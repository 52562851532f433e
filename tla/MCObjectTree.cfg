SPECIFICATION Spec
CONSTANTS
  Node = {n1, n2, n3, n4}
  NULL = NULL
  Nvrm <- MCNvrm
  Channel = {0, 1}
  Grobj = {11}
  Gem = {1}
  FifoHandle = 99
  Grow = 2
  MaxCount = 2
  MaxUnnamed = 1
INVARIANTS
  TypeOK
  LinksMutual
  ParentsOlder
  FifosCounted
  ChannelGone
SYMMETRY MCSymmetry
CHECK_DEADLOCK FALSE
