SPECIFICATION GrowSpec
CONSTANTS
  Mod = 256
  Arrays <- AllKinds
  JoinSizes <- ShortJoins
  MaxLen = 255
INVARIANTS GrowTypeOK InBounds OverrunByOne
PROPERTY RepairedByNextStore
CHECK_DEADLOCK FALSE
