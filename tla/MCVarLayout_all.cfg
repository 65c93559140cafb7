SPECIFICATION Spec
CONSTANTS
  x = x
  y = y
  z = z
  Names <- ThreeNames
  Types <- AllTypes
  AddrMod = 4
  Garbage = {0, 3}
  MaxVars = 3
INVARIANTS TypeOK StableAnswers NoOverlap
PROPERTY Implements
CHECK_DEADLOCK FALSE
