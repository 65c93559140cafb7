SPECIFICATION Spec
CONSTANTS
  Asts <- ManyBeforeMain
  AddrMod = 16
  Start = 4
  Garbage <- SomeAddresses
INVARIANT AllFunctionsWritten
CHECK_DEADLOCK FALSE
