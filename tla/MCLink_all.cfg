SPECIFICATION Spec
CONSTANTS
  Asts <- AllAsts
  AddrMod = 16
  Start = 4
  Garbage <- SomeAddresses
INVARIANTS TypeOK ExitOwnership AllIntact MainIsListedFirst
CHECK_DEADLOCK FALSE
