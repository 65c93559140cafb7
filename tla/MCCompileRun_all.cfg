SPECIFICATION CRSpec
CONSTANTS
  Programs <- AllBodies
  StrayAddr <- StrayBytes
  Depth <- AllDepths
INVARIANTS CRTypeOK NothingLost CleanFailure Agree Balanced OnlyKnownTrouble
PROPERTIES FailureIsFinal ForwardOnly RunStops
CHECK_DEADLOCK FALSE
