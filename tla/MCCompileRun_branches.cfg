SPECIFICATION CRSpec
CONSTANTS
  Programs <- LongBranches
  StrayAddr <- StrayBytes
  Depth <- BranchDepths
INVARIANT AcceptedBranchesWork
CHECK_DEADLOCK FALSE
