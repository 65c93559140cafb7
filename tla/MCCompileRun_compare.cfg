SPECIFICATION CRSpec
CONSTANTS
  Programs <- BoundaryComparison
  StrayAddr <- StrayBytes
  Depth <- BoundaryDepths
INVARIANT ComparisonsAgree
CHECK_DEADLOCK FALSE
