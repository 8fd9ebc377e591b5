SPECIFICATION SearchFairSpec
CONSTANTS
  PRs <- MCPRs
  Saved <- MCSaved
INVARIANTS SearchOK
PROPERTIES Implements SearchEnds
