SPECIFICATION MCFairSpec
CONSTANTS
  None = None
  Test = Test
  PRs <- MCPRs
  PRLimit = 1
  Wanted <- MCWanted
  MaxPressed = 2
  MaxPosts = 4
  Budgets <- MCBudgets
CHECK_DEADLOCK FALSE
INVARIANTS ActsOnce MergesPinned OneMessagePerPR ClosedIsClosed
PROPERTIES MessagesCurrent NoOrphans
