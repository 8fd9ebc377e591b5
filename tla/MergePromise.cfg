SPECIFICATION MCSpec
CONSTANTS
  acme = acme
  lib = lib
  None = None
  PRs <- MCPRs
  RepoOf <- OneRepo
  Repos = {acme, lib}
  Threads = {t1, t2}
  PRLimit = 1
  MaxHead = 0
  MaxEdits = 2
  Inputs = {"merge elsewhere", "auto elsewhere", "auto on", "auto off", "hold fails", "arm", "add dependency", "remove repo", "crash", "answer lost"}
SYMMETRY ThreadSymmetry
INVARIANTS NoDeadlockedPRs
PROPERTIES PromiseKept
CHECK_DEADLOCK FALSE
