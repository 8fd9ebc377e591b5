SPECIFICATION MCSpec
CONSTANTS
  acme = acme
  lib = lib
  None = None
  PRs <- MCPRs
  RepoOf <- TwoRepos
  Repos = {acme, lib}
  Threads = {t1, t2}
  PRLimit = 2
  MaxHead = 0
  MaxEdits = 2
  Inputs = {"arm", "remove repo", "auto elsewhere"}
INVARIANT RemovedReposHaveNothingArmed
CHECK_DEADLOCK FALSE
