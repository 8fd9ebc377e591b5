SPECIFICATION MCFairSpec
CONSTANTS
  acme = acme
  lib = lib
  None = None
  PRs <- CrowdedPRs
  RepoOf <- CrowdedRepo
  Repos = {acme, lib}
  Threads = {t1, t2}
  PRLimit = 1
  MaxHead = 0
  MaxEdits = 1
  Inputs = {"recheck", "merge elsewhere", "merge", "remove dependency", "add repo", "answer lost", "merge fails"}
PROPERTIES ClaimsReleased ReadyPRsMerge ClosedPRsForgotten
