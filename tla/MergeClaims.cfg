SPECIFICATION MCSpec
CONSTANTS
  acme = acme
  lib = lib
  None = None
  PRs <- MCPRs
  RepoOf <- TwoRepos
  Repos = {acme, lib}
  Threads = {t1, t2}
  PRLimit = 1
  MaxHead = 1
  MaxEdits = 3
  Inputs = {"push", "reopen", "close", "merge elsewhere", "merge", "add dependency", "crash", "answer lost", "base moves", "fetch fails", "lookup fails", "poll all", "disarm"}
SYMMETRY ThreadSymmetry
INVARIANTS OneAutoMergeAtATime KnownMergesAreReal
PROPERTIES AutoMergeJustified
