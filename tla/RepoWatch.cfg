SPECIFICATION MCFairSpec
CONSTANTS
  None = None
  PRs <- MCPRs
  Threads = {t1, t2}
  PRLimit = 1
  ActiveLimit = 1
  MaxEdits = 1
  Inputs = {"open", "push", "close", "base moves", "call fails", "rate limit", "retry on", "retry off", "mute", "unmute", "crash", "refresh"}
INVARIANTS RetriesOnce
PROPERTIES KeptWhileOpen ShowsGitHub OutdatedForgotten
