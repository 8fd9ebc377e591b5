SPECIFICATION MCSpec
CONSTANTS
  None = None
  Clients = {c1}
  Threads = {t1, t2}
  t2 = t2
  KeepRunning = FALSE
  MaxDials = 2
  MaxChanges = 2
  MaxInputs = 1
  Inputs = {"merge", "write times out", "malformed", "stop", "crash", "mismatch", "ask", "quit"}
PROPERTIES NoEventLost RequestsAnswered IdleExits StopEnds
CHECK_DEADLOCK FALSE
