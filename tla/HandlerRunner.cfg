SPECIFICATION FairSpec
CONSTANTS
  Callers = {c1, c2}
  Hello = Hello
  MaxSessions = 2
  Budgets <- MCBudgets
CHECK_DEADLOCK FALSE
INVARIANTS AnswersOwn OneProgram NoTapSkipped
PROPERTIES Implements NothingHangs
