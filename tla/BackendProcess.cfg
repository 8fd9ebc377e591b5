SPECIFICATION Spec
CONSTANTS
  c1 = c1
  c2 = c2
  Callers = {c1, c2}
  App = App
  None = None
  Platforms = {TRUE, FALSE}
  MaxPids = 3
  Budgets <- MCBudgets
SYMMETRY CallerSymmetry
INVARIANTS TypeOK ServingIsReachable ReplacedIsGone
PROPERTIES StaysStopped
CHECK_DEADLOCK FALSE
