SPECIFICATION Spec
CONSTANTS
  None = None
  Broken = Broken
  Repos = {r1}
  Logins = {me, blank}
  Blank = blank
  Intervals = {60}
  ConfigEdits <- MCConfigEdits
  StateEdits <- MCStateEdits
INVARIANTS TypeOK RestartChangesNothing NotifiesAsAsked
PROPERTIES IgnoredIsKept
