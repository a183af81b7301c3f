SPECIFICATION Spec
CONSTANTS
  Callers <- MCCallers
  Sessions = {1, 2}
  Tokens = {1, 2}
  None = None
  Calls = {k1, k2}
  MaxRestarts = 1
  FailingLaunches = {0}
CHECK_DEADLOCK FALSE
INVARIANTS OneCurrentToken UnlockedBeforeConsumption ReuseOnlyAfterLoss SignOutLasts
PROPERTIES RevokedSessionIsFinal CallsReturn
