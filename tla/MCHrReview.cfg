SPECIFICATION HrSpec
CONSTANTS
  Cases = {r1, r2}
  Contents = {f1}
  Uploads = {u1}
  Nothing = Nothing
CHECK_DEADLOCK FALSE
INVARIANT FocusRefreshes
