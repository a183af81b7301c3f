SPECIFICATION Spec
CONSTANTS
  Connections = {c1, c2}
  Principals = {hr1}
  Employers = {employerX, employerY}
  AssignmentIds = {a1, a2, a3}
  employerX = employerX
  hr1 = hr1
  a1 = a1
  Null = Null
  Stored <- MCStored
  MaxCalls = 5
CHECK_DEADLOCK FALSE
INVARIANTS
  AuthorizationHolds
  OneActiveAssignment
PROPERTIES
  CallsEnd
