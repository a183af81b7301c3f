SPECIFICATION PreparedSpec
CONSTANTS
  Connections = {c1, c2}
  Principals = {hr1}
  Employers = {employerX, employerY}
  AssignmentIds = {a1, a2}
  employerX = employerX
  hr1 = hr1
  a1 = a1
  Requests = {r1}
  Candidates = {alice}
  Claims = {claim1}
  Null = Null
  Stored <- MCStored
  MaxCalls = 4
  MaxUpdates = 0
  MaxConsumptions = 0
CHECK_DEADLOCK FALSE
PROPERTIES
  AttestedUnderAuthority
  EvtRefinement
