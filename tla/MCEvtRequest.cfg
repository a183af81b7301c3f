SPECIFICATION Spec
CONSTANTS
  Connections = {c1, c2}
  Requests = {r1}
  Candidates = {alice}
  Reviewers = {hr1}
  Employers = {employerX}
  Claims = {claim1, claim2}
  Null = Null
  MaxUpdates = 2
  MaxConsumptions = 2
CHECK_DEADLOCK FALSE
INVARIANTS
  HistoryExplainsStatus
  UpdatesBuildOnNewest
  VerdictRestsOnAttestation
PROPERTIES
  VerdictIsFinal
  LifecycleRefinement
