SPECIFICATION Spec
CONSTANTS
  NoEvent = NoEvent
  Microsecond = 2
  Calls = {"authorize", "decide", "submit", "approve", "activate", "revoke"}
  Request <- MCLifecycle
  Readers = {"r1"}
  Legacy = {}
  Null = Null
  LostAnswers = {}
  MaxClock = 4
CHECK_DEADLOCK FALSE
INVARIANTS
  JournalOrderAgreesWithPosition
  ResolversReproducible
  RevocationReachesResolvers
