SPECIFICATION Spec
CONSTANTS
  NoEvent = NoEvent
  Microsecond = 2
  Calls = {"authorize", "decide"}
  Request <- MCRejection
  Readers = {"r1"}
  Legacy = {}
  Null = Null
  LostAnswers = {}
  MaxClock = 2
CHECK_DEADLOCK FALSE
INVARIANTS
  RejectionLeavesOthersResolvable
