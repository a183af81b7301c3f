SPECIFICATION Spec
CONSTANTS
  NoEvent = NoEvent
  Microsecond = 2
  Calls = {"decide", "again", "never", "submit", "submit2"}
  Request <- MCContention
  Readers = {"r1"}
  Legacy <- MCLegacy
  Null = Null
  LostAnswers = {"decide", "submit"}
  MaxClock = 2
CHECK_DEADLOCK FALSE
INVARIANTS
  StoredJournalsReload
  OutcomeMatchesStore
  NothingGrantedOnPartialRegistry
PROPERTIES
  CallsTerminate
  RecordingRefinement
