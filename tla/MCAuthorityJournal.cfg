SPECIFICATION Spec
CONSTANTS
  NoEvent = NoEvent
  Microsecond = 2
  Authorization <- MCAuthorization
  Adjudication <- MCAdjudication
  Actors = {"adjudicator", "stranger"}
  EvidenceRefs = {"ref", "other"}
  Fields = {"EffectiveAt", "RecordedAt"}
  EffectiveTimes <- MCEffectiveTimes
  RecordedTimes <- MCRecordedTimes
  MaxEvents = 6
  MaxCorrections = 1
CHECK_DEADLOCK FALSE
INVARIANTS
  DecisionMatchesTimeline
  AuthorizedOnlyWhenAdjudicated
  OneGrantAtATime
  TerminationIsFinal
PROPERTIES
  LaterEventsKeepEarlierAuthority
  HistoryAsKnownIsStable
