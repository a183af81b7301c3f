SPECIFICATION Spec
CONSTANTS
  NoEvent = NoEvent
  Microsecond = 2
  Authorization <- MCAuthorization
  Adjudication <- MCAdjudication
  Actors = {"adjudicator"}
  EvidenceRefs = {"ref"}
  Fields = {"EffectiveAt"}
  EffectiveTimes <- MCEffectiveTimes
  RecordedTimes <- MCRecordedTimes
  MaxEvents = 5
  MaxCorrections = 1
CHECK_DEADLOCK FALSE
PROPERTIES
  CorrectionsFabricateNoAuthority
