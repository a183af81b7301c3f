SPECIFICATION Spec
CONSTANTS
  t1 = t1  t2 = t2  t3 = t3  r1 = r1  r2 = r2
  Tx = {t1, t2, t3}
  Readers = {r1, r2}
  Evidence <- MCEvidence
  Legacy = {}
  Null = Null
  MaxPosition = 3
SYMMETRY MCSymmetry
CHECK_DEADLOCK FALSE
INVARIANTS
  RecordingSequenceComplete
  SnapshotsArePrefixes
PROPERTIES
  EvidenceAppendOnly
  ImplementsLog
