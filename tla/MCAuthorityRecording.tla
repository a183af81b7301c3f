------------------------- MODULE MCAuthorityRecording -------------------------
EXTENDS AuthorityRecording, TLC

CONSTANTS t1, t2, t3, r1, r2

MCAuthorizationRow == [table |-> "authorizations", key |-> "authz1"]
MCAdjudicationRow  == [table |-> "adjudications",  key |-> "decision1"]
MCJournalRow       == [table |-> "journal",        key |-> "event1"]

MCEvidence == {MCAuthorizationRow, MCAdjudicationRow, MCJournalRow}

MCSymmetry == Permutations({t1, t2, t3}) \cup Permutations({r1, r2})
=============================================================================
