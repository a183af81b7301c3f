-------------------------- MODULE MCAuthorityJournal --------------------------
EXTENDS AuthorityJournal

MCAuthorization ==
  [id |-> "authz1", issuer |-> "issuerA", subject |-> "employerX", claim |-> "employment.role"]

MCAdjudication ==
  [id |-> "decision1", auth |-> "authz1", scope |-> MCAuthorization,
   outcome |-> "APPROVED", maker |-> "adjudicator", evidenceRef |-> "ref",
   decidedAt |-> 2, recordedAt |-> 2]

MCEffectiveTimes == {2, 4, 6}
MCRecordedTimes == {2, 4}
=============================================================================
