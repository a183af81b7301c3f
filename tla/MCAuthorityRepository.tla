------------------------- MODULE MCAuthorityRepository -------------------------
EXTENDS AuthorityRepository, TLC

\* Two instants to the microsecond, identifiers numbered within a table; the
\* authorization and the decision on it.
MCRecord == [id |-> 1, issuer |-> "issuerA", subject |-> "employerX", claim |-> "employment.role"]

MCAuthorizationRow == [table |-> "authorizations", key |-> 1, body |-> MCRecord]

MCDecisionRow(id, finding) ==
  [table |-> "adjudications", key |-> id,
   body |-> [id |-> id, auth |-> 1, scope |-> MCRecord, outcome |-> finding,
             maker |-> "adjudicator", evidenceRef |-> "ref",
             decidedAt |-> 2, recordedAt |-> 2]]

MCEventRow(id, type, effectiveAt, recordedAt) ==
  [table |-> "journal", key |-> id,
   body |-> [id |-> id, auth |-> 1, type |-> type, effectiveAt |-> effectiveAt,
             recordedAt |-> recordedAt, actor |-> "adjudicator", evidenceRef |-> "ref",
             satisfied |-> TRUE, corrects |-> NoEvent, field |-> "none"]]

\* From nothing to a revoked grant, every call concurrent with every other.
MCLifecycle ==
  [authorize |-> MCAuthorizationRow,
   decide    |-> MCDecisionRow(1, "APPROVED"),
   submit    |-> MCEventRow(1, "SUBMIT", 2, 2),
   approve   |-> MCEventRow(2, "APPROVE", 2, 2),
   activate  |-> MCEventRow(3, "ACTIVATE", 2, 2),
   revoke    |-> MCEventRow(4, "REVOKE", 4, 4)]

\* Calls that get in each other's way on an authorization from before recording
\* positions: the same transition twice, and the same decision sent again by a caller
\* that does not know whether it was stored; one request is invalid.
MCContention ==
  [decide    |-> MCDecisionRow(1, "APPROVED"),
   again     |-> MCDecisionRow(1, "APPROVED"),
   never     |-> [MCDecisionRow(2, "APPROVED") EXCEPT !.body.decidedAt = 4],
   submit    |-> MCEventRow(1, "SUBMIT", 2, 2),
   submit2   |-> MCEventRow(2, "SUBMIT", 4, 4)]

MCLegacy == {MCAuthorizationRow}

MCRejection ==
  [authorize |-> MCAuthorizationRow,
   decide    |-> MCDecisionRow(1, "REJECTED")]
=============================================================================
