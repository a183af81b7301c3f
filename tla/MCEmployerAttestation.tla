------------------------- MODULE MCEmployerAttestation -------------------------
EXTENDS EmployerAttestation

CONSTANTS employerX, hr1, a1

\* The principal is assigned to one of the employers.
MCStored ==
  [i \in AssignmentIds |-> IF i = a1 THEN StoredGrant(hr1, employerX) ELSE Null]

\* Employers dispatch by themselves, throughout, once they are configured, which all
\* but the first may still have to be; every principal is an active reviewer at first.
PreparedInit ==
  /\ Init
  /\ dispatch \in [Employers -> {"AUTO", Null}] /\ dispatch[employerX] = "AUTO"
  /\ reviewer = Principals

PreparedSpec == PreparedInit /\ [][\E c \in Connections : Step(c)]_vars
=============================================================================
