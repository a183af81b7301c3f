---------------------------- MODULE MCEmployerAccess ----------------------------
EXTENDS EmployerAccess

CONSTANTS employerX, hr1, a1

\* The principal is assigned to one of the employers.
MCStored ==
  [i \in AssignmentIds |-> IF i = a1 THEN Granted(hr1, employerX) ELSE Null]
=============================================================================
