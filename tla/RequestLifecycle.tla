---------------------------- MODULE RequestLifecycle ----------------------------
(***************************************************************************)
(* What the EVT workflow promises of a request's status: the guards at the *)
(* head of each operation of internal/evt/repo.go, as one relation.  A     *)
(* submission under AUTO dispatch commits two of its steps at once.        *)
(***************************************************************************)
CONSTANT Requests

VARIABLE status  \* of each request; NONE before it is created

Statuses == {"DRAFT", "SUBMITTED", "ATTESTATION_PENDING", "ATTESTED", "REJECTED",
             "VERIFIED", "UNVERIFIED", "CONSUMED", "CLOSED", "CANCELED"}

Moves ==
  {<<"NONE", "DRAFT">>,
   <<"DRAFT", "SUBMITTED">>, <<"DRAFT", "ATTESTATION_PENDING">>,
   <<"DRAFT", "CANCELED">>, <<"SUBMITTED", "CANCELED">>,
   <<"ATTESTATION_PENDING", "ATTESTED">>, <<"ATTESTATION_PENDING", "REJECTED">>,
   <<"ATTESTED", "VERIFIED">>, <<"ATTESTED", "UNVERIFIED">>,
   <<"VERIFIED", "CONSUMED">>, <<"UNVERIFIED", "CONSUMED">>,
   <<"CONSUMED", "CLOSED">>}

Init == status = [r \in Requests |-> "NONE"]

Move(r) == \E s \in Statuses :
  /\ <<status[r], s>> \in Moves
  /\ status' = [status EXCEPT ![r] = s]

Next == \E r \in Requests : Move(r)

Spec == Init /\ [][Next]_status

=============================================================================
