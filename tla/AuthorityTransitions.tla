------------------------- MODULE AuthorityTransitions -------------------------
(***************************************************************************)
(* The canonical authority-establishment transition table: the pure part   *)
(* of internal/authority/state_machine.go, which JournalReplay folds over  *)
(* an event journal.                                                       *)
(***************************************************************************)

LifecycleStates ==
  {"REQUESTED", "PENDING", "APPROVED", "ACTIVE", "SUSPENDED",
   "REJECTED", "EXPIRED", "REVOKED"}

LifecycleEvents ==
  {"SUBMIT", "APPROVE", "REJECT", "ACTIVATE", "SUSPEND", "REINSTATE",
   "EXPIRE", "REVOKE"}

\* The states with no row are final.
PermittedTransitions ==
  { <<"REQUESTED", "SUBMIT",    "PENDING">>,
    <<"PENDING",   "APPROVE",   "APPROVED">>,
    <<"PENDING",   "REJECT",    "REJECTED">>,
    <<"APPROVED",  "ACTIVATE",  "ACTIVE">>,
    <<"ACTIVE",    "SUSPEND",   "SUSPENDED">>,
    <<"ACTIVE",    "EXPIRE",    "EXPIRED">>,
    <<"ACTIVE",    "REVOKE",    "REVOKED">>,
    <<"SUSPENDED", "REINSTATE", "ACTIVE">>,
    <<"SUSPENDED", "EXPIRE",    "EXPIRED">>,
    <<"SUSPENDED", "REVOKE",    "REVOKED">> }

Permitted(current, event) ==
  \E next \in LifecycleStates : <<current, event, next>> \in PermittedTransitions

\* The next state, the current one where the event is not permitted.
NextAuthorizationState(current, event) ==
  IF Permitted(current, event)
  THEN CHOOSE next \in LifecycleStates : <<current, event, next>> \in PermittedTransitions
  ELSE current

\* Fault: a revoked authorization is moved on like a suspended one.
TransitionOfRevoked(event, satisfied) ==
  [current \in LifecycleStates |->
     LET from    == IF current = "REVOKED" THEN "SUSPENDED" ELSE current
         applied == Permitted(from, event) /\ satisfied
     IN [state   |-> IF applied THEN NextAuthorizationState(from, event) ELSE current,
         applied |-> applied]]

\* A refused transition leaves the state alone, whichever of the two
\* conditions refuses it; the reason code is left out.
Transition(event, satisfied) ==
  [current \in LifecycleStates |->
     LET applied == Permitted(current, event) /\ satisfied
     IN [state   |-> IF applied THEN NextAuthorizationState(current, event) ELSE current,
         applied |-> applied]]

=============================================================================
