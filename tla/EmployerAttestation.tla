-------------------------- MODULE EmployerAttestation --------------------------
(***************************************************************************)
(* EmployerAccess and EvtRequest over one database: EmployerAttestServer-  *)
(* Signed authorizes its principal and, in the same transaction, locks and *)
(* answers the request, while operators grant and revoke and the other     *)
(* operations of internal/evt/repo.go run beside it.                       *)
(***************************************************************************)
EXTENDS Naturals, Sequences, FiniteSets

CONSTANTS
  Connections, Principals, Employers, AssignmentIds, Requests, Candidates, Claims, Null,
  Stored, MaxCalls, MaxUpdates, MaxConsumptions

VARIABLES
  call, phase,                                                       \* of connections
  reviewer, assignments, written, shared, exclusive, rowLock, begun, \* EmployerAccess
  dispatch, requests, events, consumptions, work, requestLock        \* EvtRequest

accessState == <<reviewer, assignments, written, shared, exclusive, rowLock>>
evtState == <<dispatch, requests, events, consumptions, work, requestLock>>
vars == <<call, phase, accessState, begun, evtState>>

Configured == {e \in Employers : dispatch[e] # Null}

Access == INSTANCE EmployerAccess WITH configured <- Configured
Evt == INSTANCE EvtRequest WITH Reviewers <- Principals

ASSUME AttestationAssumption == Access!AccessAssumption /\ Evt!EvtAssumption

\* No request exists yet.
Init == Evt!Init /\ Access!Init

\* EvtRequest bounds no calls of its own.
BeginEvt(c) ==
  /\ begun < MaxCalls /\ begun' = begun + 1
  /\ UNCHANGED accessState
  /\ Evt!BeginCall(c) \/ Evt!BeginAttest(c, "authorize")

\* Authorize has returned nil.
Continue(c) ==
  /\ Access!Doing(c, "attest", "authorized")
  /\ Access!Goto(c, "request")
  /\ UNCHANGED <<call, accessState, begun, evtState>>

EvtStatement(c) ==
  /\ Evt!Statement(c) \/ Evt!FailEvent(c)
  /\ UNCHANGED <<accessState, begun>>

AccessStatement(c) ==
  /\ UNCHANGED evtState
  /\ Access!BeginCall(c) \/ Access!Statement(c)

\* One transaction ends on both sides at once; only the program can abort it.  The
\* first draft for an employer configures it.
Commit(c) == Evt!Commit(c) /\ Access!Publish(c)

\* Fault: an error return commits what was written before it.
RollbackPublishing(c) ==
  /\ phase[c] \in {"failed", "aborted"}
  /\ IF work[c] = Null THEN UNCHANGED <<dispatch, requests, events, consumptions>>
     ELSE Evt!Publish(work[c])
  /\ Evt!End(c)
  /\ Access!End(c) /\ UNCHANGED <<reviewer, assignments>>

Rollback(c) ==
  /\ Evt!Rollback(c)
  /\ Access!End(c) /\ UNCHANGED <<reviewer, assignments>>

Lose(c) == Evt!Lose(c) /\ Access!Lose(c)

SetDispatch(e) == Evt!SetDispatch(e) /\ UNCHANGED <<accessState, begun>>

Step(c) ==
  \/ BeginEvt(c) \/ Continue(c) \/ EvtStatement(c) \/ AccessStatement(c)
  \/ Commit(c) \/ Rollback(c) \/ Lose(c)

Next ==
  \/ \E c \in Connections : Step(c)
  \/ \E e \in Employers : SetDispatch(e)

Spec == Init /\ [][Next]_vars

-----------------------------------------------------------------------------
(* Properties                                                               *)

\* EvtRequest sees of an attestation what follows its authorization, and of a
\* failed one nothing; it sees no other call of EmployerAccess.
Hidden(c) ==
  \/ phase[c] = "idle"
  \/ call[c].op \in {"review", "grant", "revoke", "amend", "account"}
  \/ call[c].op = "attest" /\ phase[c] \in {"authorize", "check", "authorized", "failed"}

visibleCall == [c \in Connections |-> IF Hidden(c) THEN Null ELSE call[c]]
visiblePhase == [c \in Connections |-> IF Hidden(c) THEN "idle" ELSE phase[c]]
visibleLock ==
  [r \in Requests |-> IF requestLock[r] # Null /\ Hidden(requestLock[r]) THEN Null
                      ELSE requestLock[r]]

EvtView == INSTANCE EvtRequest
  WITH Reviewers <- Principals, call <- visibleCall, phase <- visiblePhase,
       requestLock <- visibleLock

\* An answer is recorded only while its author is an active reviewer with an
\* unrevoked assignment to the request's own employer: at the commit, not just at
\* the check, and never across employers (repo.go:328, assignments.go:15-17).
AttestedUnderAuthority ==
  [][\A r \in Requests : \A i \in (Len(events[r]) + 1)..Len(events'[r]) :
        events'[r][i].type = "HR_ATTESTED" =>
          /\ Evt!Author(events'[r][i]) \in reviewer
          /\ Access!Assigned(Evt!Author(events'[r][i]), requests[r].employer)]_vars

\* Authorization in front of it, and operators beside it, leave EvtRequest what it
\* is: whatever it promises, the composition keeps.
EvtRefinement == EvtView!Spec

-----------------------------------------------------------------------------
\* An unrevoked row for the constant Stored, which cannot be given by an operator of
\* the instance it is a parameter of.
StoredGrant(p, e) == [employer |-> e, principal |-> p, revoked |-> FALSE]

=============================================================================
