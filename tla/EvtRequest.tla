------------------------------- MODULE EvtRequest -------------------------------
(***************************************************************************)
(* internal/evt/repo.go: the life of an employment verification request,   *)
(* one READ COMMITTED transaction per call.  Most calls lock the request's *)
(* row, look at its status, write the row and an event, and commit; a      *)
(* draft update relies on the row's version instead.                       *)
(*                                                                         *)
(* A call is [op, request, ...]: create (principal, employer, claim),      *)
(* update (principal, version, claim), submit and cancel (principal),      *)
(* attest (principal, employer, verdict), verify (verdict), consume and    *)
(* close.  An attestation here is already authorized; EmployerAttestation  *)
(* puts EmployerAccess in front of it.                                     *)
(*                                                                         *)
(* The schema of these tables is not in the repository: columns, enum      *)
(* labels and the default version 1 are those the code and its fixture     *)
(* (testdata/proposal_a_legacy_schema.sql) use.                            *)
(***************************************************************************)
EXTENDS Naturals, Sequences, FiniteSets

CONSTANTS
  Connections, Requests, Candidates, Reviewers, Employers, Claims, Null,
  MaxUpdates,       \* bound on draft updates of a request
  MaxConsumptions   \* bound on consumptions of a request

VARIABLES
  call,          \* what each connection is executing, or Null
  phase,         \* the statement it executes next
  dispatch,      \* dispatch_mode of each employer's configuration, or Null
  requests,      \* committed rows of evt_requests
  events,        \* committed rows of evt_request_events, in order, per request
  consumptions,  \* number of rows of evt_token_consumptions per request
  work,          \* what each open transaction has written, or Null
  requestLock    \* connection holding each request's row, or Null

stored == <<dispatch, requests, events, consumptions>>
vars == <<call, phase, stored, work, requestLock>>

Matches == {"FULL_MATCH", "PARTIAL_MATCH"}
Rejections == {"REJECTED_NO_RECORD", "REJECTED_POLICY"}
TrustResults == {"VERIFIED", "VERIFIED_WITH_FLAGS", "UNVERIFIED"}

\* HR may answer anything.
Attestations == [op : {"attest"}, employer : Employers, principal : Reviewers,
                 request : Requests, verdict : {"FULL_MATCH", "REJECTED_POLICY", "other"}]

CandidateCalls ==
  [op : {"create"}, employer : Employers, principal : Candidates, claim : Claims]
  \cup [op : {"update"}, principal : Candidates, request : Requests, claim : Claims,
        version : 1..MaxUpdates]
  \cup [op : {"submit", "cancel"}, principal : Candidates, request : Requests]

\* An empty verification body has the empty trust_result.
OtherCalls ==
  [op : {"verify"}, request : Requests, verdict : TrustResults \cup {""}]
  \cup [op : {"consume", "close"}, request : Requests]

Statuses == {"DRAFT", "SUBMITTED", "ATTESTATION_PENDING", "ATTESTED", "REJECTED",
             "VERIFIED", "UNVERIFIED", "CONSUMED", "CLOSED", "CANCELED"}

Rows == [employer : Employers, candidate : Candidates, claim : Claims, version : Nat,
         status : Statuses, response : Matches \cup Rejections \cup {Null},
         jws : BOOLEAN, trust : TrustResults \cup {Null}]

ASSUME EvtAssumption ==
  /\ MaxUpdates \in Nat
  /\ Null \notin Connections \cup Rows \cup Statuses
             \cup Matches \cup Rejections \cup TrustResults

Init ==
  /\ call = [c \in Connections |-> Null]
  /\ phase = [c \in Connections |-> "idle"]
  /\ dispatch \in [Employers -> {Null, "AUTO", "MANUAL"}]
  /\ requests = [r \in Requests |-> Null]
  /\ events = [r \in Requests |-> <<>>]
  /\ consumptions = [r \in Requests |-> 0]
  /\ work = [c \in Connections |-> Null]
  /\ requestLock = [r \in Requests |-> Null]

Doing(c, op, where) == phase[c] = where /\ call[c].op = op

Goto(c, where) == phase' = [phase EXCEPT ![c] = where]

-----------------------------------------------------------------------------
(* Beginning a call                                                         *)

Begin(c, where, request) ==
  /\ phase[c] = "idle"
  /\ call' = [call EXCEPT ![c] = request]
  /\ Goto(c, where)
  /\ UNCHANGED <<stored, work, requestLock>>

BeginByCandidate(c) == \E request \in CandidateCalls :
  Begin(c, IF request.op \in {"create", "update"} THEN "work" ELSE "request", request)

BeginAttest(c, where) == \E request \in Attestations : Begin(c, where, request)

BeginOther(c) == \E request \in OtherCalls : Begin(c, "request", request)

-----------------------------------------------------------------------------
(* Statements                                                               *)

\* What the open transaction has written and its commit will publish.
Staged(id, row, log, config, consumed) ==
  [id |-> id, row |-> row, log |-> log, config |-> config, consumed |-> consumed]

\* Fault: the employer left out of the WHERE clause.
FindsForAnyEmployer(c) ==
  LET row == requests[call[c].request]
  IN /\ row # Null
     /\ call[c].op \in {"submit", "cancel"} => row.candidate = call[c].principal

\* The WHERE clause of SELECT ... FOR UPDATE.
Finds(c) ==
  LET row == requests[call[c].request]
  IN /\ row # Null
     /\ call[c].op \in {"submit", "cancel"} => row.candidate = call[c].principal
     /\ call[c].op = "attest" => row.employer = call[c].employer

\* Fault: SELECT without FOR UPDATE.
ReadRequest(c) ==
  /\ phase[c] = "request"
  /\ Goto(c, IF Finds(c) THEN "work" ELSE "failed")
  /\ UNCHANGED <<call, stored, work, requestLock>>

LockRequest(c) ==
  LET r == call[c].request
  IN /\ phase[c] = "request"
     /\ IF Finds(c)
        THEN /\ requestLock[r] = Null
             /\ requestLock' = [requestLock EXCEPT ![r] = c]
             /\ Goto(c, "work")
        ELSE Goto(c, "failed") /\ UNCHANGED requestLock
     /\ UNCHANGED <<call, stored, work>>

Event(type, from, to, detail) == [type |-> type, from |-> from, to |-> to, detail |-> detail]

\* actor_personid of an HR_ATTESTED event
Author(event) == event.detail

\* The call leaves the row as given and adds events.
Writes(c, r, row, log) ==
  /\ work' = [work EXCEPT ![c] = Staged(r, row, log, Null, 0)]
  /\ Goto(c, "ready")
  /\ UNCHANGED <<call, stored>>

Moved(row, status, bumps) ==
  [row EXCEPT !.status = status, !.version = row.version + bumps]

\* ensureEmployerConfig waits for a transaction that is inserting the same employer.
Create(c) ==
  LET e == call[c].employer
  IN /\ Doing(c, "create", "work")
     /\ \A d \in Connections : work[d] # Null => work[d].config # e
     /\ \E r \in Requests :
          /\ requests[r] = Null
          /\ \A d \in Connections : work[d] # Null => work[d].id # r
          /\ work' = [work EXCEPT ![c] =
               Staged(r, [employer |-> e, claim |-> call[c].claim, version |-> 1,
                          candidate |-> call[c].principal, status |-> "DRAFT",
                          response |-> Null, jws |-> FALSE, trust |-> Null],
                      <<Event("DRAFT_CREATED", Null, "DRAFT", Null)>>,
                      IF dispatch[e] = Null THEN e ELSE Null, 0)]
     /\ Goto(c, "ready")
     /\ UNCHANGED <<call, stored, requestLock>>

\* Fault: the version left out of the WHERE clause.
MatchesAnyVersion(c, row) ==
  row # Null /\ row.candidate = call[c].principal /\ row.status = "DRAFT"

MatchesDraft(c, row) ==
  /\ row # Null
  /\ row.candidate = call[c].principal /\ row.status = "DRAFT"
  /\ row.version = call[c].version

\* One UPDATE: it waits for the row and looks at it again.
UpdateDraft(c) ==
  LET r   == call[c].request
      row == requests[r]
  IN /\ Doing(c, "update", "work")
     /\ IF MatchesDraft(c, row)
        THEN /\ requestLock[r] = Null
             /\ requestLock' = [requestLock EXCEPT ![r] = c]
             /\ Writes(c, r, Moved([row EXCEPT !.claim = call[c].claim], "DRAFT", 1),
                       <<Event("DRAFT_UPDATED", "DRAFT", "DRAFT", call[c].version)>>)
        ELSE /\ Goto(c, "failed")
             /\ UNCHANGED <<call, stored, work, requestLock>>

Submission(row, mode) ==
  IF mode = "AUTO"
  THEN [row |-> Moved(row, "ATTESTATION_PENDING", 2),
        log |-> <<Event("REQUEST_SUBMITTED", "DRAFT", "SUBMITTED", Null),
                  Event("ATTESTATION_DISPATCHED", "SUBMITTED", "ATTESTATION_PENDING", Null)>>]
  ELSE [row |-> Moved(row, "SUBMITTED", 1),
        log |-> <<Event("REQUEST_SUBMITTED", "DRAFT", "SUBMITTED", Null),
                  Event("DISPATCH_GUARD_BLOCKED", "SUBMITTED", "SUBMITTED", Null)>>]

\* Fault: a request may be verified before it is attested.
AcceptedUnattested(op) ==
  CASE op = "submit"  -> {"DRAFT"}
    [] op = "cancel"  -> {"DRAFT", "SUBMITTED"}
    [] op = "attest"  -> {"ATTESTATION_PENDING"}
    [] op = "verify"  -> {"ATTESTATION_PENDING", "ATTESTED"}
    [] op = "consume" -> {"VERIFIED", "UNVERIFIED", "CONSUMED"}
    [] op = "close"   -> {"CONSUMED"}

\* The statuses each operation accepts.
Accepted(op) ==
  CASE op = "submit"  -> {"DRAFT"}
    [] op = "cancel"  -> {"DRAFT", "SUBMITTED"}
    [] op = "attest"  -> {"ATTESTATION_PENDING"}
    [] op = "verify"  -> {"ATTESTED"}
    [] op = "consume" -> {"VERIFIED", "UNVERIFIED", "CONSUMED"}
    [] op = "close"   -> {"CONSUMED"}

\* The call holds the row and its status is one the operation accepts.
Proceeds(c, op) ==
  Doing(c, op, "work") /\ requests[call[c].request].status \in Accepted(op)

Submit(c) ==
  LET r   == call[c].request
      new == Submission(requests[r], dispatch[requests[r].employer])
  IN /\ Proceeds(c, "submit")
     /\ Writes(c, r, new.row, new.log)
     /\ UNCHANGED requestLock

Cancel(c) ==
  LET r == call[c].request
  IN /\ Proceeds(c, "cancel")
     /\ Writes(c, r, Moved(requests[r], "CANCELED", 1),
               <<Event("REQUEST_CANCELED", requests[r].status, "CANCELED", Null)>>)
     /\ UNCHANGED requestLock

\* Only a match is signed; any other response that is no rejection is a conflict.
\* A missing or failing signer ends the call as Lose does.
Attest(c) ==
  LET r  == call[c].request
      to == IF call[c].verdict \in Rejections THEN "REJECTED" ELSE "ATTESTED"
  IN /\ Proceeds(c, "attest")
     /\ IF call[c].verdict \in Matches \cup Rejections
        THEN Writes(c, r,
               [Moved(requests[r], to, 1) EXCEPT !.response = call[c].verdict,
                                                 !.jws = to = "ATTESTED"],
               <<Event("HR_ATTESTED", requests[r].status, to, call[c].principal)>>)
        ELSE Goto(c, "failed") /\ UNCHANGED <<call, stored, work>>
     /\ UNCHANGED requestLock

\* A trust_result that is no label of the enum fails the UPDATE.
Verify(c) ==
  LET r  == call[c].request
      to == IF call[c].verdict = "UNVERIFIED" THEN "UNVERIFIED" ELSE "VERIFIED"
  IN /\ Proceeds(c, "verify")
     /\ IF call[c].verdict \in TrustResults
        THEN Writes(c, r, [Moved(requests[r], to, 1) EXCEPT !.trust = call[c].verdict],
                    <<Event("TRUST_EVALUATED", requests[r].status, to, call[c].verdict)>>)
        ELSE Goto(c, "failed") /\ UNCHANGED <<call, stored, work>>
     /\ UNCHANGED requestLock

\* Every consumption is stored; the first one moves the request.
Consume(c) ==
  LET r == call[c].request
      first == requests[r].status # "CONSUMED"
  IN /\ Proceeds(c, "consume")
     /\ consumptions[r] < MaxConsumptions
     /\ work' = [work EXCEPT ![c] =
          Staged(r, IF first THEN Moved(requests[r], "CONSUMED", 1) ELSE requests[r],
                 IF first THEN <<Event("TOKEN_CONSUMED", requests[r].status, "CONSUMED", Null)>>
                 ELSE <<>>,
                 Null, 1)]
     /\ Goto(c, "ready")
     /\ UNCHANGED <<call, stored, requestLock>>

Close(c) ==
  LET r == call[c].request
  IN /\ Proceeds(c, "close")
     /\ Writes(c, r, Moved(requests[r], "CLOSED", 1),
               <<Event("REQUEST_CLOSED", "CONSUMED", "CLOSED", Null)>>)
     /\ UNCHANGED requestLock

\* ErrConflict
RefuseStatus(c) ==
  /\ phase[c] = "work" /\ call[c].op \notin {"create", "update"}
  /\ requests[call[c].request].status \notin Accepted(call[c].op)
  /\ Goto(c, "failed")
  /\ UNCHANGED <<call, stored, work, requestLock>>

\* Operations that drop the error of insertEvent.
DropsEventError == {"create", "submit", "attest", "consume"}

\* Fault: the failed INSERT does not abort the transaction.
FailEventAlone(c) ==
  /\ phase[c] = "ready" /\ work[c] # Null
  /\ work[c].log # <<>> /\ call[c].op \in DropsEventError
  /\ work' = [work EXCEPT ![c].log = <<>>]
  /\ UNCHANGED <<call, phase, stored, requestLock>>

\* An INSERT of an event fails: the operation returns the error, or drops it and
\* goes on in a transaction that PostgreSQL has aborted.
FailEvent(c) ==
  /\ phase[c] = "ready" /\ work[c] # Null
  /\ work[c].log # <<>>
  /\ Goto(c, IF call[c].op \in DropsEventError THEN "aborted" ELSE "failed")
  /\ UNCHANGED <<call, stored, work, requestLock>>

-----------------------------------------------------------------------------
(* Ending a transaction                                                     *)

End(c) ==
  /\ call' = [call EXCEPT ![c] = Null]
  /\ Goto(c, "idle")
  /\ work' = [work EXCEPT ![c] = Null]
  /\ requestLock' = [r \in Requests |-> IF requestLock[r] = c THEN Null ELSE requestLock[r]]

Publish(w) ==
  /\ requests' = [requests EXCEPT ![w.id] = w.row]
  /\ events' = [events EXCEPT ![w.id] = @ \o w.log]
  /\ consumptions' = [consumptions EXCEPT ![w.id] = @ + w.consumed]
  /\ dispatch' = IF w.config = Null THEN dispatch ELSE [dispatch EXCEPT ![w.config] = "AUTO"]

Commit(c) ==
  /\ phase[c] = "ready"
  /\ IF work[c] = Null THEN UNCHANGED stored ELSE Publish(work[c])
  /\ End(c)

\* Rollback after an error, and COMMIT of an aborted transaction, which rolls back
\* and which pgx reports as an error.
Rollback(c) == phase[c] \in {"failed", "aborted"} /\ End(c) /\ UNCHANGED stored

\* Cancelled context, lost connection, crash of the process.
Lose(c) == phase[c] # "idle" /\ End(c) /\ UNCHANGED stored

\* An operator switches an employer between AUTO and MANUAL dispatch.
SetDispatch(e) ==
  /\ dispatch[e] # Null
  /\ \E mode \in {"AUTO", "MANUAL"} : dispatch' = [dispatch EXCEPT ![e] = mode]
  /\ UNCHANGED <<call, phase, requests, events, consumptions, work, requestLock>>

-----------------------------------------------------------------------------

BeginCall(c) == BeginByCandidate(c) \/ BeginOther(c)

Statement(c) ==
  \/ LockRequest(c) \/ Create(c) \/ UpdateDraft(c) \/ Submit(c) \/ Cancel(c) \/ Attest(c)
  \/ Verify(c) \/ Consume(c) \/ Close(c) \/ RefuseStatus(c)

Next ==
  \/ \E c \in Connections :
       \/ BeginCall(c) \/ BeginAttest(c, "request")
       \/ Statement(c) \/ FailEvent(c) \/ Commit(c) \/ Rollback(c) \/ Lose(c)
  \/ \E e \in Employers : SetDispatch(e)

Spec == Init /\ [][Next]_vars

-----------------------------------------------------------------------------
(* What recruiters are shown of a request (RecruiterCandidateList)          *)

SignatureStatus(row) == IF row.jws THEN "verified" ELSE "unknown"

\* Fault: a consumed request falls out of the CASE.
VerificationBeforeConsumption(row) ==
  CASE row.status = "VERIFIED"                     -> "verified"
    [] row.status \in {"UNVERIFIED", "REJECTED"}   -> "unverified"
    [] row.status \in {"DRAFT", "SUBMITTED", "ATTESTATION_PENDING", "ATTESTED"} -> "pending"
    [] OTHER                                       -> "unknown"

VerificationState(row) ==
  CASE row.status = "VERIFIED"                     -> "verified"
    [] row.status \in {"UNVERIFIED", "REJECTED"}   -> "unverified"
    [] row.status \in {"DRAFT", "SUBMITTED", "ATTESTATION_PENDING", "ATTESTED"} -> "pending"
    [] row.status \in {"CONSUMED", "CLOSED"} /\ row.trust \in {"VERIFIED", "VERIFIED_WITH_FLAGS"}
                                                   -> "verified"
    [] row.status \in {"CONSUMED", "CLOSED"} /\ row.trust = "UNVERIFIED" -> "unverified"
    [] OTHER                                       -> "unknown"

-----------------------------------------------------------------------------
(* Properties                                                               *)

Existing == {r \in Requests : requests[r] # Null}

Lifecycle == INSTANCE RequestLifecycle
  WITH status <- [r \in Requests |-> IF requests[r] = Null THEN "NONE" ELSE requests[r].status]

\* The events of a request are its history: each starts from the status the one
\* before it reached, and the last reached the row's status, whatever failed or ran
\* at the same time (insertEvent's error is dropped at repo.go:85, 259, 277, 283, 424, 657).
HistoryExplainsStatus ==
  \A r \in Requests :
     LET log == events[r]  n == Len(log)
     IN /\ r \in Existing <=> n > 0
        /\ n > 0 => /\ log[1].type = "DRAFT_CREATED"
                    /\ log[n].to = requests[r].status
        /\ \A i \in 2..n : log[i].from = log[i - 1].to

\* No draft update is lost: the n-th accepted one was made against version n.
UpdatesBuildOnNewest ==
  \A r \in Existing :
     LET UpTo(i) == {j \in 1..i : events[r][j].type = "DRAFT_UPDATED"}
     IN \A i \in DOMAIN events[r] :
          events[r][i].type = "DRAFT_UPDATED" => events[r][i].detail = Cardinality(UpTo(i))

\* A recruiter who is shown a verified employment is shown a signature made for a
\* match, given by one reviewer once, and an evaluation of it; a rejected request
\* never carries a signature.
VerdictRestsOnAttestation ==
  \A r \in Existing :
     LET row   == requests[r]
         Of(t) == {i \in DOMAIN events[r] : events[r][i].type = t}
     IN /\ VerificationState(row) = "verified" =>
             /\ SignatureStatus(row) = "verified" /\ row.response \in Matches
             /\ Cardinality(Of("HR_ATTESTED")) = 1 /\ Cardinality(Of("TRUST_EVALUATED")) = 1
        /\ row.status = "REJECTED" => SignatureStatus(row) # "verified"
        /\ row.status # "CANCELED" => VerificationState(row) # "unknown"

\* A verdict shown to a recruiter stays the verdict, through consumption and closing.
VerdictIsFinal ==
  [][\A r \in Existing : VerificationState(requests[r]) \in {"verified", "unverified"} =>
        VerificationState(requests'[r]) = VerificationState(requests[r])]_vars

\* Concurrent operations together still move every request along its lifecycle.
LifecycleRefinement == Lifecycle!Spec

=============================================================================
