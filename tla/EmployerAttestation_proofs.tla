---------------------- MODULE EmployerAttestation_proofs ----------------------
(***************************************************************************)
(* What EmployerAccess and EvtRequest promise holds of the two together:   *)
(* every step of the composition is seen as a step of EvtRequest or as     *)
(* none (ViewStep) and preserves the invariant of EmployerAccess (NextInv).*)
(* Of the two invariants together follows who signs an answer.             *)
(***************************************************************************)
EXTENDS EmployerAttestation, TLAPS

AccessFacts == INSTANCE EmployerAccess_proofs WITH configured <- Configured

EvtFacts == INSTANCE EvtRequest_proofs
  WITH Reviewers <- Principals, call <- visibleCall, phase <- visiblePhase,
       requestLock <- visibleLock

LEMMA AccessAssumed == AccessFacts!AccessAssumption
  BY AttestationAssumption
  DEF Access!AccessAssumption, Access!Assignment,
      AccessFacts!AccessAssumption, AccessFacts!Assignment

LEMMA EvtAssumed == EvtFacts!EvtAssumption
  BY AttestationAssumption
  DEF Evt!EvtAssumption, Evt!Rows, Evt!Statuses, Evt!Matches, Evt!Rejections,
      Evt!TrustResults, EvtFacts!EvtAssumption, EvtFacts!Rows, EvtFacts!Statuses,
      EvtFacts!Matches, EvtFacts!Rejections, EvtFacts!TrustResults

LEMMA SameBegin ==
  ASSUME NEW c \in Connections
  PROVE  Access!BeginCall(c) <=> AccessFacts!BeginCall(c)
<1>1. \A where, request :
        Access!Begin(c, where, request) <=> AccessFacts!Begin(c, where, request)
  BY DEF Access!Begin, Access!Goto, Access!locks,
     AccessFacts!Begin, AccessFacts!Goto, AccessFacts!locks
<1>2. \A op, p, e, i, value :
        Access!Request(op, p, e, i, value) = AccessFacts!Request(op, p, e, i, value)
  BY DEF Access!Request, AccessFacts!Request
<1>3. Access!IdsSuffice <=> AccessFacts!IdsSuffice
  BY DEF Access!IdsSuffice, Access!Cardinality, AccessFacts!IdsSuffice, AccessFacts!Cardinality
<1> QED
  BY <1>1, <1>2, <1>3
  DEF Access!BeginCall, Access!BeginReview, Access!BeginGrant, Access!BeginRevoke,
      Access!BeginUpdate, Access!BeginAccount,
      AccessFacts!BeginCall, AccessFacts!BeginReview, AccessFacts!BeginGrant,
      AccessFacts!BeginRevoke, AccessFacts!BeginUpdate, AccessFacts!BeginAccount

LEMMA SameStatements ==
  ASSUME NEW c \in Connections
  PROVE  Access!Statement(c) <=> AccessFacts!Statement(c)
<1>1. /\ Access!LockShared(c) <=> AccessFacts!LockShared(c)
      /\ Access!CheckAssignment(c) <=> AccessFacts!CheckAssignment(c)
      /\ Access!ReadRequests(c) <=> AccessFacts!ReadRequests(c)
      /\ Access!FindAssignment(c) <=> AccessFacts!FindAssignment(c)
      /\ Access!LockExclusive(c) <=> AccessFacts!LockExclusive(c)
  BY DEF Access!LockShared, Access!CheckAssignment, Access!ReadRequests,
     Access!FindAssignment, Access!LockExclusive, Access!AfterLock,
     Access!Goto, Access!Doing, Access!Assigned, Access!Active, Access!locks,
     AccessFacts!LockShared, AccessFacts!CheckAssignment, AccessFacts!ReadRequests,
     AccessFacts!FindAssignment, AccessFacts!LockExclusive, AccessFacts!AfterLock,
     AccessFacts!Goto, AccessFacts!Doing, AccessFacts!Assigned, AccessFacts!Active,
     AccessFacts!locks
<1>2. /\ Access!InsertAssignment(c) <=> AccessFacts!InsertAssignment(c)
      /\ Access!RevokeAssignment(c) <=> AccessFacts!RevokeAssignment(c)
      /\ Access!LockRow(c) <=> AccessFacts!LockRow(c)
      /\ Access!UpdateAssignment(c) <=> AccessFacts!UpdateAssignment(c)
      /\ Access!DeadlockVictim(c) <=> AccessFacts!DeadlockVictim(c)
  BY DEF Access!InsertAssignment, Access!RevokeAssignment, Access!LockRow,
     Access!UpdateAssignment, Access!DeadlockVictim, Access!Waits, Access!UpdatePermitted,
     Access!Granted, Access!Goto, Access!Doing, Access!Assigned, Access!Active, Access!locks,
     AccessFacts!InsertAssignment, AccessFacts!RevokeAssignment, AccessFacts!LockRow,
     AccessFacts!UpdateAssignment, AccessFacts!DeadlockVictim, AccessFacts!Waits,
     AccessFacts!UpdatePermitted, AccessFacts!Granted, AccessFacts!Goto, AccessFacts!Doing,
     AccessFacts!Assigned, AccessFacts!Active, AccessFacts!locks
<1> QED
  BY <1>1, <1>2 DEF Access!Statement, AccessFacts!Statement

LEMMA SameEnds ==
  ASSUME NEW c \in Connections
  PROVE  /\ Access!Publish(c) <=> AccessFacts!Publish(c)
         /\ Access!End(c) <=> AccessFacts!End(c)
         /\ Access!Lose(c) => AccessFacts!End(c) /\ UNCHANGED <<reviewer, assignments>>
  BY DEF Access!Publish, Access!End, Access!Release, Access!Goto, Access!Lose,
     AccessFacts!Publish, AccessFacts!End, AccessFacts!Release, AccessFacts!Goto

LEMMA ViewInit == EvtView!Init <=> EvtFacts!Init
  BY DEF EvtView!Init, EvtFacts!Init

LEMMA ViewNext == [EvtView!Next]_(EvtView!vars) <=> [EvtFacts!Next]_(EvtFacts!vars)
<1>1. \A c \in Connections :
        /\ EvtView!BeginCall(c) <=> EvtFacts!BeginCall(c)
        /\ EvtView!BeginAttest(c, "request") <=> EvtFacts!BeginAttest(c, "request")
  BY DEF EvtView!BeginCall, EvtView!BeginByCandidate, EvtView!BeginOther,
     EvtView!BeginAttest, EvtView!Begin, EvtView!Goto, EvtView!stored,
     EvtView!CandidateCalls, EvtView!OtherCalls, EvtView!Attestations,
     EvtView!TrustResults,
     EvtFacts!BeginCall, EvtFacts!BeginByCandidate, EvtFacts!BeginOther,
     EvtFacts!BeginAttest, EvtFacts!Begin, EvtFacts!Goto, EvtFacts!stored,
     EvtFacts!CandidateCalls, EvtFacts!OtherCalls, EvtFacts!Attestations,
     EvtFacts!TrustResults
<1>2. \A c \in Connections :
        /\ EvtView!LockRequest(c) <=> EvtFacts!LockRequest(c)
        /\ EvtView!Create(c) <=> EvtFacts!Create(c)
        /\ EvtView!UpdateDraft(c) <=> EvtFacts!UpdateDraft(c)
        /\ EvtView!Submit(c) <=> EvtFacts!Submit(c)
        /\ EvtView!Cancel(c) <=> EvtFacts!Cancel(c)
  BY DEF EvtView!LockRequest, EvtView!Finds, EvtView!Create, EvtView!UpdateDraft,
     EvtView!MatchesDraft, EvtView!Submit, EvtView!Submission, EvtView!Cancel,
     EvtView!Proceeds, EvtView!Accepted, EvtView!Doing, EvtView!Writes, EvtView!Moved,
     EvtView!Staged, EvtView!Event, EvtView!Goto, EvtView!stored,
     EvtFacts!LockRequest, EvtFacts!Finds, EvtFacts!Create, EvtFacts!UpdateDraft,
     EvtFacts!MatchesDraft, EvtFacts!Submit, EvtFacts!Submission, EvtFacts!Cancel,
     EvtFacts!Proceeds, EvtFacts!Accepted, EvtFacts!Doing, EvtFacts!Writes, EvtFacts!Moved,
     EvtFacts!Staged, EvtFacts!Event, EvtFacts!Goto, EvtFacts!stored
<1>3. \A c \in Connections :
        /\ EvtView!Attest(c) <=> EvtFacts!Attest(c)
        /\ EvtView!Verify(c) <=> EvtFacts!Verify(c)
        /\ EvtView!Consume(c) <=> EvtFacts!Consume(c)
        /\ EvtView!Close(c) <=> EvtFacts!Close(c)
        /\ EvtView!RefuseStatus(c) <=> EvtFacts!RefuseStatus(c)
  BY DEF EvtView!Attest, EvtView!Verify, EvtView!Consume, EvtView!Close,
     EvtView!RefuseStatus, EvtView!Matches, EvtView!Rejections, EvtView!TrustResults,
     EvtView!Proceeds, EvtView!Accepted, EvtView!Doing, EvtView!Writes, EvtView!Moved,
     EvtView!Staged, EvtView!Event, EvtView!Goto, EvtView!stored,
     EvtFacts!Attest, EvtFacts!Verify, EvtFacts!Consume, EvtFacts!Close,
     EvtFacts!RefuseStatus, EvtFacts!Matches, EvtFacts!Rejections, EvtFacts!TrustResults,
     EvtFacts!Proceeds, EvtFacts!Accepted, EvtFacts!Doing, EvtFacts!Writes, EvtFacts!Moved,
     EvtFacts!Staged, EvtFacts!Event, EvtFacts!Goto, EvtFacts!stored
<1>4. \A c \in Connections :
        /\ EvtView!FailEvent(c) <=> EvtFacts!FailEvent(c)
        /\ EvtView!Commit(c) <=> EvtFacts!Commit(c)
        /\ EvtView!Rollback(c) <=> EvtFacts!Rollback(c)
        /\ EvtView!Lose(c) <=> EvtFacts!Lose(c)
  BY DEF EvtView!FailEvent, EvtView!Commit, EvtView!Rollback, EvtView!Lose, EvtView!End,
     EvtView!Publish, EvtView!DropsEventError, EvtView!Goto, EvtView!stored,
     EvtFacts!FailEvent, EvtFacts!Commit, EvtFacts!Rollback, EvtFacts!Lose, EvtFacts!End,
     EvtFacts!Publish, EvtFacts!DropsEventError, EvtFacts!Goto, EvtFacts!stored
<1>5. \A e \in Employers : EvtView!SetDispatch(e) <=> EvtFacts!SetDispatch(e)
  BY DEF EvtView!SetDispatch, EvtFacts!SetDispatch
<1>6. EvtView!Next <=> EvtFacts!Next
  BY <1>1, <1>2, <1>3, <1>4, <1>5
  DEF EvtView!Next, EvtView!Statement, EvtFacts!Next, EvtFacts!Statement
<1>7. UNCHANGED EvtView!vars <=> UNCHANGED EvtFacts!vars
  BY DEF EvtView!vars, EvtView!stored, EvtFacts!vars, EvtFacts!stored
<1> QED
  BY <1>6, <1>7

-----------------------------------------------------------------------------
(* The inductive invariant                                                  *)

AccessOps == {"review", "grant", "revoke", "amend", "account"}
Requesting == Evt!CandidateCalls \cup Evt!OtherCalls

\* Which statements a connection's call executes, and of which side.
Executing(k, where) ==
  \/ /\ k.op \in AccessOps
     /\ where \in {"authorize", "check", "authorized", "find", "principal", "write", "row",
                   "ready", "failed"}
  \/ /\ k \in Evt!Attestations
     /\ where \in {"authorize", "check", "authorized", "request", "work", "ready", "aborted",
                   "failed"}
  \/ /\ k \in Requesting
     /\ where \in {"request", "work", "ready", "aborted", "failed"}
     /\ where = "request" => k.op \notin {"create", "update"}

Sides == \A c \in Connections :
  /\ phase[c] # "idle" => Executing(call[c], phase[c])
  /\ work[c] # Null =>
       /\ phase[c] \in {"ready", "aborted", "failed"}
       /\ call[c].op \notin AccessOps
       /\ phase[c] = "failed" => call[c].op # "attest"

\* Requests are held by calls of EvtRequest that have found them.
Holding == \A r \in Requests : requestLock[r] # Null =>
  /\ phase[requestLock[r]] \in {"work", "ready", "aborted", "failed"}
  /\ call[requestLock[r]].op \notin AccessOps

Shapes ==
  /\ work = [c \in Connections |-> work[c]]
  /\ requestLock \in [Requests -> Connections \cup {Null}]

Inv == AccessFacts!AccessInv /\ Shapes /\ Sides /\ Holding

LEMMA Operations ==
  /\ \A k \in Evt!Attestations :
       k.op = "attest" /\ k.principal \in Principals /\ k.request \in Requests
  /\ \A k \in Requesting :
       /\ k.op \in {"create", "update", "submit", "cancel", "verify", "consume", "close"}
       /\ k.op # "create" => k.request \in Requests
<1>1. \A k \in Evt!Attestations :
        k.op = "attest" /\ k.principal \in Principals /\ k.request \in Requests
  BY DEF Evt!Attestations
<1>2. ASSUME NEW k \in Requesting
      PROVE  /\ k.op \in {"create", "update", "submit", "cancel", "verify", "consume", "close"}
             /\ k.op # "create" => k.request \in Requests
  <2>1. CASE k \in Evt!CandidateCalls
    BY <2>1 DEF Evt!CandidateCalls
  <2>2. CASE k \in Evt!OtherCalls
    BY <2>2 DEF Evt!OtherCalls
  <2> QED
    BY <2>1, <2>2 DEF Requesting
<1> QED
  BY <1>1, <1>2

LEMMA CallShapes ==
  ASSUME Inv
  PROVE  /\ phase = [c \in Connections |-> phase[c]]
         /\ call = [c \in Connections |-> call[c]]
  BY DEF Inv, AccessFacts!AccessInv, AccessFacts!Types

-----------------------------------------------------------------------------
(* What EvtRequest sees                                                     *)

\* A step of one connection that takes no lock.
Alone(c) ==
  /\ phase' = [d \in Connections |-> phase'[d]] /\ call' = [d \in Connections |-> call'[d]]
  /\ \A d \in Connections \ {c} : phase'[d] = phase[d] /\ call'[d] = call[d]
  /\ \A d \in Connections \ {c} : Hidden(d)' <=> Hidden(d)

LEMMA AloneHolds ==
  ASSUME NEW c \in Connections,
         phase' = [d \in Connections |-> phase'[d]], call' = [d \in Connections |-> call'[d]],
         \A d \in Connections \ {c} : phase'[d] = phase[d] /\ call'[d] = call[d]
  PROVE  Alone(c)
  BY DEF Alone, Hidden

LEMMA GotoAlone ==
  ASSUME Inv, NEW c \in Connections, NEW where, NEW request,
         phase' = [phase EXCEPT ![c] = where],
         call' = call \/ call' = [call EXCEPT ![c] = request]
  PROVE  /\ Alone(c) /\ phase'[c] = where
         /\ call' = call => call'[c] = call[c]
         /\ call' = [call EXCEPT ![c] = request] => call'[c] = request
<1>1. /\ phase'[c] = where
      /\ call' = call => call'[c] = call[c]
      /\ call' = [call EXCEPT ![c] = request] => call'[c] = request
      /\ phase' = [d \in Connections |-> phase'[d]]
      /\ call' = [d \in Connections |-> call'[d]]
      /\ \A d \in Connections \ {c} : phase'[d] = phase[d] /\ call'[d] = call[d]
  BY CallShapes
<1> QED
  BY <1>1, AloneHolds

\* A call that stays, or comes into sight.
LEMMA Seen ==
  ASSUME Inv, NEW c \in Connections, Alone(c), ~Hidden(c)'
  PROVE  /\ visibleCall' = [visibleCall EXCEPT ![c] = call'[c]]
         /\ visiblePhase' = [visiblePhase EXCEPT ![c] = phase'[c]]
  BY DEF Alone, visibleCall, visiblePhase

\* A call that stays, or goes out of sight.
LEMMA Unseen ==
  ASSUME Inv, NEW c \in Connections, Alone(c), Hidden(c)',
         requestLock' \in [Requests -> Connections \cup {Null}],
         \A r \in Requests : \/ requestLock'[r] = requestLock[r]
                             \/ requestLock[r] = c /\ requestLock'[r] = Null
  PROVE  /\ visibleCall' = [visibleCall EXCEPT ![c] = Null]
         /\ visiblePhase' = [visiblePhase EXCEPT ![c] = "idle"]
         /\ visibleLock' = [r \in Requests |-> IF visibleLock[r] = c THEN Null ELSE visibleLock[r]]
         /\ Hidden(c) => UNCHANGED <<visibleCall, visiblePhase, visibleLock>>
<1>1. visibleCall' = [visibleCall EXCEPT ![c] = Null]
  BY DEF Alone, visibleCall
<1>2. visiblePhase' = [visiblePhase EXCEPT ![c] = "idle"]
  BY DEF Alone, visiblePhase
<1>3. ASSUME NEW r \in Requests
      PROVE  visibleLock'[r] = IF visibleLock[r] = c THEN Null ELSE visibleLock[r]
  <2>1. requestLock[r] \in Connections \cup {Null}
    BY DEF Inv, Shapes
  <2>2. c # Null
    BY AccessAssumed DEF AccessFacts!AccessAssumption
  <2>3. CASE requestLock[r] = c
    BY <2>2, <2>3 DEF visibleLock
  <2>4. CASE requestLock[r] # c
    BY <2>1, <2>4 DEF visibleLock, Alone
  <2> QED
    BY <2>3, <2>4
<1>4. visibleLock' = [r \in Requests |-> IF visibleLock[r] = c THEN Null ELSE visibleLock[r]]
  BY <1>3 DEF visibleLock
<1>5. ASSUME Hidden(c) PROVE UNCHANGED <<visibleCall, visiblePhase, visibleLock>>
  <2>1. visibleCall[c] = Null /\ visiblePhase[c] = "idle"
    BY <1>5 DEF visibleCall, visiblePhase
  <2>2. c # Null
    BY AccessAssumed DEF AccessFacts!AccessAssumption
  <2>3. \A r \in Requests : visibleLock[r] # c
    BY <1>5, <2>2 DEF visibleLock
  <2>4. UNCHANGED visibleLock
    BY <1>4, <2>3 DEF visibleLock
  <2>5. UNCHANGED visibleCall
    BY <1>1, <2>1 DEF visibleCall
  <2>6. UNCHANGED visiblePhase
    BY <1>2, <2>1 DEF visiblePhase
  <2> QED
    BY <2>4, <2>5, <2>6
<1> QED
  BY <1>1, <1>2, <1>4, <1>5

\* What a call in sight finds, and what becomes of the locks while it stays there.
LEMMA InSight ==
  ASSUME Inv, NEW c \in Connections, ~Hidden(c)
  PROVE  /\ visibleCall[c] = call[c] /\ visiblePhase[c] = phase[c]
         /\ \A r \in Requests : requestLock[r] = Null => visibleLock[r] = Null
  BY DEF visibleCall, visiblePhase, visibleLock

LEMMA LocksInSight ==
  ASSUME Inv, NEW c \in Connections, Alone(c), ~Hidden(c)',
         ~Hidden(c) \/ \A r \in Requests : requestLock[r] # c
  PROVE  /\ requestLock' = requestLock => visibleLock' = visibleLock
         /\ \A r \in Requests : requestLock' = [requestLock EXCEPT ![r] = c] =>
              visibleLock' = [visibleLock EXCEPT ![r] = c]
<1>0. c # Null /\ requestLock \in [Requests -> Connections \cup {Null}]
  BY AccessAssumed DEF AccessFacts!AccessAssumption, Inv, Shapes
<1>1. ASSUME NEW r \in Requests, requestLock'[r] = requestLock[r]
      PROVE  visibleLock'[r] = visibleLock[r]
  BY <1>0, <1>1 DEF visibleLock, Alone
<1>2. ASSUME NEW r \in Requests, requestLock'[r] = c PROVE visibleLock'[r] = c
  BY <1>0, <1>2 DEF visibleLock
<1>3. ASSUME requestLock' = requestLock PROVE visibleLock' = visibleLock
  BY <1>1, <1>3 DEF visibleLock
<1>4. ASSUME NEW r \in Requests, requestLock' = [requestLock EXCEPT ![r] = c]
      PROVE  visibleLock' = [visibleLock EXCEPT ![r] = c]
  <2>1. requestLock'[r] = c /\ \A q \in Requests \ {r} : requestLock'[q] = requestLock[q]
    BY <1>0, <1>4
  <2>2. visibleLock'[r] = c /\ \A q \in Requests \ {r} : visibleLock'[q] = visibleLock[q]
    BY <1>1, <1>2, <2>1
  <2> QED
    BY <2>2 DEF visibleLock
<1> QED
  BY <1>3, <1>4

-----------------------------------------------------------------------------
(* Every step is one of EvtRequest, or none                                 *)

LEMMA ViewBegin ==
  ASSUME Inv, NEW c \in Connections, BeginEvt(c)
  PROVE  EvtView!BeginCall(c) \/ UNCHANGED EvtView!vars
<1>1. CASE Evt!BeginCall(c)
  <2>1. PICK request \in Requesting :
          /\ request \in Evt!OtherCalls => request.op \notin {"create", "update"}
          /\ Evt!Begin(c, IF request.op \in {"create", "update"} THEN "work" ELSE "request",
                       request)
    <3>1. \A request \in Evt!OtherCalls : request.op \notin {"create", "update"}
      BY DEF Evt!OtherCalls
    <3>2. CASE Evt!BeginByCandidate(c)
      <4>1. PICK request \in Evt!CandidateCalls :
              Evt!Begin(c, IF request.op \in {"create", "update"} THEN "work" ELSE "request",
                        request)
        BY <3>2 DEF Evt!BeginByCandidate
      <4>2. request \in Requesting
        BY DEF Requesting
      <4>3. request \in Evt!OtherCalls => request.op \notin {"create", "update"}
        BY <3>1
      <4> QED
        BY <4>1, <4>2, <4>3
    <3>3. CASE Evt!BeginOther(c)
      <4>1. PICK request \in Evt!OtherCalls : Evt!Begin(c, "request", request)
        BY <3>3 DEF Evt!BeginOther
      <4>2. request \in Requesting
        BY DEF Requesting
      <4>3. request.op \notin {"create", "update"}
        BY <3>1
      <4> QED
        BY <4>1, <4>2, <4>3
    <3> QED
      BY <1>1, <3>2, <3>3 DEF Evt!BeginCall
  <2> DEFINE where == IF request.op \in {"create", "update"} THEN "work" ELSE "request"
  <2>2. /\ Alone(c) /\ phase'[c] = where /\ call'[c] = request
    BY <2>1, GotoAlone DEF Evt!Begin, Evt!Goto
  <2>3. Hidden(c) /\ ~Hidden(c)'
    BY <2>1, <2>2, Operations DEF Evt!Begin, Hidden
  <2>4. \A r \in Requests : requestLock[r] # c
    BY <2>1, AccessAssumed DEF Inv, Holding, Evt!Begin, AccessFacts!AccessAssumption
  <2>5. /\ visibleCall' = [visibleCall EXCEPT ![c] = request]
        /\ visiblePhase' = [visiblePhase EXCEPT ![c] = where]
    BY <2>2, <2>3, Seen
  <2>6. visibleLock' = visibleLock
    BY <2>1, <2>2, <2>3, <2>4, LocksInSight DEF Evt!Begin
  <2>7. visiblePhase[c] = "idle"
    BY <2>3 DEF visiblePhase
  <2>8. EvtView!Begin(c, where, request)
    BY <2>1, <2>5, <2>6, <2>7
    DEF EvtView!Begin, EvtView!Goto, EvtView!stored, Evt!Begin, Evt!stored
  <2>9. EvtView!CandidateCalls = Evt!CandidateCalls /\ EvtView!OtherCalls = Evt!OtherCalls
    BY DEF EvtView!CandidateCalls, Evt!CandidateCalls, EvtView!OtherCalls, Evt!OtherCalls,
           EvtView!TrustResults, Evt!TrustResults
  <2> QED
    BY <2>1, <2>8, <2>9
    DEF EvtView!BeginCall, EvtView!BeginByCandidate, EvtView!BeginOther, Requesting
<1>2. CASE Evt!BeginAttest(c, "authorize")
  <2>1. PICK request \in Evt!Attestations : Evt!Begin(c, "authorize", request)
    BY <1>2 DEF Evt!BeginAttest
  <2>2. Alone(c) /\ phase'[c] = "authorize" /\ call'[c] = request
    BY <2>1, GotoAlone DEF Evt!Begin, Evt!Goto
  <2>3. Hidden(c) /\ Hidden(c)'
    BY <2>1, <2>2, Operations DEF Evt!Begin, Hidden
  <2>4. UNCHANGED <<visibleCall, visiblePhase, visibleLock>>
    BY <2>1, <2>2, <2>3, Unseen DEF Evt!Begin, Inv, Shapes
  <2> QED
    BY <2>1, <2>4 DEF Evt!Begin, Evt!stored, EvtView!vars, EvtView!stored
<1> QED
  BY <1>1, <1>2 DEF BeginEvt

LEMMA ViewContinue ==
  ASSUME Inv, NEW c \in Connections, Continue(c)
  PROVE  EvtView!BeginAttest(c, "request")
<1>1. /\ call[c].op = "attest" /\ phase[c] = "authorized" /\ call' = call
      /\ phase' = [phase EXCEPT ![c] = "request"]
      /\ UNCHANGED evtState
  BY DEF Continue, Access!Doing, Access!Goto
<1>2. call[c] \in Evt!Attestations
  BY <1>1, Operations DEF Inv, Sides, Executing, AccessOps
<1>3. Alone(c) /\ phase'[c] = "request" /\ call'[c] = call[c]
  BY <1>1, GotoAlone
<1>4. Hidden(c) /\ ~Hidden(c)'
  BY <1>1, <1>3 DEF Hidden
<1>5. \A r \in Requests : requestLock[r] # c
  BY <1>1, AccessAssumed DEF Inv, Holding, AccessFacts!AccessAssumption
<1>6. /\ visibleCall' = [visibleCall EXCEPT ![c] = call[c]]
      /\ visiblePhase' = [visiblePhase EXCEPT ![c] = "request"]
  BY <1>3, <1>4, Seen
<1>7. visibleLock' = visibleLock
  BY <1>1, <1>3, <1>4, <1>5, LocksInSight DEF evtState
<1>8. visiblePhase[c] = "idle"
  BY <1>4 DEF visiblePhase
<1>9. EvtView!Attestations = Evt!Attestations
  BY DEF EvtView!Attestations, Evt!Attestations
<1> QED
  BY <1>1, <1>2, <1>6, <1>7, <1>8, <1>9
  DEF EvtView!BeginAttest, EvtView!Begin, EvtView!Goto, EvtView!stored, evtState

\* A statement after which the call is in sight still.
LEMMA StaysInSight ==
  ASSUME Inv, NEW c \in Connections, NEW where,
         Evt!Goto(c, where), call' = call, ~Hidden(c),
         where # "idle", where = "failed" => call[c].op # "attest",
         where \notin {"authorize", "check", "authorized"}
  PROVE  /\ visibleCall[c] = call[c] /\ visiblePhase[c] = phase[c]
         /\ visibleCall' = visibleCall
         /\ EvtView!Goto(c, where)
         /\ \A r \in Requests : requestLock[r] = Null => visibleLock[r] = Null
         /\ requestLock' = requestLock => visibleLock' = visibleLock
         /\ \A r \in Requests : requestLock' = [requestLock EXCEPT ![r] = c] =>
              visibleLock' = [visibleLock EXCEPT ![r] = c]
<1>1. Alone(c) /\ phase'[c] = where /\ call'[c] = call[c]
  BY GotoAlone DEF Evt!Goto
<1>2. ~Hidden(c)'
  BY <1>1 DEF Hidden
<1>3. /\ visibleCall' = [visibleCall EXCEPT ![c] = call[c]]
      /\ visiblePhase' = [visiblePhase EXCEPT ![c] = where]
  BY <1>1, <1>2, Seen
<1>4. /\ visibleCall[c] = call[c] /\ visiblePhase[c] = phase[c]
      /\ \A r \in Requests : requestLock[r] = Null => visibleLock[r] = Null
  BY InSight
<1>5. visibleCall' = visibleCall
  BY <1>3, <1>4 DEF visibleCall
<1>6. /\ requestLock' = requestLock => visibleLock' = visibleLock
      /\ \A r \in Requests : requestLock' = [requestLock EXCEPT ![r] = c] =>
           visibleLock' = [visibleLock EXCEPT ![r] = c]
  BY <1>1, <1>2, LocksInSight
<1> QED
  BY <1>3, <1>4, <1>5, <1>6 DEF EvtView!Goto

\* An attestation that fails is lost to EvtRequest.
LEMMA ViewFailure ==
  ASSUME Inv, NEW c \in Connections, ~Hidden(c), call[c].op = "attest",
         Evt!Goto(c, "failed"), work[c] = Null,
         UNCHANGED <<call, Evt!stored, work, requestLock>>
  PROVE  EvtView!Lose(c)
<1>1. Alone(c) /\ phase'[c] = "failed" /\ call'[c] = call[c]
  BY GotoAlone DEF Evt!Goto
<1>2. Hidden(c)'
  BY <1>1 DEF Hidden
<1>3. /\ visibleCall' = [visibleCall EXCEPT ![c] = Null]
      /\ visiblePhase' = [visiblePhase EXCEPT ![c] = "idle"]
      /\ visibleLock' = [r \in Requests |-> IF visibleLock[r] = c THEN Null ELSE visibleLock[r]]
  BY <1>1, <1>2, Unseen DEF Inv, Shapes
<1>4. visiblePhase[c] # "idle"
  BY InSight DEF Hidden
<1>5. work' = [work EXCEPT ![c] = Null]
  BY DEF Inv, Shapes
<1> QED
  BY <1>3, <1>4, <1>5
  DEF EvtView!Lose, EvtView!End, EvtView!Goto, EvtView!stored, Evt!stored

LEMMA ViewLockRequest ==
  ASSUME Inv, NEW c \in Connections, Evt!LockRequest(c)
  PROVE  EvtView!LockRequest(c) \/ EvtView!Lose(c)
<1>1. phase[c] = "request" /\ work[c] = Null /\ call[c].op \notin AccessOps
  BY Operations DEF Evt!LockRequest, Inv, Sides, Executing, AccessOps
<1>2. ~Hidden(c) /\ call[c].request \in Requests
  BY <1>1, Operations DEF Inv, Sides, Executing, Hidden, AccessOps
<1>3. visibleCall[c] = call[c] /\ visiblePhase[c] = phase[c]
  BY <1>2, InSight
<1>4. EvtView!Finds(c) <=> Evt!Finds(c)
  BY <1>3 DEF EvtView!Finds, Evt!Finds
<1>5. CASE Evt!Finds(c)
  <2>1. /\ Evt!Goto(c, "work") /\ call' = call
        /\ requestLock[call[c].request] = Null
        /\ requestLock' = [requestLock EXCEPT ![call[c].request] = c]
    BY <1>5 DEF Evt!LockRequest
  <2>2. /\ visibleCall' = visibleCall /\ EvtView!Goto(c, "work")
        /\ visibleLock[call[c].request] = Null
        /\ visibleLock' = [visibleLock EXCEPT ![call[c].request] = c]
    BY <1>2, <2>1, StaysInSight
  <2> QED
    BY <1>1, <1>3, <1>4, <1>5, <2>2
    DEF EvtView!LockRequest, EvtView!stored, Evt!LockRequest, Evt!stored
<1>6. CASE ~Evt!Finds(c) /\ call[c].op # "attest"
  <2>1. Evt!Goto(c, "failed") /\ call' = call /\ requestLock' = requestLock
    BY <1>6 DEF Evt!LockRequest
  <2>2. /\ visibleCall' = visibleCall /\ EvtView!Goto(c, "failed")
        /\ visibleLock' = visibleLock
    BY <1>2, <1>6, <2>1, StaysInSight
  <2> QED
    BY <1>1, <1>3, <1>4, <1>6, <2>2
    DEF EvtView!LockRequest, EvtView!stored, Evt!LockRequest, Evt!stored
<1>7. CASE ~Evt!Finds(c) /\ call[c].op = "attest"
  BY <1>1, <1>2, <1>7, ViewFailure DEF Evt!LockRequest
<1> QED
  BY <1>5, <1>6, <1>7

LEMMA ViewWork ==
  ASSUME Inv, NEW c \in Connections, phase[c] = "work"
  PROVE  /\ ~Hidden(c) /\ work[c] = Null
         /\ visibleCall[c] = call[c] /\ visiblePhase[c] = "work"
         /\ call[c].op # "create" => call[c].request \in Requests
<1>1. ~Hidden(c) /\ work[c] = Null /\ (call[c].op # "create" => call[c].request \in Requests)
  BY Operations DEF Inv, Sides, Executing, Hidden, AccessOps
<1> QED
  BY <1>1, InSight

\* The statements of a call that has found its request.
LEMMA ViewHeldWork ==
  ASSUME Inv, NEW c \in Connections, phase[c] = "work",
         \/ Evt!Submit(c) \/ Evt!Cancel(c) \/ Evt!Attest(c) \/ Evt!Verify(c)
         \/ Evt!Consume(c) \/ Evt!Close(c) \/ Evt!RefuseStatus(c)
  PROVE  EvtView!Statement(c) \/ EvtView!Lose(c)
<1>1. /\ ~Hidden(c) /\ work[c] = Null
      /\ visibleCall[c] = call[c] /\ visiblePhase[c] = "work"
  BY ViewWork
<1>2. PICK where \in {"ready", "failed"} :
        Evt!Goto(c, where) /\ UNCHANGED <<call, Evt!stored, requestLock>>
  BY DEF Evt!Submit, Evt!Cancel, Evt!Attest, Evt!Verify, Evt!Consume, Evt!Close,
         Evt!RefuseStatus, Evt!Writes
<1>3. CASE call[c].op = "attest" /\ where = "failed"
  <2>1. UNCHANGED work
    <3>1. Evt!Attest(c) \/ Evt!RefuseStatus(c)
      BY <1>3 DEF Evt!Submit, Evt!Cancel, Evt!Verify, Evt!Consume, Evt!Close,
                  Evt!Proceeds, Evt!Doing
    <3>2. phase'[c] = "failed"
      BY <1>2, <1>3, GotoAlone DEF Evt!Goto
    <3>3. CASE Evt!Attest(c) /\ call[c].verdict \in Evt!Matches \cup Evt!Rejections
      <4>1. Evt!Goto(c, "ready")
        BY <3>3 DEF Evt!Attest, Evt!Writes
      <4>2. phase'[c] = "ready"
        BY <1>2, <4>1, GotoAlone DEF Evt!Goto
      <4> QED
        BY <3>2, <4>2
    <3> QED
      BY <3>1, <3>3 DEF Evt!Attest, Evt!RefuseStatus
  <2> QED
    BY <1>1, <1>2, <1>3, <2>1, ViewFailure
<1>4. CASE ~(call[c].op = "attest" /\ where = "failed")
  <2>1. /\ visibleCall' = visibleCall /\ EvtView!Goto(c, where)
        /\ visibleLock' = visibleLock
    BY <1>1, <1>2, <1>4, StaysInSight
  <2>2. \A w \in {"ready", "failed"} : Evt!Goto(c, w) => EvtView!Goto(c, w)
    <3> SUFFICES ASSUME NEW w \in {"ready", "failed"}, Evt!Goto(c, w)
                 PROVE  EvtView!Goto(c, w)
      OBVIOUS
    <3>1. phase'[c] = w /\ phase'[c] = where
      BY <1>2, GotoAlone DEF Evt!Goto
    <3> QED
      BY <2>1, <3>1
  <2>3. \A op : EvtView!Proceeds(c, op) <=> Evt!Proceeds(c, op)
    BY <1>1 DEF EvtView!Proceeds, EvtView!Doing, EvtView!Accepted,
                Evt!Proceeds, Evt!Doing, Evt!Accepted
  <2>4. \A r, row, log : Evt!Writes(c, r, row, log) => EvtView!Writes(c, r, row, log)
    BY <2>1, <2>2 DEF EvtView!Writes, EvtView!Staged, EvtView!stored,
                      Evt!Writes, Evt!Staged, Evt!stored
  <2>5. Evt!Submit(c) => EvtView!Submit(c)
    BY <1>1, <2>1, <2>3, <2>4
    DEF EvtView!Submit, EvtView!Submission, EvtView!Moved, EvtView!Event,
        Evt!Submit, Evt!Submission, Evt!Moved, Evt!Event
  <2>6. Evt!Cancel(c) => EvtView!Cancel(c)
    BY <1>1, <2>1, <2>3, <2>4
    DEF EvtView!Cancel, EvtView!Moved, EvtView!Event, Evt!Cancel, Evt!Moved, Evt!Event
  <2>7. Evt!Attest(c) => EvtView!Attest(c)
    BY <1>1, <2>1, <2>2, <2>3, <2>4
    DEF EvtView!Attest, EvtView!Moved, EvtView!Event, EvtView!Matches, EvtView!Rejections,
        EvtView!stored, Evt!Attest, Evt!Moved, Evt!Event, Evt!Matches, Evt!Rejections,
        Evt!stored
  <2>8. Evt!Verify(c) => EvtView!Verify(c)
    BY <1>1, <2>1, <2>2, <2>3, <2>4
    DEF EvtView!Verify, EvtView!Moved, EvtView!Event, EvtView!TrustResults,
        EvtView!stored, Evt!Verify, Evt!Moved, Evt!Event, Evt!TrustResults, Evt!stored
  <2>9. Evt!Consume(c) => EvtView!Consume(c)
    BY <1>1, <2>1, <2>2, <2>3
    DEF EvtView!Consume, EvtView!Moved, EvtView!Event, EvtView!Staged, EvtView!stored,
        Evt!Consume, Evt!Moved, Evt!Event, Evt!Staged, Evt!stored
  <2>10. Evt!Close(c) => EvtView!Close(c)
    BY <1>1, <2>1, <2>3, <2>4
    DEF EvtView!Close, EvtView!Moved, EvtView!Event, Evt!Close, Evt!Moved, Evt!Event
  <2>11. Evt!RefuseStatus(c) => EvtView!RefuseStatus(c)
    BY <1>1, <2>1, <2>2
    DEF EvtView!RefuseStatus, EvtView!Accepted, EvtView!stored,
        Evt!RefuseStatus, Evt!Accepted, Evt!stored
  <2> QED
    BY <2>5, <2>6, <2>7, <2>8, <2>9, <2>10, <2>11 DEF EvtView!Statement
<1> QED
  BY <1>3, <1>4

LEMMA ViewDraft ==
  ASSUME Inv, NEW c \in Connections, Evt!Create(c) \/ Evt!UpdateDraft(c)
  PROVE  EvtView!Statement(c)
<1>1. phase[c] = "work" /\ call[c].op \in {"create", "update"}
  BY DEF Evt!Create, Evt!UpdateDraft, Evt!Doing
<1>2. /\ ~Hidden(c) /\ visibleCall[c] = call[c] /\ visiblePhase[c] = "work"
      /\ call[c].op = "update" => call[c].request \in Requests
  BY <1>1, ViewWork
<1>3. CASE Evt!Create(c)
  <2>1. Evt!Goto(c, "ready") /\ UNCHANGED <<call, requestLock>>
    BY <1>3 DEF Evt!Create
  <2>2. /\ visibleCall' = visibleCall /\ EvtView!Goto(c, "ready")
        /\ visibleLock' = visibleLock
    BY <1>2, <2>1, StaysInSight
  <2>3. EvtView!Create(c)
    BY <1>2, <1>3, <2>2
    DEF EvtView!Create, EvtView!Doing, EvtView!Staged, EvtView!Event, EvtView!stored,
        Evt!Create, Evt!Doing, Evt!Staged, Evt!Event, Evt!stored
  <2> QED
    BY <2>3 DEF EvtView!Statement
<1>4. CASE Evt!UpdateDraft(c) /\ Evt!MatchesDraft(c, requests[call[c].request])
  <2> DEFINE r == call[c].request
  <2>1. /\ Evt!Goto(c, "ready") /\ call' = call /\ requestLock[r] = Null
        /\ requestLock' = [requestLock EXCEPT ![r] = c] /\ call[c].op = "update"
    BY <1>4 DEF Evt!UpdateDraft, Evt!Writes, Evt!Doing
  <2>2. /\ visibleCall' = visibleCall /\ EvtView!Goto(c, "ready")
        /\ visibleLock[r] = Null /\ visibleLock' = [visibleLock EXCEPT ![r] = c]
    BY <1>2, <2>1, StaysInSight
  <2>3. EvtView!UpdateDraft(c)
    BY <1>2, <1>4, <2>1, <2>2
    DEF EvtView!UpdateDraft, EvtView!MatchesDraft, EvtView!Doing, EvtView!Writes,
        EvtView!Staged, EvtView!Moved, EvtView!Event, EvtView!stored,
        Evt!UpdateDraft, Evt!MatchesDraft, Evt!Doing, Evt!Writes,
        Evt!Staged, Evt!Moved, Evt!Event, Evt!stored
  <2> QED
    BY <2>3 DEF EvtView!Statement
<1>5. CASE Evt!UpdateDraft(c) /\ ~Evt!MatchesDraft(c, requests[call[c].request])
  <2>1. /\ Evt!Goto(c, "failed") /\ call[c].op = "update"
        /\ UNCHANGED <<call, Evt!stored, work, requestLock>>
    BY <1>5 DEF Evt!UpdateDraft, Evt!Doing
  <2>2. /\ visibleCall' = visibleCall /\ EvtView!Goto(c, "failed")
        /\ visibleLock' = visibleLock
    BY <1>2, <2>1, StaysInSight
  <2>3. EvtView!UpdateDraft(c)
    BY <1>2, <1>5, <2>1, <2>2
    DEF EvtView!UpdateDraft, EvtView!MatchesDraft, EvtView!Doing, EvtView!stored,
        Evt!MatchesDraft, Evt!stored
  <2> QED
    BY <2>3 DEF EvtView!Statement
<1> QED
  BY <1>3, <1>4, <1>5

LEMMA ViewFailEvent ==
  ASSUME Inv, NEW c \in Connections, Evt!FailEvent(c)
  PROVE  EvtView!FailEvent(c)
<1>1. /\ phase[c] = "ready" /\ work[c] # Null
      /\ UNCHANGED <<call, Evt!stored, work, requestLock>>
  BY DEF Evt!FailEvent
<1>2. ~Hidden(c)
  BY <1>1 DEF Inv, Sides, Hidden, AccessOps
<1>3. PICK where \in {"aborted", "failed"} :
        /\ Evt!Goto(c, where)
        /\ where = IF call[c].op \in Evt!DropsEventError THEN "aborted" ELSE "failed"
  BY DEF Evt!FailEvent
<1>4. where = "failed" => call[c].op # "attest"
  BY <1>3 DEF Evt!DropsEventError
<1>5. /\ visibleCall[c] = call[c] /\ visiblePhase[c] = phase[c]
      /\ visibleCall' = visibleCall /\ EvtView!Goto(c, where) /\ visibleLock' = visibleLock
  BY <1>1, <1>2, <1>3, <1>4, StaysInSight
<1> QED
  BY <1>1, <1>3, <1>5
  DEF EvtView!FailEvent, EvtView!DropsEventError, EvtView!stored,
      Evt!FailEvent, Evt!DropsEventError, Evt!stored

LEMMA ViewStatement ==
  ASSUME Inv, NEW c \in Connections, EvtStatement(c)
  PROVE  EvtView!Statement(c) \/ EvtView!FailEvent(c) \/ EvtView!Lose(c)
<1>1. CASE Evt!LockRequest(c)
  BY <1>1, ViewLockRequest DEF EvtView!Statement
<1>2. CASE Evt!Create(c) \/ Evt!UpdateDraft(c)
  BY <1>2, ViewDraft
<1>3. CASE \/ Evt!Submit(c) \/ Evt!Cancel(c) \/ Evt!Attest(c) \/ Evt!Verify(c)
           \/ Evt!Consume(c) \/ Evt!Close(c) \/ Evt!RefuseStatus(c)
  <2>1. phase[c] = "work"
    BY <1>3 DEF Evt!Submit, Evt!Cancel, Evt!Attest, Evt!Verify, Evt!Consume, Evt!Close,
                Evt!RefuseStatus, Evt!Proceeds, Evt!Doing
  <2> QED
    BY <1>3, <2>1, ViewHeldWork
<1>4. CASE Evt!FailEvent(c)
  BY <1>4, ViewFailEvent
<1> QED
  BY <1>1, <1>2, <1>3, <1>4 DEF EvtStatement, Evt!Statement

\* What a statement of EmployerAccess does to the connection.
AccessMoves(c) ==
  /\ Alone(c) /\ phase[c] # "idle"
  /\ phase'[c] \in {"check", "authorized", "find", "principal", "write", "row", "ready",
                    "failed"}
  /\ call'[c].op = call[c].op
  /\ \/ call[c].op \in AccessOps
     \/ /\ call'[c] = call[c] /\ call[c] \in Evt!Attestations
        /\ phase[c] \in {"authorize", "check"} /\ work[c] = Null
        /\ phase'[c] \in {"check", "authorized", "failed"}

LEMMA StatementMoves ==
  ASSUME Inv, NEW c \in Connections, Access!Statement(c)
  PROVE  AccessMoves(c)
<1>1. ASSUME NEW where, Access!Goto(c, where), call' = call
      PROVE  Alone(c) /\ phase'[c] = where /\ call'[c] = call[c]
  BY <1>1, GotoAlone DEF Access!Goto
<1>2. phase[c] # "idle" => Executing(call[c], phase[c])
  BY DEF Inv, Sides
<1>3. CASE Access!LockShared(c) \/ Access!CheckAssignment(c)
  <2>1. PICK where \in {"check", "authorized", "failed"} : Access!Goto(c, where)
    BY <1>3 DEF Access!LockShared, Access!CheckAssignment
  <2>2. phase[c] \in {"authorize", "check"} /\ call' = call
    BY <1>3 DEF Access!LockShared, Access!CheckAssignment
  <2>3. Alone(c) /\ phase'[c] = where /\ call'[c] = call[c]
    BY <1>1, <2>1, <2>2
  <2>4. work[c] = Null
    BY <2>2 DEF Inv, Sides
  <2>5. call[c].op \in AccessOps \/ call[c] \in Evt!Attestations
    BY <1>2, <2>2 DEF Executing
  <2> QED
    BY <2>2, <2>3, <2>4, <2>5 DEF AccessMoves
<1>4. CASE Access!FindAssignment(c)
  <2>1. /\ phase[c] = "find" /\ call[c].op = "revoke" /\ call[c] \in AccessFacts!Revocations
    BY <1>4 DEF Access!FindAssignment, Inv, AccessFacts!AccessInv, AccessFacts!Calling,
                AccessFacts!Naming
  <2>2. CASE assignments[call[c].assignment] = Null
    <3>1. Access!Goto(c, "failed") /\ call' = call
      BY <1>4, <2>2 DEF Access!FindAssignment
    <3>2. Alone(c) /\ phase'[c] = "failed" /\ call'[c] = call[c]
      BY <1>1, <3>1
    <3> QED
      BY <2>1, <3>2 DEF AccessMoves, AccessOps
  <2>3. CASE assignments[call[c].assignment] # Null
    <3> DEFINE p == assignments[call[c].assignment].principal
               u == [call[c] EXCEPT !.principal = p]
    <3>1. call' = [call EXCEPT ![c] = u] /\ Access!Goto(c, "principal")
      BY <1>4, <2>3 DEF Access!FindAssignment
    <3>2. u.op = "revoke"
      BY <2>1 DEF AccessFacts!Revocations
    <3> HIDE DEF u
    <3>3. Alone(c) /\ phase'[c] = "principal" /\ call'[c] = u
      BY <3>1, GotoAlone DEF Access!Goto
    <3> QED
      BY <2>1, <3>2, <3>3 DEF AccessMoves, AccessOps
  <2> QED
    BY <2>2, <2>3
<1>5. CASE Access!DeadlockVictim(c)
  <2>1. /\ Access!Goto(c, "failed") /\ call' = call
        /\ phase[c] \in {"authorize", "principal", "row", "write"}
    BY <1>5 DEF Access!DeadlockVictim, Access!Waits, Access!Doing
  <2>2. Alone(c) /\ phase'[c] = "failed" /\ call'[c] = call[c]
    BY <1>1, <2>1
  <2>3. work[c] = Null
    BY <2>1 DEF Inv, Sides
  <2>4. \/ call[c].op \in AccessOps
        \/ call[c] \in Evt!Attestations /\ phase[c] = "authorize"
    BY <1>2, <2>1 DEF Executing
  <2> QED
    BY <2>1, <2>2, <2>3, <2>4 DEF AccessMoves
<1>6. CASE \/ Access!ReadRequests(c) \/ Access!LockExclusive(c) \/ Access!InsertAssignment(c)
           \/ Access!RevokeAssignment(c) \/ Access!LockRow(c) \/ Access!UpdateAssignment(c)
  <2>1. PICK where \in {"principal", "write", "ready", "failed"} : Access!Goto(c, where)
    BY <1>6 DEF Access!ReadRequests, Access!LockExclusive, Access!AfterLock,
                Access!InsertAssignment, Access!RevokeAssignment, Access!LockRow,
                Access!UpdateAssignment
  <2>2. call' = call /\ phase[c] \in {"authorized", "principal", "row", "write"}
    BY <1>6 DEF Access!ReadRequests, Access!LockExclusive, Access!InsertAssignment,
                Access!RevokeAssignment, Access!LockRow, Access!UpdateAssignment, Access!Doing
  <2>3. call[c].op \in AccessOps
    <3>1. CASE phase[c] = "authorized"
      BY <1>6, <3>1 DEF Access!ReadRequests, Access!LockExclusive, Access!InsertAssignment,
                Access!RevokeAssignment, Access!LockRow, Access!UpdateAssignment, Access!Doing,
                AccessOps
    <3>2. CASE phase[c] # "authorized"
      BY <1>2, <2>2, <3>2 DEF Executing
    <3> QED
      BY <3>1, <3>2
  <2>4. Alone(c) /\ phase'[c] = where /\ call'[c] = call[c]
    BY <1>1, <2>1, <2>2
  <2> QED
    BY <2>2, <2>3, <2>4 DEF AccessMoves
<1> QED
  BY <1>3, <1>4, <1>5, <1>6 DEF Access!Statement

\* What a new call of EmployerAccess is.
LEMMA AccessBegins ==
  ASSUME Inv, NEW c \in Connections, Access!BeginCall(c)
  PROVE  /\ phase[c] = "idle" /\ Alone(c) /\ call'[c].op \in AccessOps
         /\ phase'[c] \in {"authorize", "principal", "find", "row"}
<1>1. PICK where \in {"authorize", "principal", "find", "row"}, op \in AccessOps :
        \E p, e, i, value : Access!Begin(c, where, Access!Request(op, p, e, i, value))
  <2>1. /\ "review" \in AccessOps /\ "grant" \in AccessOps /\ "revoke" \in AccessOps
        /\ "amend" \in AccessOps /\ "account" \in AccessOps
    BY DEF AccessOps
  <2> QED
    BY <2>1 DEF Access!BeginCall, Access!BeginReview, Access!BeginGrant, Access!BeginRevoke,
                Access!BeginUpdate, Access!BeginAccount
<1> PICK p, e, i, value : Access!Begin(c, where, Access!Request(op, p, e, i, value))
  BY <1>1
<1>2. Access!Request(op, p, e, i, value).op = op
  BY DEF Access!Request
<1>3. /\ phase[c] = "idle" /\ phase' = [phase EXCEPT ![c] = where]
      /\ call' = [call EXCEPT ![c] = Access!Request(op, p, e, i, value)]
  BY DEF Access!Begin, Access!Goto
<1>4. /\ Alone(c) /\ phase'[c] = where
      /\ call'[c] = Access!Request(op, p, e, i, value)
  BY <1>3, GotoAlone
<1> QED
  BY <1>2, <1>3, <1>4

LEMMA ViewAccess ==
  ASSUME Inv, NEW c \in Connections, AccessStatement(c)
  PROVE  UNCHANGED EvtView!vars
<1>1. UNCHANGED evtState
  BY DEF AccessStatement
<1>2. Alone(c) /\ Hidden(c) /\ Hidden(c)'
  <2>1. CASE Access!BeginCall(c)
    BY <2>1, AccessBegins DEF Hidden, AccessOps
  <2>2. CASE Access!Statement(c)
    BY <2>2, StatementMoves, Operations DEF AccessMoves, Hidden, AccessOps
  <2> QED
    BY <2>1, <2>2 DEF AccessStatement
<1>3. UNCHANGED <<visibleCall, visiblePhase, visibleLock>>
  BY <1>1, <1>2, Unseen DEF evtState, Inv, Shapes
<1> QED
  BY <1>1, <1>3 DEF evtState, EvtView!vars, EvtView!stored

LEMMA EndAlone ==
  ASSUME Inv, NEW c \in Connections, Evt!End(c)
  PROVE  /\ Alone(c) /\ phase'[c] = "idle" /\ Hidden(c)'
         /\ requestLock' \in [Requests -> Connections \cup {Null}]
         /\ \A r \in Requests : \/ requestLock'[r] = requestLock[r] /\ requestLock[r] # c
                                \/ requestLock[r] = c /\ requestLock'[r] = Null
         /\ EvtView!End(c)
         /\ Hidden(c) /\ work[c] = Null =>
              UNCHANGED <<visibleCall, visiblePhase, visibleLock, work>>
<1>1. Alone(c) /\ phase'[c] = "idle"
  BY GotoAlone DEF Evt!End, Evt!Goto
<1>2. Hidden(c)'
  BY <1>1 DEF Hidden
<1>3. /\ requestLock' \in [Requests -> Connections \cup {Null}]
      /\ \A r \in Requests : \/ requestLock'[r] = requestLock[r] /\ requestLock[r] # c
                             \/ requestLock[r] = c /\ requestLock'[r] = Null
  BY DEF Evt!End, Inv, Shapes
<1>4. /\ visibleCall' = [visibleCall EXCEPT ![c] = Null]
      /\ visiblePhase' = [visiblePhase EXCEPT ![c] = "idle"]
      /\ visibleLock' = [r \in Requests |-> IF visibleLock[r] = c THEN Null ELSE visibleLock[r]]
      /\ Hidden(c) => UNCHANGED <<visibleCall, visiblePhase, visibleLock>>
  BY <1>1, <1>2, <1>3, Unseen
<1>5. work' = [work EXCEPT ![c] = Null]
  BY DEF Evt!End
<1>6. work[c] = Null => UNCHANGED work
  BY <1>5 DEF Inv, Shapes
<1> QED
  BY <1>1, <1>2, <1>3, <1>4, <1>5, <1>6 DEF EvtView!End, EvtView!Goto

LEMMA ViewEnd ==
  ASSUME Inv, NEW c \in Connections, Commit(c) \/ Rollback(c) \/ Lose(c)
  PROVE  \/ EvtView!Commit(c) \/ EvtView!Rollback(c) \/ EvtView!Lose(c)
         \/ UNCHANGED EvtView!vars
<1>1. Evt!End(c) /\ phase[c] # "idle"
  BY DEF Commit, Rollback, Lose, Evt!Commit, Evt!Rollback, Evt!Lose
<1>2. CASE Hidden(c)
  <2>1. work[c] = Null
    BY <1>2 DEF Inv, Sides, Hidden, AccessOps
  <2>2. UNCHANGED Evt!stored
    BY <2>1 DEF Commit, Rollback, Lose, Evt!Commit, Evt!Rollback, Evt!Lose
  <2> QED
    BY <1>1, <1>2, <2>1, <2>2, EndAlone DEF EvtView!vars, EvtView!stored, Evt!stored
<1>3. CASE ~Hidden(c)
  <2>1. EvtView!End(c) /\ visiblePhase[c] = phase[c]
    BY <1>1, <1>3, EndAlone, InSight
  <2>2. CASE Commit(c)
    BY <2>1, <2>2
    DEF Commit, Evt!Commit, Evt!Publish, Evt!stored, EvtView!Commit, EvtView!Publish,
        EvtView!stored
  <2>3. CASE Rollback(c)
    BY <2>1, <2>3 DEF Rollback, Evt!Rollback, Evt!stored, EvtView!Rollback, EvtView!stored
  <2>4. CASE Lose(c)
    BY <2>1, <2>4 DEF Lose, Evt!Lose, Evt!stored, EvtView!Lose, EvtView!stored
  <2> QED
    BY <2>2, <2>3, <2>4
<1> QED
  BY <1>2, <1>3

LEMMA ViewStutters ==
  UNCHANGED <<call, phase, requestLock>> =>
    UNCHANGED <<visibleCall, visiblePhase, visibleLock>>
  BY DEF visibleCall, visiblePhase, visibleLock, Hidden

LEMMA ViewStep ==
  ASSUME Inv, [Next]_vars
  PROVE  [EvtView!Next]_(EvtView!vars)
<1>1. ASSUME NEW c \in Connections, Step(c)
      PROVE  [EvtView!Next]_(EvtView!vars)
  <2>1. CASE BeginEvt(c)
    BY <2>1, ViewBegin DEF EvtView!Next
  <2>2. CASE Continue(c)
    BY <2>2, ViewContinue DEF EvtView!Next
  <2>3. CASE EvtStatement(c)
    BY <2>3, ViewStatement DEF EvtView!Next
  <2>4. CASE AccessStatement(c)
    BY <2>4, ViewAccess
  <2>5. CASE Commit(c) \/ Rollback(c) \/ Lose(c)
    BY <2>5, ViewEnd DEF EvtView!Next
  <2> QED
    BY <1>1, <2>1, <2>2, <2>3, <2>4, <2>5 DEF Step
<1>2. ASSUME NEW e \in Employers, SetDispatch(e)
      PROVE  EvtView!Next
  <2>1. UNCHANGED <<visibleCall, visiblePhase, visibleLock>>
    BY <1>2, ViewStutters DEF SetDispatch, Evt!SetDispatch
  <2>2. EvtView!SetDispatch(e)
    BY <1>2, <2>1 DEF SetDispatch, Evt!SetDispatch, EvtView!SetDispatch
  <2> QED
    BY <2>2 DEF EvtView!Next
<1>3. CASE UNCHANGED vars
  BY <1>3, ViewStutters DEF vars, evtState, EvtView!vars, EvtView!stored
<1> QED
  BY <1>1, <1>2, <1>3 DEF Next

LEMMA ViewStarts == Init => EvtView!Init
<1> SUFFICES ASSUME Init PROVE EvtView!Init
  OBVIOUS
<1>1. \A c \in Connections : Hidden(c)
  BY DEF Init, Evt!Init, Hidden
<1>2. /\ visibleCall = [c \in Connections |-> Null]
      /\ visiblePhase = [c \in Connections |-> "idle"]
  BY <1>1 DEF visibleCall, visiblePhase
<1>3. visibleLock = [r \in Requests |-> Null]
  BY DEF visibleLock, Init, Evt!Init
<1> QED
  BY <1>2, <1>3 DEF Init, Evt!Init, EvtView!Init

-----------------------------------------------------------------------------
(* EmployerAccess' invariant, beside the statements of EvtRequest           *)

LEMMA AccessNames ==
  ASSUME NEW c \in Connections, phase[c] \in {"request", "work", "aborted"}, Inv
  PROVE  /\ written[c] = Null /\ call[c].op \notin AccessOps
         /\ call[c].op = "attest" => call[c].principal \in Principals
<1>1. Executing(call[c], phase[c])
  BY DEF Inv, Sides
<1>2. call[c].op \notin AccessOps
  BY <1>1, Operations DEF Executing, AccessOps
<1>3. call[c].op = "attest" => call[c].principal \in Principals
  BY <1>1, Operations DEF Executing, AccessOps
<1>4. written[c] = Null
  BY DEF Inv, AccessFacts!AccessInv, AccessFacts!Writing
<1> QED
  BY <1>2, <1>3, <1>4

\* A step of EvtRequest's: the connection has written no assignment, and an
\* attestation on its way has been authorized.
LEMMA BesideAccess ==
  ASSUME Inv, NEW c \in Connections, Alone(c), UNCHANGED accessState,
         written[c] = Null,
         phase'[c] \in {"authorize", "request", "work", "ready", "aborted", "failed"},
         call'[c].op \notin AccessOps,
         call'[c].op = "attest" => call'[c].principal \in Principals,
         phase'[c] = "authorize" => call'[c].op = "attest",
         call'[c].op = "attest" /\ phase'[c] \notin {"authorize", "failed"} =>
           /\ call'[c] = call[c]
           /\ phase[c] \notin {"idle", "authorize", "failed", "check"}
  PROVE  AccessFacts!AccessInv'
<1> USE DEF Inv, AccessFacts!AccessInv
<1>1. /\ UNCHANGED <<reviewer, assignments, written, shared, exclusive, rowLock>>
      /\ \A d \in Connections \ {c} : phase'[d] = phase[d] /\ call'[d] = call[d]
      /\ phase' = [d \in Connections |-> phase'[d]]
      /\ call' = [d \in Connections |-> call'[d]]
  BY DEF Alone, accessState
<1>2. AccessFacts!Types'
  BY <1>1 DEF AccessFacts!Types
<1>3. AccessFacts!Calling'
  BY <1>1 DEF AccessFacts!Calling
<1>4. AccessFacts!Naming'
  BY <1>1 DEF AccessFacts!Naming, AccessOps
<1>5. AccessFacts!Excluded'
  BY <1>1 DEF AccessFacts!Excluded
<1>6. AccessFacts!Sharing'
  BY <1>1 DEF AccessFacts!Sharing, AccessFacts!Assigned, AccessFacts!Active, AccessOps
<1>7. AccessFacts!Excluding'
  BY <1>1 DEF AccessFacts!Excluding, AccessOps
<1>8. AccessFacts!Targeting'
  BY <1>1 DEF AccessFacts!Targeting
<1>9. AccessFacts!Writing'
  BY <1>1 DEF AccessFacts!Writing, AccessFacts!Assigned, AccessFacts!Active
<1>10. AccessFacts!Inserting'
  BY <1>1 DEF AccessFacts!Inserting
<1>11. AccessFacts!OneActiveAssignment'
  BY <1>1 DEF AccessFacts!OneActiveAssignment
<1> QED
  BY <1>2, <1>3, <1>4, <1>5, <1>6, <1>7, <1>8, <1>9, <1>10, <1>11

\* Statements of EvtRequest go on to what may follow, and leave the call.
EvtMoves(c) ==
  /\ Alone(c) /\ call'[c] = call[c]
  /\ \/ /\ phase[c] \in {"request", "work"} /\ phase'[c] \in {"work", "failed"}
        /\ UNCHANGED work
     \/ /\ phase[c] = "work" /\ phase'[c] = "ready"
        /\ \E w : work' = [work EXCEPT ![c] = w]
     \/ /\ phase[c] = "ready" /\ work[c] # Null /\ UNCHANGED work
        /\ phase'[c] = IF call[c].op \in Evt!DropsEventError THEN "aborted" ELSE "failed"

LEMMA EvtStatementMoves ==
  ASSUME Inv, NEW c \in Connections, EvtStatement(c)
  PROVE  EvtMoves(c)
<1>1. ASSUME NEW where, Evt!Goto(c, where), call' = call
      PROVE  Alone(c) /\ phase'[c] = where /\ call'[c] = call[c]
  BY <1>1, GotoAlone DEF Evt!Goto
<1>2. ASSUME phase[c] \in {"request", "work"}, UNCHANGED <<call, work>>,
             Evt!Goto(c, "work") \/ Evt!Goto(c, "failed")
      PROVE  EvtMoves(c)
  BY <1>1, <1>2 DEF EvtMoves
<1>3. ASSUME phase[c] = "work", call' = call, Evt!Goto(c, "ready"),
             \E w : work' = [work EXCEPT ![c] = w]
      PROVE  EvtMoves(c)
  BY <1>1, <1>3 DEF EvtMoves
<1>4. CASE Evt!LockRequest(c)
  BY <1>2, <1>4 DEF Evt!LockRequest
<1>5. CASE Evt!RefuseStatus(c)
  BY <1>2, <1>5 DEF Evt!RefuseStatus
<1>6. CASE Evt!Create(c)
  BY <1>3, <1>6 DEF Evt!Create, Evt!Doing
<1>7. CASE Evt!UpdateDraft(c)
  BY <1>2, <1>3, <1>7 DEF Evt!UpdateDraft, Evt!Doing, Evt!Writes
<1>8. CASE Evt!Submit(c) \/ Evt!Cancel(c) \/ Evt!Close(c)
  BY <1>3, <1>8 DEF Evt!Submit, Evt!Cancel, Evt!Close, Evt!Writes, Evt!Proceeds, Evt!Doing
<1>9. CASE Evt!Attest(c) \/ Evt!Verify(c)
  BY <1>2, <1>3, <1>9 DEF Evt!Attest, Evt!Verify, Evt!Writes, Evt!Proceeds, Evt!Doing
<1>10. CASE Evt!Consume(c)
  BY <1>3, <1>10 DEF Evt!Consume, Evt!Proceeds, Evt!Doing
<1>11. CASE Evt!FailEvent(c)
  <2>1. /\ phase[c] = "ready" /\ work[c] # Null /\ UNCHANGED <<call, work>>
        /\ Evt!Goto(c, IF call[c].op \in Evt!DropsEventError THEN "aborted" ELSE "failed")
    BY <1>11 DEF Evt!FailEvent
  <2> QED
    BY <1>1, <2>1 DEF EvtMoves
<1> QED
  BY <1>4, <1>5, <1>6, <1>7, <1>8, <1>9, <1>10, <1>11 DEF EvtStatement, Evt!Statement

\* A new call of EvtRequest, or an attestation about to be authorized.
EvtBegins(c) ==
  /\ phase[c] = "idle" /\ Alone(c) /\ UNCHANGED <<accessState, work, requestLock>>
  /\ \/ /\ call'[c] \in Requesting /\ phase'[c] \in {"request", "work"}
        /\ phase'[c] = "request" => call'[c].op \notin {"create", "update"}
     \/ call'[c] \in Evt!Attestations /\ phase'[c] = "authorize"

LEMMA BeginEvtBegins ==
  ASSUME Inv, NEW c \in Connections, BeginEvt(c)
  PROVE  EvtBegins(c)
<1>1. ASSUME NEW where, NEW request, Evt!Begin(c, where, request)
      PROVE  /\ phase[c] = "idle" /\ Alone(c) /\ phase'[c] = where /\ call'[c] = request
             /\ UNCHANGED <<work, requestLock>>
  BY <1>1, GotoAlone DEF Evt!Begin, Evt!Goto
<1>2. CASE Evt!BeginByCandidate(c)
  <2>1. PICK request \in Evt!CandidateCalls :
          Evt!Begin(c, IF request.op \in {"create", "update"} THEN "work" ELSE "request",
                    request)
    BY <1>2 DEF Evt!BeginByCandidate
  <2> QED
    BY <1>1, <2>1 DEF EvtBegins, Requesting, BeginEvt
<1>3. CASE Evt!BeginOther(c)
  <2>1. PICK request \in Evt!OtherCalls : Evt!Begin(c, "request", request)
    BY <1>3 DEF Evt!BeginOther
  <2>2. request.op \notin {"create", "update"}
    BY DEF Evt!OtherCalls
  <2> QED
    BY <1>1, <2>1, <2>2 DEF EvtBegins, Requesting, BeginEvt
<1>4. CASE Evt!BeginAttest(c, "authorize")
  <2>1. PICK request \in Evt!Attestations : Evt!Begin(c, "authorize", request)
    BY <1>4 DEF Evt!BeginAttest
  <2> QED
    BY <1>1, <2>1 DEF EvtBegins, BeginEvt
<1> QED
  BY <1>2, <1>3, <1>4 DEF BeginEvt, Evt!BeginCall

ContinueMoves(c) ==
  /\ Alone(c) /\ call'[c] = call[c] /\ UNCHANGED <<work, requestLock>>
  /\ call[c].op = "attest" /\ phase[c] = "authorized" /\ phase'[c] = "request"

LEMMA ContinueMovesOn ==
  ASSUME Inv, NEW c \in Connections, Continue(c)
  PROVE  ContinueMoves(c)
<1>1. /\ call[c].op = "attest" /\ phase[c] = "authorized" /\ call' = call
      /\ phase' = [phase EXCEPT ![c] = "request"]
      /\ UNCHANGED evtState
  BY DEF Continue, Access!Doing, Access!Goto
<1> QED
  BY <1>1, GotoAlone DEF ContinueMoves, evtState

LEMMA StepAccess ==
  ASSUME Inv, NEW c \in Connections, Step(c)
  PROVE  AccessFacts!AccessInv'
<1>1. CASE BeginEvt(c)
  <2>1. EvtBegins(c)
    BY <1>1, BeginEvtBegins
  <2>2. written[c] = Null
    BY <2>1 DEF EvtBegins, Inv, AccessFacts!AccessInv, AccessFacts!Writing
  <2>3. /\ call'[c].op \notin AccessOps
        /\ call'[c].op = "attest" => /\ call'[c].principal \in Principals
                                     /\ phase'[c] = "authorize"
        /\ phase'[c] = "authorize" => call'[c].op = "attest"
    BY <2>1, Operations DEF EvtBegins, AccessOps
  <2>4. /\ Alone(c) /\ UNCHANGED accessState
        /\ phase'[c] \in {"authorize", "request", "work", "ready", "aborted", "failed"}
    BY <2>1 DEF EvtBegins
  <2> QED
    BY <2>2, <2>3, <2>4, BesideAccess
<1>2. CASE Continue(c)
  <2>1. ContinueMoves(c) /\ UNCHANGED accessState
    BY <1>2, ContinueMovesOn DEF Continue
  <2>2. written[c] = Null
    BY <2>1 DEF ContinueMoves, Inv, AccessFacts!AccessInv, AccessFacts!Writing
  <2>3. call[c].principal \in Principals
    BY <2>1 DEF ContinueMoves, Inv, AccessFacts!AccessInv, AccessFacts!Naming
  <2> QED
    BY <2>1, <2>2, <2>3, BesideAccess DEF ContinueMoves, AccessOps
<1>3. CASE EvtStatement(c)
  <2>1. EvtMoves(c) /\ UNCHANGED accessState
    BY <1>3, EvtStatementMoves DEF EvtStatement
  <2>2. /\ written[c] = Null /\ call[c].op \notin AccessOps
        /\ call[c].op = "attest" => call[c].principal \in Principals
    <3>1. CASE phase[c] \in {"request", "work"}
      BY <3>1, AccessNames
    <3>2. CASE phase[c] = "ready" /\ work[c] # Null
      <4>1. call[c].op \notin AccessOps
        BY <3>2 DEF Inv, Sides
      <4>2. written[c] = Null
        BY <4>1 DEF Inv, AccessFacts!AccessInv, AccessFacts!Writing, AccessOps
      <4>3. call[c].op = "attest" => call[c].principal \in Principals
        BY <3>2 DEF Inv, AccessFacts!AccessInv, AccessFacts!Naming
      <4> QED
        BY <4>1, <4>2, <4>3
    <3> QED
      BY <2>1, <3>1, <3>2 DEF EvtMoves
  <2>3. /\ phase'[c] \in {"work", "ready", "aborted", "failed"}
        /\ phase[c] \notin {"idle", "authorize", "failed", "check"}
        /\ Alone(c) /\ call'[c] = call[c]
    BY <2>1 DEF EvtMoves
  <2> QED
    BY <2>1, <2>2, <2>3, BesideAccess
<1>4. CASE AccessStatement(c)
  <2>1. AccessFacts!BeginCall(c) \/ AccessFacts!Statement(c)
    BY <1>4, SameBegin, SameStatements DEF AccessStatement
  <2> QED
    BY <2>1, AccessAssumed, AccessFacts!BeginKeeps, AccessFacts!LockSharedKeeps,
       AccessFacts!CheckAssignmentKeeps, AccessFacts!ReadRequestsKeeps,
       AccessFacts!FindAssignmentKeeps, AccessFacts!LockExclusiveKeeps,
       AccessFacts!InsertAssignmentKeeps, AccessFacts!RevokeAssignmentKeeps,
       AccessFacts!LockRowKeeps, AccessFacts!UpdateAssignmentKeeps,
       AccessFacts!DeadlockVictimKeeps
    DEF Inv, AccessFacts!Statement
<1>5. CASE Commit(c)
  BY <1>5, SameEnds, AccessAssumed, AccessFacts!PublishAccountKeeps,
     AccessFacts!PublishAssignmentKeeps DEF Commit, Inv
<1>6. CASE Rollback(c) \/ Lose(c)
  BY <1>6, SameEnds, AccessAssumed, AccessFacts!EndKeeps DEF Rollback, Lose, Inv
<1> QED
  BY <1>1, <1>2, <1>3, <1>4, <1>5, <1>6 DEF Step

-----------------------------------------------------------------------------
(* The invariant holds                                                      *)

\* What a step of one connection does to the locks on requests.
Locking(c) ==
  /\ requestLock' \in [Requests -> Connections \cup {Null}]
  /\ \A r \in Requests :
       \/ requestLock'[r] = Null
       \/ requestLock'[r] = requestLock[r] /\ (requestLock[r] = c => phase'[c] # "idle")
       \/ requestLock'[r] = c /\ phase'[c] \in {"work", "ready"} /\ call'[c].op \notin AccessOps

LEMMA EvtStatementLocks ==
  ASSUME Inv, NEW c \in Connections, EvtStatement(c)
  PROVE  Locking(c)
<1>1. EvtMoves(c)
  BY EvtStatementMoves
<1>2. CASE requestLock' = requestLock
  BY <1>1, <1>2 DEF EvtMoves, Locking, Inv, Shapes
<1>3. CASE requestLock' # requestLock
  <2>1. Evt!LockRequest(c) \/ Evt!UpdateDraft(c)
    BY <1>3 DEF EvtStatement, Evt!Statement, Evt!Create, Evt!Submit, Evt!Cancel, Evt!Attest,
                Evt!Verify, Evt!Consume, Evt!Close, Evt!RefuseStatus, Evt!FailEvent
  <2>2. PICK where \in {"work", "ready"} : Evt!Goto(c, where)
    BY <1>3, <2>1 DEF Evt!LockRequest, Evt!UpdateDraft, Evt!Writes
  <2>3. phase'[c] \in {"work", "ready"}
    BY <2>2, CallShapes DEF Evt!Goto
  <2>4. requestLock' = [requestLock EXCEPT ![call[c].request] = c]
    BY <1>3, <2>1 DEF Evt!LockRequest, Evt!UpdateDraft
  <2>5. call[c].op \notin AccessOps
    <3>1. phase[c] \in {"request", "work"}
      BY <2>1 DEF Evt!LockRequest, Evt!UpdateDraft, Evt!Doing
    <3> QED
      BY <3>1, AccessNames
  <2> QED
    BY <1>1, <2>3, <2>4, <2>5 DEF EvtMoves, Locking, Inv, Shapes
<1> QED
  BY <1>2, <1>3

\* What a step of one connection does to what it has written.
Staging(c) ==
  /\ work' = [d \in Connections |-> work'[d]]
  /\ \A d \in Connections \ {c} : work'[d] = work[d]

LEMMA EvtStatementStages ==
  ASSUME Inv, NEW c \in Connections, EvtMoves(c)
  PROVE  Staging(c)
  BY DEF EvtMoves, Staging, Inv, Shapes

LEMMA StepShapes ==
  ASSUME Inv, NEW c \in Connections, Step(c)
  PROVE  Alone(c) /\ Locking(c) /\ Staging(c)
<1>1. CASE BeginEvt(c)
  <2>1. EvtBegins(c)
    BY <1>1, BeginEvtBegins
  <2> QED
    BY <2>1 DEF EvtBegins, Locking, Staging, Inv, Shapes
<1>2. CASE Continue(c)
  <2>1. ContinueMoves(c)
    BY <1>2, ContinueMovesOn
  <2> QED
    BY <2>1 DEF ContinueMoves, Locking, Staging, Inv, Shapes
<1>3. CASE EvtStatement(c)
  <2>1. EvtMoves(c) /\ Locking(c)
    BY <1>3, EvtStatementMoves, EvtStatementLocks
  <2> QED
    BY <2>1, EvtStatementStages DEF EvtMoves
<1>4. CASE AccessStatement(c)
  <2>1. Alone(c) /\ phase'[c] # "idle"
    <3>1. CASE Access!BeginCall(c)
      BY <3>1, AccessBegins
    <3>2. CASE Access!Statement(c)
      BY <3>2, StatementMoves DEF AccessMoves
    <3> QED
      BY <1>4, <3>1, <3>2 DEF AccessStatement
  <2>2. UNCHANGED <<work, requestLock>>
    BY <1>4 DEF AccessStatement, evtState
  <2> QED
    BY <2>1, <2>2 DEF Locking, Staging, Inv, Shapes
<1>5. CASE Commit(c) \/ Rollback(c) \/ Lose(c)
  <2>1. Evt!End(c)
    BY <1>5 DEF Commit, Rollback, Lose, Evt!Commit, Evt!Rollback, Evt!Lose
  <2>2. /\ Alone(c) /\ requestLock' \in [Requests -> Connections \cup {Null}]
        /\ \A r \in Requests : \/ requestLock'[r] = requestLock[r] /\ requestLock[r] # c
                               \/ requestLock[r] = c /\ requestLock'[r] = Null
    BY <2>1, EndAlone
  <2>3. Staging(c)
    BY <2>1 DEF Evt!End, Staging, Inv, Shapes
  <2> QED
    BY <2>2, <2>3 DEF Locking
<1> QED
  BY <1>1, <1>2, <1>3, <1>4, <1>5 DEF Step

\* What the connection that took the step is at.
NewSide(c) ==
  /\ phase'[c] # "idle" => Executing(call'[c], phase'[c])
  /\ work'[c] # Null =>
       /\ phase'[c] \in {"ready", "aborted", "failed"}
       /\ call'[c].op \notin AccessOps
       /\ phase'[c] = "failed" => call'[c].op # "attest"
  /\ phase[c] \in {"work", "ready", "aborted", "failed"} /\ call[c].op \notin AccessOps =>
       \/ phase'[c] = "idle"
       \/ phase'[c] \in {"work", "ready", "aborted", "failed"} /\ call'[c].op \notin AccessOps

LEMMA StepSides ==
  ASSUME Inv, NEW c \in Connections, Step(c)
  PROVE  NewSide(c)
<1>1. CASE BeginEvt(c)
  <2>1. EvtBegins(c)
    BY <1>1, BeginEvtBegins
  <2>2. work'[c] = Null
    BY <2>1 DEF EvtBegins, Inv, Sides
  <2> QED
    BY <2>1, <2>2 DEF EvtBegins, NewSide, Executing
<1>2. CASE Continue(c)
  <2>1. ContinueMoves(c)
    BY <1>2, ContinueMovesOn
  <2>2. call[c] \in Evt!Attestations /\ work[c] = Null
    BY <2>1, Operations DEF ContinueMoves, Inv, Sides, Executing, AccessOps
  <2> QED
    BY <2>1, <2>2 DEF ContinueMoves, NewSide, Executing
<1>3. CASE EvtStatement(c)
  <2>1. EvtMoves(c)
    BY <1>3, EvtStatementMoves
  <2>2. Executing(call[c], phase[c])
    BY <2>1 DEF EvtMoves, Inv, Sides
  <2>3. call[c].op \notin AccessOps
    BY <2>1, <2>2, AccessNames DEF EvtMoves, Inv, Sides
  <2>4. CASE /\ phase[c] \in {"request", "work"} /\ phase'[c] \in {"work", "failed"}
             /\ UNCHANGED work
    <3>1. work[c] = Null
      BY <2>4 DEF Inv, Sides
    <3> QED
      BY <2>1, <2>2, <2>3, <2>4, <3>1 DEF EvtMoves, NewSide, Executing
  <2>5. CASE phase[c] = "work" /\ phase'[c] = "ready"
    BY <2>1, <2>2, <2>3, <2>5 DEF EvtMoves, NewSide, Executing
  <2>6. CASE /\ phase[c] = "ready" /\ work[c] # Null /\ UNCHANGED work
             /\ phase'[c] = IF call[c].op \in Evt!DropsEventError THEN "aborted" ELSE "failed"
    BY <2>1, <2>2, <2>3, <2>6 DEF EvtMoves, NewSide, Executing, Evt!DropsEventError
  <2> QED
    BY <2>1, <2>4, <2>5, <2>6 DEF EvtMoves
<1>4. CASE AccessStatement(c)
  <2>1. UNCHANGED work
    BY <1>4 DEF AccessStatement, evtState
  <2>2. CASE Access!BeginCall(c)
    <3>1. work[c] = Null
      BY <2>2, AccessBegins DEF Inv, Sides
    <3> QED
      BY <2>1, <2>2, <3>1, AccessBegins DEF NewSide, Executing
  <2>3. CASE Access!Statement(c)
    <3>1. AccessMoves(c)
      BY <2>3, StatementMoves
    <3>2. work[c] = Null
      BY <3>1 DEF AccessMoves, Inv, Sides
    <3> QED
      BY <2>1, <3>1, <3>2 DEF AccessMoves, NewSide, Executing
  <2> QED
    BY <1>4, <2>2, <2>3 DEF AccessStatement
<1>5. CASE Commit(c) \/ Rollback(c) \/ Lose(c)
  <2>1. Evt!End(c)
    BY <1>5 DEF Commit, Rollback, Lose, Evt!Commit, Evt!Rollback, Evt!Lose
  <2>2. phase'[c] = "idle" /\ work'[c] = Null
    BY <2>1, EndAlone DEF Evt!End, Inv, Shapes
  <2> QED
    BY <2>2 DEF NewSide
<1> QED
  BY <1>1, <1>2, <1>3, <1>4, <1>5 DEF Step

LEMMA StepInv ==
  ASSUME Inv, NEW c \in Connections, Step(c)
  PROVE  Inv'
<1>1. Alone(c) /\ Locking(c) /\ Staging(c) /\ NewSide(c)
  BY StepShapes, StepSides
<1>2. Shapes'
  BY <1>1 DEF Locking, Staging, Shapes
<1>3. Sides'
  BY <1>1 DEF Alone, Staging, NewSide, Inv, Sides, Executing
<1>4. Holding'
  <2> SUFFICES ASSUME NEW r \in Requests, requestLock'[r] # Null
               PROVE  /\ phase'[requestLock'[r]] \in {"work", "ready", "aborted", "failed"}
                      /\ call'[requestLock'[r]].op \notin AccessOps
    BY DEF Holding
  <2>1. CASE requestLock'[r] = c /\ phase'[c] \in {"work", "ready"} /\ call'[c].op \notin AccessOps
    BY <2>1
  <2>2. CASE requestLock'[r] = requestLock[r] /\ (requestLock[r] = c => phase'[c] # "idle")
    <3>1. /\ requestLock[r] \in Connections
          /\ phase[requestLock[r]] \in {"work", "ready", "aborted", "failed"}
          /\ call[requestLock[r]].op \notin AccessOps
      BY <2>2 DEF Inv, Shapes, Holding
    <3> QED
      BY <1>1, <2>2, <3>1 DEF Alone, NewSide
  <2> QED
    BY <1>1, <2>1, <2>2 DEF Locking
<1> QED
  BY <1>2, <1>3, <1>4, StepAccess DEF Inv

LEMMA InitInv == Init => Inv
<1> SUFFICES ASSUME Init PROVE Inv
  OBVIOUS
<1>1. AccessFacts!Init
  BY DEF Init, Access!Init, AccessFacts!Init
<1>2. AccessFacts!AccessInv
  BY <1>1, AccessAssumed, AccessFacts!InitAccessInv
<1>3. Shapes /\ Sides /\ Holding
  BY DEF Init, Evt!Init, Shapes, Sides, Holding
<1> QED
  BY <1>2, <1>3 DEF Inv

LEMMA NextInv == Inv /\ [Next]_vars => Inv'
<1> SUFFICES ASSUME Inv, [Next]_vars PROVE Inv'
  OBVIOUS
<1>1. ASSUME NEW c \in Connections, Step(c) PROVE Inv'
  BY <1>1, StepInv
<1>2. CASE UNCHANGED <<call, phase, accessState, work, requestLock>>
  <2>1. AccessFacts!AccessInv'
    BY <1>2
    DEF accessState, Inv, AccessFacts!AccessInv, AccessFacts!Types, AccessFacts!Calling,
        AccessFacts!Naming, AccessFacts!Excluded, AccessFacts!Sharing, AccessFacts!Assigned,
        AccessFacts!Active, AccessFacts!Excluding, AccessFacts!Targeting,
        AccessFacts!Writing, AccessFacts!Inserting, AccessFacts!OneActiveAssignment
  <2>2. Shapes' /\ Sides' /\ Holding'
    BY <1>2 DEF Inv, Shapes, Sides, Holding, Executing
  <2> QED
    BY <2>1, <2>2 DEF Inv
<1>3. ASSUME NEW e \in Employers, SetDispatch(e)
      PROVE  UNCHANGED <<call, phase, accessState, work, requestLock>>
  BY <1>3 DEF SetDispatch, Evt!SetDispatch
<1>4. CASE UNCHANGED vars
  BY <1>2, <1>4 DEF vars, evtState
<1> QED
  BY <1>1, <1>2, <1>3, <1>4 DEF Next

LEMMA InvHolds == Spec => []Inv
<1> QED
  BY InitInv, NextInv, PTL DEF Spec

\* Authorizing reviewers in front of it, and operators who grant and revoke beside it,
\* leave the life of requests what EvtRequest says it is.
THEOREM AttestationImplementsRequests == Spec => EvtRefinement
<1>1. Inv /\ [Next]_vars => [EvtView!Next]_(EvtView!vars)
  BY ViewStep
<1> QED
  BY <1>1, ViewStarts, InvHolds, PTL DEF Spec, EvtRefinement, EvtView!Spec

-----------------------------------------------------------------------------
(* Answers are recorded under authority                                     *)

\* An attestation that has found its request found it at its own employer.
Answering == \A c \in Connections : phase[c] = "work" /\ call[c].op = "attest" =>
  /\ requests[call[c].request] # Null
  /\ requests[call[c].request].employer = call[c].employer

\* Only an attestation writes an answer: its author's, to a request of its employer.
SignedBy(k, w) ==
  /\ k.op = "attest"
  /\ requests[w.id] # Null /\ requests[w.id].employer = k.employer
  /\ \A i \in 1..Len(w.log) : w.log[i].type = "HR_ATTESTED" => w.log[i].detail = k.principal

Unsigned(w) == \A i \in 1..Len(w.log) : w.log[i].type # "HR_ATTESTED"

Signing == \A c \in Connections : work[c] # Null => Unsigned(work[c]) \/ SignedBy(call[c], work[c])

AuthorityInv == Inv /\ EvtFacts!RequestInv /\ Answering /\ Signing

LEMMA SameCommit ==
  ASSUME Inv, NEW c \in Connections, Commit(c), work[c] # Null
  PROVE  EvtFacts!Commit(c)
<1>1. ~Hidden(c)
  BY DEF Inv, Sides, Hidden, AccessOps, Commit, Evt!Commit
<1>2. EvtView!End(c) /\ visiblePhase[c] = phase[c]
  BY <1>1, EndAlone, InSight DEF Commit, Evt!Commit
<1> QED
  BY <1>2
  DEF Commit, Evt!Commit, Evt!Publish, EvtView!End, EvtView!Goto,
      EvtFacts!Commit, EvtFacts!Publish, EvtFacts!End, EvtFacts!Goto

\* Rows and events change when a transaction commits what it has written.
LEMMA RowsStay ==
  ASSUME Inv, [Next]_vars,
         ~\E c \in Connections : Commit(c) /\ work[c] # Null
  PROVE  UNCHANGED <<requests, events>>
<1>1. ASSUME NEW c \in Connections, BeginEvt(c) PROVE UNCHANGED <<requests, events>>
  BY <1>1 DEF BeginEvt, Evt!BeginCall, Evt!BeginByCandidate, Evt!BeginOther,
              Evt!BeginAttest, Evt!Begin, Evt!stored
<1>2. ASSUME NEW c \in Connections, Continue(c) \/ AccessStatement(c)
      PROVE  UNCHANGED <<requests, events>>
  BY <1>2 DEF Continue, AccessStatement, evtState
<1>3. ASSUME NEW c \in Connections, EvtStatement(c) PROVE UNCHANGED <<requests, events>>
  BY <1>3 DEF EvtStatement, Evt!Statement, Evt!LockRequest, Evt!Create, Evt!UpdateDraft,
              Evt!Submit, Evt!Cancel, Evt!Attest, Evt!Verify, Evt!Consume, Evt!Close,
              Evt!RefuseStatus, Evt!FailEvent, Evt!Writes, Evt!stored
<1>4. ASSUME NEW c \in Connections, Commit(c) \/ Rollback(c) \/ Lose(c)
      PROVE  UNCHANGED <<requests, events>>
  BY <1>4 DEF Commit, Rollback, Lose, Evt!Commit, Evt!Rollback, Evt!Lose, Evt!stored
<1>5. CASE UNCHANGED vars \/ \E e \in Employers : SetDispatch(e)
  BY <1>5 DEF vars, evtState, SetDispatch, Evt!SetDispatch
<1> QED
  BY <1>1, <1>2, <1>3, <1>4, <1>5 DEF Next, Step

EmployersStay == \A r \in Requests : requests[r] # Null =>
  requests'[r] # Null /\ requests'[r].employer = requests[r].employer

LEMMA EmployersKept ==
  ASSUME Inv, EvtFacts!RequestInv, [Next]_vars
  PROVE  EmployersStay
<1>1. ASSUME NEW c \in Connections, Commit(c), work[c] # Null
      PROVE  EmployersStay
  <2>1. EvtFacts!Commit(c)
    BY <1>1, SameCommit
  <2>2. PICK r \in Requests, old \in EvtFacts!Rows \cup {Null}, new \in EvtFacts!Rows,
             log \in Seq(EvtFacts!Events) :
          /\ old = requests[r] /\ requests'[r] = new
          /\ \A q \in Requests \ {r} : requests'[q] = requests[q]
          /\ old # Null => EvtFacts!Transition(old, new, log)
    BY <1>1, <2>1, EvtAssumed, EvtFacts!CommitPublishes
  <2>3. new # Null
    BY EvtAssumed DEF EvtFacts!EvtAssumption
  <2> QED
    BY <2>2, <2>3 DEF EvtFacts!Transition, EmployersStay
<1>2. CASE ~\E c \in Connections : Commit(c) /\ work[c] # Null
  BY <1>2, RowsStay DEF EmployersStay
<1> QED
  BY <1>1, <1>2

\* What the statements write.
LEMMA StatementSigns ==
  ASSUME Inv, Answering, NEW c \in Connections, EvtStatement(c),
         phase[c] = "work", phase'[c] = "ready"
  PROVE  Unsigned(work'[c]) \/ SignedBy(call[c], work'[c])
<1>0. /\ \A w : work' = [work EXCEPT ![c] = w] => work'[c] = w
      /\ \A where : Evt!Goto(c, where) => where = "ready"
  BY CallShapes DEF Inv, Shapes, Evt!Goto
<1>1. ASSUME NEW r, NEW row, NEW log, Evt!Writes(c, r, row, log)
      PROVE  work'[c].log = log /\ work'[c].id = r
  BY <1>0, <1>1 DEF Evt!Writes, Evt!Staged
<1>2. CASE Evt!Create(c)
  <2> DEFINE log == <<Evt!Event("DRAFT_CREATED", Null, "DRAFT", Null)>>
  <2> DEFINE e == call[c].employer
             row == [employer |-> e, claim |-> call[c].claim, version |-> 1,
                     candidate |-> call[c].principal, status |-> "DRAFT",
                     response |-> Null, jws |-> FALSE, trust |-> Null]
             config == IF dispatch[e] = Null THEN e ELSE Null
  <2>1. PICK r \in Requests :
          work' = [work EXCEPT ![c] = Evt!Staged(r, row, log, config, 0)]
    BY <1>2 DEF Evt!Create
  <2> HIDE DEF row, config, log
  <2>2. work'[c].log = log
    BY <1>0, <2>1 DEF Evt!Staged
  <2> QED
    BY <2>2 DEF log, Evt!Event, Unsigned
<1>3. CASE Evt!UpdateDraft(c)
  <2>1. PICK version : work'[c].log = <<Evt!Event("DRAFT_UPDATED", "DRAFT", "DRAFT", version)>>
    BY <1>0, <1>1, <1>3 DEF Evt!UpdateDraft
  <2> QED
    BY <2>1 DEF Evt!Event, Unsigned
<1>4. CASE Evt!Submit(c)
  <2>1. PICK type \in {"ATTESTATION_DISPATCHED", "DISPATCH_GUARD_BLOCKED"} :
          \E to : work'[c].log = <<Evt!Event("REQUEST_SUBMITTED", "DRAFT", "SUBMITTED", Null),
                                   Evt!Event(type, "SUBMITTED", to, Null)>>
    BY <1>1, <1>4 DEF Evt!Submit, Evt!Submission
  <2> QED
    BY <2>1 DEF Evt!Event, Unsigned
<1>5. CASE Evt!Cancel(c) \/ Evt!Close(c) \/ Evt!Verify(c)
  <2>1. PICK type \in {"REQUEST_CANCELED", "REQUEST_CLOSED", "TRUST_EVALUATED"} :
          \E from, to, detail : work'[c].log = <<Evt!Event(type, from, to, detail)>>
    BY <1>0, <1>1, <1>5 DEF Evt!Cancel, Evt!Close, Evt!Verify
  <2> QED
    BY <2>1 DEF Evt!Event, Unsigned
<1>6. CASE Evt!Consume(c)
  <2> DEFINE r == call[c].request
             first == requests[r].status # "CONSUMED"
             row == IF first THEN Evt!Moved(requests[r], "CONSUMED", 1) ELSE requests[r]
             log == IF first
                    THEN <<Evt!Event("TOKEN_CONSUMED", requests[r].status, "CONSUMED", Null)>>
                    ELSE <<>>
  <2>1. work' = [work EXCEPT ![c] = Evt!Staged(r, row, log, Null, 1)]
    BY <1>6 DEF Evt!Consume
  <2> HIDE DEF r, row, log
  <2>2. work'[c].log = log
    BY <1>0, <2>1 DEF Evt!Staged
  <2>3. \A i \in 1..Len(log) : log[i].type # "HR_ATTESTED"
    <3> HIDE DEF first
    <3>1. CASE first
      BY <3>1 DEF log, Evt!Event
    <3>2. CASE ~first
      BY <3>2 DEF log
    <3> QED
      BY <3>1, <3>2
  <2> QED
    BY <2>2, <2>3 DEF Unsigned
<1>7. CASE Evt!Attest(c)
  <2>1. PICK from, to : work'[c].log =
          <<Evt!Event("HR_ATTESTED", from, to, call[c].principal)>>
    BY <1>0, <1>1, <1>7 DEF Evt!Attest
  <2>2. work'[c].id = call[c].request
    BY <1>0, <1>1, <1>7 DEF Evt!Attest
  <2>3. call[c].op = "attest"
    BY <1>7 DEF Evt!Attest, Evt!Proceeds, Evt!Doing
  <2> QED
    BY <2>1, <2>2, <2>3 DEF Answering, SignedBy, Evt!Event
<1>8. ~(Evt!LockRequest(c) \/ Evt!RefuseStatus(c) \/ Evt!FailEvent(c))
  BY <1>0 DEF Evt!LockRequest, Evt!RefuseStatus, Evt!FailEvent
<1> QED
  BY <1>2, <1>3, <1>4, <1>5, <1>6, <1>7, <1>8 DEF EvtStatement, Evt!Statement

\* Connections that stay where they are have the answers they had.
LEMMA AnsweringKept ==
  ASSUME AuthorityInv, EmployersStay, NEW c \in Connections, NEW d \in Connections \ {c},
         Alone(c), Staging(c)
  PROVE  /\ phase'[d] = "work" /\ call'[d].op = "attest" =>
              /\ requests'[call'[d].request] # Null
              /\ requests'[call'[d].request].employer = call'[d].employer
         /\ work'[d] # Null => Unsigned(work'[d]) \/ SignedBy(call[d], work[d])'
<1>1. phase'[d] = phase[d] /\ call'[d] = call[d] /\ work'[d] = work[d]
  BY DEF Alone, Staging
<1>2. ASSUME phase[d] = "work", call[d].op = "attest"
      PROVE  call[d].request \in Requests
  BY <1>2, ViewWork DEF AuthorityInv
<1>3. work[d] # Null => work[d].id \in Requests
  BY DEF AuthorityInv, EvtFacts!RequestInv, EvtFacts!Pending
<1>4. ASSUME work[d] # Null, SignedBy(call[d], work[d])
      PROVE  SignedBy(call[d], work[d])'
  BY <1>1, <1>3, <1>4 DEF SignedBy, EmployersStay
<1> QED
  BY <1>1, <1>2, <1>3, <1>4 DEF AuthorityInv, Answering, Signing, EmployersStay, Unsigned

\* The connection that took the step.
LEMMA AnsweringMade ==
  ASSUME AuthorityInv, EmployersStay, NEW c \in Connections, Step(c)
  PROVE  /\ phase'[c] = "work" /\ call'[c].op = "attest" =>
              /\ requests'[call'[c].request] # Null
              /\ requests'[call'[c].request].employer = call'[c].employer
         /\ work'[c] # Null => Unsigned(work'[c]) \/ SignedBy(call[c], work[c])'
<1> USE DEF AuthorityInv
<1>1. CASE BeginEvt(c)
  <2>1. EvtBegins(c)
    BY <1>1, BeginEvtBegins
  <2>2. work'[c] = Null
    BY <2>1 DEF EvtBegins, Inv, Sides
  <2>3. ~(phase'[c] = "work" /\ call'[c].op = "attest")
    BY <2>1, Operations DEF EvtBegins
  <2> QED
    BY <2>2, <2>3
<1>2. CASE Continue(c)
  <2>1. ContinueMoves(c)
    BY <1>2, ContinueMovesOn
  <2> QED
    BY <2>1 DEF ContinueMoves, Inv, Sides
<1>3. CASE AccessStatement(c)
  <2>1. phase'[c] # "work"
    BY <1>3, AccessBegins, StatementMoves DEF AccessStatement, AccessMoves
  <2>2. work'[c] = Null
    <3>1. work'[c] = work[c]
      BY <1>3 DEF AccessStatement, evtState
    <3>2. work[c] = Null
      BY <1>3, AccessBegins, StatementMoves
      DEF AccessStatement, AccessMoves, Inv, Sides
    <3> QED
      BY <3>1, <3>2
  <2> QED
    BY <2>1, <2>2
<1>4. CASE Commit(c) \/ Rollback(c) \/ Lose(c)
  <2>1. Evt!End(c)
    BY <1>4 DEF Commit, Rollback, Lose, Evt!Commit, Evt!Rollback, Evt!Lose
  <2>2. phase'[c] = "idle" /\ work'[c] = Null
    BY <2>1, EndAlone DEF Evt!End, Inv, Shapes
  <2> QED
    BY <2>2
<1>5. CASE EvtStatement(c)
  <2>1. EvtMoves(c) /\ UNCHANGED requests
    <3>1. ~\E d \in Connections : Commit(d) /\ work[d] # Null
      <4> SUFFICES ASSUME NEW d \in Connections, Commit(d) PROVE FALSE
        OBVIOUS
      <4>1. Alone(c) /\ phase'[c] # "idle"
        BY <1>5, EvtStatementMoves DEF EvtMoves
      <4>2. phase'[d] = "idle" /\ phase[d] = "ready"
        BY EndAlone DEF Commit, Evt!Commit
      <4> QED
        BY <4>1, <4>2 DEF Alone
    <3> QED
      BY <1>5, <3>1, EvtStatementMoves, RowsStay DEF Next, Step
  <2>2. CASE phase[c] = "work" /\ phase'[c] = "ready"
    <3>1. Unsigned(work'[c]) \/ SignedBy(call[c], work'[c])
      BY <1>5, <2>2, StatementSigns
    <3> QED
      BY <2>1, <2>2, <3>1 DEF EvtMoves, SignedBy
  <2>3. CASE phase[c] \in {"request", "work"} /\ phase'[c] \in {"work", "failed"}
    <3>1. work'[c] = Null
      BY <2>1, <2>3 DEF EvtMoves, Inv, Sides
    <3>2. ASSUME phase'[c] = "work", call[c].op = "attest"
          PROVE  /\ requests[call[c].request] # Null
                 /\ requests[call[c].request].employer = call[c].employer
      <4>1. CASE phase[c] = "work"
        BY <3>2, <4>1 DEF Answering
      <4>2. CASE phase[c] = "request"
        <5>1. Evt!LockRequest(c)
          BY <1>5, <4>2
          DEF EvtStatement, Evt!Statement, Evt!Create, Evt!UpdateDraft, Evt!Submit, Evt!Cancel,
              Evt!Attest, Evt!Verify, Evt!Consume, Evt!Close, Evt!RefuseStatus,
              Evt!FailEvent, Evt!Proceeds, Evt!Doing
        <5>2. Evt!Goto(c, "failed") => phase'[c] = "failed"
          BY CallShapes DEF Evt!Goto
        <5>3. Evt!Finds(c)
          BY <3>2, <5>1, <5>2 DEF Evt!LockRequest
        <5> QED
          BY <3>2, <5>3 DEF Evt!Finds
      <4> QED
        BY <2>3, <4>1, <4>2
    <3> QED
      BY <2>1, <3>1, <3>2 DEF EvtMoves
  <2>4. CASE phase[c] = "ready" /\ phase'[c] \in {"aborted", "failed"} /\ UNCHANGED work
    <3>1. work[c] # Null => Unsigned(work[c]) \/ SignedBy(call[c], work[c])
      BY DEF Signing
    <3> QED
      BY <2>1, <2>4, <3>1 DEF EvtMoves, SignedBy, Unsigned
  <2> QED
    BY <2>1, <2>2, <2>3, <2>4 DEF EvtMoves
<1> QED
  BY <1>1, <1>2, <1>3, <1>4, <1>5 DEF Step

LEMMA NextAuthorityInv == AuthorityInv /\ [Next]_vars => AuthorityInv'
<1> SUFFICES ASSUME AuthorityInv, [Next]_vars PROVE AuthorityInv'
  OBVIOUS
<1>1. Inv'
  BY NextInv DEF AuthorityInv
<1>2. EvtFacts!RequestInv'
  BY ViewStep, ViewNext, EvtAssumed, EvtFacts!NextRequestInv DEF AuthorityInv
<1>3. EmployersStay
  BY EmployersKept DEF AuthorityInv
<1>4. ASSUME NEW c \in Connections, Step(c) PROVE Answering' /\ Signing'
  <2>1. Alone(c) /\ Staging(c)
    BY <1>4, StepShapes DEF AuthorityInv
  <2>2. \A d \in Connections :
          /\ phase'[d] = "work" /\ call'[d].op = "attest" =>
               /\ requests'[call'[d].request] # Null
               /\ requests'[call'[d].request].employer = call'[d].employer
          /\ work'[d] # Null => Unsigned(work'[d]) \/ SignedBy(call[d], work[d])'
    BY <1>3, <1>4, <2>1, AnsweringKept, AnsweringMade
  <2>3. Answering'
    BY <2>2 DEF Answering
  <2>4. Signing'
    BY <2>2 DEF Signing, Unsigned
  <2> QED
    BY <2>3, <2>4
<1>5. ASSUME UNCHANGED <<call, phase, work, requests>> PROVE Answering' /\ Signing'
  <2>1. Answering'
    BY <1>5 DEF AuthorityInv, Answering
  <2>2. \A d \in Connections :
          /\ Unsigned(work[d])' <=> Unsigned(work[d])
          /\ SignedBy(call[d], work[d])' <=> SignedBy(call[d], work[d])
    BY <1>5 DEF Unsigned, SignedBy
  <2>3. work' = work
    BY <1>5
  <2>4. Signing'
    BY <2>2, <2>3 DEF AuthorityInv, Signing
  <2> QED
    BY <2>1, <2>4
<1>6. ASSUME NEW e \in Employers, SetDispatch(e) PROVE Answering' /\ Signing'
  <2>1. UNCHANGED <<call, phase, work, requests>>
    BY <1>6 DEF SetDispatch, Evt!SetDispatch
  <2> QED
    BY <1>5, <2>1
<1>7. ASSUME UNCHANGED vars PROVE Answering' /\ Signing'
  <2>1. UNCHANGED <<call, phase, work, requests>>
    BY <1>7 DEF vars, evtState
  <2> QED
    BY <1>5, <2>1
<1>8. Answering' /\ Signing'
  <2>1. \/ \E c \in Connections : Step(c)
        \/ \E e \in Employers : SetDispatch(e)
        \/ UNCHANGED vars
    BY DEF Next
  <2> QED
    BY <1>4, <1>6, <1>7, <2>1
<1> QED
  BY <1>1, <1>2, <1>8 DEF AuthorityInv

LEMMA InitAuthorityInv == Init => AuthorityInv
<1> SUFFICES ASSUME Init PROVE AuthorityInv
  OBVIOUS
<1>1. EvtFacts!RequestInv
  BY ViewStarts, ViewInit, EvtAssumed, EvtFacts!InitRequestInv
<1>2. Answering /\ Signing
  BY DEF Init, Evt!Init, Answering, Signing
<1> QED
  BY <1>1, <1>2, InitInv DEF AuthorityInv

LEMMA AuthorityInvHolds == Spec => []AuthorityInv
<1> QED
  BY InitAuthorityInv, NextAuthorityInv, PTL DEF Spec

\* The answers a step adds to a request are of its author's authority.
AnswersAuthorized ==
  \A r \in Requests : \A i \in (Len(events[r]) + 1)..Len(events'[r]) :
     events'[r][i].type = "HR_ATTESTED" =>
       /\ Evt!Author(events'[r][i]) \in reviewer
       /\ Access!Assigned(Evt!Author(events'[r][i]), requests[r].employer)

LEMMA EventsSequences ==
  ASSUME AuthorityInv, NEW r \in Requests
  PROVE  events[r] \in Seq(EvtFacts!Events)
<1>1. CASE events[r] = <<>>
  BY <1>1
<1>2. CASE events[r] # <<>>
  <2>1. PICK row \in EvtFacts!Rows, log \in Seq(EvtFacts!Events) :
          row = requests[r] /\ log = events[r]
    BY <1>2 DEF AuthorityInv, EvtFacts!RequestInv, EvtFacts!Stored
  <2> QED
    BY <2>1
<1> QED
  BY <1>1, <1>2

LEMMA CommitAuthorized ==
  ASSUME AuthorityInv, NEW c \in Connections, Commit(c), work[c] # Null
  PROVE  AnswersAuthorized
<1> DEFINE w == work[c]
<1>1. w.id \in Requests /\ w.log \in Seq(EvtFacts!Events)
  BY DEF AuthorityInv, EvtFacts!RequestInv, EvtFacts!Pending
<1>2. /\ phase[c] = "ready"
      /\ events' = [events EXCEPT ![w.id] = events[w.id] \o w.log]
  BY DEF Commit, Evt!Commit, Evt!Publish
<1>3. events = [r \in Requests |-> events[r]]
  BY DEF AuthorityInv, EvtFacts!RequestInv, EvtFacts!Types
<1> HIDE DEF w
<1>4. /\ events'[w.id] = events[w.id] \o w.log
      /\ \A r \in Requests \ {w.id} : events'[r] = events[r]
  BY <1>1, <1>2, <1>3
<1> SUFFICES ASSUME NEW r \in Requests, NEW i \in (Len(events[r]) + 1)..Len(events'[r]),
                    events'[r][i].type = "HR_ATTESTED"
             PROVE  /\ Evt!Author(events'[r][i]) \in reviewer
                    /\ Access!Assigned(Evt!Author(events'[r][i]), requests[r].employer)
  BY DEF AnswersAuthorized
<1>5. events[r] \in Seq(EvtFacts!Events)
  BY EventsSequences
<1>6. r = w.id
  BY <1>4, <1>5
<1>7. PICK k \in 1..Len(w.log) : events'[r][i] = w.log[k]
  <2> DEFINE s == events[r]
             t == w.log
             u == s \o t
             k == i - Len(s)
  <2>1. events'[r] = u /\ s \in Seq(EvtFacts!Events) /\ t \in Seq(EvtFacts!Events)
    BY <1>1, <1>4, <1>5, <1>6
  <2> HIDE DEF s, t
  <2>2. /\ Len(u) = Len(s) + Len(t) /\ Len(s) \in Nat /\ Len(t) \in Nat
        /\ \A j \in 1..Len(t) : u[Len(s) + j] = t[j]
    BY <2>1, EvtFacts!Concatenated
  <2>3. i \in (Len(s) + 1)..Len(u)
    BY <2>1 DEF s
  <2> HIDE DEF u
  <2>4. k \in 1..Len(t) /\ Len(s) + k = i
    BY <2>2, <2>3
  <2> HIDE DEF k
  <2>5. u[i] = t[k]
    BY <2>2, <2>4
  <2> QED
    BY <2>1, <2>4, <2>5 DEF t
<1>8. /\ call[c].op = "attest" /\ requests[r].employer = call[c].employer
      /\ w.log[k].detail = call[c].principal
  <2>1. SignedBy(call[c], w)
    BY <1>7 DEF AuthorityInv, Signing, Unsigned, w
  <2> QED
    BY <1>6, <1>7, <2>1 DEF SignedBy
<1>9. /\ call[c].principal \in reviewer
      /\ AccessFacts!Assigned(call[c].principal, call[c].employer)
  BY <1>2, <1>8 DEF AuthorityInv, Inv, AccessFacts!AccessInv, AccessFacts!Sharing
<1>10. Access!Assigned(call[c].principal, call[c].employer)
  BY <1>9 DEF Access!Assigned, Access!Active, AccessFacts!Assigned, AccessFacts!Active
<1> QED
  BY <1>7, <1>8, <1>9, <1>10 DEF Evt!Author

\* Whatever operators revoke, amend or disable, and however requests and reviewers of
\* several employers interleave, an answer is committed only while its author is an
\* active reviewer assigned to the request's employer.
THEOREM AnswersAlwaysAuthorized == Spec => AttestedUnderAuthority
<1>1. AuthorityInv /\ [Next]_vars => [AnswersAuthorized]_vars
  <2> SUFFICES ASSUME AuthorityInv, [Next]_vars PROVE AnswersAuthorized
    OBVIOUS
  <2>1. CASE \E c \in Connections : Commit(c) /\ work[c] # Null
    BY <2>1, CommitAuthorized
  <2>2. CASE ~\E c \in Connections : Commit(c) /\ work[c] # Null
    <3>1. events' = events
      BY <2>2, RowsStay DEF AuthorityInv
    <3>2. \A r \in Requests : (Len(events[r]) + 1)..Len(events'[r]) = {}
      BY <3>1, EventsSequences
    <3> QED
      BY <3>2 DEF AnswersAuthorized
  <2> QED
    BY <2>1, <2>2
<1> QED
  BY <1>1, AuthorityInvHolds, PTL DEF Spec, AttestedUnderAuthority, AnswersAuthorized

\* The authorizations of attestations hold as those of every other endpoint do, and
\* assignments stay unique, with requests running beside them.
THEOREM AccessHoldsBesideRequests ==
  Spec => [](Access!AuthorizationHolds /\ Access!OneActiveAssignment)
<1>1. Inv => Access!AuthorizationHolds /\ Access!OneActiveAssignment
  BY DEF Inv, AccessFacts!AccessInv, AccessFacts!Sharing, AccessFacts!Assigned,
         AccessFacts!Active, AccessFacts!OneActiveAssignment, Access!AuthorizationHolds,
         Access!Authorized, Access!Assigned, Access!Active, Access!OneActiveAssignment
<1> QED
  BY <1>1, InvHolds, PTL

=============================================================================
