--------------------------- MODULE GrantProjection ---------------------------
(***************************************************************************)
(* internal/authority/projection.go, snapshot_resolver.go, evaluator.go:   *)
(* the authority grants derived from adjudicated evidence and a journal,   *)
(* their retrieval, and the decision the evaluator takes on them.          *)
(*                                                                         *)
(* A record is [id, issuer, subject, claim].  An adjudication is           *)
(* [id, auth, scope, outcome, maker, evidenceRef, decidedAt, recordedAt],  *)
(* scope being the record it was taken on.  A grant is                     *)
(* [auth, event, issuer, subject, claim, from, until, state]; its id is    *)
(* the pair auth, event and until = NoEnd is an unbounded interval.        *)
(***************************************************************************)
EXTENDS JournalReplay

NoEnd == 0        \* ValidUntil = nil
NoStart == 0      \* intervalFrom.IsZero()

\* Fault: the end is taken over unchanged, though a grant's end is inclusive.
EndUnchanged(end) == end

\* The half-open interval [from, end) as the inclusive one a grant carries.
InclusiveEnd(end) == end - Microsecond

\* The decision an authorization must rest on, as known at the cutoff.
Adjudicated(record, adjudication, cutoff) ==
  /\ adjudication.auth = record.id
  /\ adjudication.scope = record
  /\ adjudication.outcome = "APPROVED"
  /\ Canonical(adjudication.decidedAt) /\ Canonical(adjudication.recordedAt)
  /\ adjudication.decidedAt <= adjudication.recordedAt
  /\ adjudication.recordedAt <= cutoff

NothingProjected ==
  [ok |-> TRUE, approved |-> FALSE, from |-> NoStart, event |-> NoEvent,
   state |-> "none", grants |-> <<>>]

Refuse(p) == [p EXCEPT !.ok = FALSE]

OpenInterval(p, e, grantState) ==
  IF p.from # NoStart THEN Refuse(p)
  ELSE [p EXCEPT !.from = e.effectiveAt, !.event = e.id, !.state = grantState]

OpenGrant(record, p, until) ==
  [auth |-> record.id, event |-> p.event, issuer |-> record.issuer,
   subject |-> record.subject, claim |-> record.claim,
   from |-> p.from, until |-> until, state |-> p.state]

\* Fault: a closed interval keeps no end.
CloseWithoutEnd(record, p, end) ==
  IF p.from = NoStart \/ end <= p.from THEN Refuse(p)
  ELSE [p EXCEPT !.from = NoStart, !.event = NoEvent,
                 !.grants = Append(@, OpenGrant(record, p, NoEnd))]

CloseInterval(record, p, end) ==
  IF p.from = NoStart \/ end <= p.from THEN Refuse(p)
  ELSE [p EXCEPT !.from = NoStart, !.event = NoEvent,
                 !.grants = Append(@, OpenGrant(record, p, InclusiveEnd(end)))]

\* Fault: the interval a withdrawal ends is forgotten rather than closed.
ForgetIfOpen(record, p, end) == [p EXCEPT !.from = NoStart, !.event = NoEvent]

CloseIfOpen(record, p, end) ==
  IF p.from = NoStart THEN p ELSE CloseInterval(record, p, end)

\* Fault: whoever signed the approval will do.
ApprovalByAnyone(adjudication, e) ==
  e.evidenceRef = adjudication.evidenceRef /\ adjudication.recordedAt <= e.recordedAt

ApprovalMatches(adjudication, e) ==
  /\ e.evidenceRef = adjudication.evidenceRef
  /\ e.actor = adjudication.maker
  /\ adjudication.recordedAt <= e.recordedAt

ProjectEvent(record, adjudication, p, e) ==
  CASE e.type = "APPROVE"   -> IF ApprovalMatches(adjudication, e)
                               THEN [p EXCEPT !.approved = TRUE] ELSE Refuse(p)
    [] e.type = "ACTIVATE"  -> IF p.approved THEN OpenInterval(p, e, "active")
                               ELSE Refuse(p)
    [] e.type = "SUSPEND"   -> IF p.state # "active" THEN Refuse(p)
                               ELSE OpenInterval(CloseInterval(record, p, e.effectiveAt),
                                                 e, "inactive")
    [] e.type = "REINSTATE" -> IF p.state # "inactive" THEN Refuse(p)
                               ELSE OpenInterval(CloseInterval(record, p, e.effectiveAt),
                                                 e, "active")
    [] e.type = "EXPIRE"    -> CloseIfOpen(record, p, e.effectiveAt)
    [] e.type = "REVOKE"    -> OpenInterval(CloseIfOpen(record, p, e.effectiveAt),
                                            e, "inactive")
    [] OTHER                -> p

\* The interval left open must be the one the final lifecycle state calls for.
ConsistentEnd(lifecycle, p) ==
  CASE lifecycle = "ACTIVE"                  -> p.from # NoStart /\ p.state = "active"
    [] lifecycle \in {"SUSPENDED", "REVOKED"} -> p.from # NoStart /\ p.state = "inactive"
    [] OTHER                                 -> p.from = NoStart

ProjectEvents(record, adjudication, events) ==
  LET after[i \in 0..Len(events)] ==
        IF i = 0 THEN NothingProjected
        ELSE ProjectEvent(record, adjudication, after[i - 1], events[i])
  IN after[Len(events)]

\* Time-bounded grants of one authorization, as known at the cutoff.
ProjectAuthorityGrants(record, adjudication, journal, cutoff) ==
  LET effective == EffectiveEvents(journal, record.id, cutoff)
      events    == effective.events
      p         == ProjectEvents(record, adjudication, events)
  IN [ok |-> /\ Adjudicated(record, adjudication, cutoff)
             /\ effective.ok
             /\ p.ok /\ p.approved
             /\ ConsistentEnd(Replay(events, DOMAIN events).state, p),
      grants |-> IF p.from = NoStart THEN p.grants
                 ELSE Append(p.grants, OpenGrant(record, p, NoEnd))]

\* A snapshot is [complete, through, entries], an entry
\* [record, adjudication, journal].  One bad entry refuses them all.
NewSnapshotAuthorityResolver(snapshot) ==
  LET entries == snapshot.entries
      projected == [i \in DOMAIN entries |->
                      ProjectAuthorityGrants(entries[i].record, entries[i].adjudication,
                                             entries[i].journal, snapshot.through)]
  IN [ok |-> /\ snapshot.complete
             /\ Canonical(snapshot.through)
             /\ IsInjective([i \in DOMAIN entries |-> entries[i].record.id])
             /\ \A i \in DOMAIN entries :
                   /\ \A k \in DOMAIN entries[i].journal :
                         /\ entries[i].journal[k].auth = entries[i].record.id
                         /\ entries[i].journal[k].recordedAt <= snapshot.through
                   /\ projected[i].ok,
      grants |-> FlattenSeq([i \in DOMAIN entries |-> projected[i].grants])]

ResolveAuthorityGrants(grants, issuer, claim) ==
  Pick(grants, {i \in DOMAIN grants : grants[i].issuer = issuer /\ grants[i].claim = claim})

MatchesAuthorityScope(evidence, g) ==
  /\ g.issuer = evidence.issuer
  /\ g.claim = evidence.claim
  /\ g.subject = evidence.employer

GrantCurrent(g, now) == g.from <= now /\ (g.until = NoEnd \/ now <= g.until)

\* The authority decision on evidence [issuer, claim, employer] at a time.
\* The matched grant's id and the reason code are left out.
Evaluate(evidence, grants, now) ==
  LET current == {i \in DOMAIN grants : /\ MatchesAuthorityScope(evidence, grants[i])
                                        /\ GrantCurrent(grants[i], now)}
  IN IF \E i \in current : grants[i].state = "active" THEN "AUTHORIZED"
     ELSE IF \E i \in current : grants[i].state = "inactive" THEN "UNAUTHORIZED"
     ELSE "REVIEW"

=============================================================================
