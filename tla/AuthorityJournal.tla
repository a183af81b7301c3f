--------------------------- MODULE AuthorityJournal ---------------------------
(***************************************************************************)
(* The append-only journal of one authorization, growing by whatever       *)
(* events Append accepts, and what the registry derives from it.           *)
(***************************************************************************)
EXTENDS GrantProjection, FiniteSets

CONSTANTS
  Authorization,   \* the authorization, [id, issuer, subject, claim]
  Adjudication,    \* the decision recorded on it
  Actors,          \* who may sign an approval
  EvidenceRefs,    \* what evidence an approval may cite
  Fields,          \* what a correction may say it corrects
  EffectiveTimes, RecordedTimes,
  MaxEvents,       \* bound on the length of the journal, a correction counting twice
  MaxCorrections   \* bound on the corrections in it

ASSUME JournalAssumption ==
  /\ EffectiveTimes \subseteq Nat /\ RecordedTimes \subseteq Nat
  /\ \E latest \in EffectiveTimes \cup RecordedTimes :
        \A time \in EffectiveTimes \cup RecordedTimes : time <= latest
  /\ NoEvent \notin Nat

VARIABLE journal

Horizon == Max(EffectiveTimes \cup RecordedTimes) + Microsecond
Instants == 1..Horizon

Init == journal = <<>>

\* Only an approval's signature and evidence are ever looked at.
Signers(type) == IF type = "APPROVE" THEN Actors ELSE {Adjudication.maker}
Cited(type) == IF type = "APPROVE" THEN EvidenceRefs ELSE {Adjudication.evidenceRef}

LifecycleEvent(id, type, effectiveAt, recordedAt, actor, evidenceRef, satisfied) ==
  [id |-> id, auth |-> Authorization.id, type |-> type, effectiveAt |-> effectiveAt,
   recordedAt |-> recordedAt, actor |-> actor, evidenceRef |-> evidenceRef,
   satisfied |-> satisfied, corrects |-> NoEvent, field |-> "none"]

Correction(id, of, effectiveAt, recordedAt, field) ==
  [LifecycleEvent(id, of.type, effectiveAt, recordedAt,
                  Adjudication.maker, Adjudication.evidenceRef, TRUE)
     EXCEPT !.corrects = of.id, !.field = field]

\* Append of one event; a refused one leaves the journal as it is.
AppendEvent(e) == Accepts(journal, e) /\ journal' = Append(journal, e)

\* Identifiers are handed out in order, used ones being offered again too.
OfferedIds == 1..(Len(journal) + 1)

Corrections == Cardinality({i \in DOMAIN journal : IsCorrection(journal[i])})

RecordLifecycleEvent ==
  /\ Len(journal) + Corrections < MaxEvents
  /\ \E id \in OfferedIds, type \in LifecycleEvents,
        effectiveAt \in EffectiveTimes, recordedAt \in RecordedTimes :
        \E actor \in Signers(type), evidenceRef \in Cited(type), satisfied \in BOOLEAN :
           AppendEvent(LifecycleEvent(id, type, effectiveAt, recordedAt, actor,
                                      evidenceRef, satisfied))

RecordCorrection ==
  /\ Len(journal) + Corrections + 1 < MaxEvents /\ Corrections < MaxCorrections
  /\ \E id \in OfferedIds, i \in DOMAIN journal,
        effectiveAt \in EffectiveTimes, recordedAt \in RecordedTimes, field \in Fields :
        AppendEvent(Correction(id, journal[i], effectiveAt, recordedAt, field))

Next == RecordLifecycleEvent \/ RecordCorrection

Spec == Init /\ [][Next]_journal

-----------------------------------------------------------------------------
(* What the registry derives from the journal                              *)

Evidence == [issuer |-> Authorization.issuer, claim |-> Authorization.claim,
             employer |-> Authorization.subject]

Projection(events, cutoff) == ProjectAuthorityGrants(Authorization, Adjudication, events, cutoff)

Decision(projection, now) ==
  Evaluate(Evidence, ResolveAuthorityGrants(projection.grants, Evidence.issuer, Evidence.claim), now)

AuthorizedAt(projection) == {now \in Instants : Decision(projection, now) = "AUTHORIZED"}

\* The reference: the lifecycle state in force at an instant, by replaying the
\* effective history as far as that instant.
TimelineDecision(effectiveEvents, now) ==
  LET past  == {i \in DOMAIN effectiveEvents : effectiveEvents[i].effectiveAt <= now}
      state == Replay(effectiveEvents, past).state
  IN CASE state = "ACTIVE"                   -> "AUTHORIZED"
       [] state \in {"SUSPENDED", "REVOKED"} -> "UNAUTHORIZED"
       [] OTHER                              -> "REVIEW"

-----------------------------------------------------------------------------
(* Properties                                                              *)

\* Whenever the grants can be projected, the evaluator's answer on them is the
\* one the lifecycle timeline gives at that instant; inside the last microsecond
\* of an interval, past its inclusive end, it may only fall back to REVIEW
\* (projection.go:31, evaluator.go:87-100).
DecisionMatchesTimeline ==
  \A cutoff \in RecordedTimes :
     LET projection == Projection(journal, cutoff)
         effective  == EffectiveEvents(journal, Authorization.id, cutoff)
     IN projection.ok =>
          \A now \in Instants :
             \/ Decision(projection, now) = TimelineDecision(effective.events, now)
             \/ ~Canonical(now) /\ Decision(projection, now) = "REVIEW"

\* No instant is covered by two grants of the authorization: the evaluator takes
\* the first active one, so an overlap would let row order decide
\* (projection.go:134-168).
OneGrantAtATime ==
  \A cutoff \in RecordedTimes :
     LET projection == Projection(journal, cutoff)
     IN projection.ok =>
          \A now \in Instants :
             Cardinality({i \in DOMAIN projection.grants :
                            GrantCurrent(projection.grants[i], now)}) <= 1

\* An approval counts only when the adjudication's own decision maker signed it,
\* on the adjudication's evidence and not before it was recorded
\* (projection.go:182-188).
AuthorizedOnlyWhenAdjudicated ==
  LET projection == Projection(journal, Horizon)
  IN (projection.ok /\ AuthorizedAt(projection) # {}) =>
       \E i \in DOMAIN journal : /\ journal[i].type = "APPROVE"
                                 /\ journal[i].actor = Adjudication.maker
                                 /\ journal[i].evidenceRef = Adjudication.evidenceRef
                                 /\ journal[i].recordedAt >= Adjudication.recordedAt

\* A later suspension, revocation or expiry never changes what the evaluator
\* says of instants before it took effect (projection.go:124-126).
LaterEventsKeepEarlierAuthority ==
  [][ LET e      == Last(journal')
          before == Projection(journal, Horizon)
          after  == Projection(journal', Horizon)
      IN (~IsCorrection(e) /\ before.ok /\ after.ok) =>
           \A now \in Instants : now < e.effectiveAt /\ Canonical(now) =>
              Decision(after, now) = Decision(before, now)
    ]_journal

\* What was known at a cutoff stays what was known: events and corrections
\* recorded later do not reach an earlier view (registry.go:144-147).
HistoryAsKnownIsStable ==
  [][ \A cutoff \in RecordedTimes :
         cutoff < Last(journal').recordedAt =>
           /\ EffectiveEvents(journal', Authorization.id, cutoff)
                = EffectiveEvents(journal, Authorization.id, cutoff)
           /\ Projection(journal', cutoff) = Projection(journal, cutoff)
    ]_journal

\* A revocation or an expiry is for good: whatever was recorded after it, with
\* corrections that move it or the events before it, no instant from the time it
\* is in force is authorized in any view that knows it (state_machine.go:96-140
\* has no row out of the two states; projection.go:220-235).
TerminationIsFinal ==
  \A cutoff \in RecordedTimes :
     LET projection == Projection(journal, cutoff)
         events     == EffectiveEvents(journal, Authorization.id, cutoff).events
     IN projection.ok =>
          \A k \in DOMAIN events : events[k].type \in {"REVOKE", "EXPIRE"} =>
             \A now \in Instants :
                events[k].effectiveAt <= now => Decision(projection, now) # "AUTHORIZED"

\* The same document, line 49: corrections "MUST NOT fabricate an earlier
\* authorization": a correction authorizes no instant before the first one that
\* was authorized without it.  It does.
CorrectionsFabricateNoAuthority ==
  [][ LET before == Projection(journal, Horizon)
          after  == Projection(journal', Horizon)
      IN (IsCorrection(Last(journal')) /\ before.ok /\ after.ok) =>
           \A now \in AuthorizedAt(after) :
              \E earlier \in AuthorizedAt(before) : earlier <= now
    ]_journal

=============================================================================
