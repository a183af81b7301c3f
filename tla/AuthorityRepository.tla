-------------------------- MODULE AuthorityRepository --------------------------
(***************************************************************************)
(* internal/db/authority_repository.go: concurrent calls that record       *)
(* authority evidence, and concurrent loads of the authoritative snapshot  *)
(* the grants are projected from, over the database of AuthorityRecording  *)
(* and the journal rules of JournalReplay and GrantProjection.             *)
(*                                                                         *)
(* Evidence is [table, key, body]: an authorization record, an             *)
(* adjudication or a journal event (GrantProjection says of what fields).  *)
(***************************************************************************)
EXTENDS GrantProjection, FiniteSets

CONSTANTS
  Calls,       \* CreateAuthorization, CreateAdjudication, AppendJournalEvent calls
  Request,     \* the evidence each call is to record
  Readers,     \* callers of LoadAuthoritativeSnapshot
  Legacy,      \* evidence stored before recording positions
  Null,
  LostAnswers, \* bound on the calls whose COMMIT may go unacknowledged
  MaxClock     \* bound on the database clock

VARIABLES
  committedPosition, allocatingXid, rows,
  status, own, allocated, inserted, boundaryLock,
  snapshot,
  pc,          \* next step of each call in its program, 0 once it has returned
  outcome,     \* what each call returned
  forUpdate,   \* call holding each authorization row FOR UPDATE, or Null
  keyShare,    \* calls holding it FOR KEY SHARE (their foreign keys refer to it)
  sequence,    \* journal_sequence of each journal event, 0 before its insert
  lastSequence, \* the last one the table's identity column has handed out
  load,        \* how far each snapshot load is, and what it observed
  resolver,    \* what each reader's last successful load resolves from, or Null
  clock        \* the database clock

database == <<committedPosition, allocatingXid, rows>>
numbering == <<sequence, lastSequence>>
callState == <<pc, outcome, forUpdate, keyShare, numbering>>
readState == <<load, resolver>>
vars == <<database, status, own, allocated, inserted, boundaryLock, snapshot,
          callState, readState, clock>>

Evidence == {Request[c] : c \in Calls} \cup Legacy
MaxPosition == Cardinality(Calls)

Recording == INSTANCE AuthorityRecording WITH Tx <- Calls

ASSUME RepositoryAssumption ==
  /\ IsFiniteSet(Calls) /\ IsFiniteSet(Legacy)
  /\ Null \notin Calls \cup Nat \cup Recording!Snapshots
  /\ \A e, f \in Legacy : <<e.table, e.key>> = <<f.table, f.key>> => e = f
  /\ \A e \in Evidence :
       /\ e.table = "authorizations" => e.key = e.body.id
       /\ e.table = "journal" => EventShaped(e.body)
  /\ NoEvent \notin Nat
  /\ MaxClock \in Nat

AuthorizationIds == {e.key : e \in {f \in Evidence : f.table = "authorizations"}}

\* The authorization a call's row belongs to.
AuthorizationOf(e) == CASE e.table = "authorizations" -> e.key
                        [] e.table = "adjudications"  -> e.body.auth
                        [] e.table = "journal"        -> e.body.auth

Init ==
  /\ Recording!Init
  /\ pc = [c \in Calls |-> 1]
  /\ outcome = [c \in Calls |-> "pending"]
  /\ forUpdate = [a \in AuthorizationIds |-> Null]
  /\ keyShare = [a \in AuthorizationIds |-> {}]
  /\ sequence = [e \in Evidence |-> 0] /\ lastSequence = 0
  /\ load = [r \in Readers |-> [step |-> "idle", observedAt |-> 0]]
  /\ resolver = [r \in Readers |-> Null]
  /\ clock = Microsecond

-----------------------------------------------------------------------------
(* Reading evidence from a set of rows                                      *)

RowsOf(table, name, auth) ==
  {row \in table : row.evidence.table = name /\ AuthorizationOf(row.evidence) = auth}

\* ORDER BY journal_sequence ASC
JournalOf(table, auth) ==
  LET events == {row.evidence : row \in RowsOf(table, "journal", auth)}
      Rank(e) == Cardinality({f \in events : sequence[f] < sequence[e]}) + 1
  IN [i \in 1..Cardinality(events) |-> (CHOOSE e \in events : Rank(e) = i).body]

\* Loading a journal appends every stored event again.
Reloads(journal) ==
  \A i \in DOMAIN journal : Accepts(SubSeq(journal, 1, i - 1), journal[i])

AuthorizationStored(table, auth) == RowsOf(table, "authorizations", auth) # {}

\* The row an adjudication's or event's foreign keys must find; an adjudication
\* refers to the whole scope, not only the identifier.
References(table, e) ==
  CASE e.table = "authorizations" -> TRUE
    [] e.table = "adjudications"  ->
         \E row \in RowsOf(table, "authorizations", e.body.auth) :
            row.evidence.body = e.body.scope
    [] e.table = "journal"        -> AuthorizationStored(table, e.body.auth)

-----------------------------------------------------------------------------
(* Recording calls                                                          *)

\* Fault: the authorization row locked first.
ProgramLockingFirst(table) ==
  IF table = "journal" THEN <<"begin", "lock", "allocate", "insert", "commit">>
                       ELSE <<"begin", "allocate", "insert", "commit">>

\* Every write path takes the boundary row before any authorization row.
Program(table) ==
  IF table = "journal" THEN <<"begin", "allocate", "lock", "insert", "commit">>
                       ELSE <<"begin", "allocate", "insert", "commit">>

At(c, step) == pc[c] # 0 /\ Program(Request[c].table)[pc[c]] = step

Advance(c) == pc' = [pc EXCEPT ![c] = @ + 1] /\ UNCHANGED outcome

Return(c, result) ==
  /\ pc' = [pc EXCEPT ![c] = 0]
  /\ outcome' = [outcome EXCEPT ![c] = result]

ReleaseRows(c) ==
  /\ forUpdate' = [a \in AuthorizationIds |-> IF forUpdate[a] = c THEN Null ELSE forUpdate[a]]
  /\ keyShare' = [a \in AuthorizationIds |-> keyShare[a] \ {c}]

\* Argument checks, made before a transaction is opened.
ValidRequest(e) ==
  e.table = "adjudications" =>
    /\ e.body.outcome \in {"APPROVED", "REJECTED"}
    /\ Canonical(e.body.decidedAt) /\ Canonical(e.body.recordedAt)
    /\ e.body.decidedAt <= e.body.recordedAt

BeginCall(c) ==
  /\ At(c, "begin")
  /\ IF ValidRequest(Request[c])
     THEN Recording!Begin(c) /\ Advance(c)
     ELSE /\ Return(c, "invalid")
          /\ UNCHANGED <<database, status, own, allocated, inserted, boundaryLock, snapshot>>
  /\ UNCHANGED <<forUpdate, keyShare, numbering, readState, clock>>

\* Fault: the next position is computed by a plain SELECT, without the row lock.
AllocateUnlocked(c) ==
  /\ At(c, "allocate")
  /\ own' = [own EXCEPT ![c] = Recording!VisiblePosition(c) + 1]
  /\ allocated' = [allocated EXCEPT ![c] = @ \cup {Recording!VisiblePosition(c) + 1}]
  /\ Advance(c)
  /\ UNCHANGED <<database, status, inserted, boundaryLock, snapshot,
                 forUpdate, keyShare, numbering, readState, clock>>

AllocatePosition(c) ==
  /\ At(c, "allocate")
  /\ Recording!Allocate(c)
  /\ Advance(c)
  /\ UNCHANGED <<forUpdate, keyShare, numbering, readState, clock>>

\* SELECT ... FOR UPDATE of the authorization; no such row is ErrNotFound.
LockAuthorization(c) ==
  LET auth == AuthorizationOf(Request[c])
  IN /\ At(c, "lock")
     /\ AuthorizationStored(rows, auth)
     /\ forUpdate[auth] = Null /\ keyShare[auth] \subseteq {c}
     /\ forUpdate' = [forUpdate EXCEPT ![auth] = c]
     /\ Advance(c)
     /\ UNCHANGED <<database, status, own, allocated, inserted, boundaryLock, snapshot,
                    keyShare, numbering, readState, clock>>

NotFound(c) == At(c, "lock") /\ ~AuthorizationStored(rows, AuthorizationOf(Request[c]))

\* Fault: the loaded journal is not asked whether it accepts the event.
AcceptedUnchecked(c) ==
  LET e == Request[c]
  IN (e.table = "journal" /\ IsCorrection(e.body)) => e.body.field = "EffectiveAt"

\* A journal event is validated against the journal loaded under the row lock;
\* the table's CHECK allows corrections of the effective time only.
AcceptedByJournal(c) ==
  LET e       == Request[c]
      journal == JournalOf(Recording!Visible(c), AuthorizationOf(e))
  IN e.table = "journal" =>
       /\ Reloads(journal) /\ Accepts(journal, e.body)
       /\ IsCorrection(e.body) => e.body.field = "EffectiveAt"

Duplicate(c) ==
  \E row \in rows : Recording!Clash(row, [evidence |-> Request[c], position |-> own[c]])

\* INSERT with the allocated position; the foreign key locks the authorization row.
InsertEvidence(c) ==
  LET e == Request[c]  auth == AuthorizationOf(e)
  IN /\ At(c, "insert")
     /\ AcceptedByJournal(c) /\ References(rows, e)
     /\ e.table # "authorizations" => forUpdate[auth] \in {Null, c}
     /\ Recording!Insert(c, [evidence |-> e, position |-> own[c]])
     /\ keyShare' = IF e.table = "authorizations" THEN keyShare
                    ELSE [keyShare EXCEPT ![auth] = @ \cup {c}]
     /\ IF e.table = "journal"
        THEN /\ lastSequence' = lastSequence + 1
             /\ sequence' = [sequence EXCEPT ![e] = lastSequence + 1]
        ELSE UNCHANGED numbering
     /\ Advance(c)
     /\ UNCHANGED <<forUpdate, readState, clock>>

\* Fault: the callback's success is returned without COMMIT.
CommitForgotten(c) ==
  /\ At(c, "commit")
  /\ Recording!Abort(c)
  /\ Return(c, "recorded")
  /\ ReleaseRows(c)
  /\ UNCHANGED <<numbering, readState, clock>>

\* COMMIT takes effect at the server; the caller is told so, or gets an error when
\* the acknowledgement is lost on its way (tx.Commit's error is returned as it is).
CommitCall(c) ==
  /\ At(c, "commit")
  /\ Recording!Commit(c)
  /\ \/ Return(c, "recorded")
     \/ c \in LostAnswers /\ Return(c, "lost")
  /\ ReleaseRows(c)
  /\ UNCHANGED <<numbering, readState, clock>>

Rollback(c, result) ==
  /\ Recording!Abort(c)
  /\ Return(c, result)
  /\ ReleaseRows(c)
  /\ UNCHANGED <<numbering, readState, clock>>

\* A statement the database or the journal refuses ends the call with an error.
\* A COMMIT the deferred triggers refuse would too.
RefuseCall(c) ==
  \/ NotFound(c) /\ Rollback(c, "not found")
  \/ /\ At(c, "insert")
     /\ \/ ~AcceptedByJournal(c) /\ Rollback(c, "invalid")
        \/ AcceptedByJournal(c) /\ Duplicate(c) /\ Rollback(c, "conflict")
        \/ /\ AcceptedByJournal(c) /\ ~Duplicate(c) /\ ~References(rows, Request[c])
           /\ Rollback(c, "no authorization")

\* Cancelled context, lost connection, crash of the server process before the COMMIT
\* took effect.
LoseCall(c) == Rollback(c, "lost")

-----------------------------------------------------------------------------
(* LoadAuthoritativeSnapshot                                                *)

ReadBoundary(r) ==
  /\ load[r].step = "idle"
  /\ Recording!TakeSnapshot(r)
  /\ load' = [load EXCEPT ![r].step = "observe"]
  /\ UNCHANGED <<callState, resolver, clock>>

ObserveTime(r) ==
  /\ load[r].step = "observe"
  /\ load' = [load EXCEPT ![r] = [step |-> "assemble",
                                  observedAt |-> clock - (clock % Microsecond)]]
  /\ UNCHANGED <<database, status, own, allocated, inserted, boundaryLock, snapshot,
                 callState, resolver, clock>>

\* Fault: rows without a position are skipped instead of refused.
CompletenessOfPositioned(view) ==
  Cardinality({row \in view.rows : row.position # Null}) = view.position

\* validateAuthorityRecordingCompleteness
CompletenessEstablished(view) ==
  LET positions == {row.position : row \in view.rows}
  IN /\ \A row \in view.rows : row.position # Null /\ row.position <= view.position
     /\ Cardinality(view.rows) = view.position
     /\ Cardinality(positions) = view.position
     /\ view.position > 0 => Min(positions) = 1 /\ Max(positions) = view.position

\* Fault: the entries are read without the position filter.
AnyPosition(view) == view.rows

AtPosition(view) ==
  {row \in view.rows : row.position # Null /\ row.position <= view.position}

\* One entry per authorization, in identifier order.
EntryOf(view, auth) ==
  LET table == AtPosition(view)
  IN [record       |-> (CHOOSE row \in RowsOf(table, "authorizations", auth) : TRUE).evidence.body,
      adjudication |-> (CHOOSE row \in RowsOf(table, "adjudications", auth) : TRUE).evidence.body,
      journal      |-> JournalOf(table, auth)]

\* Missing and competing decisions, and journals that do not reload, fail the load.
EntriesLoad(view) ==
  \A row \in AtPosition(view) : row.evidence.table = "authorizations" =>
     /\ Cardinality(RowsOf(AtPosition(view), "adjudications", row.evidence.key)) = 1
     /\ Reloads(JournalOf(AtPosition(view), row.evidence.key))

Candidate(view, observedAt) ==
  [complete |-> TRUE, through |-> observedAt,
   entries  |-> SetToSeq({EntryOf(view, row.evidence.key) :
                  row \in {s \in AtPosition(view) : s.evidence.table = "authorizations"}})]

Loads(view, observedAt) ==
  /\ CompletenessEstablished(view)
  /\ EntriesLoad(view)
  /\ NewSnapshotAuthorityResolver(Candidate(view, observedAt)).ok

AssembleSnapshot(r) ==
  /\ load[r].step = "assemble"
  /\ load' = [load EXCEPT ![r].step = "idle"]
  /\ resolver' = IF Loads(snapshot[r], load[r].observedAt)
                 THEN [resolver EXCEPT ![r] =
                         [position |-> snapshot[r].position, through |-> load[r].observedAt,
                          grants |-> NewSnapshotAuthorityResolver(
                                       Candidate(snapshot[r], load[r].observedAt)).grants]]
                 ELSE resolver
  /\ UNCHANGED <<database, status, own, allocated, inserted, boundaryLock, snapshot,
                 callState, clock>>

Tick ==
  /\ clock < MaxClock
  /\ clock' = clock + 1
  /\ UNCHANGED <<database, status, own, allocated, inserted, boundaryLock, snapshot,
                 callState, readState>>

-----------------------------------------------------------------------------

CallStep(c) ==
  \/ BeginCall(c) \/ AllocatePosition(c) \/ LockAuthorization(c)
  \/ InsertEvidence(c) \/ CommitCall(c) \/ RefuseCall(c)

ReadStep(r) == ReadBoundary(r) \/ ObserveTime(r) \/ AssembleSnapshot(r)

Next ==
  \/ \E c \in Calls : CallStep(c) \/ LoseCall(c)
  \/ \E r \in Readers : ReadStep(r)
  \/ Tick

\* A call that can take its next step takes it: the goroutine runs on, and
\* PostgreSQL grants a free lock to a waiter.
Spec == Init /\ [][Next]_vars /\ \A c \in Calls : WF_vars(CallStep(c))

-----------------------------------------------------------------------------
(* Properties                                                               *)

KeyTaken(table, e) ==
  \E row \in table : row.evidence.table = e.table /\ row.evidence.key = e.key

\* What the journal rules accepted under the row lock is what every later load
\* replays: two appends that raced, or rolled back between, never leave a journal
\* that its own rules refuse (withLockedAuthorization, authority_repository.go:164).
StoredJournalsReload == \A auth \in AuthorizationIds : Reloads(JournalOf(rows, auth))

\* Events come back in the order of their positions, so cutting a snapshot at a
\* position cuts every journal at an event (authority_repository.go:771-866 orders
\* by journal_sequence and filters by position).
JournalOrderAgreesWithPosition ==
  \A a, b \in {row \in rows : row.evidence.table = "journal" /\ row.position # Null} :
     a.position < b.position => sequence[a.evidence] < sequence[b.evidence]

\* What callers are told agrees with the store, whatever else is in flight.  Evidence
\* that is acknowledged is stored under a position, and acknowledged to one call only,
\* however often it is sent.  Evidence is stored under a position only for a call that
\* was told so or told nothing ("lost"): never for one that was refused.  A conflict is
\* reported only of a key that is taken (withAuthorityRecordingTx and
\* withLockedAuthorization, authority_repository.go:33-59, 164-211).
OutcomeMatchesStore ==
  /\ \A c \in Calls : outcome[c] = "recorded" =>
       /\ \E row \in rows : row.evidence = Request[c] /\ row.position # Null
       /\ \A d \in Calls \ {c} : outcome[d] = "recorded" => Request[d] # Request[c]
  /\ \A row \in rows : row.position # Null =>
       \E c \in Calls : Request[c] = row.evidence /\ outcome[c] \in {"recorded", "lost"}
  /\ \A c \in Calls : outcome[c] = "conflict" => KeyTaken(rows, Request[c])

\* A load that succeeded can be repeated from the database at its position at any
\* later time, with the same grants, whatever was recorded since.
ResolversReproducible ==
  \A r \in Readers : resolver[r] # Null =>
     LET view == [position |-> resolver[r].position, rows |-> rows]
     IN /\ EntriesLoad(view)
        /\ NewSnapshotAuthorityResolver(Candidate(view, resolver[r].through))
             = [ok |-> TRUE, grants |-> resolver[r].grants]

\* A revocation recorded at a position, and no correction of it up to there.
Revokes(row, position) ==
  LET Stored(e) == e.position # Null /\ e.position <= position /\ e.evidence.table = "journal"
  IN /\ Stored(row)
     /\ row.evidence.body.type = "REVOKE" /\ ~IsCorrection(row.evidence.body)
     /\ \A other \in rows :
          Stored(other) => other.evidence.body.corrects # row.evidence.body.id

\* Once a revocation is recorded, no resolver loaded at its position or later
\* authorizes a verification at or after the instant it took effect.
RevocationReachesResolvers ==
  \A r \in Readers, row \in rows :
     resolver[r] # Null /\ Revokes(row, resolver[r].position) =>
        \A now \in row.evidence.body.effectiveAt..(MaxClock + Microsecond) :
           \A i \in DOMAIN resolver[r].grants :
              LET g == resolver[r].grants[i]
              IN (g.auth = row.evidence.body.auth /\ GrantCurrent(g, now)) => g.state = "inactive"

\* Evidence whose place in the recording order is unknown keeps every load from
\* succeeding: nothing is granted on part of the registry
\* (validateAuthorityRecordingCompleteness, authority_repository.go:871-931).
NothingGrantedOnPartialRegistry ==
  (\E row \in rows : row.position = Null) => \A r \in Readers : resolver[r] = Null

\* Every statement is one the database of AuthorityRecording could have been sent,
\* so what is proved of that module holds of the repository's writes.
RecordingRefinement == Recording!Spec

\* No set of concurrent calls waits on each other for ever: the boundary row is
\* always taken before an authorization row (authority_repository.go:181-182).
CallsTerminate == \A c \in Calls : <>(pc[c] = 0)

\* docs/architecture/authority-evidence-and-grant-resolution.md:65 gives REJECTED
\* the projection "No grant was established; no exercisable grant": an authorization
\* whose decision was REJECTED yields no grant and leaves the grants of all others
\* resolvable.  It makes every load fail instead.
RejectionLeavesOthersResolvable ==
  \A r \in Readers :
     LET view     == snapshot[r]
         rejected == {AuthorizationOf(row.evidence) :
                        row \in {s \in view.rows : /\ s.evidence.table = "adjudications"
                                                  /\ s.evidence.body.outcome = "REJECTED"}}
         others   == {row \in view.rows : AuthorizationOf(row.evidence) \notin rejected}
     IN (/\ load[r].step = "assemble"
         /\ CompletenessEstablished(view) /\ EntriesLoad(view)
         /\ NewSnapshotAuthorityResolver(
              Candidate([view EXCEPT !.rows = others], load[r].observedAt)).ok)
           => Loads(view, load[r].observedAt)

=============================================================================
