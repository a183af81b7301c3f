# Verification of the Cvera EVT authority registry

TLA+ modules, TLC configurations and TLAPS proofs for `rsa-attestation-engine`
(Cvera): the Go API that records who may attest employment, the requests that are
attested, and the clients that show the result. Paths are relative to
`src/apps/evt-api-go/` unless they start with `src/`.

## 1. The system and its hard parts

| Component | State | Operations | Hard behaviour | What makes it correct |
|---|---|---|---|---|
| Authority lifecycle `internal/authority/state_machine.go` | one of eight states | `Transition` | terminal states | what is revoked or expired stays so |
| Authority journal `registry.go` | append-only events per authorization | `Append`, `Reconstruct`, `EffectiveEvents` | two time axes (recorded, effective), corrections | what was accepted can be replayed at every cutoff; later knowledge does not change earlier views |
| Grant projection, resolver, evaluator `projection.go`, `snapshot_resolver.go`, `evaluator.go` | none (pure) | `ProjectAuthorityGrants`, `NewSnapshotAuthorityResolver`, `Evaluate` | half-open intervals turned inclusive, microseconds, one bad entry fails all | the decision at an instant is the lifecycle state at that instant |
| Recording database `migrations/000006`, `000010`-`000012` | boundary row, three evidence tables | allocate, insert, commit, abort, snapshot | concurrent transactions, rollback, direct SQL | positions 1..n, each exactly once, appended in order |
| Authority repository `internal/db/authority_repository.go` | transactions, row locks | `CreateAuthorization`, `CreateAdjudication`, `AppendJournalEvent`, `LoadAuthoritativeSnapshot` | lock order, lost connections, racing appends, wall-clock cutoff | stored journals reload; a load is a reproducible prefix; nobody deadlocks |
| Employer HR assignments `internal/employeraccess`, migration 000014 | assignments, principal row | `Authorize`, `Grant`, `Revoke` | authorization racing revocation | no attestation after its assignment was revoked |
| EVT requests `internal/evt/repo.go` | status, version, events per request | draft, submit, cancel, attest, verify, consume, close | optimistic and row locking, ignored event errors | legal status order, one attestation, no lost update |
| Auth sessions `internal/httpapi/{auth_handlers,refresh,logout}.go` | session families, refresh tokens | exchange, refresh, logout | rotation races, reuse detection, lost answers, serialization failures | one current token per open session, nothing after revocation |
| Auth client `UI/src/auth/AuthContext.tsx`, `UI/AppShell.tsx` | status, access token, stored token, refresh in flight | bootstrap, sign-in, API calls, refresh, logout | single flight, late answers, relaunches | biometrics before a stored token is used; no self-inflicted reuse; signed out stays signed out |
| Self-service pages `UI/screens/{Recovery,Settings,Verify}Screen.tsx` | what the page shows, its request | recovery, new password, verification | late and lost answers, reloads | announces only what Kratos did; never stuck |
| HR review `UI/screens/HRReviewScreen.SettingsStyle.tsx` | queue, selection, decision, uploads | refresh, choose, attest, upload | callbacks with an old render's state, invalidated answers | no evidence twice; the queue gets refreshed |
| Requestor `UI/screens/Requestor*.tsx` | list, open request and its version | create, save, submit, cancel | version not in the list, lost answers, several devices | overwrites nothing unseen |
| Recruiter list `UI/screens/Recruiter{Candidates,Filters}.tsx` | applied and draft query, pages | filter, pull down, scroll | requests of an old query | shows the applied query |
| Trust artifacts `src/scripts/publish.ts`, `src/pkg/verification` | objects, latest pointer, stable copies | publish, fetch, verify | concurrent and partial publications | a complete publication replaces all that verdicts rest on (nothing keeps two apart: section 6) |
| Verification decision, UI gates | none | pure classifiers | several evidence dimensions | not modelled |
| Recruiter list (server) `internal/evt/handlers_recruiter_list.go` | none | keyset pages | rows changing between pages | not modelled |

`UI` is `src/apps/evt-ui-expo`.

Interaction: the repository drives the database (SQL calls, deferred triggers as
callbacks at COMMIT) and loads journals into the pure rules; the projection feeds
the evaluator. `EmployerAttestServerSigned` calls `employeraccess.Authorize` in its
own transaction. The client talks to the sessions over HTTP with lost answers; every other
screen's fetch goes through its interceptor, which may replace the access token under them. At
this commit the authority repository and the snapshot resolver are exercised by
tests only; the server does not construct them yet.

The full list of components, with the reason for each one that is not modelled, and
the list of hazards with the line where each bites, are in `PROJECT.json`.

## 2. Plan

In order of importance to the system; the modules of 1 to 6 exist, with proofs of every
safety, action and refinement property their passing runs check.

1. `AuthorityTransitions`, `JournalReplay`, `GrantProjection`, `AuthorityJournal`: the rules.
2. `AuthorityLog` (abstract) and `AuthorityRecording`.
3. `AuthorityRepository` over 1 and 2. `RecordingRefinement` carries the theorems of 2 over
   to it.
4. `EmployerAccess` (principal and assignment locks, grant, revoke, authorize),
   `RequestLifecycle` (abstract), `EvtRequest`, and `EmployerAttestation`, which composes
   the two; that what each promises holds of both together is proved from both invariants.
5. `AuthSession` (server), `AuthClient` composed with it over a lossy connection.
6. `SelfService`, `HrReview`, `RequestorScreens`, `RecruiterList`, and `Clients`, which puts
   them side by side with `TrustPublication`.
7. Left: several browser tabs sharing one stored token; the server's recruiter pages.

## 3. Modules

**AuthorityTransitions.** The transition table as a set of triples and `Transition` as a
function.

**JournalReplay.** `Accepts` is `Append`'s condition, `Reconstruct` the recorded-time
replay, `EffectiveEvents` the corrected, effective-time view. A journal is a sequence of
records. Instants are positive integers, `Microsecond` of them to the microsecond, so
that sub-microsecond evaluation times exist. Empty identifiers, reason texts and UTC
locations are left out. The three loops of `registry.go` become recursive functions over
the positions of a sequence: `Pick` keeps the events at a set of positions, `Replay` runs
`ReplayStep` over them. A recursive function can be proved about where a RECURSIVE operator
cannot; and a loop that returns early is a state with a flag, `Replays`, so that each turn is
a total function on one set.

**GrantProjection.** `ProjectAuthorityGrants` as a fold of `ProjectEvent` over the
effective events, the snapshot resolver, and `Evaluate`. A grant's id is the pair of
authorization and event. `ResolveAuthorityGrants` is the filter by issuer and claim;
the evaluator filters again, so the runs evaluate the unfiltered list.

**AuthorityJournal.** One authorization's journal grows by any event `Append` accepts
(any type, times, actor, evidence cited, satisfied or not, identifiers offered again,
corrections of any field). Its times are any naturals with a latest one (`JournalAssumption`).

**AuthorityLog / AuthorityRecording.** The log is the promise: append one item, read a
whole prefix. The recording module is PostgreSQL at READ COMMITTED with the triggers of
000012: `Allocate` is the `UPDATE` in `next_authority_recording_position` and holds the
boundary row until the transaction ends; `EvidenceGuard` and `AllocationGuard` are the
two deferred triggers; `Commit` runs them and publishes; `TakeSnapshot` is the first read
of a repeatable-read transaction. A transaction may send any statement, so operator SQL
that skips the allocator is covered too. A reader's snapshot is one of `Snapshots`, a boundary
and the rows below it. A transaction is used once, so its name is its `xid8`.
`Abort` is a failed statement, ROLLBACK, or a lost connection.

**AuthorityRepository.** One action per statement of a Go call: begin, allocate, lock the
authorization row, insert, commit; `RefuseCall` is each error return, `LoseCall` a
cancelled context or a dead connection before COMMIT took effect. `CommitCall` is a COMMIT that
took effect: the caller is told so, or gets the error of `tx.Commit` although its evidence is
stored. `LostAnswers` bounds the calls that may happen to. The load is three actions, since
`clock_timestamp()` is read after the boundary; all its table reads happen in one
repeatable-read snapshot and are one action. A journal is loaded in the order of
`journal_sequence`, an identity column: `lastSequence` is its counter, which a rollback does
not take back. `Recording` is an instance of AuthorityRecording on the same variables. Requests
are any evidence with the fields of the tables (`RepositoryAssumption`): an authorization's key
is its identifier, a journal event is `EventShaped`; whether it is acceptable the journal says.

**EmployerAccess.** One action per SQL statement of `Authorize`, `Grant`, `Revoke`, of an
operator's own UPDATE of an assignment (`amend`), and of an UPDATE that disables a principal
or makes it a reviewer. `shared` and `exclusive` are the FOR SHARE and FOR UPDATE locks on
`domain_users`, `rowLock` those on `employer_hr_assignments`; all end with the
transaction. The trigger of 000014 locks the principal of a row PostgreSQL has already
locked: hence `LockRow`, then `LockExclusive`. `DeadlockVictim` is PostgreSQL's deadlock
detector. `Publish` is what a COMMIT makes visible. Account status and role are one flag,
since every check asks for both.

**RequestLifecycle / EvtRequest.** The first is the table of status changes the guards of
`repo.go` amount to; the second has each operation as begin, lock the row (`LockRequest`),
act, commit. The row carries what later steps or recruiters look at; the events of an
operation are a sequence. `FailEvent` is a failed `insertEvent`: where its error is dropped
the transaction is aborted, and its COMMIT, which PostgreSQL answers with ROLLBACK and pgx
with an error, stores nothing. The tables' schema is not in the repository; what the model
takes of it is what the code and `internal/httpapi/testdata` use.

**EmployerAttestation.** Both on the same connections and transactions. An attestation
starts in EmployerAccess and, once authorized, continues in EvtRequest; `Commit` and `Lose`
are both modules' actions at once. `EvtView` is EvtRequest on `visibleCall`, `visiblePhase` and
`visibleLock`, which hide a call of EmployerAccess, the authorization of an attestation and the
rollback of a failed one; the composition implements EvtRequest through it. `Step` is what
connections do; `SetDispatch` is an operator's change of an employer's configuration.

**AuthSession.** One action per transaction of the auth handlers, refresh in two since it
takes its snapshot before it gets the row lock: `BeginRefresh`, then one of `Conflict`,
`RefuseRefresh`, `CloseSession` (reuse, or a user who is no longer active), `Rotate`.
`version` is what lets PostgreSQL refuse a serializable transaction whose row changed. Each
caller has one request; `Disconnect` loses it or its answer at any point. Expiry is a choice,
token hashing and user lookup are left out. `Call`, `SessionNext` and `SessionSpec` are the
sessions with arbitrary callers; the theorems use them, the run has the callers below.

**AuthClient.** One installation on a device or in a browser, as four callers of AuthSession:
`refresh`, `signin`, `logout`, and `orphan`, a refresh an earlier launch sent and nobody
awaits any more. Code between two awaits is one action. `refreshing` is
`refreshInFlightRef`; an API call is `sent`, perhaps `waiting` for a refresh, `ended`.
Writing or clearing the stored token may reject, in the launches `FailingLaunches` bounds it to:
a refresh then throws (`RefreshThrows`), an expired session leaves its token behind
(`ExpiresUncleared`), a sign-in fails after its exchange, and a sign-out ends with the user
still signed in. A read that rejects sends nothing and changes nothing, and is left out.
`unlocked`, `lost` and `signedOut` are history variables of the properties.

**SelfService, HrReview, RequestorScreens, RecruiterList.** One module per
program in front of the API, each with the part of the API (or Kratos) it can tell apart.
Callbacks kept by a sheet or an await carry the state of the render they were made in: the
reason for a rejection (`AnswerSheet`) is posted for the request its sheet was opened for, and a
refresh shows the detail of the request it chose when the queue came (`refresh.next`). Requests
are answered, fail, or lose their answer after taking effect. Kratos' flow is at `sent_email`
whether or not it mailed a code, since it does not say whether the address exists.

**Clients.** The four and the publication of trust artifacts side by side: `running` says which of them is there, the others stay
as they start. They share no state, so running two at once would only multiply states. Each
module also has a specification of its own (`SelfSpec`, `HrSpec`, ...), which the proofs and
*hr_focus* use.

**TrustPublication.** `publish.ts` object by object (`Steps`), for several commits at a time and
cut short anywhere; `Verdict` is what `verifyAttestationJws` says of a credential given the stable
copies, the only ones it reads. The three objects are read at one instant: a reading in the middle
of a replacement is not what the module is about. Pinned readings, which no program makes, are
left out. `period` and `completed` are history variables: which commits' publications began since
none was running, and whether one of them has run to its end.

Operators whose comment begins with *Fault* are what-if variants of the definition that
follows them: each is a bug this code could have had, named in `PROJECT.json` under
`mutants`, and substituting it makes the property it is paired with fail.

## 4. Runs

| Run | Configuration | Shows |
|---|---|---|
| journal | 6 events without a correction or 5 with one, 3 effective and 2 recorded times, 2 signers, 2 evidence references, 2 fields to correct | `HistoryAsKnownIsStable`: what `Append` accepted stays as it was known, and later knowledge leaves earlier views alone; `TerminationIsFinal`: nothing revives what was revoked or expired; `DecisionMatchesTimeline`, `AuthorizedOnlyWhenAdjudicated`, `OneGrantAtATime`, `LaterEventsKeepEarlierAuthority`: grants decide what the timeline says |
| recording | 3 transactions, 3 rows of 3 tables, 2 readers | `RecordingSequenceComplete`: no gap, nothing twice; `SnapshotsArePrefixes`; `EvidenceAppendOnly`; `ImplementsLog` |
| repository_lifecycle | 6 calls (authorize, decide, SUBMIT, APPROVE, ACTIVATE, REVOKE), 1 reader, 4 clock values | `JournalOrderAgreesWithPosition`; `ResolversReproducible`, `RevocationReachesResolvers`: a load is a function of what it read, and honours a revocation it covers |
| repository_contention | an authorization stored before recording positions, 5 competing calls (a decision and a transition each sent twice, an invalid decision), 1 reader, COMMIT of one call of each pair perhaps unacknowledged | `StoredJournalsReload`, `OutcomeMatchesStore`, `CallsTerminate`, `RecordingRefinement`; `NothingGrantedOnPartialRegistry`: no load succeeds on a registry it cannot order |
| access | 2 connections, 1 principal, 2 employers, 3 assignment ids of which one is assigned at first, 5 calls | `AuthorizationHolds`: what was authorized stays true until the transaction ends; `OneActiveAssignment`, `CallsEnd` |
| request | 2 connections, 1 request, 2 claims, 2 updates, 2 consumptions, any number of calls | `HistoryExplainsStatus`, `UpdatesBuildOnNewest`, `VerdictRestsOnAttestation`, `VerdictIsFinal`, `LifecycleRefinement` |
| attestation | 2 connections, 1 reviewer, 2 employers, 2 assignment ids of which one is assigned at first, 4 calls | `AttestedUnderAuthority`, `EvtRefinement` |
| session | 1 installation (device or browser), 2 sessions, 2 tokens, 2 API calls, 1 relaunch, a storage that may fail in the first launch | `OneCurrentToken`, `RevokedSessionIsFinal`: rotation, reuse detection and logout race without leaving two usable tokens or reviving a session; `UnlockedBeforeConsumption`, `ReuseOnlyAfterLoss`, `SignOutLasts`: what the installation may rely on; `CallsReturn`: every API call gets an answer |
| clients | 2 cases, 2 uploads of 1 content; 2 drafts, 2 texts, 3 versions; 2 queries; 2 reloads of a page; 2 commits, 5 credentials | `AnnouncedIsDone`, `NoEvidenceTwice`, `SavesOverwriteNothingUnseen`, `ListIsOfTheAppliedQuery`; `VerdictsAreOfThePeriod`: a complete publication makes good what was cut short or mixed before it; `NothingStaysBusy`: the waits it names end |

Three runs are expected to find a violation; each is a finding in `PROJECT.json`:
`journal_fabrication` (a correction can authorize earlier instants than any before),
`repository_rejection` (one REJECTED decision makes every load fail) and
`hr_focus` (a new access token during the first refresh of the HR review screen discards its
answer and asks for no other, so the screen shows an empty queue nothing was asked about).

**Bounds.** Six events reach suspend, reinstate, end; five with a correction (which counts
twice towards `MaxEvents`) reach a correction of any event of an ACTIVE or SUSPENDED
history. Three effective times give an interval with an inside and two edges; a
`Microsecond` of 2 gives one instant between representable ones; of two signers, two evidence
references and two fields one is right and one is not. Three transactions are
the least in which a committed, an open and an aborted one overlap; two readers compare
snapshots. The six calls of the lifecycle run are the least that leave a revoked grant.
`MaxEvents`, `MaxCorrections`, `MaxPosition`, `MaxClock`, `MaxCalls`, `MaxUpdates` and
`MaxConsumptions` bound what would grow without limit; the runs end when the bounds are
reached, so they set `CHECK_DEADLOCK FALSE`. Symmetry is used only for transactions and
readers of AuthorityRecording, whose properties name none of them. In *repository_contention* `LostAnswers` names one of
the two calls with the same decision and one of the two with the same transition, so that the
other is its retry. Rows without a position
are in *repository_contention*; the theorems of section 5 hold for any set of them.

In *access* and *attestation* every call counts towards `MaxCalls`. Two connections are the
least that interfere, and each may make several calls, so 5 calls let one connection
authorize while the other grants, revokes and grants again. Five calls on 2 connections
also hold the two lock orders of `Revoke` (principal, then assignment) and of an operator's
UPDATE (assignment, then principal through the trigger): `CallsEnd` needs PostgreSQL's
deadlock detector, `DeadlockVictim`. A UUID is never short, so `IdsSuffice` lets a grant
begin only while an unused assignment id is left for it. `Stored` has an assignment at
first, so that no call is spent on it. The 4 calls of *attestation* are create, submit,
attest, and one that interferes: a revocation, an operator's UPDATE or a disabled account,
or the reviewer of one employer answering the other's request. There an employer that is
configured dispatches by itself (`AUTO`) throughout; all but one may start without a
configuration, which their first draft then gives them. Every principal is an active reviewer
at first. `SetDispatch` is left to *request*, in which calls may go on for ever and only updates
and consumptions are bounded. The theorems need none of this.

In *session*, two tokens of one session show a rotation whose answer is lost and the reuse of
the token it replaced; two sessions, one signed out of and the next; two API calls, one that
starts a refresh and one that joins it; one relaunch (`MaxRestarts`), a refresh nobody awaits
any more racing the next launch's own. The storage fails in the first launch (`FailingLaunches`),
so that the second one finds what it left. When no session or token is left a run ends, hence
`CHECK_DEADLOCK FALSE`. In *clients*, two of each thing make a stale one and a current one.
`MaxVersion`, `MaxPulls` and `MaxReloads` bound saves, requests of pulling down and reloads.
The artifacts of the two commits differ in their keys, their policy and their revocations, and the
credentials in what makes those parts matter. Signing in again leaves the self-service pages,
hence `CHECK_DEADLOCK FALSE`. The theorems hold without these bounds.

**Fairness.** `CallsTerminate` and `CallsEnd` need any: weak fairness of each call's, or
each connection's, own steps. A goroutine that can run does run, and PostgreSQL hands a
released row lock to a waiter; a step blocked on a lock is not enabled, so a deadlock would
show. `CallsEnd` bounds the calls: a FOR UPDATE that waits while share lockers keep coming
may be overtaken without limit, and the model claims nothing about that. Losing a
connection is not fair: nothing may depend on it. `CallsReturn` and `NothingStaysBusy` assume
that a request ends, with an answer or a rejected fetch, that code awaiting it resumes, that
intervals fire and that the browser follows a redirect; users, tokens' expiry and other
devices owe nothing. `NothingStaysBusy` says nothing of the form for a recovery e-mail:
`submitRecoveryEmail` catches a rejected fetch and leaves the form as it is, and no comment or
test says what should follow.

## 5. Proofs

Eight modules, each for any values of the constants. The assumptions are those the modules
state and the runs evaluate; where a theorem needs another one, it is named below. Every
theorem about a component follows one plan: an invariant that is inductive, preserved by one
lemma per action, and a step from it to each property.

**AuthorityRecording_proofs**, from `RecordingAssumption` (`Null` is neither a transaction nor
a number, the bound is a natural, legacy rows have distinct keys): `TypeCorrect`,
`SequenceAlwaysComplete`, `AlwaysAppendOnly`, `SnapshotsAlwaysPrefixes`, `KeysAlwaysUnique`,
`SnapshotsAlwaysComplete`, `SnapshotsAlwaysAdvance`, `ImplementsLogAlways`.

`RecordingSequenceComplete` is not inductive: nothing in it says that a
transaction that has drawn a position draws the next one, alone. The invariant `IInv`
adds that only the holder of the boundary row has drawn positions, that its last is its
own, and that it has drawn exactly those from `committedPosition + 1` up to it; and that
an open transaction is never the one recorded as the last owner of a committed boundary
row. At COMMIT the allocation trigger demands a row for every drawn position, the evidence
trigger admits rows at the last drawn one only; together they leave exactly one new row, at
`committedPosition + 1` (`CommitAddsNextRow`), or none. Every other action leaves the
committed database alone. Snapshots are copies of it, and by append-only a copy remains
the prefix up to its position. A commit that adds a row is the log's append, a reader's
snapshot its read, everything else a stuttering step of `AuthorityLog`.

**AuthorityJournal_proofs**, from `JournalAssumption`: `JournalInvariant`, `HistoryStable`,
`TerminationAlwaysFinal`, `AuthorityRestsOnApproval`, `GrantsDisjoint`,
`DecisionsMatchTimeline`, `EarlierAuthorityKept`, for journals of any length. `JournalInv` is
what `Append` leaves true of what it has accepted: events well formed, identifiers used once,
recorded times in order, each correction after the event it corrects. All else is about the
loops that read a journal, and they are inductions along a sequence, which the library's
induction theorems cannot give: they take an operator as a parameter. `Induction` is therefore
stated of a *set* of numbers and proved by descent to a least counterexample, and `Recursion`
builds from it that a function defined by recursion on `0..n` exists (`Solves`, `Solvable`);
`Picks`, `Runs` and `Projects` then say what each loop does at one turn. `HistoryStable`: an
event recorded after a cutoff is not at any position the cutoff picks. `GrantsDisjoint` and
`DecisionsMatchTimeline` need what a projection knows half-way: the intervals it has closed end
before the open one begins, and the open one is there exactly while the lifecycle replayed that
far is in force.

**AuthorityRepository_proofs**, from `RepositoryAssumption` and the theorems of
AuthorityRecording and AuthorityJournal: `RepositoryRecords`, `NothingGrantedAlways`, `JournalOrderAlwaysAgrees`,
`OutcomeAlwaysMatchesStore`, `StoredJournalsAlwaysReload`, `ResolversAlwaysReproducible`,
`RevocationAlwaysReaches`.
`DatabaseInv` is the invariant of the recording protocol, taken over through the instance
`Facts` since every statement of a call is one that protocol allows. `RepositoryInv` adds where
each call is in its transaction and what it has drawn and inserted by then (`Progress`), that
each stored row is that of a call which was told so or lost its answer, and each call that was told
so has one (`Recorded`), that identity
values follow positions (`Ordered`) and that a resolver was read at a position the database has
(`Resolved`). `StoredJournalsAlwaysReload` needs besides that the journal a call has checked its
event against is still the stored one when it commits (`Accepting`), which the row lock gives.
`RevocationAlwaysReaches` is the one that needs to know what a journal computes, and it joins
both halves of the system. From the journal's side, `RevocationEndsAuthority`: in a projection
that succeeds an uncorrected revocation is the last event in force, so the interval it opens is
the only one that reaches past the instant it took effect. From the database's side: a resolver
can be found again in the rows up to its position (`Reproducible`), and those are listed event
by event, none missing, in the journal of their authorization (`JournalLists`), since identity
values tell events apart (`Numbered`). AuthorityJournal is about one authorization, the
repository about any number; a theorem of an instance with parameters cannot be cited, so
`Journals` is an instance at `Worst`, a case for which the claim fails if there is one, and what
holds of it holds of every case (`WorstCase`, `EveryClaim`). For all other theorems of this
module what journals and projections compute stays uninterpreted.

One theorem has a hypothesis of its own, `NoLegacyEvents`: what was stored before recording
positions is authorizations and decisions; a legacy event has no position to be ordered by, and
a registry that has one refuses every load (`NothingGrantedAlways`).

**EmployerAccess_proofs**, from `AccessAssumption`: `AuthorizationHoldsAlways`,
`OneActiveAssignmentAlways`, `RevocationIsFinal`. What `Authorize` saw stays true because it
holds the principal's row FOR SHARE (`Sharing`) and whoever changes an account or an assignment
holds it alone (`Excluding`). The two properties do not carry themselves: a revocation and an
operator's UPDATE read their row before they lock its principal, and write it afterwards.
`Targeting` says what they read cannot have gone stale, since rows keep their principal
and employer; `Writing` and `Inserting` say what an open transaction has
written: a new and then only active assignment, or a revocation.

**EvtRequest_proofs**, from `EvtAssumption`: `HistoryExplainsStatusAlways`,
`UpdatesBuildOnNewestAlways`, `VerdictRestsOnAttestationAlways`, `VerdictIsFinalAlways`,
`RequestsFollowLifecycle`. `Consistent(row, log)` is what a row and its events say of each other:
the events are chained and lead to the status, updates are counted by the version, at most one
answer and one evaluation, and they are what the row shows. It is preserved by a `Transition`,
and every open transaction that has written has written one, from the row that is
committed still (`Pending`): it holds the row's lock, or created the row (`Locked`, `Apart`).
`FailEvent` and `Lose` then publish nothing, so that dropping an error loses no event.

**EmployerAttestation_proofs**, from `AttestationAssumption`, which is that of both parts:
`AttestationImplementsRequests`, `AnswersAlwaysAuthorized`, `AccessHoldsBesideRequests`. Each
step is seen through `EvtView` as a step of EvtRequest or as none (`ViewStep`), and moves
EmployerAccess as one of its steps or not at all (`StepAccess`). For both, the composition has
to know that the two sides never work on one connection at once (`Sides`) and that whoever has
locked a request is visible (`Holding`). `AnswersAlwaysAuthorized` is a fact of neither part: it
joins the invariant of EmployerAccess, by which whoever attests is still assigned when it
commits, to `Signing`, by which the only answers an open transaction has written are its
author's, to a request of the employer the author was authorized for. It relies on `Answering`:
the request found was one of that employer, and requests do not change employers.

**AuthClient_proofs**, about the sessions first (`SessionTypeCorrect`, `AlwaysOneCurrentToken`,
`RevokedSessionsAreFinal`), for any number of callers that send issued tokens. `OneCurrentToken`
says nothing of sessions that were never opened nor of what a revoked token's session is, so a
step could give a closed session a token. `TokensFollowSessions` adds both, and `KnownRequests`
that requests name issued tokens; the row locks and the version a serializable transaction
checks enter through the guards of `Rotate` and `CloseSession`.

Then the installation (`InstallationKeepsOneCurrentToken`, `InstallationLeavesRevokedSessions`,
`NothingConsumedLocked`, `NoReuseWithoutLoss`, `SignedOutForGood`): it is such a
caller, so the first two follow from the session's steps. The others need `DeviceInv` (a
refresh is in flight exactly while the server has one of this launch, whatever may send the
stored token was unlocked, nothing is left after a completed sign-out) and `NothingStale`: unless
a refresh was cut off or its outcome not stored, the device's token was not rotated, but while the answer to the rotation
is on its way.

**Clients_proofs** (`PagesAnnounceWhatIsDone`, `EvidenceAttachedOnce`, `ListFollowsTheQuery`,
`StableCopiesAreOfThePeriod`, `SavesOverwriteTheKnown`, and `ClientsShowWhatIsSo`: the first
four with the programs side by side). What is shown is true because every answer under way is
(`AnswersAreTrue`); evidence is attached once because one upload at most is not idle, so the
digests its callback was made with are those there are (`OneUpload`); and the requests for a first
page are all of the applied query, the others having been given up (`FirstPagesAreApplied`). What a publication has moved
so far belongs to its period (`MovedSoFar`), so after its last step everything does, and no other of the
period undoes that (`TrustInv`).

`SavesOverwriteTheKnown` is about the requestor's screens, from `NoRowIsNoRecord`: a version
counts only saves the screen was told of, so the row is at the screen's version with the claim it
knows or at a later one (`Tracks`); a screen that was given another request's id does not get its
own back (`DetailInv`).

Proved and not checked by a run of their own: `KeysUnique`, `SnapshotsComplete`, that snapshots
advance, `RevocationIsFinal`, `JournalInvariant`, and `AccessHoldsBesideRequests`.

Model-checked only: the liveness properties `CallsTerminate`, `CallsEnd`, `CallsReturn` and `NothingStaysBusy`, which
rest on fairness and ENABLED and are out of the prover's reach. That the recursive functions
compute what a reference definition does is checked through the properties above, for every
journal, not against a second definition.

**What the proofs changed.** Proof attempts that failed for a good reason changed the models.
The identity value of a journal event was one more than the number of events that had one, so
evidence inserted again after a rollback could share its value with another event: `Ordered` was
false, and the column's own counter, `lastSequence`, is in the model now. The operations called
"update" of EmployerAccess and of EvtRequest could not be told apart on one connection, which
`EvtView` has to; EmployerAccess calls its own `amend`. Every end of a transaction of
EmployerAccess left the set of configured employers alone, so that in the composition no first
draft for an employer could commit; `Publish` is now apart from that condition. What a commit
does to the reviewers was a CASE with overlapping guards, of which TLC takes the first and the
prover may take either. `UpdatesBuildOnNewest` selected the updates by a recursion and now
counts them in a set. To be used for the journals of the repository, AuthorityJournal had to
admit every event those may hold: approvals citing other evidence and corrections of other
fields, which it did not; `AuthorizedOnlyWhenAdjudicated` says since that the approval cites the
adjudication's evidence. Projection demands a canonical recorded time of the adjudication as
well (`Adjudicated`).

## 6. Not modelled

Timestamps' time zones, text formats and reason codes; SQL privileges (000013) and the
migration tooling; statement-level failure inside `LoadAuthoritativeSnapshot` (any error
ends the load with nothing, as a refused one does); PostgreSQL itself (locks, triggers and
snapshots are taken to work as documented). What the EVT handlers check before they open a
transaction, the read-only queries of `repo.go` other than what recruiters are shown of a
request's state, and the signing of attestations are left out of `EvtRequest`.

Several tabs of a browser, which share one stored token but not `refreshInFlightRef`: one
installation is one page here. The server's recruiter pages, a read-only query that promises
nothing about rows changing between two pages. The verification decision of the API, the
credential profiles and the UI's verification gate are pure functions a table of unit tests
covers. Routing, role checks, presigned URLs and process wiring keep no state.

Some behaviour the models show has no property, since neither code, comments nor tests say what
should be: `login()` has no catch, so a rejected fetch leaves the spinner; pages that pulling down
and scrolling asked for before the query changed are still added; an opened request is taken to be
at version 1 whatever the row's is, so a save is refused until versions agree; a draft created
while another request is open gives that screen its id. That a sign-out is final the canonical
session model does say (`src/docs/auth/canonical-auth-session-model.md:341-343`; the auth
contract, 5.3, has the client clear its storage whatever the server answers, and the QA checklist
expects the unauthenticated state): `SignOutLasts` holds of the sign-outs that finish with no refresh in
flight. The others need not last: `logout()` does not wait for `refreshInFlightRef`, and a refresh
that is answered after it stores its token and sets the user authenticated again
(`AuthContext.tsx:308-312`). The model does this too; it is known, so no run is spent on it.

Stable copies of one commit only are not claimed either. `publish.yml` has no concurrency group, so
two publications that overlap and both run to their end may leave copies of two commits, which
`docs/deployment.md:19` ("Always reflects the latest keyset and revocation data") and
`trust-endpoints.ts:117` ("no split-brain") do not expect. `VerdictsAreOfThePeriod` says how far
the mixture goes: no further than the commits published since nothing was running.
