---------------------- MODULE AuthorityRepository_proofs ----------------------
(***************************************************************************)
(* The repository's recording calls and snapshot loads, for any number of  *)
(* calls, readers and requests, whatever the requests say.  The calls send *)
(* AuthorityRecording's database only what that module allows, so that its *)
(* theorems (Facts) hold of them.  On top of them the invariant says where *)
(* each call is in its transaction (Progress), that a call about to commit *)
(* has checked its event against the journal as it still is (Accepting),   *)
(* that identity values follow positions (Ordered), and that what a reader *)
(* has resolved was read at a position the database still has (Resolved).  *)
(* What journals and projections compute stays uninterpreted, up to the    *)
(* last sections: there AuthorityJournal's theorems are carried over to    *)
(* the journal of each stored authorization.                               *)
(***************************************************************************)
EXTENDS AuthorityRepository, FiniteSetTheorems, TLAPS

Facts == INSTANCE AuthorityRecording_proofs WITH Tx <- Calls

IsEvent(e) == e.table = "journal"

LoadsShaped(loads) == loads =
  [r \in Readers |-> [step |-> loads[r].step, observedAt |-> loads[r].observedAt]]

Shapes ==
  /\ pc \in [Calls -> 0..5]
  /\ outcome = [c \in Calls |-> outcome[c]]
  /\ sequence \in [Evidence -> Nat]
  /\ lastSequence \in Nat
  /\ LoadsShaped(load)
  /\ resolver = [r \in Readers |-> resolver[r]]

\* The step of the program a call is at says what its transaction has done.
Progress == \A c \in Calls :
  /\ pc[c] <= Len(Program(Request[c].table))
  /\ pc[c] = 1 => status[c] = "idle"
  /\ pc[c] > 1 => status[c] = "open"
  /\ pc[c] = 2 => own[c] = Null
  /\ pc[c] > 2 => own[c] \in 1..MaxPosition
  /\ inserted[c] = IF At(c, "commit") THEN {[evidence |-> Request[c], position |-> own[c]]}
                   ELSE {}
  /\ outcome[c] # "pending" => pc[c] = 0
  /\ pc[c] = 0 => status[c] # "open"

Acknowledged(c, d) ==
  /\ outcome[c] = "recorded" /\ outcome[d] = "recorded"
  /\ Request[c] = Request[d]

\* What is stored under a position was sent by a call that was not refused, what was
\* acknowledged is stored, and a conflict is one with a stored row.
Recorded ==
  /\ \A row \in rows : row.position # Null =>
        \E c \in Calls : row.evidence = Request[c] /\ outcome[c] \in {"recorded", "lost"}
  /\ \A c \in Calls : outcome[c] = "recorded" =>
        \E row \in rows : row.evidence = Request[c] /\ row.position # Null
  /\ \A c, d \in Calls : Acknowledged(c, d) => c = d
  /\ \A c \in Calls : outcome[c] = "conflict" => KeyTaken(rows, Request[c])

PositionedEvents(table) ==
  {row \in table : IsEvent(row.evidence) /\ row.position # Null}

\* Identity values grow with positions, and an event about to be committed has the
\* largest of them.
Ordered ==
  /\ \A a \in PositionedEvents(rows) : sequence[a.evidence] <= lastSequence
  /\ \A a, b \in PositionedEvents(rows) :
        a.position < b.position => sequence[a.evidence] < sequence[b.evidence]
  /\ \A c \in Calls : At(c, "commit") /\ IsEvent(Request[c]) =>
        /\ sequence[Request[c]] <= lastSequence
        /\ \A a \in PositionedEvents(rows) : sequence[a.evidence] < sequence[Request[c]]

\* A load has a snapshot; a resolver rests on a registry without unplaced evidence.
Resolved == \A r \in Readers :
  /\ load[r].step # "idle" => snapshot[r] # Null
  /\ resolver[r] # Null =>
       /\ resolver[r].position \in 0..committedPosition
       /\ \A row \in rows : row.position # Null

RepositoryInv == Shapes /\ Progress /\ Recorded /\ Ordered /\ Resolved

\* The journal a call has checked its event against is still the stored one.
Accepting == \A c \in Calls : At(c, "commit") /\ IsEvent(Request[c]) =>
  Accepts(JournalOf(rows, AuthorizationOf(Request[c])), Request[c].body)

-----------------------------------------------------------------------------
(* The calls keep to the recording protocol                                 *)

LEMMA RecordingAssumed == Facts!RecordingAssumption
<1>1. MaxPosition \in Nat
  BY RepositoryAssumption, FS_CardinalityType DEF MaxPosition
<1>2. Null \notin Facts!Snapshots
  BY RepositoryAssumption
  DEF Facts!Snapshots, Facts!Row, Facts!Positions,
      Recording!Snapshots, Recording!Row, Recording!Positions
<1> QED
  BY <1>1, <1>2, RepositoryAssumption DEF Facts!RecordingAssumption, Evidence

\* The steps of a call's program, by number.
LEMMA ProgramSteps ==
  ASSUME NEW c \in Calls, pc[c] \in 0..5, pc[c] <= Len(Program(Request[c].table))
  PROVE  /\ At(c, "begin") <=> pc[c] = 1
         /\ At(c, "allocate") <=> pc[c] = 2
         /\ At(c, "lock") <=> pc[c] = 3 /\ IsEvent(Request[c])
         /\ At(c, "insert") <=> pc[c] = IF IsEvent(Request[c]) THEN 4 ELSE 3
         /\ At(c, "commit") <=> pc[c] = IF IsEvent(Request[c]) THEN 5 ELSE 4
         /\ IsEvent(Request[c]) => Len(Program(Request[c].table)) = 5
         /\ ~IsEvent(Request[c]) => Len(Program(Request[c].table)) = 4
<1>1. CASE IsEvent(Request[c])
  BY <1>1 DEF IsEvent, At, Program
<1>2. CASE ~IsEvent(Request[c])
  BY <1>2 DEF IsEvent, At, Program
<1> QED
  BY <1>1, <1>2

LEMMA SameProtocol ==
  /\ Recording!Init <=> Facts!Init
  /\ [Recording!Next]_(Recording!vars) <=> [Facts!Next]_(Facts!vars)
<1>1. Recording!Init <=> Facts!Init
  BY DEF Recording!Init, Facts!Init
<1>2. \A t \in Calls :
        /\ Recording!Begin(t) <=> Facts!Begin(t)
        /\ Recording!Allocate(t) <=> Facts!Allocate(t)
        /\ Recording!Abort(t) <=> Facts!Abort(t)
  BY DEF Recording!Begin, Recording!Allocate, Recording!Abort, Recording!database,
         Recording!Release, Recording!VisiblePosition,
         Facts!Begin, Facts!Allocate, Facts!Abort, Facts!database,
         Facts!Release, Facts!VisiblePosition
<1>3. \A t \in Calls : Recording!Commit(t) <=> Facts!Commit(t)
  BY DEF Recording!Commit, Recording!EvidenceGuard, Recording!AllocationGuard,
         Recording!Release, Recording!VisiblePosition, Recording!VisibleXid,
         Recording!Visible, Recording!IdentifiesExactlyOne,
         Facts!Commit, Facts!EvidenceGuard, Facts!AllocationGuard,
         Facts!Release, Facts!VisiblePosition, Facts!VisibleXid,
         Facts!Visible, Facts!IdentifiesExactlyOne
<1>4. \A t \in Calls, e \in Evidence, position \in 1..MaxPosition \cup {Null} :
        Recording!Insert(t, [evidence |-> e, position |-> position])
          <=> Facts!Insert(t, [evidence |-> e, position |-> position])
  BY DEF Recording!Insert, Recording!Clash, Recording!database,
         Facts!Insert, Facts!Clash, Facts!database
<1>5. \A r \in Readers : Recording!TakeSnapshot(r) <=> Facts!TakeSnapshot(r)
  BY DEF Recording!TakeSnapshot, Recording!database, Recording!transactions,
         Facts!TakeSnapshot, Facts!database, Facts!transactions
<1>6. Recording!Next <=> Facts!Next
  BY <1>2, <1>3, <1>4, <1>5 DEF Recording!Next, Facts!Next
<1>7. UNCHANGED Recording!vars <=> UNCHANGED Facts!vars
  BY DEF Recording!vars, Recording!database, Recording!transactions,
         Facts!vars, Facts!database, Facts!transactions
<1> QED
  BY <1>1, <1>6, <1>7

\* A step of the repository is one statement of one transaction, or none.
LEMMA StepRecords ==
  ASSUME Shapes, Progress, [Next]_vars
  PROVE  [Recording!Next]_(Recording!vars)
<1>1. ASSUME NEW c \in Calls, BeginCall(c)
      PROVE  [Recording!Next]_(Recording!vars)
  BY <1>1 DEF BeginCall, Recording!Next, Recording!vars, Recording!database,
              Recording!transactions, database
<1>2. ASSUME NEW c \in Calls, AllocatePosition(c)
      PROVE  Recording!Next
  BY <1>2 DEF AllocatePosition, Recording!Next
<1>3. ASSUME NEW c \in Calls, LockAuthorization(c)
      PROVE  UNCHANGED Recording!vars
  BY <1>3 DEF LockAuthorization, Recording!vars, Recording!database,
              Recording!transactions, database
<1>4. ASSUME NEW c \in Calls, InsertEvidence(c)
      PROVE  Recording!Next
  <2>1. own[c] \in 1..MaxPosition
    <3>1. pc[c] \in 0..5 /\ pc[c] <= Len(Program(Request[c].table))
      BY DEF Shapes, Progress
    <3>2. At(c, "insert")
      BY <1>4 DEF InsertEvidence
    <3>3. pc[c] > 2
      BY <3>1, <3>2, ProgramSteps
    <3> QED
      BY <3>3 DEF Progress
  <2>2. Request[c] \in Evidence
    BY DEF Evidence
  <2>3. Recording!Insert(c, [evidence |-> Request[c], position |-> own[c]])
    BY <1>4 DEF InsertEvidence
  <2> QED
    BY <2>1, <2>2, <2>3 DEF Recording!Next
<1>5. ASSUME NEW c \in Calls, CommitCall(c)
      PROVE  Recording!Next
  BY <1>5 DEF CommitCall, Recording!Next
<1>6. ASSUME NEW c \in Calls, RefuseCall(c) \/ LoseCall(c)
      PROVE  Recording!Next
  BY <1>6 DEF RefuseCall, LoseCall, Rollback, Recording!Next
<1>7. ASSUME NEW r \in Readers, ReadStep(r)
      PROVE  [Recording!Next]_(Recording!vars)
  BY <1>7 DEF ReadStep, ReadBoundary, ObserveTime, AssembleSnapshot, Recording!Next,
              Recording!vars, Recording!database, Recording!transactions, database
<1>8. CASE Tick \/ UNCHANGED vars
  BY <1>8 DEF Tick, vars, Recording!vars, Recording!database, Recording!transactions,
              database
<1> QED
  BY <1>1, <1>2, <1>3, <1>4, <1>5, <1>6, <1>7, <1>8 DEF Next, CallStep

-----------------------------------------------------------------------------
(* What is known of the database                                            *)

DatabaseInv == Facts!IInv /\ Facts!KeysUnique /\ Facts!SnapshotsCurrent

Inv == RepositoryInv /\ DatabaseInv

LEMMA DatabaseFacts ==
  ASSUME DatabaseInv
  PROVE  /\ committedPosition \in Nat
         /\ status \in [Calls -> {"idle", "open", "committed", "aborted"}]
         /\ own \in [Calls -> (Nat \ {0}) \cup {Null}]
         /\ inserted = [c \in Calls |-> inserted[c]]
         /\ snapshot = [r \in Readers |-> snapshot[r]]
         /\ \A c, d \in Calls : own[c] # Null /\ own[d] # Null => c = d
         /\ \A c \in Calls : own[c] # Null => boundaryLock = c /\ own[c] > committedPosition
         /\ \A c \in Calls : own[c] # Null => status[c] = "open"
         /\ \A row \in rows : row.position # Null => row.position \in 1..committedPosition
<1> USE RepositoryAssumption
<1>1. /\ committedPosition \in Nat
      /\ status \in [Calls -> {"idle", "open", "committed", "aborted"}]
      /\ own \in [Calls -> (Nat \ {0}) \cup {Null}]
      /\ inserted = [c \in Calls |-> inserted[c]]
      /\ snapshot = [r \in Readers |-> snapshot[r]]
  BY DEF DatabaseInv, Facts!IInv, Facts!TypeOK, Facts!Positions
<1>2. \A c \in Calls : own[c] # Null => boundaryLock = c /\ own[c] > committedPosition
  BY DEF DatabaseInv, Facts!IInv, Facts!Drawn
<1>5. \A c \in Calls : own[c] # Null => status[c] = "open"
  BY <1>2 DEF DatabaseInv, Facts!IInv, Facts!Owner
<1>3. \A row \in rows : row.position # Null => row.position \in Nat \ {0}
  BY DEF DatabaseInv, Facts!IInv, Facts!TypeOK, Facts!Positions, Facts!Row
<1>4. \A row \in rows : row.position # Null => row.position <= committedPosition
  BY DEF DatabaseInv, Facts!IInv, Facts!RecordingSequenceComplete, Facts!SequenceComplete
<1> QED
  BY <1>1, <1>2, <1>3, <1>4, <1>5

LEMMA DatabaseKept ==
  ASSUME Inv, [Next]_vars
  PROVE  DatabaseInv'
<1>1. [Facts!Next]_(Facts!vars)
  BY StepRecords, SameProtocol DEF Inv, RepositoryInv
<1>2. Facts!IInv'
  BY <1>1, Facts!NextIInv, RecordingAssumed DEF Inv, DatabaseInv
<1>3. Facts!KeysUnique'
  BY <1>1, Facts!NextKeys, RecordingAssumed DEF Inv, DatabaseInv
<1>4. Facts!SnapshotsCurrent'
  BY <1>1, Facts!NextSnapshots, RecordingAssumed DEF Inv, DatabaseInv
<1> QED
  BY <1>2, <1>3, <1>4 DEF DatabaseInv

LEMMA CallFacts ==
  ASSUME Inv, NEW c \in Calls
  PROVE  /\ pc[c] \in 0..5 /\ pc[c] <= Len(Program(Request[c].table))
         /\ At(c, "begin") <=> pc[c] = 1
         /\ At(c, "allocate") <=> pc[c] = 2
         /\ At(c, "lock") <=> pc[c] = 3 /\ IsEvent(Request[c])
         /\ At(c, "insert") <=> pc[c] = IF IsEvent(Request[c]) THEN 4 ELSE 3
         /\ At(c, "commit") <=> pc[c] = IF IsEvent(Request[c]) THEN 5 ELSE 4
         /\ IsEvent(Request[c]) => Len(Program(Request[c].table)) = 5
         /\ ~IsEvent(Request[c]) => Len(Program(Request[c].table)) = 4
         /\ outcome[c] # "pending" => pc[c] = 0
         /\ pc[c] = 1 => status[c] = "idle"
         /\ pc[c] > 1 => status[c] = "open"
         /\ pc[c] = 2 => own[c] = Null
         /\ pc[c] > 2 => own[c] \in 1..MaxPosition
         /\ ~At(c, "commit") => inserted[c] = {}
         /\ pc[c] = 0 => status[c] # "open"
<1>1. /\ pc[c] \in 0..5 /\ pc[c] <= Len(Program(Request[c].table))
      /\ outcome[c] # "pending" => pc[c] = 0
      /\ pc[c] = 1 => status[c] = "idle"
      /\ pc[c] > 1 => status[c] = "open"
      /\ pc[c] = 2 => own[c] = Null
      /\ pc[c] > 2 => own[c] \in 1..MaxPosition
      /\ ~At(c, "commit") => inserted[c] = {}
      /\ pc[c] = 0 => status[c] # "open"
  BY DEF Inv, RepositoryInv, Shapes, Progress
<1> QED
  BY <1>1, ProgramSteps

LEMMA EvidenceStored ==
  ASSUME DatabaseInv, NEW row \in rows
  PROVE  row.evidence \in Evidence
  BY DEF DatabaseInv, Facts!IInv, Facts!TypeOK, Facts!Row

\* A call that has inserted its evidence owns the next position.
LEMMA AboutToCommit ==
  ASSUME Inv, NEW c \in Calls, At(c, "commit")
  PROVE  /\ status[c] = "open" /\ own[c] # Null /\ own[c] \in Nat
         /\ inserted[c] = {[evidence |-> Request[c], position |-> own[c]]}
         /\ \A row \in rows : row.evidence # Request[c]
<1>1. pc[c] > 2
  BY CallFacts
<1>2. /\ status[c] = "open" /\ own[c] # Null /\ own[c] \in Nat
      /\ inserted[c] = {[evidence |-> Request[c], position |-> own[c]]}
  <2>1. /\ status[c] = "open" /\ own[c] \in 1..MaxPosition
        /\ inserted[c] = {[evidence |-> Request[c], position |-> own[c]]}
    <3>1. Progress /\ pc[c] > 1
      BY <1>1, CallFacts DEF Inv, RepositoryInv
    <3> QED
      BY <1>1, <3>1 DEF Progress
  <2>2. own[c] \in Nat
    BY <2>1
  <2> QED
    BY <2>1, <2>2, RepositoryAssumption
<1>3. ASSUME NEW row \in rows, row.evidence = Request[c]
      PROVE  FALSE
  <2> DEFINE mine == [evidence |-> Request[c], position |-> own[c]]
  <2>1. mine \in UNION {inserted[t] : t \in Calls}
    BY <1>2
  <2>2. row = mine \/ ~Facts!Clash(row, mine)
    BY <2>1 DEF Inv, DatabaseInv, Facts!KeysUnique
  <2>3. Facts!Clash(row, mine)
    BY <1>3 DEF Facts!Clash
  <2>4. row # mine
    BY <1>2, DatabaseFacts DEF Inv
  <2> QED
    BY <2>2, <2>3, <2>4
<1> QED
  BY <1>2, <1>3

\* A commit stores what its call was to record, at the position after the boundary.
LEMMA CommitStores ==
  ASSUME Inv, NEW c \in Calls, CommitCall(c)
  PROVE  /\ own[c] = committedPosition + 1
         /\ committedPosition' = own[c]
         /\ rows' = rows \cup {[evidence |-> Request[c], position |-> own[c]]}
<1>1. Facts!Commit(c)
  BY DEF CommitCall, Recording!Commit, Recording!EvidenceGuard, Recording!AllocationGuard,
         Recording!Release, Recording!VisiblePosition, Recording!VisibleXid,
         Recording!Visible, Recording!IdentifiesExactlyOne,
         Facts!Commit, Facts!EvidenceGuard, Facts!AllocationGuard,
         Facts!Release, Facts!VisiblePosition, Facts!VisibleXid,
         Facts!Visible, Facts!IdentifiesExactlyOne
<1>2. At(c, "commit")
  BY DEF CommitCall
<1>3. /\ own[c] # Null
      /\ inserted[c] = {[evidence |-> Request[c], position |-> own[c]]}
  BY <1>2, AboutToCommit
<1>4. own[c] = committedPosition + 1
  BY <1>1, <1>3, Facts!CommitAddsNextRow, RecordingAssumed
  DEF Facts!Commit, Inv, DatabaseInv
<1> QED
  BY <1>1, <1>3, <1>4 DEF Facts!Commit, Facts!VisiblePosition, Facts!Visible

-----------------------------------------------------------------------------
(* The invariant holds initially and is kept                                *)

LEMMA InitInv == Init => Inv
<1> SUFFICES ASSUME Init PROVE Inv
  OBVIOUS
<1> USE RepositoryAssumption
<1>1. Facts!Init
  BY SameProtocol DEF Init
<1>2. DatabaseInv
  BY <1>1, Facts!InitIInv, Facts!InitKeys, Facts!InitSnapshots, RecordingAssumed
  DEF DatabaseInv
<1>3. /\ rows = [evidence : Legacy, position : {Null}]
      /\ \A c \in Calls : /\ status[c] = "idle" /\ inserted[c] = {}
                          /\ pc[c] = 1 /\ outcome[c] = "pending"
      /\ \A r \in Readers : load[r].step = "idle" /\ resolver[r] = Null
  BY <1>1 DEF Init, Facts!Init
<1>4. \A row \in rows : row.position = Null
  BY <1>3
<1>5. Shapes
  BY DEF Init, Shapes, LoadsShaped
<1>6. ASSUME NEW c \in Calls
      PROVE  1 <= Len(Program(Request[c].table)) /\ ~At(c, "commit")
  BY <1>3 DEF At, Program
<1>7. Progress
  <2> SUFFICES ASSUME NEW c \in Calls
               PROVE  /\ pc[c] <= Len(Program(Request[c].table))
                      /\ pc[c] = 1 => status[c] = "idle"
                      /\ ~(pc[c] > 1) /\ pc[c] # 2 /\ ~(pc[c] > 2) /\ pc[c] # 0
                      /\ inserted[c] = {} /\ ~At(c, "commit") /\ outcome[c] = "pending"
    BY DEF Progress
  <2> QED
    BY <1>3, <1>6
<1>8. Recorded /\ Ordered /\ Resolved
  BY <1>3, <1>4, <1>6 DEF Recorded, Acknowledged, Ordered, Resolved, PositionedEvents
<1> QED
  BY <1>2, <1>5, <1>7, <1>8 DEF Inv, RepositoryInv

\* A call in its transaction leaves the other calls' where they are.
OthersStay(c) == \A d \in Calls \ {c} :
  /\ pc'[d] = pc[d] /\ status'[d] = status[d] /\ own'[d] = own[d]
  /\ inserted'[d] = inserted[d] /\ outcome'[d] = outcome[d]

\* A step that ends a call's transaction, or opens none.
LEMMA CallEnds ==
  ASSUME Inv, NEW c \in Calls, OthersStay(c), UNCHANGED <<sequence, lastSequence>>,
         pc' = [pc EXCEPT ![c] = 0],
         inserted'[c] = {}, status'[c] # "open", outcome' = [d \in Calls |-> outcome'[d]],
         UNCHANGED <<load, resolver>>
  PROVE  /\ Shapes' /\ Progress'
         /\ \A d \in Calls : At(d, "commit")' => d # c /\ At(d, "commit")
<1>1. pc \in [Calls -> 0..5]
  BY DEF Inv, RepositoryInv, Shapes
<1>2. pc'[c] = 0 /\ ~At(c, "commit")'
  BY <1>1 DEF At
<1>3. \A d \in Calls \ {c} : At(d, "commit")' <=> At(d, "commit")
  BY DEF OthersStay, At
<1>4. Shapes'
  BY <1>1 DEF Inv, RepositoryInv, Shapes, LoadsShaped
<1>5. Progress'
  <2> SUFFICES ASSUME NEW d \in Calls
               PROVE  /\ pc'[d] <= Len(Program(Request[d].table))
                      /\ pc'[d] = 1 => status'[d] = "idle"
                      /\ pc'[d] > 1 => status'[d] = "open"
                      /\ pc'[d] = 2 => own'[d] = Null
                      /\ pc'[d] > 2 => own'[d] \in 1..MaxPosition
                      /\ inserted'[d] =
                           IF At(d, "commit")'
                           THEN {[evidence |-> Request[d], position |-> own'[d]]}
                           ELSE {}
                      /\ outcome'[d] # "pending" => pc'[d] = 0
                      /\ pc'[d] = 0 => status'[d] # "open"
    BY DEF Progress
  <2>1. CASE d = c
    <3>1. Len(Program(Request[d].table)) \in {4, 5}
      BY CallFacts
    <3> QED
      BY <1>2, <2>1, <3>1
  <2>2. CASE d # c
    BY <1>3, <2>2 DEF OthersStay, Inv, RepositoryInv, Progress
  <2> QED
    BY <2>1, <2>2
<1> QED
  BY <1>2, <1>3, <1>4, <1>5

\* A step of a call within its transaction.
LEMMA CallAdvances ==
  ASSUME Inv, NEW c \in Calls, OthersStay(c), pc[c] # 0, ~At(c, "commit"),
         pc' = [pc EXCEPT ![c] = pc[c] + 1], status'[c] = "open",
         pc[c] = 1 => own'[c] = Null,
         pc[c] > 1 => own'[c] \in 1..MaxPosition,
         inserted'[c] = IF At(c, "insert")
                        THEN {[evidence |-> Request[c], position |-> own'[c]]} ELSE {},
         UNCHANGED <<outcome, load, resolver>>,
         sequence' \in [Evidence -> Nat], lastSequence' \in Nat
  PROVE  /\ Shapes' /\ Progress'
         /\ \A d \in Calls : At(d, "commit")' => IF d = c THEN At(c, "insert")
                                                 ELSE At(d, "commit")
<1>1. pc \in [Calls -> 0..5]
  BY DEF Inv, RepositoryInv, Shapes
<1>2. /\ pc'[c] = pc[c] + 1 /\ pc'[c] \in 0..5
      /\ pc'[c] <= Len(Program(Request[c].table))
      /\ At(c, "commit")' <=> At(c, "insert")
  <2>1. /\ pc'[c] = pc[c] + 1
        /\ pc'[c] \in 0..5 /\ pc'[c] <= Len(Program(Request[c].table))
    <3>1. pc'[c] = pc[c] + 1
      BY <1>1
    <3>2. CASE IsEvent(Request[c])
      <4>1. pc[c] \in 0..5 /\ pc[c] # 5 /\ Len(Program(Request[c].table)) = 5
        BY <3>2, CallFacts
      <4> QED
        BY <3>1, <4>1
    <3>3. CASE ~IsEvent(Request[c])
      <4>1. pc[c] \in 0..5 /\ pc[c] <= 4 /\ pc[c] # 4 /\ Len(Program(Request[c].table)) = 4
        BY <3>3, CallFacts
      <4> QED
        BY <3>1, <4>1
    <3> QED
      BY <3>2, <3>3
  <2>2. At(c, "commit")' <=> pc'[c] = IF IsEvent(Request[c]) THEN 5 ELSE 4
    BY <2>1 DEF At, Program, IsEvent
  <2> QED
    BY <2>1, <2>2, CallFacts
<1>3. \A d \in Calls \ {c} : At(d, "commit")' <=> At(d, "commit")
  BY DEF OthersStay, At
<1>4. Shapes'
  BY <1>1, <1>2 DEF Inv, RepositoryInv, Shapes, LoadsShaped
<1>5. Progress'
  <2> SUFFICES ASSUME NEW d \in Calls
               PROVE  /\ pc'[d] <= Len(Program(Request[d].table))
                      /\ pc'[d] = 1 => status'[d] = "idle"
                      /\ pc'[d] > 1 => status'[d] = "open"
                      /\ pc'[d] = 2 => own'[d] = Null
                      /\ pc'[d] > 2 => own'[d] \in 1..MaxPosition
                      /\ inserted'[d] =
                           IF At(d, "commit")'
                           THEN {[evidence |-> Request[d], position |-> own'[d]]}
                           ELSE {}
                      /\ outcome'[d] # "pending" => pc'[d] = 0
                      /\ pc'[d] = 0 => status'[d] # "open"
    BY DEF Progress
  <2>1. CASE d = c
    <3>1. pc'[d] \notin {0, 1} /\ status'[d] = "open" /\ outcome'[d] = "pending"
      BY <1>2, <2>1, CallFacts
    <3>2. /\ pc'[d] = 2 => own'[d] = Null
          /\ pc'[d] > 2 => own'[d] \in 1..MaxPosition
      BY <1>1, <1>2, <2>1
    <3> QED
      BY <1>2, <2>1, <3>1, <3>2
  <2>2. CASE d # c
    BY <1>3, <2>2 DEF OthersStay, Inv, RepositoryInv, Progress
  <2> QED
    BY <2>1, <2>2
<1> QED
  BY <1>2, <1>3, <1>4, <1>5

\* Nobody is told anew that evidence is stored, and conflicts have their reason.
OutcomesStay == \A c \in Calls :
  /\ outcome[c] # "pending" => outcome'[c] = outcome[c]
  /\ outcome'[c] = "recorded" => outcome[c] = "recorded"
  /\ outcome'[c] = "conflict" => outcome[c] = "conflict" \/ KeyTaken(rows, Request[c])

\* What is said of the stored rows holds as long as they and their numbers do.
LEMMA StoreStays ==
  ASSUME Inv, UNCHANGED <<committedPosition, rows>>, lastSequence' >= lastSequence,
         lastSequence' \in Nat,
         \A row \in rows : sequence'[row.evidence] = sequence[row.evidence],
         OutcomesStay,
         \A c \in Calls : At(c, "commit")' /\ IsEvent(Request[c]) =>
           /\ sequence'[Request[c]] <= lastSequence'
           /\ \A a \in PositionedEvents(rows) : sequence[a.evidence] < sequence'[Request[c]]
  PROVE  Recorded' /\ Ordered'
<1>1. Recorded'
  BY DEF Recorded, Acknowledged, OutcomesStay, KeyTaken, Inv, RepositoryInv
<1>2. \A a \in PositionedEvents(rows) : /\ sequence'[a.evidence] = sequence[a.evidence]
                                        /\ sequence[a.evidence] <= lastSequence'
  <2> SUFFICES ASSUME NEW a \in PositionedEvents(rows)
               PROVE  /\ sequence'[a.evidence] = sequence[a.evidence]
                      /\ sequence[a.evidence] <= lastSequence'
    OBVIOUS
  <2>1. a \in rows /\ a.evidence \in Evidence
    BY EvidenceStored DEF PositionedEvents, Inv
  <2>2. sequence[a.evidence] \in Nat /\ lastSequence \in Nat
    BY <2>1 DEF Inv, RepositoryInv, Shapes
  <2>3. sequence[a.evidence] <= lastSequence
    BY DEF Inv, RepositoryInv, Ordered
  <2> QED
    BY <2>1, <2>2, <2>3
<1>3. PositionedEvents(rows)' = PositionedEvents(rows)
  BY DEF PositionedEvents
<1>4. Ordered'
  BY <1>2, <1>3 DEF Ordered, Inv, RepositoryInv
<1> QED
  BY <1>1, <1>4

LEMMA BeginInv ==
  ASSUME Inv, NEW c \in Calls, BeginCall(c)
  PROVE  RepositoryInv'
<1>1. /\ pc[c] = 1 /\ status[c] = "idle" /\ own[c] = Null /\ inserted[c] = {}
      /\ ~At(c, "commit") /\ ~At(c, "insert")
  <2>1. At(c, "begin")
    BY DEF BeginCall
  <2>2. pc[c] = 1 /\ ~At(c, "commit") /\ ~At(c, "insert")
    BY <2>1, CallFacts
  <2>3. status[c] = "idle" /\ inserted[c] = {}
    BY <2>2 DEF Inv, RepositoryInv, Progress
  <2> QED
    BY <2>2, <2>3, DatabaseFacts DEF Inv
<1>2. /\ UNCHANGED <<committedPosition, rows, own, inserted, snapshot, load, resolver>>
      /\ UNCHANGED <<sequence, lastSequence>>
  BY DEF BeginCall, Recording!Begin, Recording!database, database, numbering, readState
<1>3. pc \in [Calls -> 0..5] /\ outcome = [d \in Calls |-> outcome[d]]
  BY DEF Inv, RepositoryInv, Shapes
<1>4. /\ Shapes' /\ Progress'
      /\ \A d \in Calls : At(d, "commit")' => At(d, "commit")
      /\ OutcomesStay
  <2>1. CASE ValidRequest(Request[c])
    <3>1. /\ status' = [status EXCEPT ![c] = "open"] /\ pc' = [pc EXCEPT ![c] = pc[c] + 1]
          /\ outcome' = outcome
      BY <2>1 DEF BeginCall, Recording!Begin, Advance
    <3>2. OthersStay(c) /\ status'[c] = "open"
      BY <1>2, <1>3, <3>1, DatabaseFacts DEF OthersStay, Inv
    <3>3. sequence' \in [Evidence -> Nat] /\ lastSequence' \in Nat
      BY <1>2 DEF Inv, RepositoryInv, Shapes
    <3>4. /\ own'[c] = Null /\ UNCHANGED <<outcome, load, resolver>> /\ pc[c] # 0
          /\ ~(pc[c] > 1) /\ inserted'[c] = {}
      BY <1>1, <1>2, <3>1
    <3>5. /\ Shapes' /\ Progress'
          /\ \A d \in Calls : At(d, "commit")' => IF d = c THEN At(c, "insert")
                                                  ELSE At(d, "commit")
      BY <1>1, <1>2, <3>1, <3>2, <3>3, <3>4, CallAdvances
    <3> QED
      BY <1>1, <3>1, <3>5 DEF OutcomesStay
  <2>2. CASE ~ValidRequest(Request[c])
    <3>1. /\ status' = status /\ pc' = [pc EXCEPT ![c] = 0]
          /\ outcome' = [outcome EXCEPT ![c] = "invalid"]
      BY <2>2 DEF BeginCall, Return
    <3>2. /\ OthersStay(c) /\ outcome' = [d \in Calls |-> outcome'[d]]
          /\ outcome'[c] = "invalid"
      BY <1>2, <1>3, <3>1 DEF OthersStay
    <3>4. OutcomesStay
      <4>1. outcome[c] = "pending"
        BY <1>1, CallFacts
      <4> QED
        BY <3>2, <4>1 DEF OthersStay, OutcomesStay
    <3> QED
      BY <1>1, <1>2, <3>1, <3>2, <3>4, CallEnds
  <2> QED
    BY <2>1, <2>2
<1>5. Recorded' /\ Ordered'
  <2>1. lastSequence \in Nat
    BY DEF Inv, RepositoryInv, Shapes
  <2>2. \A d \in Calls : At(d, "commit")' /\ IsEvent(Request[d]) =>
          /\ sequence'[Request[d]] <= lastSequence'
          /\ \A a \in PositionedEvents(rows) : sequence[a.evidence] < sequence'[Request[d]]
    BY <1>2, <1>4 DEF Inv, RepositoryInv, Ordered
  <2> QED
    BY <1>2, <1>4, <2>1, <2>2, StoreStays
<1>6. Resolved'
  BY <1>2 DEF Inv, RepositoryInv, Resolved
<1> QED
  BY <1>4, <1>5, <1>6 DEF RepositoryInv

LEMMA AllocateInv ==
  ASSUME Inv, NEW c \in Calls, AllocatePosition(c)
  PROVE  RepositoryInv'
<1>1. /\ pc[c] = 2 /\ own[c] = Null /\ status[c] = "open" /\ inserted[c] = {}
      /\ ~At(c, "commit") /\ ~At(c, "insert")
  <2>1. At(c, "allocate")
    BY DEF AllocatePosition
  <2>2. pc[c] = 2 /\ ~At(c, "commit") /\ ~At(c, "insert")
    BY <2>1, CallFacts
  <2> QED
    BY <2>2, CallFacts
<1>2. /\ UNCHANGED <<committedPosition, rows, status, inserted, snapshot, load, resolver>>
      /\ UNCHANGED <<sequence, lastSequence, outcome>>
      /\ own' = [own EXCEPT ![c] = committedPosition + 1]
      /\ pc' = [pc EXCEPT ![c] = pc[c] + 1]
      /\ committedPosition < MaxPosition
  BY <1>1 DEF AllocatePosition, Recording!Allocate, Recording!VisiblePosition,
              Recording!database, database, numbering, readState, Advance
<1>3. own'[c] \in 1..MaxPosition
  <2>1. MaxPosition \in Nat /\ committedPosition \in Nat
    BY RecordingAssumed, DatabaseFacts DEF Facts!RecordingAssumption, Inv
  <2>2. own'[c] = committedPosition + 1
    BY <1>2, DatabaseFacts DEF Inv
  <2> QED
    BY <1>2, <2>1, <2>2
<1>4. OthersStay(c)
  <2>1. pc \in [Calls -> 0..5]
    BY DEF Inv, RepositoryInv, Shapes
  <2> QED
    BY <1>2, <2>1, DatabaseFacts DEF OthersStay, Inv
<1>5. lastSequence \in Nat /\ sequence \in [Evidence -> Nat]
  BY DEF Inv, RepositoryInv, Shapes
<1>6. /\ Shapes' /\ Progress'
      /\ \A d \in Calls : At(d, "commit")' => IF d = c THEN At(c, "insert")
                                              ELSE At(d, "commit")
  <2>1. /\ pc[c] # 0 /\ status'[c] = "open" /\ pc[c] # 1 /\ inserted'[c] = {}
        /\ UNCHANGED <<outcome, load, resolver>>
    BY <1>1, <1>2
  <2> QED
    BY <1>1, <1>2, <1>3, <1>4, <1>5, <2>1, CallAdvances
<1>7. Recorded' /\ Ordered'
  <2>1. \A d \in Calls : At(d, "commit")' /\ IsEvent(Request[d]) =>
          /\ sequence'[Request[d]] <= lastSequence'
          /\ \A a \in PositionedEvents(rows) : sequence[a.evidence] < sequence'[Request[d]]
    BY <1>1, <1>2, <1>6 DEF Inv, RepositoryInv, Ordered
  <2> QED
    BY <1>2, <1>5, <2>1, StoreStays DEF OutcomesStay
<1>8. Resolved'
  BY <1>2 DEF Inv, RepositoryInv, Resolved
<1> QED
  BY <1>6, <1>7, <1>8 DEF RepositoryInv

LEMMA LockInv ==
  ASSUME Inv, NEW c \in Calls, LockAuthorization(c)
  PROVE  RepositoryInv'
<1>1. /\ pc[c] = 3 /\ own[c] \in 1..MaxPosition /\ status[c] = "open" /\ inserted[c] = {}
      /\ ~At(c, "commit") /\ ~At(c, "insert")
  <2>1. At(c, "lock")
    BY DEF LockAuthorization
  <2>2. pc[c] = 3 /\ ~At(c, "commit") /\ ~At(c, "insert")
    BY <2>1, CallFacts
  <2> QED
    BY <2>2, CallFacts
<1>2. /\ UNCHANGED <<committedPosition, rows, status, own, inserted, snapshot, load, resolver>>
      /\ UNCHANGED <<sequence, lastSequence, outcome>>
      /\ pc' = [pc EXCEPT ![c] = pc[c] + 1]
  BY DEF LockAuthorization, database, numbering, readState, Advance
<1>3. OthersStay(c)
  <2>1. pc \in [Calls -> 0..5]
    BY DEF Inv, RepositoryInv, Shapes
  <2> QED
    BY <1>2, <2>1 DEF OthersStay
<1>4. lastSequence \in Nat /\ sequence \in [Evidence -> Nat]
  BY DEF Inv, RepositoryInv, Shapes
<1>5. /\ Shapes' /\ Progress'
      /\ \A d \in Calls : At(d, "commit")' => IF d = c THEN At(c, "insert")
                                              ELSE At(d, "commit")
  <2>1. /\ pc[c] # 0 /\ status'[c] = "open" /\ pc[c] # 1 /\ inserted'[c] = {}
        /\ own'[c] \in 1..MaxPosition /\ UNCHANGED <<outcome, load, resolver>>
    BY <1>1, <1>2
  <2> QED
    BY <1>1, <1>2, <1>3, <1>4, <2>1, CallAdvances
<1>6. Recorded' /\ Ordered'
  <2>1. \A d \in Calls : At(d, "commit")' /\ IsEvent(Request[d]) =>
          /\ sequence'[Request[d]] <= lastSequence'
          /\ \A a \in PositionedEvents(rows) : sequence[a.evidence] < sequence'[Request[d]]
    BY <1>1, <1>2, <1>5 DEF Inv, RepositoryInv, Ordered
  <2> QED
    BY <1>2, <1>4, <2>1, StoreStays DEF OutcomesStay
<1>7. Resolved'
  BY <1>2 DEF Inv, RepositoryInv, Resolved
<1> QED
  BY <1>5, <1>6, <1>7 DEF RepositoryInv

\* An insert numbers evidence that is not stored.
LEMMA InsertNumbers ==
  ASSUME Inv, NEW c \in Calls, InsertEvidence(c)
  PROVE  \A row \in rows : sequence'[row.evidence] = sequence[row.evidence]
<1> SUFFICES ASSUME NEW row \in rows
             PROVE  sequence'[row.evidence] = sequence[row.evidence]
  OBVIOUS
<1>1. ~Recording!Clash(row, [evidence |-> Request[c], position |-> own[c]])
  BY DEF InsertEvidence, Recording!Insert
<1>2. row.evidence # Request[c]
  BY <1>1 DEF Recording!Clash
<1>3. row.evidence \in Evidence /\ sequence \in [Evidence -> Nat]
  BY EvidenceStored DEF Inv, RepositoryInv, Shapes
<1>4. sequence' = sequence \/ sequence' = [sequence EXCEPT ![Request[c]] = lastSequence + 1]
  BY DEF InsertEvidence, numbering
<1> QED
  BY <1>2, <1>3, <1>4

LEMMA InsertInv ==
  ASSUME Inv, NEW c \in Calls, InsertEvidence(c)
  PROVE  RepositoryInv'
<1> DEFINE e == Request[c]
           mine == [evidence |-> e, position |-> own[c]]
<1>1. /\ pc[c] > 2 /\ own[c] \in 1..MaxPosition /\ status[c] = "open" /\ inserted[c] = {}
      /\ ~At(c, "commit") /\ At(c, "insert")
  <2>1. At(c, "insert")
    BY DEF InsertEvidence
  <2>2. pc[c] > 2 /\ ~At(c, "commit")
    BY <2>1, CallFacts
  <2> QED
    BY <2>1, <2>2, CallFacts
<1>2. /\ UNCHANGED <<committedPosition, rows, status, own, snapshot, load, resolver, outcome>>
      /\ inserted' = [inserted EXCEPT ![c] = inserted[c] \cup {mine}]
      /\ pc' = [pc EXCEPT ![c] = pc[c] + 1]
      /\ \A r \in rows : ~Recording!Clash(r, mine)
      /\ IF IsEvent(e)
         THEN lastSequence' = lastSequence + 1 /\ sequence' = [sequence EXCEPT ![e] = lastSequence + 1]
         ELSE UNCHANGED <<lastSequence, sequence>>
  BY DEF InsertEvidence, Recording!Insert, Recording!database, database, numbering, readState,
         Advance, IsEvent
<1>3. /\ lastSequence \in Nat /\ sequence \in [Evidence -> Nat] /\ e \in Evidence
      /\ lastSequence' \in Nat /\ sequence' \in [Evidence -> Nat]
      /\ lastSequence' >= lastSequence
  <2>1. lastSequence \in Nat /\ sequence \in [Evidence -> Nat] /\ e \in Evidence
    BY DEF Inv, RepositoryInv, Shapes, Evidence
  <2> QED
    BY <1>2, <2>1
<1>4. \A row \in rows : sequence'[row.evidence] = sequence[row.evidence]
  BY InsertNumbers
<1>5. /\ OthersStay(c) /\ inserted'[c] = {[evidence |-> e, position |-> own'[c]]}
  <2>1. pc \in [Calls -> 0..5]
    BY DEF Inv, RepositoryInv, Shapes
  <2> QED
    BY <1>1, <1>2, <2>1, DatabaseFacts DEF OthersStay, Inv
<1>6. /\ Shapes' /\ Progress'
      /\ \A d \in Calls : At(d, "commit")' => IF d = c THEN At(c, "insert")
                                              ELSE At(d, "commit")
  <2>1. pc[c] # 0 /\ pc[c] # 1
    BY <1>1
  <2>2. /\ status'[c] = "open" /\ own'[c] \in 1..MaxPosition
        /\ UNCHANGED <<outcome, load, resolver>>
    BY <1>1, <1>2
  <2> QED
    BY <1>1, <1>2, <1>3, <1>5, <2>1, <2>2, CallAdvances
<1>7. ASSUME NEW d \in Calls, At(d, "commit")', IsEvent(Request[d])
      PROVE  /\ sequence'[Request[d]] <= lastSequence'
             /\ \A a \in PositionedEvents(rows) : sequence[a.evidence] < sequence'[Request[d]]
  <2>1. d = c
    <3> SUFFICES ASSUME d # c PROVE FALSE
      OBVIOUS
    <3>1. At(d, "commit")
      BY <1>6, <1>7
    <3>2. own[d] # Null
      BY <3>1, AboutToCommit
    <3>3. own[c] # Null
      <4>1. own[c] \in Nat
        BY <1>1
      <4> QED
        BY <4>1, RepositoryAssumption
    <3> QED
      BY <3>2, <3>3, DatabaseFacts DEF Inv
  <2>2. sequence'[e] = lastSequence + 1 /\ lastSequence' = lastSequence + 1
    BY <1>2, <1>3, <1>7, <2>1
  <2>3. \A a \in PositionedEvents(rows) : sequence[a.evidence] <= lastSequence
    BY DEF Inv, RepositoryInv, Ordered
  <2>4. \A a \in PositionedEvents(rows) : sequence[a.evidence] \in Nat
    <3> SUFFICES ASSUME NEW a \in PositionedEvents(rows) PROVE sequence[a.evidence] \in Nat
      OBVIOUS
    <3>1. a.evidence \in Evidence
      BY EvidenceStored DEF PositionedEvents, Inv
    <3> QED
      BY <1>3, <3>1
  <2> QED
    BY <1>3, <2>1, <2>2, <2>3, <2>4
<1>8. Recorded' /\ Ordered'
  BY <1>2, <1>3, <1>4, <1>7, StoreStays DEF OutcomesStay
<1>9. Resolved'
  BY <1>2 DEF Inv, RepositoryInv, Resolved
<1> QED
  BY <1>6, <1>8, <1>9 DEF RepositoryInv

\* The allocated position is still free: a duplicate is one of the key.
LEMMA DuplicateOfKey ==
  ASSUME Inv, NEW c \in Calls, At(c, "insert"), Duplicate(c)
  PROVE  KeyTaken(rows, Request[c])
<1> DEFINE mine == [evidence |-> Request[c], position |-> own[c]]
<1>1. PICK row \in rows : Recording!Clash(row, mine)
  BY DEF Duplicate
<1>2. own[c] \in Nat /\ own[c] # Null
  <2>1. pc[c] > 2
    BY CallFacts
  <2>2. own[c] \in Nat
    BY <2>1, CallFacts
  <2> QED
    BY <2>2, RepositoryAssumption
<1>3. own[c] > committedPosition
  BY <1>2 DEF Inv, DatabaseInv, Facts!IInv, Facts!Drawn
<1>4. row.position # Null => row.position \in 1..committedPosition
  BY DatabaseFacts DEF Inv
<1>5. row.position # mine.position
  BY <1>2, <1>3, <1>4, DatabaseFacts DEF Inv
<1> QED
  BY <1>1, <1>5 DEF Recording!Clash, KeyTaken

LEMMA RollbackInv ==
  ASSUME Inv, NEW c \in Calls, NEW result, result # "recorded", Rollback(c, result),
         result = "conflict" => KeyTaken(rows, Request[c])
  PROVE  RepositoryInv'
<1>1. /\ UNCHANGED <<committedPosition, rows, snapshot, load, resolver>>
      /\ UNCHANGED <<sequence, lastSequence>>
      /\ status[c] = "open"
      /\ status' = [status EXCEPT ![c] = "aborted"]
      /\ own' = [own EXCEPT ![c] = Null] /\ inserted' = [inserted EXCEPT ![c] = {}]
      /\ pc' = [pc EXCEPT ![c] = 0] /\ outcome' = [outcome EXCEPT ![c] = result]
  BY DEF Rollback, Recording!Abort, Recording!Release, Recording!database, database,
         numbering, readState, Return
<1>2. /\ pc \in [Calls -> 0..5] /\ outcome = [d \in Calls |-> outcome[d]]
      /\ LoadsShaped(load) /\ resolver = [r \in Readers |-> resolver[r]]
      /\ lastSequence \in Nat
  BY DEF Inv, RepositoryInv, Shapes
<1>3. /\ OthersStay(c) /\ inserted'[c] = {} /\ outcome'[c] = result /\ status'[c] # "open"
      /\ outcome' = [d \in Calls |-> outcome'[d]]
  BY <1>1, <1>2, DatabaseFacts DEF OthersStay, Inv
<1>4. /\ Shapes' /\ Progress'
      /\ \A d \in Calls : At(d, "commit")' => d # c /\ At(d, "commit")
  BY <1>1, <1>2, <1>3, CallEnds
<1>5. OutcomesStay
  <2>1. outcome[c] = "pending"
    BY <1>1, CallFacts
  <2> QED
    BY <1>3, <2>1 DEF OthersStay, OutcomesStay
<1>6. Recorded' /\ Ordered'
  <2>1. \A d \in Calls : At(d, "commit")' /\ IsEvent(Request[d]) =>
          /\ sequence'[Request[d]] <= lastSequence'
          /\ \A a \in PositionedEvents(rows) : sequence[a.evidence] < sequence'[Request[d]]
    BY <1>1, <1>4 DEF Inv, RepositoryInv, Ordered
  <2> QED
    BY <1>1, <1>2, <1>5, <2>1, StoreStays
<1>7. Resolved'
  BY <1>1 DEF Inv, RepositoryInv, Resolved
<1> QED
  BY <1>4, <1>6, <1>7 DEF RepositoryInv

LEMMA CommitInv ==
  ASSUME Inv, NEW c \in Calls, CommitCall(c)
  PROVE  RepositoryInv'
<1> DEFINE e == Request[c]
           mine == [evidence |-> e, position |-> own[c]]
<1>1. /\ rows' = rows \cup {mine} /\ committedPosition' = own[c]
      /\ own[c] = committedPosition + 1 /\ committedPosition \in Nat
      /\ mine.position # Null /\ mine.position \in Nat
  BY CommitStores, AboutToCommit, DatabaseFacts DEF CommitCall, Inv
<1>2. /\ UNCHANGED <<snapshot, load, resolver, sequence, lastSequence>>
      /\ own' = [own EXCEPT ![c] = Null] /\ inserted' = [inserted EXCEPT ![c] = {}]
      /\ status' = [status EXCEPT ![c] = "committed"]
      /\ pc' = [pc EXCEPT ![c] = 0]
      /\ \E result \in {"recorded", "lost"} : outcome' = [outcome EXCEPT ![c] = result]
      /\ At(c, "commit")
  BY DEF CommitCall, Recording!Commit, Recording!Release, numbering, readState, Return
<1>3. /\ pc \in [Calls -> 0..5] /\ outcome = [d \in Calls |-> outcome[d]]
      /\ LoadsShaped(load) /\ resolver = [r \in Readers |-> resolver[r]]
  BY DEF Inv, RepositoryInv, Shapes
<1>4. /\ OthersStay(c) /\ inserted'[c] = {} /\ status'[c] # "open"
      /\ outcome'[c] \in {"recorded", "lost"}
      /\ outcome' = [d \in Calls |-> outcome'[d]]
  BY <1>2, <1>3, DatabaseFacts DEF OthersStay, Inv
<1>5. /\ Shapes' /\ Progress'
      /\ \A d \in Calls : At(d, "commit")' => d # c /\ At(d, "commit")
  BY <1>2, <1>3, <1>4, CallEnds
<1>6. Recorded'
  <2>1. ASSUME NEW row \in rows', row.position # Null
        PROVE  \E d \in Calls : row.evidence = Request[d] /\ outcome'[d] \in {"recorded", "lost"}
    <3>1. CASE row = mine
      BY <1>4, <3>1
    <3>2. CASE row \in rows
      <4>1. PICK d \in Calls : row.evidence = Request[d] /\ outcome[d] \in {"recorded", "lost"}
        BY <2>1, <3>2 DEF Inv, RepositoryInv, Recorded
      <4> QED
        BY <1>4, <4>1 DEF OthersStay
    <3> QED
      BY <1>1, <3>1, <3>2
  <2>2. ASSUME NEW d \in Calls, outcome'[d] = "recorded"
        PROVE  \E row \in rows' : row.evidence = Request[d] /\ row.position # Null
    <3>1. CASE d = c
      BY <1>1, <3>1
    <3>2. CASE d # c
      <4>1. outcome[d] = "recorded"
        BY <1>4, <2>2, <3>2 DEF OthersStay
      <4> QED
        BY <1>1, <4>1 DEF Inv, RepositoryInv, Recorded
    <3> QED
      BY <3>1, <3>2
  <2>3. ASSUME NEW d \in Calls, NEW f \in Calls, Acknowledged(d, f)'
        PROVE  d = f
    <3>1. \A g \in Calls : outcome[g] = "recorded" => Request[g] # Request[c]
      <4>1. \A row \in rows : row.evidence # Request[c]
        BY <1>2, AboutToCommit
      <4> QED
        BY <4>1 DEF Inv, RepositoryInv, Recorded
    <3>2. d # c /\ f # c => Acknowledged(d, f)
      BY <1>4, <2>3 DEF OthersStay, Acknowledged
    <3> QED
      BY <1>4, <2>3, <3>1, <3>2 DEF OthersStay, Acknowledged, Inv, RepositoryInv, Recorded
  <2>4. ASSUME NEW d \in Calls, outcome'[d] = "conflict"
        PROVE  KeyTaken(rows', Request[d])
    <3>1. d # c /\ outcome[d] = "conflict"
      BY <1>4, <2>4 DEF OthersStay
    <3>2. KeyTaken(rows, Request[d])
      BY <3>1 DEF Inv, RepositoryInv, Recorded
    <3> QED
      BY <1>1, <3>2 DEF KeyTaken
  <2> QED
    BY <2>1, <2>2, <2>3, <2>4 DEF Recorded
<1>7. Ordered'
  <2>1. \A d \in Calls : ~At(d, "commit")'
    <3> SUFFICES ASSUME NEW d \in Calls, d # c, At(d, "commit") PROVE FALSE
      BY <1>5
    <3> QED
      BY <1>2, AboutToCommit, DatabaseFacts DEF Inv
  <2>2. \A a \in PositionedEvents(rows)' : a # mine => a \in PositionedEvents(rows)
    BY <1>1 DEF PositionedEvents
  <2>8. mine \in PositionedEvents(rows)' => IsEvent(e)
    BY DEF PositionedEvents
  <2>3. \A a \in PositionedEvents(rows) : a.position \in Nat /\ a.position < mine.position
    <3> SUFFICES ASSUME NEW a \in PositionedEvents(rows)
                 PROVE  a.position \in Nat /\ a.position < mine.position
      OBVIOUS
    <3>1. a.position \in 1..committedPosition
      BY DatabaseFacts DEF PositionedEvents, Inv
    <3> QED
      BY <1>1, <3>1
  <2>4. IsEvent(e) => /\ sequence[e] <= lastSequence
                      /\ \A a \in PositionedEvents(rows) : sequence[a.evidence] < sequence[e]
    BY <1>2 DEF Inv, RepositoryInv, Ordered
  <2>5. /\ \A a \in PositionedEvents(rows) : sequence[a.evidence] <= lastSequence
        /\ \A a, b \in PositionedEvents(rows) :
             a.position < b.position => sequence[a.evidence] < sequence[b.evidence]
    BY DEF Inv, RepositoryInv, Ordered
  <2>6. \A a \in PositionedEvents(rows)' : sequence[a.evidence] <= lastSequence
    BY <2>2, <2>4, <2>5, <2>8
  <2>7. ASSUME NEW a \in PositionedEvents(rows)', NEW b \in PositionedEvents(rows)',
               a.position < b.position
        PROVE  sequence[a.evidence] < sequence[b.evidence]
    <3>1. CASE a = mine
      <4>1. b # mine => b.position \in Nat /\ b.position < mine.position
        BY <2>2, <2>3
      <4> QED
        BY <1>1, <2>7, <3>1, <4>1
    <3>2. CASE a # mine /\ b = mine
      BY <2>2, <2>4, <2>8, <3>2
    <3>3. CASE a # mine /\ b # mine
      BY <2>2, <2>5, <2>7, <3>3
    <3> QED
      BY <3>1, <3>2, <3>3
  <2> QED
    BY <1>2, <2>1, <2>6, <2>7 DEF Ordered
<1>8. Resolved'
  <2> SUFFICES ASSUME NEW r \in Readers
               PROVE  /\ load[r].step # "idle" => snapshot[r] # Null
                      /\ resolver[r] # Null =>
                           /\ resolver[r].position \in 0..committedPosition'
                           /\ \A row \in rows' : row.position # Null
    BY <1>2 DEF Resolved
  <2>1. /\ load[r].step # "idle" => snapshot[r] # Null
        /\ resolver[r] # Null =>
             /\ resolver[r].position \in 0..committedPosition
             /\ \A row \in rows : row.position # Null
    BY DEF Inv, RepositoryInv, Resolved
  <2> QED
    BY <1>1, <2>1
<1> QED
  BY <1>5, <1>6, <1>7, <1>8 DEF RepositoryInv

\* A step that leaves the calls and the database where they are.
LEMMA CallsStay ==
  ASSUME Inv, UNCHANGED <<committedPosition, rows, status, own, inserted>>,
         UNCHANGED <<pc, outcome, sequence, lastSequence>>,
         LoadsShaped(load)', resolver' = [r \in Readers |-> resolver'[r]]
  PROVE  Shapes' /\ Progress' /\ Recorded' /\ Ordered'
<1>1. \A c \in Calls : At(c, "commit")' <=> At(c, "commit")
  BY DEF At
<1>2. Shapes'
  BY DEF Inv, RepositoryInv, Shapes
<1>3. Progress'
  BY <1>1 DEF Inv, RepositoryInv, Progress
<1>4. lastSequence \in Nat
  BY DEF Inv, RepositoryInv, Shapes
<1>5. \A c \in Calls : At(c, "commit")' /\ IsEvent(Request[c]) =>
        /\ sequence'[Request[c]] <= lastSequence'
        /\ \A a \in PositionedEvents(rows) : sequence[a.evidence] < sequence'[Request[c]]
  BY <1>1 DEF Inv, RepositoryInv, Ordered
<1> QED
  BY <1>2, <1>3, <1>4, <1>5, StoreStays DEF OutcomesStay

LEMMA CompleteHasNoUnplaced ==
  ASSUME NEW view, CompletenessEstablished(view)
  PROVE  \A row \in view.rows : row.position # Null
  BY DEF CompletenessEstablished

LEMMA ReadInv ==
  ASSUME Inv, NEW q \in Readers, ReadStep(q)
  PROVE  RepositoryInv'
<1>1. /\ UNCHANGED <<committedPosition, rows, status, own, inserted>>
      /\ UNCHANGED <<pc, outcome, sequence, lastSequence>>
  BY DEF ReadStep, ReadBoundary, ObserveTime, AssembleSnapshot, Recording!TakeSnapshot,
         Recording!database, Recording!transactions, database, callState, numbering
<1>2. /\ LoadsShaped(load) /\ resolver = [r \in Readers |-> resolver[r]]
      /\ snapshot = [r \in Readers |-> snapshot[r]]
  BY DatabaseFacts DEF Inv, RepositoryInv, Shapes
<1>3. /\ LoadsShaped(load)' /\ resolver' = [r \in Readers |-> resolver'[r]]
      /\ \A r \in Readers \ {q} : /\ load'[r] = load[r] /\ resolver'[r] = resolver[r]
                                 /\ snapshot'[r] = snapshot[r]
  <2>1. CASE ReadBoundary(q)
    BY <1>2, <2>1 DEF LoadsShaped, ReadBoundary, Recording!TakeSnapshot
  <2>2. CASE ObserveTime(q)
    BY <1>2, <2>2 DEF LoadsShaped, ObserveTime
  <2>3. CASE AssembleSnapshot(q)
    <3>1. /\ load' = [load EXCEPT ![q].step = "idle"] /\ snapshot' = snapshot
          /\ \/ resolver' = resolver
             \/ \E loaded : resolver' = [resolver EXCEPT ![q] = loaded]
      BY <2>3 DEF AssembleSnapshot
    <3>2. LoadsShaped(load)' /\ \A r \in Readers \ {q} : load'[r] = load[r]
      BY <1>2, <3>1 DEF LoadsShaped
    <3>3. /\ resolver' = [r \in Readers |-> resolver'[r]]
          /\ \A r \in Readers \ {q} : resolver'[r] = resolver[r]
      BY <1>2, <3>1
    <3> QED
      BY <3>1, <3>2, <3>3
  <2> QED
    BY <2>1, <2>2, <2>3 DEF ReadStep
<1>4. Shapes' /\ Progress' /\ Recorded' /\ Ordered'
  BY <1>1, <1>3, CallsStay
<1>5. /\ load'[q].step # "idle" => snapshot'[q] # Null
      /\ resolver'[q] # Null =>
           /\ resolver'[q].position \in 0..committedPosition
           /\ \A row \in rows : row.position # Null
  <2>1. /\ load[q].step # "idle" => snapshot[q] # Null
        /\ resolver[q] # Null =>
             /\ resolver[q].position \in 0..committedPosition
             /\ \A row \in rows : row.position # Null
    BY DEF Inv, RepositoryInv, Resolved
  <2>2. CASE ReadBoundary(q)
    <3> DEFINE taken == [position |-> committedPosition, rows |-> rows]
    <3>1. snapshot'[q] = taken /\ resolver' = resolver
      BY <1>2, <2>2 DEF ReadBoundary, Recording!TakeSnapshot
    <3>2. taken # Null
      <4>1. taken \in Recording!Snapshots
        BY DEF Inv, DatabaseInv, Facts!IInv, Facts!TypeOK, Facts!Row, Facts!Positions,
               Recording!Snapshots, Recording!Row, Recording!Positions
      <4> QED
        BY <4>1, RepositoryAssumption
    <3> QED
      BY <2>1, <3>1, <3>2
  <2>3. CASE ObserveTime(q)
    <3>1. load[q].step # "idle" /\ snapshot' = snapshot /\ resolver' = resolver
      BY <2>3 DEF ObserveTime
    <3> QED
      BY <2>1, <3>1
  <2>4. CASE AssembleSnapshot(q)
    <3>1. /\ load[q].step # "idle" /\ load'[q].step = "idle" /\ snapshot[q] # Null
      BY <1>2, <2>1, <2>4 DEF LoadsShaped, AssembleSnapshot
    <3>2. CASE Loads(snapshot[q], load[q].observedAt)
      <4>1. resolver'[q].position = snapshot[q].position
        BY <1>2, <2>4, <3>2 DEF AssembleSnapshot
      <4>2. /\ snapshot[q].position \in 0..committedPosition
            /\ \A row \in rows : row.position = Null => row \in snapshot[q].rows
        <5>1. snapshot[q].position \in Nat
          BY <3>1 DEF Inv, DatabaseInv, Facts!IInv, Facts!TypeOK, Facts!Snapshots
        <5>2. /\ snapshot[q].position <= committedPosition
              /\ snapshot[q].rows = {row \in rows : \/ row.position = Null
                                                    \/ row.position <= snapshot[q].position}
          BY <3>1 DEF Inv, DatabaseInv, Facts!SnapshotsCurrent
        <5> QED
          BY <5>1, <5>2, DatabaseFacts DEF Inv
      <4>3. \A row \in snapshot[q].rows : row.position # Null
        BY <3>2, CompleteHasNoUnplaced DEF Loads
      <4> QED
        BY <3>1, <4>1, <4>2, <4>3
    <3>3. CASE ~Loads(snapshot[q], load[q].observedAt)
      <4>1. resolver' = resolver
        BY <2>4, <3>3 DEF AssembleSnapshot
      <4> QED
        BY <2>1, <3>1, <4>1
    <3> QED
      BY <3>2, <3>3
  <2> QED
    BY <2>2, <2>3, <2>4 DEF ReadStep
<1>6. Resolved'
  BY <1>1, <1>3, <1>5 DEF Resolved, Inv, RepositoryInv
<1> QED
  BY <1>4, <1>6 DEF RepositoryInv

LEMMA NextInv ==
  ASSUME Inv, [Next]_vars
  PROVE  Inv'
<1>1. ASSUME NEW c \in Calls, CallStep(c) \/ LoseCall(c)
      PROVE  RepositoryInv'
  <2>1. ASSUME RefuseCall(c) \/ LoseCall(c)
        PROVE  RepositoryInv'
    BY <2>1, RollbackInv, DuplicateOfKey DEF RefuseCall, LoseCall
  <2> QED
    BY <1>1, <2>1, BeginInv, AllocateInv, LockInv, InsertInv, CommitInv DEF CallStep
<1>2. CASE Tick \/ UNCHANGED vars
  <2>1. /\ UNCHANGED <<committedPosition, rows, status, own, inserted, snapshot>>
        /\ UNCHANGED <<pc, outcome, sequence, lastSequence, load, resolver>>
    BY <1>2 DEF Tick, vars, database, callState, numbering, readState
  <2>2. /\ LoadsShaped(load)' /\ resolver' = [r \in Readers |-> resolver'[r]]
    BY <2>1 DEF Inv, RepositoryInv, Shapes, LoadsShaped
  <2>3. Resolved'
    BY <2>1 DEF Inv, RepositoryInv, Resolved
  <2> QED
    BY <2>1, <2>2, <2>3, CallsStay, DatabaseKept DEF Inv, RepositoryInv
<1>3. RepositoryInv'
  BY <1>1, <1>2, ReadInv DEF Next, Inv
<1> QED
  BY <1>3, DatabaseKept DEF Inv

\* Every reachable state of the repository satisfies the invariant.
THEOREM InvHolds == Spec => []Inv
<1>1. Inv /\ [Next]_vars => Inv'
  BY NextInv
<1> QED
  BY <1>1, InitInv, PTL DEF Spec

\* The repository's statements are ones AuthorityRecording allows: whatever is proved
\* of the recording protocol holds of every interleaving of calls.
THEOREM RepositoryRecords == Spec => RecordingRefinement
<1>1. Init => Recording!Init
  BY DEF Init
<1>2. Inv /\ [Next]_vars => [Recording!Next]_(Recording!vars)
  BY StepRecords DEF Inv, RepositoryInv
<1> QED
  BY <1>1, <1>2, InvHolds, PTL DEF Spec, RecordingRefinement, Recording!Spec

\* While evidence without a position is stored, no load has ever succeeded.
THEOREM NothingGrantedAlways == Spec => []NothingGrantedOnPartialRegistry
<1>1. Inv => NothingGrantedOnPartialRegistry
  BY DEF Inv, RepositoryInv, Resolved, NothingGrantedOnPartialRegistry
<1> QED
  BY <1>1, InvHolds, PTL

\* A journal's order is that of the recording positions, whatever was rolled back.
THEOREM JournalOrderAlwaysAgrees == Spec => []JournalOrderAgreesWithPosition
<1>1. Inv => JournalOrderAgreesWithPosition
  BY DEF Inv, RepositoryInv, Ordered, PositionedEvents, IsEvent,
         JournalOrderAgreesWithPosition
<1> QED
  BY <1>1, InvHolds, PTL

\* However calls race, roll back, are refused or lose their answers: acknowledged
\* evidence is stored and was acknowledged once, nothing is stored for a call that was
\* refused, and a conflict is one with a stored row.
THEOREM OutcomeAlwaysMatchesStore == Spec => []OutcomeMatchesStore
<1>1. Inv => OutcomeMatchesStore
  BY DEF Inv, RepositoryInv, Recorded, Acknowledged, OutcomeMatchesStore
<1> QED
  BY <1>1, InvHolds, PTL

-----------------------------------------------------------------------------
(* Journals                                                                 *)

\* JournalOf without the state: the events of an authorization, and events in the
\* order of their numbers.
EventsOf(table, auth) == {row.evidence : row \in RowsOf(table, "journal", auth)}

Rank(numbers, events, e) == Cardinality({f \in events : numbers[f] < numbers[e]}) + 1

Ranked(numbers, events, i) == CHOOSE e \in events : Rank(numbers, events, e) = i

InOrder(numbers, events) ==
  [i \in 1..Cardinality(events) |-> Ranked(numbers, events, i).body]

LEMMA JournalInOrder ==
  /\ \A auth : JournalOf(rows, auth) = InOrder(sequence, EventsOf(rows, auth))
  /\ \A auth : JournalOf(rows, auth)' = InOrder(sequence', EventsOf(rows', auth))
  BY DEF JournalOf, InOrder, EventsOf, Ranked, Rank, RowsOf, AuthorizationOf

LEMMA OrderAgrees ==
  ASSUME NEW events, NEW before, NEW after, \A e \in events : before[e] = after[e]
  PROVE  InOrder(before, events) = InOrder(after, events)
<1>1. ASSUME NEW e \in events PROVE Rank(before, events, e) = Rank(after, events, e)
  <2>1. {f \in events : before[f] < before[e]} = {f \in events : after[f] < after[e]}
    OBVIOUS
  <2> QED
    BY <2>1 DEF Rank
<1>2. ASSUME NEW i
      PROVE  Ranked(before, events, i) = Ranked(after, events, i)
  BY <1>1 DEF Ranked
<1> QED
  BY <1>2 DEF InOrder

\* An event with the largest number is the last of the journal.
LEMMA LargestIsLast ==
  ASSUME NEW events, IsFiniteSet(events), NEW numbers, NEW new,
         numbers[new] \in Nat,
         \A f \in events : numbers[f] \in Nat /\ numbers[f] < numbers[new]
  PROVE  /\ InOrder(numbers, events \cup {new}) = Append(InOrder(numbers, events), new.body)
         /\ InOrder(numbers, events) \in Seq({InOrder(numbers, events)[i] : i \in 1..Cardinality(events)})
         /\ Len(InOrder(numbers, events)) = Cardinality(events)
<1> DEFINE n == Cardinality(events)
           grown == events \cup {new}
<1>1. n \in Nat /\ new \notin events /\ Cardinality(grown) = n + 1
  <2>1. new \notin events
    OBVIOUS
  <2> QED
    BY <2>1, FS_CardinalityType, FS_AddElement
<1>2. ASSUME NEW e \in events
      PROVE  Rank(numbers, grown, e) = Rank(numbers, events, e) /\ Rank(numbers, events, e) \in 1..n
  <2> DEFINE below == {f \in events : numbers[f] < numbers[e]}
  <2>1. {f \in grown : numbers[f] < numbers[e]} = below
    OBVIOUS
  <2>2. below \in SUBSET events /\ below # events
    OBVIOUS
  <2>3. /\ IsFiniteSet(below)
        /\ Cardinality(below) <= n
        /\ Cardinality(events) = Cardinality(below) => events = below
    BY <2>2, FS_Subset
  <2>4. Cardinality(below) \in Nat /\ Cardinality(below) # n
    BY <2>2, <2>3, FS_CardinalityType
  <2>5. Cardinality(below) + 1 \in 1..n
    BY <1>1, <2>3, <2>4
  <2> QED
    BY <2>1, <2>5 DEF Rank
<1>3. Rank(numbers, grown, new) = n + 1
  <2>1. {f \in grown : numbers[f] < numbers[new]} = events
    OBVIOUS
  <2> QED
    BY <2>1 DEF Rank
<1>4. ASSUME NEW i \in 1..n
      PROVE  InOrder(numbers, grown)[i] = InOrder(numbers, events)[i]
  <2>1. i # n + 1 /\ i \in 1..(n + 1)
    BY <1>1
  <2>2. \A e : (e \in grown /\ Rank(numbers, grown, e) = i)
                 <=> (e \in events /\ Rank(numbers, events, e) = i)
    BY <1>2, <1>3, <2>1
  <2>3. Ranked(numbers, grown, i) = Ranked(numbers, events, i)
    BY <2>2 DEF Ranked
  <2> QED
    BY <1>1, <2>1, <2>3 DEF InOrder
<1>5. InOrder(numbers, grown)[n + 1] = new.body
  <2>1. \A e \in grown : Rank(numbers, grown, e) = n + 1 <=> e = new
    BY <1>1, <1>2, <1>3
  <2>2. Ranked(numbers, grown, n + 1) = new
    BY <2>1 DEF Ranked
  <2>3. n + 1 \in 1..(n + 1)
    BY <1>1
  <2> QED
    BY <1>1, <2>2, <2>3 DEF InOrder
<1> DEFINE before == InOrder(numbers, events)
           after  == InOrder(numbers, grown)
           Bodies    == {before[i] : i \in 1..n}
<1>6. before = [i \in 1..n |-> before[i]] /\ after = [i \in 1..(n + 1) |-> after[i]]
  BY <1>1 DEF InOrder
<1> HIDE DEF before, after, n
<1>7. before \in Seq(Bodies) /\ Len(before) = n
  BY <1>1, <1>6
<1>8. Append(before, new.body) = [i \in 1..(n + 1) |-> IF i <= n THEN before[i] ELSE new.body]
  BY <1>1, <1>7
<1>9. \A i \in 1..(n + 1) : after[i] = IF i <= n THEN before[i] ELSE new.body
  BY <1>1, <1>4, <1>5 DEF before, after
<1>10. after = Append(before, new.body)
  BY <1>6, <1>8, <1>9
<1> QED
  BY <1>7, <1>10 DEF before, after, n

LEMMA ReloadsLonger ==
  ASSUME NEW S, NEW journal \in Seq(S), NEW e, Reloads(journal), Accepts(journal, e)
  PROVE  Reloads(Append(journal, e))
<1> DEFINE longer == Append(journal, e)
<1>1. /\ DOMAIN longer = 1..(Len(journal) + 1) /\ Len(journal) \in Nat
      /\ DOMAIN journal = 1..Len(journal)
      /\ \A i \in 1..Len(journal) : longer[i] = journal[i]
      /\ longer[Len(journal) + 1] = e
  OBVIOUS
<1>2. ASSUME NEW i \in 1..(Len(journal) + 1)
      PROVE  SubSeq(longer, 1, i - 1) = SubSeq(journal, 1, i - 1)
  BY <1>1
<1>3. SubSeq(journal, 1, Len(journal)) = journal
  OBVIOUS
<1> HIDE DEF longer
<1>4. ASSUME NEW i \in DOMAIN longer
      PROVE  Accepts(SubSeq(longer, 1, i - 1), longer[i])
  <2>1. CASE i \in 1..Len(journal)
    <3>1. Accepts(SubSeq(journal, 1, i - 1), journal[i])
      BY <1>1, <2>1 DEF Reloads
    <3> QED
      BY <1>1, <1>2, <2>1, <3>1
  <2>2. CASE i = Len(journal) + 1
    <3>1. SubSeq(longer, 1, i - 1) = journal
      BY <1>1, <1>2, <1>3, <2>2
    <3> QED
      BY <1>1, <2>2, <3>1
  <2> QED
    BY <1>1, <2>1, <2>2
<1> QED
  BY <1>4 DEF Reloads, longer

\* A step either stores nothing and numbers nothing that is stored, or is the commit of
\* one call and numbers nothing.
LEMMA StepStores ==
  ASSUME Inv, [Next]_vars
  PROVE  /\ \/ /\ rows' = rows
               /\ \A row \in rows : sequence'[row.evidence] = sequence[row.evidence]
            \/ /\ sequence' = sequence
               /\ \E c \in Calls : At(c, "commit") /\ CommitCall(c)
         /\ \A d \in Calls : At(d, "commit")' /\ ~At(d, "commit") => InsertEvidence(d)
<1>1. ASSUME NEW c \in Calls, CallStep(c) \/ LoseCall(c), ~CommitCall(c)
      PROVE  rows' = rows
  BY <1>1 DEF CallStep, LoseCall, RefuseCall, Rollback, BeginCall, AllocatePosition,
              LockAuthorization, InsertEvidence, Recording!Begin, Recording!Allocate,
              Recording!Insert, Recording!Abort, Recording!database, database
<1>2. ASSUME NEW c \in Calls, CallStep(c) \/ LoseCall(c), ~InsertEvidence(c)
      PROVE  sequence' = sequence
  BY <1>2 DEF CallStep, LoseCall, RefuseCall, Rollback, BeginCall, AllocatePosition,
              LockAuthorization, CommitCall, numbering
<1>3. ASSUME NEW c \in Calls, CallStep(c) \/ LoseCall(c)
      PROVE  \/ /\ rows' = rows
                /\ \A row \in rows : sequence'[row.evidence] = sequence[row.evidence]
             \/ /\ sequence' = sequence
                /\ \E d \in Calls : At(d, "commit") /\ CommitCall(d)
  <2>1. CASE CommitCall(c)
    BY <2>1 DEF CommitCall, numbering
  <2>2. CASE ~CommitCall(c) /\ InsertEvidence(c)
    BY <1>1, <1>3, <2>2, InsertNumbers
  <2>3. CASE ~CommitCall(c) /\ ~InsertEvidence(c)
    BY <1>1, <1>2, <1>3, <2>3
  <2> QED
    BY <2>1, <2>2, <2>3
<1>4. ASSUME NEW r \in Readers, ReadStep(r)
      PROVE  UNCHANGED <<rows, sequence, pc>>
  BY <1>4 DEF ReadStep, ReadBoundary, ObserveTime, AssembleSnapshot, Recording!TakeSnapshot,
              Recording!database, database, callState, numbering
<1>5. CASE Tick \/ UNCHANGED vars
  BY <1>5 DEF Tick, vars, database, callState, numbering, At
<1>6. ASSUME NEW c \in Calls, CallStep(c) \/ LoseCall(c),
             NEW d \in Calls, At(d, "commit")', ~At(d, "commit")
      PROVE  InsertEvidence(d)
  <2>1. \/ pc' = [pc EXCEPT ![c] = 0]
        \/ /\ pc' = [pc EXCEPT ![c] = pc[c] + 1]
           /\ \/ At(c, "begin") \/ At(c, "allocate") \/ At(c, "lock")
              \/ At(c, "insert") /\ InsertEvidence(c)
    BY <1>6 DEF CallStep, LoseCall, RefuseCall, Rollback, BeginCall, AllocatePosition,
                LockAuthorization, InsertEvidence, CommitCall, Return, Advance
  <2>2. pc \in [Calls -> 0..5]
    BY DEF Inv, RepositoryInv, Shapes
  <2>3. d = c
    BY <1>6, <2>1, <2>2 DEF At
  <2>4. pc'[c] # 0
    BY <1>6, <2>3 DEF At
  <2>5. pc'[c] = pc[c] + 1
    BY <2>1, <2>2, <2>4
  <2>6. pc'[c] = IF IsEvent(Request[c]) THEN 5 ELSE 4
    BY <1>6, <2>2, <2>3, <2>5, CallFacts DEF At, Program, IsEvent
  <2>7. ~At(c, "begin") /\ ~At(c, "allocate") /\ ~At(c, "lock")
    BY <2>2, <2>5, <2>6, CallFacts
  <2> QED
    BY <2>1, <2>2, <2>3, <2>4, <2>7
<1> QED
  BY <1>3, <1>4, <1>5, <1>6 DEF Next, At

LEMMA EvidenceFinite == IsFiniteSet(Evidence)
<1> DEFINE requested == {Request[c] : c \in Calls}
           f == [c \in Calls |-> Request[c]]
<1>1. f \in Surjection(Calls, requested)
  BY DEF Surjection
<1>2. IsFiniteSet(requested)
  BY <1>1, RepositoryAssumption, FS_Surjection
<1> QED
  BY <1>2, RepositoryAssumption, FS_Union DEF Evidence

LEMMA EventsFacts ==
  ASSUME Inv, NEW auth
  PROVE  /\ IsFiniteSet(EventsOf(rows, auth))
         /\ \A e \in EventsOf(rows, auth) : sequence[e] \in Nat
         /\ \A e \in EventsOf(rows, auth) : \E row \in rows : row.evidence = e /\ IsEvent(e)
<1>1. \A e \in EventsOf(rows, auth) : \E row \in rows : row.evidence = e /\ IsEvent(e)
  BY DEF EventsOf, RowsOf, IsEvent
<1>2. EventsOf(rows, auth) \in SUBSET Evidence
  BY <1>1, EvidenceStored DEF Inv
<1> QED
  BY <1>1, <1>2, EvidenceFinite, FS_Subset DEF Inv, RepositoryInv, Shapes

\* Evidence stored before recording positions existed is authorizations and decisions.
NoLegacyEvents == \A e \in Legacy : ~IsEvent(e)

LEMMA EventsPositioned ==
  ASSUME NoLegacyEvents, Inv, NEW row \in rows, IsEvent(row.evidence)
  PROVE  row \in PositionedEvents(rows)
<1>1. row.position = Null => row.evidence \in Legacy
  BY DEF Inv, DatabaseInv, Facts!IInv, Facts!RecordingSequenceComplete, Facts!SequenceComplete
<1> QED
  BY <1>1 DEF NoLegacyEvents, PositionedEvents

\* A commit extends one journal by the committed event, or none.
LEMMA CommitExtends ==
  ASSUME NoLegacyEvents, Inv, NEW c \in Calls, CommitCall(c), NEW auth
  PROVE  JournalOf(rows, auth)' =
           IF IsEvent(Request[c]) /\ auth = AuthorizationOf(Request[c])
           THEN Append(JournalOf(rows, auth), Request[c].body)
           ELSE JournalOf(rows, auth)
<1> DEFINE e == Request[c]
<1>1. /\ At(c, "commit") /\ sequence' = sequence
      /\ rows' = rows \cup {[evidence |-> e, position |-> own[c]]}
  BY CommitStores DEF CommitCall, numbering
<1>2. CASE IsEvent(e) /\ auth = AuthorizationOf(e)
  <2>1. EventsOf(rows', auth) = EventsOf(rows, auth) \cup {e}
    <3> DEFINE mine == [evidence |-> e, position |-> own[c]]
    <3>1. RowsOf(rows', "journal", auth) = RowsOf(rows, "journal", auth) \cup {mine}
      <4>1. mine.evidence.table = "journal" /\ AuthorizationOf(mine.evidence) = auth
        BY <1>2 DEF IsEvent
      <4> QED
        BY <1>1, <4>1 DEF RowsOf
    <3>2. mine.evidence = e
      OBVIOUS
    <3> QED
      BY <3>1, <3>2 DEF EventsOf
  <2>2. e \in Evidence /\ sequence[e] \in Nat
    BY DEF Inv, RepositoryInv, Shapes, Evidence
  <2>3. ASSUME NEW f \in EventsOf(rows, auth) PROVE sequence[f] < sequence[e]
    <3>1. PICK row \in rows : row.evidence = f /\ IsEvent(f)
      BY EventsFacts
    <3>2. row \in PositionedEvents(rows)
      BY <3>1, EventsPositioned
    <3> QED
      BY <1>1, <1>2, <3>1, <3>2 DEF Inv, RepositoryInv, Ordered
  <2>4. InOrder(sequence, EventsOf(rows, auth) \cup {e})
          = Append(InOrder(sequence, EventsOf(rows, auth)), e.body)
    BY <2>2, <2>3, EventsFacts, LargestIsLast
  <2> QED
    BY <1>1, <1>2, <2>1, <2>4, JournalInOrder
<1>3. CASE ~(IsEvent(e) /\ auth = AuthorizationOf(e))
  <2>1. EventsOf(rows', auth) = EventsOf(rows, auth)
    BY <1>1, <1>3 DEF EventsOf, RowsOf, IsEvent
  <2> QED
    BY <1>1, <1>3, <2>1, JournalInOrder
<1> QED
  BY <1>2, <1>3

JournalsReload == \A auth : Reloads(JournalOf(rows, auth))

LEMMA JournalIsSequence ==
  ASSUME Inv, NEW auth
  PROVE  JournalOf(rows, auth)
           \in Seq({JournalOf(rows, auth)[i] : i \in DOMAIN JournalOf(rows, auth)})
<1> DEFINE events == EventsOf(rows, auth)
           n == Cardinality(events)
           journal == InOrder(sequence, events)
<1>1. n \in Nat
  BY EventsFacts, FS_CardinalityType
<1>2. journal = [i \in 1..n |-> journal[i]]
  BY DEF InOrder
<1> HIDE DEF journal, n
<1>3. journal \in Seq({journal[i] : i \in DOMAIN journal})
  BY <1>1, <1>2
<1> QED
  BY <1>3, JournalInOrder DEF journal

LEMMA InitJournals ==
  ASSUME NoLegacyEvents, Init
  PROVE  JournalsReload /\ Accepting
<1>1. rows = [evidence : Legacy, position : {Null}]
  BY DEF Init, Recording!Init
<1>2. ASSUME NEW auth PROVE Reloads(JournalOf(rows, auth))
  <2>1. EventsOf(rows, auth) = {}
    BY <1>1 DEF EventsOf, RowsOf, NoLegacyEvents, IsEvent
  <2>2. DOMAIN JournalOf(rows, auth) = {}
    BY <2>1, JournalInOrder, FS_EmptySet DEF InOrder
  <2> QED
    BY <2>2 DEF Reloads
<1>3. \A c \in Calls : ~At(c, "commit")
  BY DEF Init, At, Program
<1> QED
  BY <1>2, <1>3 DEF JournalsReload, Accepting

LEMMA NextJournals ==
  ASSUME NoLegacyEvents, Inv, JournalsReload, Accepting, [Next]_vars
  PROVE  JournalsReload' /\ Accepting'
<1>1. CASE /\ rows' = rows
           /\ \A row \in rows : sequence'[row.evidence] = sequence[row.evidence]
  <2>1. ASSUME NEW auth PROVE JournalOf(rows, auth)' = JournalOf(rows, auth)
    <3>1. \A e \in EventsOf(rows, auth) : sequence[e] = sequence'[e]
      BY <1>1, EventsFacts
    <3>2. InOrder(sequence, EventsOf(rows, auth)) = InOrder(sequence', EventsOf(rows, auth))
      BY <3>1, OrderAgrees
    <3> QED
      BY <1>1, <3>2, JournalInOrder
  <2>2. JournalsReload'
    BY <2>1 DEF JournalsReload, Reloads
  <2>3. ASSUME NEW c \in Calls, At(c, "commit")', IsEvent(Request[c])
        PROVE  Accepts(JournalOf(rows, AuthorizationOf(Request[c])), Request[c].body)
    <3>1. CASE At(c, "commit")
      BY <2>3, <3>1 DEF Accepting
    <3>2. CASE ~At(c, "commit")
      <4>1. InsertEvidence(c)
        BY <2>3, <3>2, StepStores
      <4>2. inserted[c] = {}
        BY <3>2, CallFacts
      <4>3. Recording!Visible(c) = rows
        BY <4>2 DEF Recording!Visible
      <4> QED
        BY <2>3, <4>1, <4>3 DEF InsertEvidence, AcceptedByJournal, IsEvent
    <3> QED
      BY <3>1, <3>2
  <2> QED
    BY <2>1, <2>2, <2>3 DEF Accepting
<1>2. CASE \E c \in Calls : At(c, "commit") /\ CommitCall(c)
  <2>1. PICK c \in Calls : At(c, "commit") /\ CommitCall(c)
    BY <1>2
  <2>2. ASSUME NEW auth PROVE Reloads(JournalOf(rows, auth))'
    <3>1. CASE IsEvent(Request[c]) /\ auth = AuthorizationOf(Request[c])
      <4>1. Accepts(JournalOf(rows, auth), Request[c].body)
        BY <2>1, <3>1 DEF Accepting
      <4>2. Reloads(JournalOf(rows, auth))
        BY DEF JournalsReload
      <4>3. Reloads(Append(JournalOf(rows, auth), Request[c].body))
        BY <4>1, <4>2, ReloadsLonger, JournalIsSequence
      <4> QED
        BY <2>1, <3>1, <4>3, CommitExtends DEF Reloads
    <3>2. CASE ~(IsEvent(Request[c]) /\ auth = AuthorizationOf(Request[c]))
      BY <2>1, <3>2, CommitExtends DEF JournalsReload, Reloads
    <3> QED
      BY <3>1, <3>2
  <2>3. \A d \in Calls : ~At(d, "commit")'
    <3> SUFFICES ASSUME NEW d \in Calls, At(d, "commit")' PROVE FALSE
      OBVIOUS
    <3>1. pc'[c] = 0 /\ \A b \in Calls \ {c} : pc'[b] = pc[b]
      BY <2>1 DEF CommitCall, Return, Inv, RepositoryInv, Shapes
    <3>2. d # c /\ At(d, "commit")
      BY <3>1 DEF At
    <3> QED
      BY <2>1, <3>2, AboutToCommit, DatabaseFacts DEF Inv
  <2> QED
    BY <2>2, <2>3 DEF JournalsReload, Accepting
<1> QED
  BY <1>1, <1>2, StepStores

\* Every stored journal is one its own rules accept again, event by event, however the
\* calls that wrote it were interleaved and whichever of them failed.
THEOREM StoredJournalsAlwaysReload ==
  ASSUME NoLegacyEvents
  PROVE  Spec => []StoredJournalsReload
<1>1. Init => JournalsReload /\ Accepting
  BY InitJournals
<1>2. Inv /\ JournalsReload /\ Accepting /\ [Next]_vars => JournalsReload' /\ Accepting'
  BY NextJournals
<1>3. JournalsReload => StoredJournalsReload
  BY DEF JournalsReload, StoredJournalsReload
<1> QED
  BY <1>1, <1>2, <1>3, InvHolds, PTL DEF Spec

-----------------------------------------------------------------------------
(* Loaded grants                                                            *)

\* What a load reads, without the state: the rows up to a position, the entries they
\* make, whether they load and the snapshot they are resolved from.
UpTo(table, position) == {row \in table : row.position # Null /\ row.position <= position}

EntryIn(numbers, table, auth) ==
  [record       |-> (CHOOSE row \in RowsOf(table, "authorizations", auth) : TRUE).evidence.body,
   adjudication |-> (CHOOSE row \in RowsOf(table, "adjudications", auth) : TRUE).evidence.body,
   journal      |-> InOrder(numbers, EventsOf(table, auth))]

EntriesLoadIn(numbers, table) ==
  \A row \in table : row.evidence.table = "authorizations" =>
     /\ Cardinality(RowsOf(table, "adjudications", row.evidence.key)) = 1
     /\ Reloads(InOrder(numbers, EventsOf(table, row.evidence.key)))

EntriesIn(numbers, table) ==
  {EntryIn(numbers, table, row.evidence.key) :
     row \in {s \in table : s.evidence.table = "authorizations"}}

CandidateIn(numbers, table, observedAt) ==
  [complete |-> TRUE, through |-> observedAt, entries |-> SetToSeq(EntriesIn(numbers, table))]

LEMMA ReadsUpTo ==
  ASSUME NEW view, NEW table, table = UpTo(view.rows, view.position)
  PROVE  /\ EntriesLoad(view) <=> EntriesLoadIn(sequence, table)
         /\ \A at : Candidate(view, at) = CandidateIn(sequence, table, at)
<1>1. AtPosition(view) = table
  BY DEF AtPosition, UpTo
<1>2. ASSUME NEW auth PROVE JournalOf(table, auth) = InOrder(sequence, EventsOf(table, auth))
  BY DEF JournalOf, InOrder, EventsOf, Ranked, Rank
<1>3. ASSUME NEW auth PROVE EntryOf(view, auth) = EntryIn(sequence, table, auth)
  BY <1>1, <1>2 DEF EntryOf, EntryIn
<1>4. EntriesLoad(view) <=> EntriesLoadIn(sequence, table)
  BY <1>1, <1>2 DEF EntriesLoad, EntriesLoadIn
<1>5. {EntryOf(view, row.evidence.key) :
         row \in {s \in AtPosition(view) : s.evidence.table = "authorizations"}}
        = EntriesIn(sequence, table)
  BY <1>1, <1>3 DEF EntriesIn
<1>6. \A at : Candidate(view, at) = CandidateIn(sequence, table, at)
  BY <1>5 DEF Candidate, CandidateIn
<1> QED
  BY <1>4, <1>6

\* What a load reads depends on the numbers of the events in it only.
LEMMA NumbersMatterInside ==
  ASSUME NEW table, NEW before, NEW after,
         \A row \in table : before[row.evidence] = after[row.evidence]
  PROVE  /\ EntriesLoadIn(before, table) <=> EntriesLoadIn(after, table)
         /\ \A at : CandidateIn(before, table, at) = CandidateIn(after, table, at)
<1>1. ASSUME NEW auth
      PROVE  InOrder(before, EventsOf(table, auth)) = InOrder(after, EventsOf(table, auth))
  <2>1. \A e \in EventsOf(table, auth) : before[e] = after[e]
    BY DEF EventsOf, RowsOf
  <2> QED
    BY <2>1, OrderAgrees
<1>2. ASSUME NEW auth PROVE EntryIn(before, table, auth) = EntryIn(after, table, auth)
  BY <1>1 DEF EntryIn
<1>3. EntriesIn(before, table) = EntriesIn(after, table)
  BY <1>2 DEF EntriesIn
<1>4. EntriesLoadIn(before, table) <=> EntriesLoadIn(after, table)
  BY <1>1 DEF EntriesLoadIn
<1> QED
  BY <1>3, <1>4 DEF CandidateIn

LEMMA ResolverWhole ==
  ASSUME NEW view, NewSnapshotAuthorityResolver(view).ok
  PROVE  NewSnapshotAuthorityResolver(view) =
           [ok |-> TRUE, grants |-> NewSnapshotAuthorityResolver(view).grants]
  BY DEF NewSnapshotAuthorityResolver

\* The resolver found again in a table.
ResolvesFrom(numbers, table, found) ==
  /\ EntriesLoadIn(numbers, table)
  /\ NewSnapshotAuthorityResolver(CandidateIn(numbers, table, found.through))
       = [ok |-> TRUE, grants |-> found.grants]

Reproducible == \A r \in Readers : resolver[r] # Null =>
  ResolvesFrom(sequence, UpTo(rows, resolver[r].position), resolver[r])

LEMMA AssemblyResolves ==
  ASSUME Inv, [Next]_vars, NEW r \in Readers, resolver'[r] # resolver[r]
  PROVE  AssembleSnapshot(r) /\ Loads(snapshot[r], load[r].observedAt)
<1>1. PICK q \in Readers : AssembleSnapshot(q)
  BY DEF Next, CallStep, LoseCall, RefuseCall, Rollback, BeginCall, AllocatePosition,
         LockAuthorization, InsertEvidence, CommitCall, ReadStep, ReadBoundary, ObserveTime,
         Tick, vars, readState
<1>2. resolver = [p \in Readers |-> resolver[p]]
  BY DEF Inv, RepositoryInv, Shapes
<1>3. Loads(snapshot[q], load[q].observedAt)
  BY <1>1 DEF AssembleSnapshot
<1>4. q = r
  BY <1>1, <1>2 DEF AssembleSnapshot
<1> QED
  BY <1>1, <1>3, <1>4

LEMMA NextReproducible ==
  ASSUME Inv, Reproducible, [Next]_vars
  PROVE  Reproducible'
<1> SUFFICES ASSUME NEW r \in Readers, resolver'[r] # Null
             PROVE  ResolvesFrom(sequence', UpTo(rows', resolver'[r].position), resolver'[r])
  BY DEF Reproducible
<1>1. CASE resolver'[r] = resolver[r]
  <2> DEFINE position == resolver[r].position
  <2>1. position \in 0..committedPosition /\ committedPosition \in Nat
    BY <1>1, DatabaseFacts DEF Inv, RepositoryInv, Resolved
  <2>2. ResolvesFrom(sequence, UpTo(rows, position), resolver[r])
    BY <1>1 DEF Reproducible
  <2>3. UpTo(rows', position) = UpTo(rows, position)
    <3>1. CASE rows' = rows
      BY <3>1
    <3>2. ASSUME NEW c \in Calls, CommitCall(c)
          PROVE  UpTo(rows', position) = UpTo(rows, position)
      <4> DEFINE mine == [evidence |-> Request[c], position |-> own[c]]
      <4>1. rows' = rows \cup {mine} /\ mine.position = committedPosition + 1
        BY <3>2, CommitStores
      <4>2. ~(mine.position <= position)
        BY <2>1, <4>1
      <4> HIDE DEF mine
      <4> QED
        BY <4>1, <4>2 DEF UpTo
    <3> QED
      BY <3>1, <3>2, StepStores
  <2>4. \A row \in UpTo(rows, position) : sequence[row.evidence] = sequence'[row.evidence]
    BY StepStores DEF UpTo
  <2>5. ResolvesFrom(sequence', UpTo(rows, position), resolver[r])
    BY <2>2, <2>4, NumbersMatterInside DEF ResolvesFrom
  <2> QED
    BY <1>1, <2>3, <2>5
<1>2. CASE resolver'[r] # resolver[r]
  <2> DEFINE view == snapshot[r]
             at == load[r].observedAt
             candidate == Candidate(view, at)
  <2>1. AssembleSnapshot(r) /\ Loads(view, at)
    BY <1>2, AssemblyResolves
  <2>2. /\ resolver'[r] = [position |-> view.position, through |-> at,
                           grants |-> NewSnapshotAuthorityResolver(candidate).grants]
        /\ rows' = rows /\ sequence' = sequence
    BY <2>1 DEF AssembleSnapshot, database, callState, numbering, Inv, RepositoryInv, Shapes
  <2>3. UpTo(view.rows, view.position) = UpTo(rows, view.position)
    <3>1. view # Null
      BY <2>1 DEF AssembleSnapshot, Inv, RepositoryInv, Resolved
    <3>2. view.rows = {row \in rows : row.position = Null \/ row.position <= view.position}
      BY <3>1 DEF Inv, DatabaseInv, Facts!SnapshotsCurrent
    <3> QED
      BY <3>2 DEF UpTo
  <2>4. /\ EntriesLoadIn(sequence, UpTo(rows, view.position))
        /\ candidate = CandidateIn(sequence, UpTo(rows, view.position), at)
    BY <2>1, <2>3, ReadsUpTo DEF Loads
  <2>5. NewSnapshotAuthorityResolver(candidate)
          = [ok |-> TRUE, grants |-> NewSnapshotAuthorityResolver(candidate).grants]
    BY <2>1, ResolverWhole DEF Loads
  <2> HIDE DEF view, at, candidate
  <2> QED
    BY <2>2, <2>4, <2>5 DEF ResolvesFrom
<1> QED
  BY <1>1, <1>2

\* What a load once resolved can be resolved again from the database at its position, to
\* the same grants, at any later time.
THEOREM ResolversAlwaysReproducible == Spec => []ResolversReproducible
<1>1. Init => Reproducible
  BY DEF Init, Reproducible
<1>2. Inv /\ Reproducible /\ [Next]_vars => Reproducible'
  BY NextReproducible
<1>3. Reproducible => ResolversReproducible
  <2> SUFFICES ASSUME Reproducible, NEW r \in Readers, resolver[r] # Null,
                      NEW view, view = [position |-> resolver[r].position, rows |-> rows]
               PROVE  /\ EntriesLoad(view)
                      /\ NewSnapshotAuthorityResolver(Candidate(view, resolver[r].through))
                           = [ok |-> TRUE, grants |-> resolver[r].grants]
    BY DEF ResolversReproducible
  <2>1. UpTo(view.rows, view.position) = UpTo(rows, resolver[r].position)
    OBVIOUS
  <2> QED
    BY <2>1, ReadsUpTo DEF Reproducible, ResolvesFrom
<1> QED
  BY <1>1, <1>2, <1>3, InvHolds, PTL DEF Spec

-----------------------------------------------------------------------------
(* Sequences made of sets and of sequences                                  *)

\* Events numbered apart have ranks 1..n, one each.
LEMMA RanksCount ==
  ASSUME NEW events, IsFiniteSet(events), NEW numbers,
         \A e \in events : numbers[e] \in Nat,
         \A e, f \in events : numbers[e] = numbers[f] => e = f
  PROVE  /\ \A e \in events : Rank(numbers, events, e) \in 1..Cardinality(events)
         /\ \A e, f \in events : Rank(numbers, events, e) = Rank(numbers, events, f) => e = f
         /\ \A i \in 1..Cardinality(events) : \E e \in events : Rank(numbers, events, e) = i
<1> DEFINE n == Cardinality(events)
           below(e) == {f \in events : numbers[f] < numbers[e]}
<1>1. n \in Nat
  BY FS_CardinalityType
<1>2. ASSUME NEW e \in events
      PROVE  IsFiniteSet(below(e)) /\ Cardinality(below(e)) \in 0..(n - 1)
  <2>1. below(e) \in SUBSET events /\ below(e) # events
    OBVIOUS
  <2>2. /\ IsFiniteSet(below(e)) /\ Cardinality(below(e)) <= n
        /\ Cardinality(below(e)) # n
    BY <2>1, FS_Subset
  <2>3. Cardinality(below(e)) \in Nat
    BY <2>2, FS_CardinalityType
  <2> QED
    BY <1>1, <2>2, <2>3
<1>3. ASSUME NEW e \in events, NEW f \in events, numbers[e] < numbers[f]
      PROVE  Cardinality(below(e)) < Cardinality(below(f))
  <2>1. below(e) \in SUBSET below(f)
    BY <1>3
  <2>2. e \in below(f) /\ e \notin below(e)
    BY <1>3
  <2>3. below(e) # below(f)
    BY <2>2
  <2>4. /\ Cardinality(below(e)) <= Cardinality(below(f))
        /\ Cardinality(below(e)) # Cardinality(below(f))
    BY <1>2, <2>1, <2>3, FS_Subset
  <2> HIDE DEF below
  <2>5. Cardinality(below(e)) \in 0..(n - 1) /\ Cardinality(below(f)) \in 0..(n - 1)
    BY <1>2
  <2> QED
    BY <1>1, <2>4, <2>5
<1>4. \A e \in events : Rank(numbers, events, e) = Cardinality(below(e)) + 1
  BY DEF Rank
<1> HIDE DEF below
<1>5. \A e \in events : Rank(numbers, events, e) \in 1..n
  BY <1>1, <1>2, <1>4
<1>6. ASSUME NEW e \in events, NEW f \in events, Rank(numbers, events, e) = Rank(numbers, events, f)
      PROVE  e = f
  <2>1. Cardinality(below(e)) = Cardinality(below(f))
    BY <1>2, <1>4, <1>6
  <2>2. ~(numbers[e] < numbers[f]) /\ ~(numbers[f] < numbers[e])
    BY <1>2, <1>3, <2>1
  <2> QED
    BY <2>2
<1> DEFINE r == [e \in events |-> Rank(numbers, events, e)]
<1>7. r \in Injection(events, 1..n)
  BY <1>5, <1>6 DEF Injection, IsInjective
<1>8. IsFiniteSet(1..n) /\ Cardinality(1..n) = n
  BY <1>1, FS_Interval
<1>9. r \in Surjection(events, 1..n)
  BY <1>7, <1>8, FS_Injection
<1>10. \A i \in 1..n : \E e \in events : Rank(numbers, events, e) = i
  BY <1>9 DEF Surjection
<1> QED
  BY <1>5, <1>6, <1>10

\* The journal of a set of events lists their bodies, all of them and nothing else.
LEMMA InOrderLists ==
  ASSUME NEW events, IsFiniteSet(events), NEW numbers,
         \A e \in events : numbers[e] \in Nat,
         \A e, f \in events : numbers[e] = numbers[f] => e = f
  PROVE  /\ InOrder(numbers, events) \in Seq({e.body : e \in events})
         /\ \A e \in events : \E i \in 1..Len(InOrder(numbers, events)) :
               InOrder(numbers, events)[i] = e.body
<1> DEFINE n == Cardinality(events)
           journal == InOrder(numbers, events)
           Bodies == {e.body : e \in events}
<1>1. n \in Nat
  BY FS_CardinalityType
<1>2. \A i \in 1..n : Ranked(numbers, events, i) \in events
  BY RanksCount DEF Ranked
<1>3. journal = [i \in 1..n |-> Ranked(numbers, events, i).body]
  BY DEF InOrder
<1>4. journal \in [1..n -> Bodies]
  BY <1>2, <1>3
<1>5. ASSUME NEW e \in events
      PROVE  \E i \in 1..n : journal[i] = e.body
  <2> DEFINE i == Rank(numbers, events, e)
  <2>1. i \in 1..n /\ \A f \in events : Rank(numbers, events, f) = i => f = e
    BY RanksCount
  <2>2. Ranked(numbers, events, i) = e
    BY <2>1 DEF Ranked
  <2> HIDE DEF i
  <2> QED
    BY <1>3, <2>1, <2>2
<1> HIDE DEF journal, n, Bodies
<1>6. journal \in Seq(Bodies) /\ Len(journal) = n
  BY <1>1, <1>4
<1> QED
  BY <1>5, <1>6 DEF journal, Bodies

\* A set listed as a sequence: nothing but its elements.
LEMMA ListedOnce ==
  ASSUME NEW S, IsFiniteSet(S)
  PROVE  SetToSeq(S) \in Seq(S)
<1>1. Cardinality(S) \in Nat /\ ExistsBijection(1..Cardinality(S), S)
  BY FS_CardinalityType
<1>2. PICK f \in [1..Cardinality(S) -> S] : IsInjective(f)
  BY <1>1 DEF ExistsBijection, Bijection, Injection, IsInjective
<1>3. SetToSeq(S) \in [1..Cardinality(S) -> S]
  BY <1>2 DEF SetToSeq
<1> QED
  BY <1>1, <1>3

-----------------------------------------------------------------------------
(* One journal: what AuthorityJournal proves, for every authorization       *)

\* A case is a journal with its record and decision, what its events may hold, a cutoff,
\* the position of an event in it and an instant.
EventsOn(c) ==
  [id : Nat, auth : {c.record.id}, type : LifecycleEvents,
   effectiveAt : 0..c.latest, recordedAt : 0..c.latest,
   actor : c.actors \cup {c.decision.maker},
   evidenceRef : c.refs \cup {c.decision.evidenceRef},
   satisfied : BOOLEAN, corrects : Nat \cup {NoEvent}, field : c.fields \cup {"none"}]

GrantsOf(c) == ProjectAuthorityGrants(c.record, c.decision, c.journal, c.through).grants

Projected(c) ==
  /\ c.journal \in Seq(EventsOn(c)) /\ Reloads(c.journal)
  /\ c.through \in Nat /\ \A i \in 1..Len(c.journal) : c.journal[i].recordedAt <= c.through
  /\ ProjectAuthorityGrants(c.record, c.decision, c.journal, c.through).ok

\* An uncorrected revocation at a position, in effect at an instant.
InEffect(events, at, now) ==
  /\ at \in 1..Len(events)
  /\ events[at].type = "REVOKE" /\ ~IsCorrection(events[at])
  /\ \A i \in 1..Len(events) : events[i].corrects # events[at].id
  /\ now \in Nat /\ events[at].effectiveAt <= now

NoneAuthorizes(grants, now) ==
  \A i \in 1..Len(grants) : GrantCurrent(grants[i], now) => grants[i].state = "inactive"

\* Grants of a record and of no other.
GrantsFor(record, grants) ==
  /\ grants \in Seq({grants[i] : i \in 1..Len(grants)})
  /\ \A i \in 1..Len(grants) : grants[i].auth = record.id

\* The grants are the record's, and from a revocation on none of them authorizes.
Claim(c) == Projected(c) =>
  /\ GrantsFor(c.record, GrantsOf(c))
  /\ InEffect(c.journal, c.at, c.now) => NoneAuthorizes(GrantsOf(c), c.now)

\* A case the claim fails for, if there is one: what AuthorityJournal's theorems say of
\* this one case is then true of every case.
Worst ==
  CHOOSE c : c.latest \in Nat /\ ((\E d : d.latest \in Nat /\ ~Claim(d)) => ~Claim(c))

Journals == INSTANCE AuthorityJournal_proofs WITH
  Authorization <- Worst.record, Adjudication <- Worst.decision,
  Actors <- Worst.actors, EvidenceRefs <- Worst.refs, Fields <- Worst.fields,
  EffectiveTimes <- 0..Worst.latest, RecordedTimes <- 0..Worst.latest,
  MaxEvents <- 0, MaxCorrections <- 0, journal <- <<>>

LEMMA WorstCase ==
  /\ Worst.latest \in Nat
  /\ Claim(Worst) => \A c : c.latest \in Nat => Claim(c)
<1>1. PICK c : c.latest \in Nat
  <2>1. [latest |-> 0].latest \in Nat
    OBVIOUS
  <2> QED
    BY <2>1
<1>2. \E d : d.latest \in Nat /\ ((\E b : b.latest \in Nat /\ ~Claim(b)) => ~Claim(d))
  <2>1. CASE \E b : b.latest \in Nat /\ ~Claim(b)
    BY <2>1
  <2>2. CASE ~\E b : b.latest \in Nat /\ ~Claim(b)
    BY <1>1, <2>2
  <2> QED
    BY <2>1, <2>2
<1> QED
  BY <1>2 DEF Worst

LEMMA JournalsAssumed == Journals!JournalAssumption /\ Journals!MicrosecondAssumption
  BY WorstCase, RepositoryAssumption, MicrosecondAssumption
  DEF Journals!JournalAssumption, Journals!MicrosecondAssumption

\* The journal rules are the same definitions there as here.
LEMMA SameRules ==
  /\ \A events, e : Journals!Accepts(events, e) <=> Accepts(events, e)
  /\ \A events, I : Journals!Replay(events, I) = Replay(events, I)
  /\ \A events, auth, cutoff :
        Journals!EffectiveEvents(events, auth, cutoff) = EffectiveEvents(events, auth, cutoff)
<1>1. ASSUME NEW events, NEW e PROVE Journals!Accepts(events, e) <=> Accepts(events, e)
  BY DEF
    Journals!Accepts, Journals!Canonical, Journals!InRecordedOrder, Journals!IsCorrection,
    Journals!Reconstruct, Journals!ReplayStep, Journals!Replay, Journals!Transition,
    Journals!Replays, Journals!Last, Journals!Permitted, Journals!NextAuthorizationState,
    Journals!PermittedTransitions, Journals!LifecycleStates,
    Accepts, Canonical, InRecordedOrder, IsCorrection, Reconstruct, ReplayStep, Replay,
    Transition, Replays, Last, Permitted, NextAuthorizationState, PermittedTransitions,
    LifecycleStates
<1>2. ASSUME NEW events, NEW I PROVE Journals!Replay(events, I) = Replay(events, I)
  BY DEF
    Journals!Replay, Journals!ReplayStep, Journals!Replays, Journals!Transition,
    Journals!Permitted, Journals!NextAuthorizationState, Journals!PermittedTransitions,
    Journals!LifecycleStates,
    Replay, ReplayStep, Replays, Transition, Permitted, NextAuthorizationState,
    PermittedTransitions, LifecycleStates
<1>3. ASSUME NEW s, NEW I PROVE Journals!Pick(s, I) = Pick(s, I)
  BY DEF Journals!Pick, Pick
<1>4. ASSUME NEW events, NEW auth, NEW cutoff
      PROVE  Journals!EffectiveEvents(events, auth, cutoff) = EffectiveEvents(events, auth, cutoff)
  <2>1. Journals!KnownEvents(events, auth, cutoff) = KnownEvents(events, auth, cutoff)
    BY <1>3 DEF Journals!KnownEvents, KnownEvents
  <2>2. ASSUME NEW known, NEW e PROVE Journals!Amended(known, e) = Amended(known, e)
    BY DEF Journals!Amended, Amended
  <2>3. \A known, i : Journals!CorrectionApplies(known, i) <=> CorrectionApplies(known, i)
    BY DEF Journals!CorrectionApplies, CorrectionApplies, Journals!IsCorrection, IsCorrection
  <2>4. \A s : Journals!EffectiveOrder(s) <=> EffectiveOrder(s)
    BY DEF Journals!EffectiveOrder, EffectiveOrder, Journals!IntervalOpeners, IntervalOpeners
  <2> QED
    BY <1>2, <1>3, <2>1, <2>2, <2>3, <2>4
    DEF Journals!EffectiveEvents, EffectiveEvents, Journals!Canonical, Canonical,
        Journals!IsCorrection, IsCorrection
<1> QED
  BY <1>1, <1>2, <1>4

LEMMA SameProjection ==
  ASSUME NEW events, NEW cutoff
  PROVE  Journals!Projection(events, cutoff) =
           ProjectAuthorityGrants(Worst.record, Worst.decision, events, cutoff)
<1> DEFINE effective == EffectiveEvents(events, Worst.record.id, cutoff)
           p == ProjectEvents(Worst.record, Worst.decision, effective.events)
           final == Replay(effective.events, DOMAIN effective.events).state
           projection ==
             [ok |-> /\ Adjudicated(Worst.record, Worst.decision, cutoff)
                     /\ effective.ok
                     /\ p.ok /\ p.approved
                     /\ ConsistentEnd(final, p),
              grants |-> IF p.from = NoStart THEN p.grants
                         ELSE Append(p.grants, OpenGrant(Worst.record, p, NoEnd))]
<1>1. ASSUME NEW record, NEW decision, NEW s
      PROVE  Journals!ProjectEvents(record, decision, s) = ProjectEvents(record, decision, s)
  BY DEF
    Journals!ProjectEvents, Journals!NothingProjected, Journals!NoStart, Journals!NoEnd,
    Journals!ProjectEvent, Journals!ApprovalMatches, Journals!Refuse, Journals!OpenInterval,
    Journals!CloseInterval, Journals!CloseIfOpen, Journals!OpenGrant, Journals!InclusiveEnd,
    ProjectEvents, NothingProjected, NoStart, NoEnd, ProjectEvent, ApprovalMatches, Refuse,
    OpenInterval, CloseInterval, CloseIfOpen, OpenGrant, InclusiveEnd
<1>2. /\ Journals!EffectiveEvents(events, Worst.record.id, cutoff) = effective
      /\ Journals!ProjectEvents(Worst.record, Worst.decision, effective.events) = p
      /\ Journals!Replay(effective.events, DOMAIN effective.events).state = final
  BY <1>1, SameRules
<1>3. /\ Journals!Adjudicated(Worst.record, Worst.decision, cutoff)
           <=> Adjudicated(Worst.record, Worst.decision, cutoff)
      /\ \A lifecycle, q : Journals!ConsistentEnd(lifecycle, q) <=> ConsistentEnd(lifecycle, q)
      /\ \A q : Journals!OpenGrant(Worst.record, q, Journals!NoEnd) = OpenGrant(Worst.record, q, NoEnd)
      /\ Journals!NoStart = NoStart
  BY DEF Journals!Adjudicated, Adjudicated, Journals!Canonical, Canonical,
         Journals!ConsistentEnd, ConsistentEnd, Journals!OpenGrant, OpenGrant,
         Journals!NoStart, NoStart, Journals!NoEnd, NoEnd
<1>4. ProjectAuthorityGrants(Worst.record, Worst.decision, events, cutoff) = projection
  BY DEF ProjectAuthorityGrants
<1> HIDE DEF effective, p, final
<1>5. Journals!Projection(events, cutoff) = projection
  BY ONLY <1>2, <1>3 DEF Journals!Projection, Journals!ProjectAuthorityGrants
<1> QED
  BY <1>4, <1>5

LEMMA WorstClaim == Claim(Worst)
<1> SUFFICES ASSUME Projected(Worst) PROVE
      /\ GrantsFor(Worst.record, GrantsOf(Worst))
      /\ InEffect(Worst.journal, Worst.at, Worst.now) => NoneAuthorizes(GrantsOf(Worst), Worst.now)
  BY DEF Claim
<1> DEFINE events == Worst.journal
           grants == GrantsOf(Worst)
<1>1. /\ events \in Seq(Journals!Events) /\ Worst.through \in Nat
      /\ \A i \in 1..Len(events) : events[i].recordedAt <= Worst.through
  BY DEF Projected, EventsOn, Journals!Events, Journals!LifecycleEvents, LifecycleEvents
<1>2. \A i \in 1..Len(events) : Journals!Accepts(SubSeq(events, 1, i - 1), events[i])
  BY <1>1, SameRules DEF Projected, Reloads
<1>3. Journals!Recorded(events)
  BY <1>1, <1>2, JournalsAssumed, Journals!AcceptedRecorded
<1>4. /\ Journals!Projection(events, Worst.through).ok
      /\ Journals!Projection(events, Worst.through).grants = grants
  BY SameProjection DEF Projected, GrantsOf
<1>5. grants \in Seq(Journals!Grants)
  BY <1>3, <1>4, JournalsAssumed, Journals!GrantsListed
<1>6. ASSUME InEffect(events, Worst.at, Worst.now)
      PROVE  NoneAuthorizes(grants, Worst.now)
  <2>1. /\ Worst.at \in 1..Len(events) /\ events[Worst.at].type = "REVOKE"
        /\ ~Journals!IsCorrection(events[Worst.at])
        /\ \A i \in 1..Len(events) : events[i].corrects # events[Worst.at].id
        /\ Worst.now \in Nat /\ events[Worst.at].effectiveAt <= Worst.now
    BY <1>6 DEF InEffect, Journals!IsCorrection, IsCorrection
  <2> DEFINE cutoff == Worst.through
             k == Worst.at
             now == Worst.now
  <2>2. /\ Journals!Recorded(events) /\ cutoff \in Nat /\ Journals!Projection(events, cutoff).ok
        /\ \A i \in 1..Len(events) : events[i].recordedAt <= cutoff
        /\ k \in 1..Len(events) /\ events[k].type = "REVOKE" /\ ~Journals!IsCorrection(events[k])
        /\ \A i \in 1..Len(events) : events[i].corrects # events[k].id
        /\ now \in Nat /\ events[k].effectiveAt <= now
        /\ Journals!Projection(events, cutoff).grants = grants
    BY <1>1, <1>3, <1>4, <2>1
  <2> HIDE DEF cutoff, k, now, events, grants
  <2>3. \A i \in 1..Len(grants) :
           Journals!GrantCurrent(grants[i], now) => grants[i].state = "inactive"
    BY ONLY <2>2, JournalsAssumed, Journals!RevocationEndsAuthority
  <2> QED
    BY <2>3 DEF NoneAuthorizes, now, Journals!GrantCurrent, GrantCurrent, Journals!NoEnd, NoEnd
<1> HIDE DEF grants, events
<1>7. /\ grants \in Seq({grants[i] : i \in 1..Len(grants)})
      /\ \A i \in 1..Len(grants) : grants[i] \in Journals!Grants
  BY <1>5
<1>8. \A i \in 1..Len(grants) : grants[i].auth = Worst.record.id
  BY <1>7 DEF Journals!Grants
<1> QED
  BY <1>6, <1>7, <1>8 DEF GrantsFor, grants, events

LEMMA EveryClaim == \A c : c.latest \in Nat => Claim(c)
  BY WorstClaim, WorstCase

\* The numbers in a finite sequence have an upper bound.
LEMMA SomeLatest ==
  ASSUME NEW n \in Nat, NEW s \in [1..n -> Nat], NEW t \in [1..n -> Nat]
  PROVE  \E latest \in Nat : \A i \in 1..n : s[i] <= latest /\ t[i] <= latest
<1> DEFINE G == {k \in 0..n : \E latest \in Nat : \A i \in 1..k : s[i] <= latest /\ t[i] <= latest}
<1>1. 0 \in G
  OBVIOUS
<1>2. ASSUME NEW k \in 0..(n - 1), k \in G
      PROVE  k + 1 \in G
  <2>1. PICK latest \in Nat : \A i \in 1..k : s[i] <= latest /\ t[i] <= latest
    BY <1>2
  <2> DEFINE next == latest + s[k + 1] + t[k + 1]
  <2>2. k + 1 \in 1..n /\ s[k + 1] \in Nat /\ t[k + 1] \in Nat
    BY <1>2
  <2>3. next \in Nat /\ latest <= next /\ s[k + 1] <= next /\ t[k + 1] <= next
    BY <2>2
  <2>4. ASSUME NEW i \in 1..(k + 1)
        PROVE  s[i] <= next /\ t[i] <= next
    <3>1. CASE i = k + 1
      BY <2>3, <3>1
    <3>2. CASE i \in 1..k
      <4>1. s[i] \in Nat /\ t[i] \in Nat
        BY <2>2, <3>2
      <4> HIDE DEF next
      <4> QED
        BY <2>1, <2>3, <3>2, <4>1
    <3> QED
      BY <3>1, <3>2
  <2> HIDE DEF next
  <2> QED
    BY <2>2, <2>3, <2>4
<1> HIDE DEF G
<1>3. \A k \in 0..(n - 1) : k \in G => k + 1 \in G
  BY <1>2
<1>4. \A i \in 0..n : i \in G
  BY ONLY <1>1, <1>3, n \in Nat, JournalsAssumed, Journals!Induction
<1>5. n \in G
  BY <1>4
<1> QED
  BY <1>5 DEF G

RevocationsHold(events, grants) ==
  \A at, now : InEffect(events, at, now) => NoneAuthorizes(grants, now)

\* What AuthorityJournal proves of its one authorization, of every authorization: the
\* grants are the record's, and none authorizes once an uncorrected revocation took effect.
LEMMA EveryJournal ==
  ASSUME NEW record, NEW decision, NEW S, NEW journal \in Seq(S),
         \A e \in S : EventShaped(e) /\ e.auth = record.id,
         Reloads(journal), NEW through \in Nat,
         \A i \in 1..Len(journal) : journal[i].recordedAt <= through,
         NEW projection,
         projection = ProjectAuthorityGrants(record, decision, journal, through),
         projection.ok
  PROVE  GrantsFor(record, projection.grants) /\ RevocationsHold(journal, projection.grants)
<1> DEFINE n == Len(journal)
           effective == [i \in 1..n |-> journal[i].effectiveAt]
           recorded  == [i \in 1..n |-> journal[i].recordedAt]
<1>1. n \in Nat /\ \A i \in 1..n : journal[i] \in S
  OBVIOUS
<1>2. \A i \in 1..n : EventShaped(journal[i]) /\ journal[i].auth = record.id
  BY <1>1
<1>3. \A i \in 1..n : journal[i].effectiveAt \in Nat /\ journal[i].recordedAt \in Nat
  BY <1>2 DEF EventShaped
<1>4. effective \in [1..n -> Nat] /\ recorded \in [1..n -> Nat]
  BY <1>3
<1>5. PICK latest \in Nat : \A i \in 1..n : effective[i] <= latest /\ recorded[i] <= latest
  <2> HIDE DEF effective, recorded, n
  <2> QED
    BY <1>1, <1>4, SomeLatest
<1> DEFINE case(k, now) ==
      [record |-> record, decision |-> decision, journal |-> journal, through |-> through,
       latest |-> latest, actors |-> {journal[i].actor : i \in 1..n},
       refs |-> {journal[i].evidenceRef : i \in 1..n},
       fields |-> {journal[i].field : i \in 1..n}, at |-> k, now |-> now]
<1>6. ASSUME NEW k, NEW now
      PROVE  /\ journal \in Seq(EventsOn(case(k, now)))
             /\ Projected(case(k, now)) /\ Claim(case(k, now))
             /\ GrantsOf(case(k, now)) = projection.grants
  <2>1. ASSUME NEW i \in 1..n
        PROVE  journal[i] \in EventsOn(case(k, now))
    <3>1. /\ journal[i].effectiveAt \in 0..latest /\ journal[i].recordedAt \in 0..latest
      BY <1>3, <1>5
    <3> QED
      BY <1>2, <3>1 DEF EventShaped, EventsOn
  <2>2. journal \in Seq(EventsOn(case(k, now)))
    BY <1>1, <2>1
  <2>3. Projected(case(k, now))
    BY <2>2 DEF Projected
  <2>4. case(k, now).latest \in Nat
    OBVIOUS
  <2>5. Claim(case(k, now))
    <3> HIDE DEF case
    <3> QED
      BY <2>4, EveryClaim
  <2> QED
    BY <2>2, <2>3, <2>5 DEF GrantsOf
<1>7. GrantsFor(record, projection.grants)
  <2> DEFINE c == case(0, 0)
  <2>1. c.record = record
    OBVIOUS
  <2>2. Projected(c) /\ Claim(c) /\ GrantsOf(c) = projection.grants
    BY <1>6
  <2> HIDE DEF c
  <2> QED
    BY <2>1, <2>2 DEF Claim
<1>8. ASSUME NEW k, NEW now, InEffect(journal, k, now)
      PROVE  NoneAuthorizes(projection.grants, now)
  <2> DEFINE c == case(k, now)
  <2>1. c.journal = journal /\ c.at = k /\ c.now = now
    OBVIOUS
  <2>2. Projected(c) /\ Claim(c) /\ GrantsOf(c) = projection.grants
    BY <1>6
  <2> HIDE DEF c
  <2> QED
    BY <1>8, <2>1, <2>2 DEF Claim
<1> QED
  BY <1>7, <1>8 DEF RevocationsHold

\* Sequences put one after the other hold what those sequences hold.
LEMMA Flattened ==
  ASSUME NEW n \in Nat, NEW T, NEW seqs \in [1..n -> Seq(T)]
  PROVE  FlattenSeq(seqs) \in Seq(T)
<1>1. CASE n = 0
  BY <1>1 DEF FlattenSeq
<1>2. CASE n # 0
  <2> DEFINE step == [i \in 1..n |-> [s \in Seq(T) |-> s \o seqs[i]]]
             FlattenAs(h) == h = [i \in 1..n |-> IF i = 1 THEN seqs[i] ELSE h[i - 1] \o seqs[i]]
             flatten == CHOOSE h : FlattenAs(h)
  <2>1. <<>> \in Seq(T) /\ step \in [1..n -> [Seq(T) -> Seq(T)]]
    OBVIOUS
  <2> DEFINE Joins(f) == f[0] = <<>> /\ \A i \in 1..n : f[i] = f[i - 1] \o seqs[i]
  <2>2. PICK f \in [0..n -> Seq(T)] : Joins(f)
    <3>1. \A i \in 1..n : \A s \in Seq(T) : step[i][s] = s \o seqs[i]
      OBVIOUS
    <3> HIDE DEF step
    <3>2. Journals!Solvable(n, Seq(T), <<>>, step)
      BY <2>1, JournalsAssumed, Journals!Recursion
    <3>3. PICK f \in [0..n -> Seq(T)] : Journals!Solves(f, n, <<>>, step)
      BY <3>2 DEF Journals!Solvable
    <3>4. ASSUME NEW i \in 1..n
          PROVE  f[i] = f[i - 1] \o seqs[i]
      <4>1. f[i] = step[i][f[i - 1]]
        BY <3>3 DEF Journals!Solves
      <4>2. f[i - 1] \in Seq(T)
        OBVIOUS
      <4> QED
        BY <3>1, <4>1, <4>2
    <3> QED
      BY <3>3, <3>4 DEF Journals!Solves
  <2>3. f[1] = seqs[1]
    <3>1. 1 \in 1..n /\ seqs[1] \in Seq(T)
      BY <1>2
    <3>2. f[0] = <<>> /\ f[1] = f[1 - 1] \o seqs[1]
      BY <2>2, <3>1
    <3>3. 1 - 1 = 0
      OBVIOUS
    <3>4. f[1] = <<>> \o seqs[1]
      BY ONLY <3>2, <3>3
    <3> QED
      BY <3>1, <3>4
  <2> DEFINE g == [i \in 1..n |-> f[i]]
  <2>4. FlattenAs(g)
    <3>1. ASSUME NEW i \in 1..n
          PROVE  g[i] = IF i = 1 THEN seqs[i] ELSE g[i - 1] \o seqs[i]
      <4>1. CASE i = 1
        BY <2>3, <4>1
      <4>2. CASE i # 1
        <5>1. i - 1 \in 1..n
          BY <4>2
        <5>2. f[i] = f[i - 1] \o seqs[i]
          BY <2>2
        <5> QED
          BY <4>2, <5>1, <5>2
      <4> QED
        BY <4>1, <4>2
    <3> DEFINE next(i) == IF i = 1 THEN seqs[i] ELSE g[i - 1] \o seqs[i]
    <3>2. \A i \in 1..n : g[i] = next(i)
      BY <3>1
    <3>3. g = [i \in 1..n |-> g[i]]
      OBVIOUS
    <3> HIDE DEF g
    <3> QED
      BY <3>2, <3>3
  <2>5. FlattenAs(flatten)
    <3> HIDE DEF FlattenAs
    <3> QED
      BY <2>4
  <2>6. \A i \in 1..n : flatten[i] = IF i = 1 THEN seqs[i] ELSE flatten[i - 1] \o seqs[i]
    <3> HIDE DEF flatten
    <3> QED
      BY <2>5
  <2>7. Len(seqs) = n
    OBVIOUS
  <2>8. FlattenSeq(seqs) = flatten[n]
    BY <1>2, <2>7 DEF FlattenSeq
  <2> DEFINE G == {k \in 0..n : k = 0 \/ flatten[k] \in Seq(T)}
  <2> HIDE DEF flatten
  <2>9. \A k \in 0..(n - 1) : k \in G => k + 1 \in G
    <3> SUFFICES ASSUME NEW k \in 0..(n - 1), k \in G PROVE k + 1 \in G
      OBVIOUS
    <3>1. k + 1 \in 1..n /\ k + 1 \in 0..n /\ seqs[k + 1] \in Seq(T)
      OBVIOUS
    <3>2. CASE k = 0
      BY <2>6, <3>1, <3>2
    <3>3. CASE k # 0
      <4>1. flatten[k] \in Seq(T)
        BY <3>3
      <4>2. k + 1 # 1 /\ (k + 1) - 1 = k
        BY <3>3
      <4>3. flatten[k + 1] = flatten[k] \o seqs[k + 1]
        BY <2>6, <3>1, <4>2
      <4>4. flatten[k + 1] \in Seq(T)
        BY <3>1, <4>1, <4>3
      <4> QED
        BY <3>1, <4>4
    <3> QED
      BY <3>2, <3>3
  <2>10. 0 \in G
    OBVIOUS
  <2> HIDE DEF G
  <2>11. \A i \in 0..n : i \in G
    BY ONLY <2>9, <2>10, n \in Nat, JournalsAssumed, Journals!Induction
  <2>12. n \in G
    BY <2>11
  <2> QED
    BY <1>2, <2>8, <2>12 DEF G
<1> QED
  BY <1>1, <1>2

-----------------------------------------------------------------------------
(* Revocations                                                              *)

\* A table of recorded evidence whose events are numbered apart.
Numbered(numbers, table) ==
  /\ \A row \in table : row.evidence \in Evidence
  /\ \A row \in table : IsEvent(row.evidence) => numbers[row.evidence] \in Nat
  /\ \A a, b \in table : /\ IsEvent(a.evidence) /\ IsEvent(b.evidence)
                         /\ numbers[a.evidence] = numbers[b.evidence]
                         => a.evidence = b.evidence

BodiesOf(table, auth) == {e.body : e \in EventsOf(table, auth)}

\* No event of an authorization is missing from a journal.
Complete(journal, table, auth) ==
  \A row \in table : IsEvent(row.evidence) /\ row.evidence.body.auth = auth =>
     \E i \in 1..Len(journal) : journal[i] = row.evidence.body

\* The journal of an authorization in a table: its events, every one of them.
LEMMA JournalLists ==
  ASSUME NEW numbers, NEW table, Numbered(numbers, table), NEW auth,
         NEW journal, journal = InOrder(numbers, EventsOf(table, auth))
  PROVE  /\ journal \in Seq(BodiesOf(table, auth)) /\ Complete(journal, table, auth)
         /\ \A e \in BodiesOf(table, auth) : EventShaped(e) /\ e.auth = auth
<1> DEFINE events == EventsOf(table, auth)
<1>1. ASSUME NEW e
      PROVE  e \in events <=> \E row \in table : /\ row.evidence = e /\ IsEvent(e)
                                                /\ e.body.auth = auth
  BY DEF EventsOf, RowsOf, IsEvent, AuthorizationOf
<1>2. \A e \in events : e \in Evidence /\ IsEvent(e) /\ e.body.auth = auth
  BY <1>1 DEF Numbered
<1>3. IsFiniteSet(events)
  <2>1. events \in SUBSET Evidence
    BY <1>2
  <2> QED
    BY <2>1, EvidenceFinite, FS_Subset
<1>4. /\ \A e \in events : numbers[e] \in Nat
      /\ \A e, f \in events : numbers[e] = numbers[f] => e = f
  BY <1>1 DEF Numbered
<1>5. \A e \in events : EventShaped(e.body)
  BY <1>2, RepositoryAssumption DEF IsEvent
<1> HIDE DEF events
<1>6. /\ journal \in Seq({e.body : e \in events})
      /\ \A e \in events : \E i \in 1..Len(journal) : journal[i] = e.body
  BY <1>3, <1>4, InOrderLists DEF events
<1>7. Complete(journal, table, auth)
  BY <1>1, <1>6 DEF Complete
<1> QED
  BY <1>2, <1>5, <1>6, <1>7 DEF BodiesOf, events

\* The entries of a table: one journal each, of one authorization.
LEMMA EntriesListed ==
  ASSUME NEW numbers, NEW table, Numbered(numbers, table)
  PROVE  /\ SetToSeq(EntriesIn(numbers, table)) \in Seq(EntriesIn(numbers, table))
         /\ \A entry \in EntriesIn(numbers, table) : \E row \in table :
              /\ row.evidence.table = "authorizations"
              /\ entry = EntryIn(numbers, table, row.evidence.key)
              /\ entry.record.id = row.evidence.key
              /\ entry.journal = InOrder(numbers, EventsOf(table, row.evidence.key))
<1> DEFINE stored == {e \in Evidence : /\ e.table = "authorizations"
                                       /\ \E row \in table : row.evidence = e}
           entries == EntriesIn(numbers, table)
           f == [e \in stored |-> EntryIn(numbers, table, e.key)]
<1>1. f \in Surjection(stored, entries)
  BY DEF Surjection, EntriesIn, Numbered
<1>2. IsFiniteSet(stored)
  BY EvidenceFinite, FS_Subset
<1>3. IsFiniteSet(entries)
  BY <1>1, <1>2, FS_Surjection
<1>4. ASSUME NEW row \in table, row.evidence.table = "authorizations",
             NEW entry, entry = EntryIn(numbers, table, row.evidence.key)
      PROVE  /\ entry.record.id = row.evidence.key
             /\ entry.journal = InOrder(numbers, EventsOf(table, row.evidence.key))
  <2> DEFINE auth == row.evidence.key
             home == CHOOSE a \in RowsOf(table, "authorizations", auth) : TRUE
  <2>1. row \in RowsOf(table, "authorizations", auth)
    BY <1>4 DEF RowsOf, AuthorizationOf
  <2>2. home \in RowsOf(table, "authorizations", auth)
    BY <2>1
  <2>3. home \in table /\ home.evidence.table = "authorizations" /\ home.evidence.key = auth
    BY <2>2 DEF RowsOf, AuthorizationOf
  <2>4. home.evidence.key = home.evidence.body.id
    BY <2>3, RepositoryAssumption DEF Numbered
  <2> QED
    BY <1>4, <2>3, <2>4 DEF EntryIn
<1> QED
  BY <1>3, <1>4, ListedOnce DEF EntriesIn

\* No grant resolved from a table in which an authorization is revoked authorizes on it.
LEMMA RevocationReaches ==
  ASSUME NEW numbers, NEW table, Numbered(numbers, table),
         NEW found, ResolvesFrom(numbers, table, found), found.through \in Nat,
         NEW row \in table, IsEvent(row.evidence),
         row.evidence.body.type = "REVOKE", ~IsCorrection(row.evidence.body),
         \A other \in table :
            IsEvent(other.evidence) => other.evidence.body.corrects # row.evidence.body.id,
         NEW now \in Nat, row.evidence.body.effectiveAt <= now,
         NEW i \in DOMAIN found.grants, found.grants[i].auth = row.evidence.body.auth,
         GrantCurrent(found.grants[i], now)
  PROVE  found.grants[i].state = "inactive"
<1> DEFINE entries == SetToSeq(EntriesIn(numbers, table))
           projection(k) == ProjectAuthorityGrants(entries[k].record, entries[k].adjudication,
                                                   entries[k].journal, found.through)
           given == [k \in DOMAIN entries |-> projection(k).grants]
           Source(k, home) ==
             /\ home.evidence.table = "authorizations"
             /\ entries[k].record.id = home.evidence.key
             /\ entries[k].journal = InOrder(numbers, EventsOf(table, home.evidence.key))
<1>1. entries \in Seq(EntriesIn(numbers, table))
  BY EntriesListed
<1>2. /\ found.grants = FlattenSeq(given)
      /\ \A k \in DOMAIN entries :
           /\ projection(k).ok
           /\ \A m \in DOMAIN entries[k].journal : entries[k].journal[m].recordedAt <= found.through
  BY DEF ResolvesFrom, CandidateIn, NewSnapshotAuthorityResolver
<1> HIDE DEF entries
<1>3. ASSUME NEW k \in DOMAIN entries
      PROVE  \E home \in table : Source(k, home)
  <2>1. entries[k] \in EntriesIn(numbers, table)
    BY <1>1
  <2> QED
    BY <2>1, EntriesListed
<1>4. ASSUME NEW k \in DOMAIN entries, NEW home \in table, Source(k, home)
      PROVE  /\ GrantsFor(entries[k].record, projection(k).grants)
             /\ RevocationsHold(entries[k].journal, projection(k).grants)
  <2> DEFINE auth == home.evidence.key
             record == entries[k].record
             decision == entries[k].adjudication
             journal == entries[k].journal
             Bodies == BodiesOf(table, auth)
             p == projection(k)
             through == found.through
  <2>1. /\ journal \in Seq(Bodies) /\ record.id = auth
        /\ \A e \in Bodies : EventShaped(e) /\ e.auth = record.id
    BY <1>4, JournalLists
  <2>2. Reloads(journal)
    BY <1>4 DEF ResolvesFrom, EntriesLoadIn
  <2>3. \A m \in 1..Len(journal) : journal[m].recordedAt <= found.through
    BY <1>2, <2>1
  <2>4. p = ProjectAuthorityGrants(record, decision, journal, through) /\ p.ok
    BY <1>2
  <2>5. through \in Nat /\ \A m \in 1..Len(journal) : journal[m].recordedAt <= through
    BY <2>3
  <2> HIDE DEF auth, record, decision, journal, Bodies, p, through
  <2>6. GrantsFor(record, p.grants) /\ RevocationsHold(journal, p.grants)
    BY ONLY <2>1, <2>2, <2>4, <2>5, EveryJournal
  <2> QED
    BY <2>6 DEF record, journal, p
<1> DEFINE T == UNION {{projection(k).grants[m] : m \in 1..Len(projection(k).grants)} : k \in DOMAIN entries}
           Held(g, k) == \E m \in 1..Len(projection(k).grants) : g = projection(k).grants[m]
<1>5. \E k \in DOMAIN entries : Held(found.grants[i], k)
  <2>1. ASSUME NEW k \in DOMAIN entries
        PROVE  given[k] \in Seq(T)
    <3>1. projection(k).grants \in Seq({projection(k).grants[m] : m \in 1..Len(projection(k).grants)})
      BY <1>3, <1>4 DEF GrantsFor
    <3>2. {projection(k).grants[m] : m \in 1..Len(projection(k).grants)} \subseteq T
      OBVIOUS
    <3>3. given[k] = projection(k).grants
      OBVIOUS
    <3> HIDE DEF T, projection, given
    <3> QED
      BY <3>1, <3>2, <3>3
  <2>2. DOMAIN entries = 1..Len(entries) /\ Len(entries) \in Nat
    BY <1>1
  <2>3. given \in [1..Len(entries) -> Seq(T)]
    <3>1. given = [k \in 1..Len(entries) |-> given[k]]
      BY <2>2
    <3> HIDE DEF given, T
    <3> QED
      BY <2>1, <2>2, <3>1
  <2>4. found.grants \in Seq(T)
    <3> HIDE DEF given, T
    <3> QED
      BY <1>2, <2>2, <2>3, Flattened
  <2>5. found.grants[i] \in T
    <3> HIDE DEF T
    <3> QED
      BY <2>4
  <2> QED
    BY <2>5
<1>6. PICK k \in DOMAIN entries : Held(found.grants[i], k)
  BY <1>5
<1>7. PICK home \in table : Source(k, home)
  BY <1>3
<1> DEFINE grants == projection(k).grants
<1>8. PICK m \in 1..Len(grants) : found.grants[i] = grants[m]
  BY <1>6
<1>9. home.evidence.key = row.evidence.body.auth
  BY <1>4, <1>7, <1>8 DEF GrantsFor
<1> DEFINE journal == entries[k].journal
<1>10. PICK at \in 1..Len(journal) : journal[at] = row.evidence.body
  <2> DEFINE auth == home.evidence.key
  <2>1. journal = InOrder(numbers, EventsOf(table, auth)) /\ row.evidence.body.auth = auth
    BY <1>7, <1>9
  <2> HIDE DEF journal, auth
  <2>2. Complete(journal, table, auth)
    BY <2>1, JournalLists
  <2> QED
    BY <2>1, <2>2 DEF Complete
<1>11. \A j \in 1..Len(journal) : journal[j].corrects # row.evidence.body.id
  <2> DEFINE Bodies == BodiesOf(table, home.evidence.key)
  <2>1. journal \in Seq(Bodies)
    BY <1>7, JournalLists
  <2>2. \A e \in Bodies : \E other \in table : IsEvent(other.evidence) /\ other.evidence.body = e
    BY DEF BodiesOf, EventsOf, RowsOf, IsEvent
  <2> HIDE DEF Bodies, journal
  <2> QED
    BY <2>1, <2>2
<1>12. InEffect(journal, at, now)
  BY <1>10, <1>11 DEF InEffect
<1>13. NoneAuthorizes(grants, now)
  BY <1>4, <1>7, <1>12 DEF RevocationsHold
<1> QED
  BY <1>8, <1>13 DEF NoneAuthorizes

\* Times read off the clock are integers.
Timely ==
  /\ clock \in Nat
  /\ \A r \in Readers : /\ load[r].observedAt \in Int
                        /\ resolver[r] # Null => resolver[r].through \in Int

LEMMA NextTimely ==
  ASSUME Inv, Timely, [Next]_vars
  PROVE  Timely'
<1>1. clock' \in Nat
  <2>1. clock' = clock \/ clock' = clock + 1
    BY DEF Next, CallStep, LoseCall, RefuseCall, Rollback, BeginCall, AllocatePosition,
           LockAuthorization, InsertEvidence, CommitCall, ReadStep, ReadBoundary, ObserveTime,
           AssembleSnapshot, Tick, vars
  <2> QED
    BY <2>1 DEF Timely
<1> SUFFICES ASSUME NEW r \in Readers
             PROVE  /\ load'[r].observedAt \in Int
                    /\ resolver'[r] # Null => resolver'[r].through \in Int
  BY <1>1 DEF Timely
<1>2. /\ load = [q \in Readers |-> [step |-> load[q].step, observedAt |-> load[q].observedAt]]
      /\ resolver = [q \in Readers |-> resolver[q]]
  BY DEF Inv, RepositoryInv, Shapes, LoadsShaped
<1>3. load'[r].observedAt \in Int
  <2>1. \/ load' = load
        \/ \E q \in Readers : ReadStep(q)
    BY DEF Next, CallStep, LoseCall, RefuseCall, Rollback, BeginCall, AllocatePosition,
           LockAuthorization, InsertEvidence, CommitCall, Tick, vars, readState
  <2>2. ASSUME NEW q \in Readers, ReadBoundary(q) \/ AssembleSnapshot(q)
        PROVE  load'[r].observedAt = load[r].observedAt
    BY <1>2, <2>2 DEF ReadBoundary, AssembleSnapshot
  <2>3. ASSUME NEW q \in Readers, ObserveTime(q)
        PROVE  load'[r].observedAt \in {load[r].observedAt, clock - (clock % Microsecond)}
    BY <1>2, <2>3 DEF ObserveTime
  <2>4. clock - (clock % Microsecond) \in Int
    BY MicrosecondAssumption DEF Timely
  <2> QED
    BY <2>1, <2>2, <2>3, <2>4 DEF ReadStep, Timely
<1>4. resolver'[r] # Null => resolver'[r].through \in Int
  <2>1. CASE resolver'[r] = resolver[r]
    BY <2>1 DEF Timely
  <2>2. CASE resolver'[r] # resolver[r]
    <3>1. AssembleSnapshot(r) /\ Loads(snapshot[r], load[r].observedAt)
      BY <2>2, AssemblyResolves
    <3>2. resolver'[r].through = load[r].observedAt
      BY <1>2, <3>1 DEF AssembleSnapshot
    <3> QED
      BY <3>2 DEF Timely
  <2> QED
    BY <2>1, <2>2
<1> QED
  BY <1>3, <1>4

LEMMA StoredNumbered ==
  ASSUME Inv, NEW position
  PROVE  Numbered(sequence, UpTo(rows, position))
<1> DEFINE table == UpTo(rows, position)
<1>1. \A row \in table : row \in rows /\ row.evidence \in Evidence /\ row.position # Null
  BY EvidenceStored DEF UpTo, Inv
<1>2. \A row \in table : sequence[row.evidence] \in Nat
  BY <1>1 DEF Inv, RepositoryInv, Shapes
<1>3. ASSUME NEW a \in table, NEW b \in table, IsEvent(a.evidence), IsEvent(b.evidence),
             sequence[a.evidence] = sequence[b.evidence]
      PROVE  a.evidence = b.evidence
  <2>1. a \in PositionedEvents(rows) /\ b \in PositionedEvents(rows)
    BY <1>1, <1>3 DEF PositionedEvents
  <2>2. a.position \in Nat /\ b.position \in Nat
    BY <1>1, DatabaseFacts DEF Inv
  <2>3. ~(a.position < b.position) /\ ~(b.position < a.position)
    BY <1>2, <1>3, <2>1 DEF Inv, RepositoryInv, Ordered
  <2>4. a.position = b.position
    BY <2>2, <2>3
  <2> QED
    BY <1>1, <1>3, <2>4 DEF Inv, DatabaseInv, Facts!KeysUnique, Facts!Clash, IsEvent
<1> QED
  BY <1>1, <1>2, <1>3 DEF Numbered

\* A recorded revocation reaches every resolver loaded at its position or later: whatever
\* else was recorded, by whichever calls and in whatever order, none of the authorization's
\* grants authorizes a verification from the instant it took effect on.
THEOREM RevocationAlwaysReaches == Spec => []RevocationReachesResolvers
<1>1. Init => Timely
  BY MicrosecondAssumption DEF Init, Timely
<1>2. Inv /\ Timely /\ [Next]_vars => Timely'
  BY NextTimely
<1>3. Init => Reproducible
  BY DEF Init, Reproducible
<1>4. Inv /\ Reproducible /\ [Next]_vars => Reproducible'
  BY NextReproducible
<1>5. Inv /\ Timely /\ Reproducible => RevocationReachesResolvers
  <2> SUFFICES ASSUME Inv, Timely, Reproducible,
                      NEW r \in Readers, NEW row \in rows, resolver[r] # Null,
                      Revokes(row, resolver[r].position),
                      NEW now \in row.evidence.body.effectiveAt..(MaxClock + Microsecond),
                      NEW i \in DOMAIN resolver[r].grants,
                      resolver[r].grants[i].auth = row.evidence.body.auth,
                      GrantCurrent(resolver[r].grants[i], now)
               PROVE  resolver[r].grants[i].state = "inactive"
    BY DEF RevocationReachesResolvers
  <2> DEFINE found == resolver[r]
             table == UpTo(rows, found.position)
  <2>1. ResolvesFrom(sequence, table, found)
    BY DEF Reproducible
  <2>2. Numbered(sequence, table)
    BY StoredNumbered
  <2>3. found.through \in Nat
    <3>1. NewSnapshotAuthorityResolver(CandidateIn(sequence, table, found.through)).ok
      BY <2>1 DEF ResolvesFrom
    <3>2. found.through > 0
      BY <3>1 DEF NewSnapshotAuthorityResolver, CandidateIn, Canonical
    <3>3. found.through \in Int
      BY DEF Timely
    <3> QED
      BY <3>2, <3>3
  <2>4. /\ row \in table /\ IsEvent(row.evidence)
        /\ row.evidence.body.type = "REVOKE" /\ ~IsCorrection(row.evidence.body)
        /\ \A other \in table :
             IsEvent(other.evidence) => other.evidence.body.corrects # row.evidence.body.id
    BY DEF Revokes, UpTo, IsEvent
  <2>5. row.evidence.body.effectiveAt \in Nat
    BY <2>4, EvidenceStored, RepositoryAssumption DEF Inv, IsEvent, EventShaped
  <2>6. now \in Nat /\ row.evidence.body.effectiveAt <= now
    BY <2>5, RepositoryAssumption, MicrosecondAssumption
  <2> HIDE DEF found, table
  <2>7. i \in DOMAIN found.grants /\ found.grants[i].auth = row.evidence.body.auth
        /\ GrantCurrent(found.grants[i], now)
    BY DEF found
  <2>8. found.grants[i].state = "inactive"
    BY <2>1, <2>2, <2>3, <2>4, <2>6, <2>7, RevocationReaches
  <2> QED
    BY <2>8 DEF found
<1> QED
  BY <1>1, <1>2, <1>3, <1>4, <1>5, InvHolds, PTL DEF Spec

=============================================================================
