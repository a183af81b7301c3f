----------------------- MODULE AuthorityRecording_proofs -----------------------
(***************************************************************************)
(* The recording protocol's invariants, for any transactions, readers and  *)
(* evidence.  The inductive invariant says three things beyond TypeOK: a   *)
(* transaction that has written the boundary holds its lock and has drawn  *)
(* every position up to its own (Drawn), a transaction that has allocated  *)
(* nothing is not the recorded owner (Owner), and the committed sequence   *)
(* is complete (RecordingSequenceComplete).                                *)
(***************************************************************************)
EXTENDS AuthorityRecording, Sequences, TLAPS

\* A transaction that drew positions holds the boundary row, so that nobody moves
\* the boundary under it.
Drawn ==
  \A t \in Tx :
    /\ own[t] # Null => /\ boundaryLock = t
                        /\ own[t] > committedPosition
                        /\ allocated[t] = (committedPosition + 1)..own[t]
    /\ own[t] = Null => allocated[t] = {}

\* Transaction ids are used once: an open transaction is not the recorded owner.
Owner ==
  /\ \A t \in Tx : allocatingXid = t => status[t] = "committed"
  /\ \A t \in Tx : boundaryLock = t => status[t] = "open"

IInv == TypeOK /\ Drawn /\ Owner /\ RecordingSequenceComplete

-----------------------------------------------------------------------------

LEMMA InitIInv == Init => IInv
<1> SUFFICES ASSUME Init PROVE IInv
  OBVIOUS
<1> USE RecordingAssumption
<1>1. TypeOK
  BY DEF Init, TypeOK, Row, Positions
<1>2. Drawn
  BY DEF Init, Drawn
<1>3. Owner
  BY DEF Init, Owner
<1>4. RecordingSequenceComplete
  BY DEF Init, RecordingSequenceComplete, SequenceComplete
<1> QED
  BY <1>1, <1>2, <1>3, <1>4 DEF IInv

\* A step that leaves the committed database alone keeps the sequence complete.
LEMMA SequenceUnchanged ==
  ASSUME RecordingSequenceComplete, UNCHANGED <<committedPosition, rows>>
  PROVE  RecordingSequenceComplete'
  BY DEF RecordingSequenceComplete, SequenceComplete, IdentifiesExactlyOne

\* A commit that passes the deferred triggers adds nothing, or exactly the one row
\* at the position after the boundary.
LEMMA CommitAddsNextRow ==
  ASSUME IInv, NEW t \in Tx, status[t] = "open",
         EvidenceGuard(t), AllocationGuard(t)
  PROVE  \/ /\ own[t] = Null
            /\ inserted[t] = {}
         \/ /\ own[t] = committedPosition + 1
            /\ \E row \in inserted[t] : /\ row.position = committedPosition + 1
                                        /\ inserted[t] = {row}
<1> USE RecordingAssumption
<1>1. CASE own[t] = Null
  <2>1. VisibleXid(t) # t
    BY <1>1 DEF IInv, Owner, TypeOK, VisibleXid
  <2>2. inserted[t] = {}
    BY <2>1 DEF EvidenceGuard
  <2> QED
    BY <1>1, <2>2
<1>2. CASE own[t] # Null
  <2> DEFINE next == committedPosition + 1
  <2>1. /\ own[t] \in Nat /\ committedPosition \in Nat
        /\ own[t] >= next
        /\ allocated[t] = next..own[t]
    BY <1>2 DEF IInv, TypeOK, Drawn, Positions
  <2>2. next \in allocated[t]
    BY <2>1
  <2>3. PICK row \in Visible(t) : {r \in Visible(t) : r.position = next} = {row}
    BY <2>2 DEF AllocationGuard, IdentifiesExactlyOne
  <2>4. row.position = next
    BY <2>3
  <2>5. next # Null /\ ~(next <= committedPosition)
    BY <2>1
  <2>6. row \notin rows
    BY <2>4, <2>5 DEF IInv, RecordingSequenceComplete, SequenceComplete
  <2>7. row \in inserted[t]
    BY <2>6 DEF Visible
  <2>8. \A r \in inserted[t] : r.position = own[t]
    BY <1>2 DEF EvidenceGuard, VisiblePosition
  <2>9. own[t] = next
    BY <2>4, <2>7, <2>8
  <2>10. inserted[t] = {row}
    BY <2>3, <2>7, <2>8, <2>9 DEF Visible
  <2> QED
    BY <2>4, <2>7, <2>9, <2>10
<1> QED
  BY <1>1, <1>2

LEMMA NextIInv == IInv /\ [Next]_vars => IInv'
<1> SUFFICES ASSUME IInv, [Next]_vars PROVE IInv'
  OBVIOUS
<1> USE RecordingAssumption
<1>1. ASSUME NEW t \in Tx, Begin(t) PROVE IInv'
  <2>1. TypeOK'
    BY <1>1 DEF IInv, TypeOK, Begin, database
  <2>2. Drawn'
    BY <1>1 DEF IInv, Drawn, Begin, database
  <2>3. Owner'
    BY <1>1 DEF IInv, Owner, TypeOK, Begin, database
  <2>4. RecordingSequenceComplete'
    BY <1>1, SequenceUnchanged DEF IInv, Begin, database
  <2> QED
    BY <2>1, <2>2, <2>3, <2>4 DEF IInv
<1>2. ASSUME NEW t \in Tx, Allocate(t) PROVE IInv'
  <2>1. /\ committedPosition \in Nat
        /\ VisiblePosition(t) \in Nat
        /\ VisiblePosition(t) >= committedPosition
        /\ VisiblePosition(t) + 1 \in Positions
    BY DEF IInv, TypeOK, Drawn, VisiblePosition, Positions
  <2>2. TypeOK'
    BY <1>2, <2>1 DEF IInv, TypeOK, Allocate, database
  <2>3. Drawn'
    <3> SUFFICES ASSUME NEW u \in Tx
                 PROVE  /\ own'[u] # Null =>
                             /\ boundaryLock' = u
                             /\ own'[u] > committedPosition'
                             /\ allocated'[u] = (committedPosition' + 1)..own'[u]
                        /\ own'[u] = Null => allocated'[u] = {}
      BY DEF Drawn
    <3>1. CASE u = t
      <4>1. /\ own'[u] = VisiblePosition(t) + 1
            /\ allocated'[u] = allocated[t] \cup {VisiblePosition(t) + 1}
            /\ boundaryLock' = u
            /\ committedPosition' = committedPosition
        BY <1>2, <3>1 DEF IInv, TypeOK, Allocate, database
      <4>2. allocated[t] = (committedPosition + 1)..VisiblePosition(t)
        <5>1. CASE own[t] = Null
          <6>1. allocated[t] = {} /\ VisiblePosition(t) = committedPosition
            BY <5>1 DEF IInv, Drawn, VisiblePosition
          <6> QED
            BY <6>1, <2>1
        <5>2. CASE own[t] # Null
          BY <5>2 DEF IInv, Drawn, VisiblePosition
        <5> QED
          BY <5>1, <5>2
      <4>3. allocated'[u] = (committedPosition' + 1)..own'[u]
        BY <4>1, <4>2, <2>1
      <4> QED
        BY <4>1, <4>3, <2>1
    <3>2. CASE u # t
      <4>1. own[u] = Null
        BY <1>2, <3>2 DEF IInv, Drawn, Allocate
      <4> QED
        BY <4>1, <1>2, <3>2 DEF IInv, TypeOK, Drawn, Allocate
    <3> QED
      BY <3>1, <3>2
  <2>4. Owner'
    BY <1>2 DEF IInv, Owner, TypeOK, Allocate, database
  <2>5. RecordingSequenceComplete'
    BY <1>2, SequenceUnchanged DEF IInv, Allocate, database
  <2> QED
    BY <2>2, <2>3, <2>4, <2>5 DEF IInv
<1>3. ASSUME NEW t \in Tx, NEW e \in Evidence, NEW position \in 1..MaxPosition \cup {Null},
             Insert(t, [evidence |-> e, position |-> position])
      PROVE  IInv'
  <2>1. [evidence |-> e, position |-> position] \in Row
    BY DEF Row, Positions
  <2>2. TypeOK'
    BY <1>3, <2>1 DEF IInv, TypeOK, Insert, database
  <2>3. Drawn'
    BY <1>3 DEF IInv, Drawn, Insert, database
  <2>4. Owner'
    BY <1>3 DEF IInv, Owner, Insert, database
  <2>5. RecordingSequenceComplete'
    BY <1>3, SequenceUnchanged DEF IInv, Insert, database
  <2> QED
    BY <2>2, <2>3, <2>4, <2>5 DEF IInv
<1>4. ASSUME NEW t \in Tx, Commit(t) PROVE IInv'
  <2>1. \/ own[t] = Null /\ inserted[t] = {}
        \/ /\ own[t] = committedPosition + 1
           /\ \E row \in inserted[t] : /\ row.position = committedPosition + 1
                                       /\ inserted[t] = {row}
    BY <1>4, CommitAddsNextRow DEF Commit
  <2>2. TypeOK'
    BY <1>4 DEF IInv, TypeOK, Commit, Release, Visible, VisiblePosition, VisibleXid, Positions
  <2>3. Drawn'
    <3>1. own[t] = Null => committedPosition' = committedPosition
      BY <1>4 DEF Commit, VisiblePosition
    <3>2. \A u \in Tx : (u # t /\ own[t] # Null) => own[u] = Null
      BY DEF IInv, Drawn
    <3> QED
      BY <1>4, <3>1, <3>2 DEF IInv, TypeOK, Drawn, Commit, Release
  <2>4. Owner'
    BY <1>4 DEF IInv, TypeOK, Owner, Commit, Release, VisibleXid
  <2>5. RecordingSequenceComplete'
    <3>1. CASE own[t] = Null /\ inserted[t] = {}
      <4>1. UNCHANGED <<committedPosition, rows>>
        BY <1>4, <3>1 DEF Commit, VisiblePosition, Visible
      <4> QED
        BY <4>1, SequenceUnchanged DEF IInv
    <3>2. ASSUME own[t] = committedPosition + 1,
                 NEW row \in inserted[t],
                 row.position = committedPosition + 1,
                 inserted[t] = {row}
          PROVE  RecordingSequenceComplete'
      <4>1. /\ committedPosition' = committedPosition + 1
            /\ rows' = rows \cup {row}
            /\ committedPosition \in Nat
        BY <1>4, <3>2 DEF IInv, TypeOK, Commit, VisiblePosition, Visible
      <4>2. IdentifiesExactlyOne(committedPosition + 1, rows')
        <5>1. \A r \in rows : r.position # committedPosition + 1
          BY <4>1 DEF IInv, RecordingSequenceComplete, SequenceComplete
        <5>2. {r \in rows' : r.position = committedPosition + 1} = {row}
          BY <4>1, <5>1, <3>2
        <5> QED
          BY <5>2, <4>1 DEF IdentifiesExactlyOne
      <4>3. ASSUME NEW p \in 1..committedPosition
            PROVE  IdentifiesExactlyOne(p, rows')
        <5>1. PICK r \in rows : {x \in rows : x.position = p} = {r}
          BY DEF IInv, RecordingSequenceComplete, SequenceComplete, IdentifiesExactlyOne
        <5>2. row.position # p
          BY <3>2, <4>1
        <5>3. {x \in rows' : x.position = p} = {r}
          BY <4>1, <5>1, <5>2
        <5> QED
          BY <4>1, <5>3 DEF IdentifiesExactlyOne
      <4>4. \A r \in rows' : IF r.position = Null THEN r.evidence \in Legacy
                             ELSE r.position <= committedPosition'
        <5>1. \A r \in rows : r.position # Null => r.position \in Nat
          BY DEF IInv, TypeOK, Row, Positions
        <5> QED
          BY <3>2, <4>1, <5>1 DEF IInv, RecordingSequenceComplete, SequenceComplete
      <4>5. \A p \in 1..committedPosition' : IdentifiesExactlyOne(p, rows')
        <5> SUFFICES ASSUME NEW p \in 1..committedPosition' PROVE IdentifiesExactlyOne(p, rows')
          OBVIOUS
        <5>1. CASE p \in 1..committedPosition
          BY <4>3, <5>1
        <5>2. CASE p = committedPosition + 1
          BY <4>2, <5>2
        <5> QED
          BY <4>1, <5>1, <5>2
      <4>6. SequenceComplete(committedPosition', rows')
        BY <4>4, <4>5 DEF SequenceComplete
      <4> QED
        BY <4>6 DEF RecordingSequenceComplete, SequenceComplete, IdentifiesExactlyOne
    <3> QED
      BY <2>1, <3>1, <3>2
  <2> QED
    BY <2>2, <2>3, <2>4, <2>5 DEF IInv
<1>5. ASSUME NEW t \in Tx, Abort(t) PROVE IInv'
  <2>1. TypeOK'
    BY <1>5 DEF IInv, TypeOK, Abort, Release, database
  <2>2. Drawn'
    BY <1>5 DEF IInv, TypeOK, Drawn, Abort, Release, database
  <2>3. Owner'
    BY <1>5 DEF IInv, TypeOK, Owner, Abort, Release, database
  <2>4. RecordingSequenceComplete'
    BY <1>5, SequenceUnchanged DEF IInv, Abort, database
  <2> QED
    BY <2>1, <2>2, <2>3, <2>4 DEF IInv
<1>6. ASSUME NEW r \in Readers, TakeSnapshot(r) PROVE IInv'
  <2>1. TypeOK'
    BY <1>6 DEF IInv, TypeOK, TakeSnapshot, Snapshots, database, transactions
  <2>2. Drawn' /\ Owner'
    BY <1>6 DEF IInv, Drawn, Owner, TakeSnapshot, database, transactions
  <2>3. RecordingSequenceComplete'
    BY <1>6, SequenceUnchanged DEF IInv, TakeSnapshot, database
  <2> QED
    BY <2>1, <2>2, <2>3 DEF IInv
<1>7. CASE UNCHANGED vars
  <2>1. RecordingSequenceComplete'
    BY <1>7, SequenceUnchanged DEF IInv, vars, database
  <2>2. TypeOK' /\ Drawn' /\ Owner'
    BY <1>7 DEF IInv, TypeOK, Drawn, Owner, vars, database, transactions
  <2> QED
    BY <2>1, <2>2 DEF IInv
<1> QED
  BY <1>1, <1>2, <1>3, <1>4, <1>5, <1>6, <1>7 DEF Next

\* Every reachable state of the recording protocol satisfies the invariant.
THEOREM Invariance == Spec => []IInv
  BY InitIInv, NextIInv, PTL DEF Spec

\* Type correctness of the recording protocol.
THEOREM TypeCorrect == Spec => []TypeOK
<1>1. IInv => TypeOK
  BY DEF IInv
<1> QED
  BY <1>1, Invariance, PTL

\* The committed evidence occupies the positions 1 to the boundary exactly once,
\* whatever statements however many transactions issue.
THEOREM SequenceAlwaysComplete == Spec => []RecordingSequenceComplete
<1>1. IInv => RecordingSequenceComplete
  BY DEF IInv
<1> QED
  BY <1>1, Invariance, PTL

-----------------------------------------------------------------------------
(* Committed evidence only grows                                            *)

\* A commit appends nothing or the one next row.
LEMMA StepAppends ==
  ASSUME IInv, [Next]_vars
  PROVE  \/ UNCHANGED <<committedPosition, rows>>
         \/ /\ committedPosition' = committedPosition + 1
            /\ \E row : /\ rows' = rows \cup {row}
                        /\ row.position = committedPosition + 1
                        /\ row \notin rows
<1> USE RecordingAssumption
<1>1. ASSUME NEW t \in Tx, Commit(t)
      PROVE  \/ UNCHANGED <<committedPosition, rows>>
             \/ /\ committedPosition' = committedPosition + 1
                /\ \E row : /\ rows' = rows \cup {row}
                            /\ row.position = committedPosition + 1
                            /\ row \notin rows
  <2>1. CASE own[t] = Null /\ inserted[t] = {}
    BY <1>1, <2>1 DEF Commit, VisiblePosition, Visible
  <2>2. ASSUME own[t] = committedPosition + 1,
               NEW row \in inserted[t],
               row.position = committedPosition + 1,
               inserted[t] = {row}
        PROVE  /\ committedPosition' = committedPosition + 1
               /\ rows' = rows \cup {row}
               /\ row \notin rows
    <3>1. committedPosition \in Nat
      BY DEF IInv, TypeOK
    <3>2. row \notin rows
      BY <2>2, <3>1 DEF IInv, RecordingSequenceComplete, SequenceComplete
    <3> QED
      BY <1>1, <2>2, <3>1, <3>2 DEF Commit, VisiblePosition, Visible
  <2>3. \/ own[t] = Null /\ inserted[t] = {}
        \/ /\ own[t] = committedPosition + 1
           /\ \E row \in inserted[t] : /\ row.position = committedPosition + 1
                                       /\ inserted[t] = {row}
    BY <1>1, CommitAddsNextRow DEF Commit
  <2> QED
    BY <2>1, <2>2, <2>3
<1>2. ASSUME NEW t \in Tx, Begin(t) \/ Allocate(t) \/ Abort(t)
      PROVE  UNCHANGED <<committedPosition, rows>>
  BY <1>2 DEF Begin, Allocate, Abort, database
<1>3. ASSUME NEW t \in Tx, NEW row, Insert(t, row)
      PROVE  UNCHANGED <<committedPosition, rows>>
  BY <1>3 DEF Insert, database
<1>4. ASSUME NEW r \in Readers, TakeSnapshot(r)
      PROVE  UNCHANGED <<committedPosition, rows>>
  BY <1>4 DEF TakeSnapshot, database
<1>5. CASE UNCHANGED vars
  BY <1>5 DEF vars, database
<1> QED
  BY <1>1, <1>2, <1>3, <1>4, <1>5 DEF Next

\* Committed evidence is never changed or removed, and the boundary never moves
\* without exactly one new row.
THEOREM AlwaysAppendOnly == Spec => EvidenceAppendOnly
<1> DEFINE Appends ==
      /\ rows \subseteq rows'
      /\ committedPosition' # committedPosition =>
           /\ committedPosition' = committedPosition + 1
           /\ \E row \in rows' : rows' = rows \cup {row} /\ row \notin rows
<1>1. IInv /\ [Next]_vars => [Appends]_vars
  <2> SUFFICES ASSUME IInv, [Next]_vars PROVE Appends
    OBVIOUS
  <2> QED
    BY StepAppends
<1>2. Spec => [][Appends]_vars
  BY <1>1, Invariance, PTL DEF Spec
<1> QED
  BY <1>2 DEF EvidenceAppendOnly

-----------------------------------------------------------------------------
(* What snapshots see                                                       *)

\* A snapshot is the part of the committed evidence at or below its position.
SnapshotsCurrent ==
  \A r \in Readers : snapshot[r] # Null =>
    /\ snapshot[r].position <= committedPosition
    /\ snapshot[r].rows = {row \in rows : \/ row.position = Null
                                          \/ row.position <= snapshot[r].position}

LEMMA InitSnapshots == Init => SnapshotsCurrent
  BY DEF Init, SnapshotsCurrent

LEMMA NextSnapshots ==
  ASSUME IInv, SnapshotsCurrent, [Next]_vars
  PROVE  SnapshotsCurrent'
<1> USE RecordingAssumption
<1> SUFFICES ASSUME NEW r \in Readers, snapshot'[r] # Null
             PROVE  /\ snapshot'[r].position <= committedPosition'
                    /\ snapshot'[r].rows =
                         {row \in rows' : \/ row.position = Null
                                         \/ row.position <= snapshot'[r].position}
  BY DEF SnapshotsCurrent
<1>0. /\ committedPosition \in Nat
      /\ \A row \in rows : row.position # Null => row.position \in Nat
      /\ \A row \in rows : row.position # Null => row.position <= committedPosition
      /\ snapshot[r] # Null => snapshot[r].position \in Nat
  BY DEF IInv, TypeOK, Row, Positions, Snapshots, RecordingSequenceComplete, SequenceComplete
<1>1. CASE \E q \in Readers : TakeSnapshot(q)
  <2>1. PICK q \in Readers : TakeSnapshot(q)
    BY <1>1
  <2>2. UNCHANGED <<committedPosition, rows>>
    BY <2>1 DEF TakeSnapshot, database
  <2>3. CASE q = r
    <3>1. snapshot'[r] = [position |-> committedPosition, rows |-> rows]
      BY <2>1, <2>3 DEF IInv, TypeOK, TakeSnapshot
    <3>2. rows = {row \in rows : row.position = Null \/ row.position <= committedPosition}
      BY <1>0
    <3> QED
      BY <1>0, <2>2, <3>1, <3>2
  <2>4. CASE q # r
    <3>1. snapshot'[r] = snapshot[r]
      BY <2>1, <2>4 DEF IInv, TypeOK, TakeSnapshot
    <3> QED
      BY <2>2, <3>1 DEF SnapshotsCurrent
  <2> QED
    BY <2>3, <2>4
<1>2. CASE ~\E q \in Readers : TakeSnapshot(q)
  <2>1. snapshot' = snapshot
    BY <1>2 DEF Next, Begin, Allocate, Insert, Commit, Abort, vars
  <2>2. CASE UNCHANGED <<committedPosition, rows>>
    BY <2>1, <2>2 DEF SnapshotsCurrent
  <2>3. CASE /\ committedPosition' = committedPosition + 1
             /\ \E row : /\ rows' = rows \cup {row}
                         /\ row.position = committedPosition + 1
                         /\ row \notin rows
    <3>1. PICK new : /\ rows' = rows \cup {new}
                     /\ new.position = committedPosition + 1
      BY <2>3
    <3>2. /\ snapshot[r].position \in Nat
          /\ snapshot[r].position <= committedPosition
          /\ snapshot[r].rows = {row \in rows : \/ row.position = Null
                                                \/ row.position <= snapshot[r].position}
      BY <1>0, <2>1 DEF SnapshotsCurrent
    <3>3. new.position # Null /\ ~(new.position <= snapshot[r].position)
      BY <1>0, <3>1, <3>2
    <3>4. {row \in rows' : row.position = Null \/ row.position <= snapshot[r].position}
            = {row \in rows : row.position = Null \/ row.position <= snapshot[r].position}
      BY <3>1, <3>3
    <3> QED
      BY <1>0, <2>1, <2>3, <3>2, <3>4
  <2> QED
    BY <2>2, <2>3, StepAppends
<1> QED
  BY <1>1, <1>2

\* Every snapshot is the part of the committed evidence below its position.
THEOREM SnapshotsAlwaysCurrent == Spec => []SnapshotsCurrent
<1>1. IInv /\ SnapshotsCurrent /\ [Next]_vars => SnapshotsCurrent'
  BY NextSnapshots
<1> QED
  BY <1>1, InitSnapshots, Invariance, PTL DEF Spec

\* Of two snapshots the lower is exactly the other one's evidence up to its
\* position, for any number of readers and writers.
THEOREM SnapshotsAlwaysPrefixes == Spec => []SnapshotsArePrefixes
<1>1. IInv /\ SnapshotsCurrent => SnapshotsArePrefixes
  <2> SUFFICES ASSUME IInv, SnapshotsCurrent, NEW q \in Readers, NEW r \in Readers,
                      snapshot[q] # Null, snapshot[r] # Null,
                      snapshot[q].position <= snapshot[r].position
               PROVE  snapshot[q].rows =
                        {row \in snapshot[r].rows : \/ row.position = Null
                                                   \/ row.position <= snapshot[q].position}
    BY DEF SnapshotsArePrefixes
  <2>1. /\ snapshot[q].position \in Nat /\ snapshot[r].position \in Nat
        /\ \A row \in rows : row.position # Null => row.position \in Nat
    BY RecordingAssumption DEF IInv, TypeOK, Row, Positions, Snapshots
  <2>2. /\ snapshot[q].rows = {row \in rows : \/ row.position = Null
                                              \/ row.position <= snapshot[q].position}
        /\ snapshot[r].rows = {row \in rows : \/ row.position = Null
                                              \/ row.position <= snapshot[r].position}
    BY DEF SnapshotsCurrent
  <2>3. \A row \in rows : row.position # Null /\ row.position <= snapshot[q].position
                           => row.position <= snapshot[r].position
    BY <2>1
  <2> QED
    BY <2>2, <2>3
<1> QED
  BY <1>1, Invariance, SnapshotsAlwaysCurrent, PTL

\* Where no legacy evidence is stored, the completeness that
\* LoadAuthoritativeSnapshot validates holds of every snapshot a reader can take.
THEOREM SnapshotsAlwaysComplete == Spec => []SnapshotsComplete
<1>1. IInv /\ SnapshotsCurrent => SnapshotsComplete
  <2> SUFFICES ASSUME IInv, SnapshotsCurrent, Legacy = {},
                      NEW r \in Readers, snapshot[r] # Null
               PROVE  /\ SequenceComplete(snapshot[r].position, snapshot[r].rows)
                      /\ \A row \in snapshot[r].rows : row.position # Null
    BY DEF SnapshotsComplete
  <2> DEFINE position == snapshot[r].position
             seen == snapshot[r].rows
  <2>1. /\ position \in Nat /\ committedPosition \in Nat /\ position <= committedPosition
        /\ seen = {row \in rows : row.position = Null \/ row.position <= position}
        /\ \A row \in rows : row.position # Null
    BY RecordingAssumption
    DEF IInv, TypeOK, Snapshots, SnapshotsCurrent, RecordingSequenceComplete, SequenceComplete
  <2>2. ASSUME NEW p \in 1..position PROVE IdentifiesExactlyOne(p, seen)
    <3>1. PICK row \in rows : {x \in rows : x.position = p} = {row}
      BY <2>1 DEF IInv, RecordingSequenceComplete, SequenceComplete, IdentifiesExactlyOne
    <3>2. {x \in seen : x.position = p} = {row}
      BY <2>1, <3>1
    <3> QED
      BY <3>2 DEF IdentifiesExactlyOne
  <2> QED
    BY <2>1, <2>2 DEF SequenceComplete
<1> QED
  BY <1>1, Invariance, SnapshotsAlwaysCurrent, PTL

\* A reader's next snapshot contains everything any reader has seen.
THEOREM SnapshotsAlwaysAdvance == Spec => SnapshotsAdvance
<1> USE RecordingAssumption
<1> DEFINE Advances ==
      \A q, r \in Readers :
        (snapshot[q] # Null /\ snapshot'[r] # snapshot[r]) =>
          /\ snapshot[q].position <= snapshot'[r].position
          /\ snapshot[q].rows \subseteq snapshot'[r].rows
<1>1. IInv /\ SnapshotsCurrent /\ [Next]_vars => [Advances]_vars
  <2> SUFFICES ASSUME IInv, SnapshotsCurrent, [Next]_vars,
                      NEW q \in Readers, NEW r \in Readers,
                      snapshot[q] # Null, snapshot'[r] # snapshot[r]
               PROVE  /\ snapshot[q].position <= snapshot'[r].position
                      /\ snapshot[q].rows \subseteq snapshot'[r].rows
    OBVIOUS
  <2>1. PICK p \in Readers : TakeSnapshot(p)
    BY DEF Next, Begin, Allocate, Insert, Commit, Abort, vars
  <2>2. snapshot'[r] = [position |-> committedPosition, rows |-> rows]
    BY <2>1 DEF IInv, TypeOK, TakeSnapshot
  <2>3. /\ snapshot[q].position <= committedPosition
        /\ snapshot[q].rows \subseteq rows
    BY DEF SnapshotsCurrent
  <2> QED
    BY <2>2, <2>3
<1>2. Spec => [][Advances]_vars
  BY <1>1, Invariance, SnapshotsAlwaysCurrent, PTL DEF Spec
<1> QED
  BY <1>2 DEF SnapshotsAdvance

-----------------------------------------------------------------------------
(* Keys                                                                     *)

\* All rows there are, committed or inserted by an open transaction.
Everything == rows \cup UNION {inserted[t] : t \in Tx}

LEMMA InitKeys == Init => KeysUnique
<1> USE RecordingAssumption
<1> SUFFICES ASSUME Init, NEW a \in Everything, NEW b \in Everything, a # b
             PROVE  ~Clash(a, b)
  BY DEF KeysUnique, Everything
<1>1. /\ a.evidence \in Legacy /\ b.evidence \in Legacy
      /\ a = [evidence |-> a.evidence, position |-> Null]
      /\ b = [evidence |-> b.evidence, position |-> Null]
  BY DEF Init, Everything
<1> QED
  BY <1>1 DEF Clash

\* Only an insert adds a row, and it looks at every other one first.
LEMMA NextKeys ==
  ASSUME IInv, KeysUnique, [Next]_vars
  PROVE  KeysUnique'
<1>1. ASSUME NEW t \in Tx, NEW row, Insert(t, row)
      PROVE  KeysUnique'
  <2>1. Everything' = Everything \cup {row}
    BY <1>1 DEF Insert, IInv, TypeOK, Everything, database
  <2>2. \A r \in Everything : ~Clash(r, row) /\ ~Clash(row, r)
    BY <1>1 DEF Insert, Everything, Clash
  <2> QED
    BY <2>1, <2>2 DEF KeysUnique, Everything, Clash
<1>2. ASSUME Everything' \subseteq Everything
      PROVE  KeysUnique'
  BY <1>2 DEF KeysUnique, Everything, Clash
<1>3. ASSUME NEW t \in Tx, Begin(t) \/ Allocate(t)
      PROVE  Everything' \subseteq Everything
  BY <1>3 DEF Begin, Allocate, Everything, database
<1>4. ASSUME NEW t \in Tx, Commit(t)
      PROVE  Everything' \subseteq Everything
  <2>1. rows' \subseteq Everything
    BY <1>4 DEF Commit, Visible, Everything
  <2>2. \A u \in Tx : inserted'[u] \subseteq inserted[u]
    BY <1>4 DEF IInv, TypeOK, Commit, Release
  <2> QED
    BY <2>1, <2>2 DEF Everything
<1>5. ASSUME NEW t \in Tx, Abort(t)
      PROVE  Everything' \subseteq Everything
  <2>1. \A u \in Tx : inserted'[u] \subseteq inserted[u]
    BY <1>5 DEF IInv, TypeOK, Abort, Release
  <2> QED
    BY <1>5, <2>1 DEF Everything, Abort, database
<1>6. ASSUME NEW r \in Readers, TakeSnapshot(r)
      PROVE  Everything' \subseteq Everything
  BY <1>6 DEF TakeSnapshot, Everything, database, transactions
<1>7. CASE UNCHANGED vars
  BY <1>7 DEF KeysUnique, Clash, vars, database, transactions
<1> QED
  BY <1>1, <1>2, <1>3, <1>4, <1>5, <1>6, <1>7 DEF Next

\* No two rows share a primary key, nor a position within a table.
THEOREM KeysAlwaysUnique == Spec => []KeysUnique
<1>1. IInv /\ KeysUnique /\ [Next]_vars => KeysUnique'
  BY NextKeys
<1> QED
  BY <1>1, InitKeys, Invariance, PTL DEF Spec

-----------------------------------------------------------------------------
(* The protocol implements the log                                          *)

Log == LogOf(committedPosition, rows)

Seen == [r \in Readers |-> IF snapshot[r] = Null THEN <<>>
                            ELSE LogOf(snapshot[r].position, snapshot[r].rows)]

LEMMA EvidenceOfOne ==
  ASSUME NEW p, NEW table, NEW row \in table, {x \in table : x.position = p} = {row}
  PROVE  EvidenceAt(p, table) = row.evidence
<1>1. \A x \in table : x.position = p <=> x = row
  OBVIOUS
<1>2. (CHOOSE x \in table : x.position = p) = row
  BY <1>1
<1> QED
  BY <1>1, <1>2 DEF EvidenceAt

\* A row at the next position appends its evidence to the log.
LEMMA RowAppended ==
  ASSUME NEW n \in Nat, NEW table, SequenceComplete(n, table),
         NEW row, row.position = n + 1, \A x \in table : x.position # n + 1
  PROVE  LogOf(n + 1, table \cup {row}) = Append(LogOf(n, table), row.evidence)
<1> DEFINE grown == table \cup {row}
<1>1. ASSUME NEW p \in 1..n PROVE EvidenceAt(p, grown) = EvidenceAt(p, table)
  <2>1. PICK old \in table : {x \in table : x.position = p} = {old}
    BY DEF SequenceComplete, IdentifiesExactlyOne
  <2>2. {x \in grown : x.position = p} = {old}
    BY <2>1
  <2> QED
    BY <2>1, <2>2, EvidenceOfOne
<1>2. {x \in grown : x.position = n + 1} = {row}
  OBVIOUS
<1>3. EvidenceAt(n + 1, grown) = row.evidence
  BY <1>2, EvidenceOfOne
<1> DEFINE before == LogOf(n, table)
           after  == LogOf(n + 1, grown)
           Any    == {EvidenceAt(p, table) : p \in 1..n}
<1>4. before \in Seq(Any) /\ Len(before) = n
  BY DEF LogOf
<1>5. /\ \A p \in 1..n : after[p] = before[p]
      /\ after[n + 1] = row.evidence
  <2>1. /\ \A p \in 1..(n + 1) : after[p] = EvidenceAt(p, grown)
        /\ \A p \in 1..n : before[p] = EvidenceAt(p, table)
    BY DEF LogOf
  <2> HIDE DEF after, before, grown
  <2> QED
    BY <1>1, <1>3, <2>1
<1>6. after = [p \in 1..(n + 1) |-> after[p]]
  BY DEF LogOf
<1> HIDE DEF before, after
<1>7. Append(before, row.evidence) = [p \in 1..(n + 1) |-> IF p <= n THEN before[p] ELSE row.evidence]
  BY <1>4
<1>8. \A p \in 1..(n + 1) : after[p] = IF p <= n THEN before[p] ELSE row.evidence
  BY <1>5
<1>9. after = Append(before, row.evidence)
  BY <1>6, <1>7, <1>8
<1> QED
  BY <1>9 DEF before, after

\* A commit that adds a row records evidence the log does not hold yet.
LEMMA CommitRecords ==
  ASSUME IInv, IInv', KeysUnique', snapshot' = snapshot,
         committedPosition' = committedPosition + 1,
         NEW row, rows' = rows \cup {row}, row.position = committedPosition + 1,
         row \notin rows
  PROVE  \E e \in Evidence : AbstractLog!Record(e)
<1> USE RecordingAssumption
<1>1. /\ committedPosition \in Nat /\ row \in Row
      /\ SequenceComplete(committedPosition, rows)
  BY DEF IInv, TypeOK, RecordingSequenceComplete
<1>2. \A x \in rows : x.position # committedPosition + 1
  BY <1>1 DEF SequenceComplete
<1>3. LogOf(committedPosition', rows') = Append(Log, row.evidence)
  BY <1>1, <1>2, RowAppended DEF Log
<1>4. ASSUME NEW p \in DOMAIN Log PROVE Log[p] # row.evidence
  <2>1. p \in 1..committedPosition
    BY DEF Log, LogOf
  <2>2. PICK x \in rows : {y \in rows : y.position = p} = {x}
    BY <1>1, <2>1 DEF SequenceComplete, IdentifiesExactlyOne
  <2>3. Log[p] = x.evidence
    BY <2>1, <2>2, EvidenceOfOne DEF Log, LogOf
  <2>4. ~Clash(x, row)
    BY DEF KeysUnique
  <2> QED
    BY <2>3, <2>4 DEF Clash
<1>5. row.evidence \in Evidence
  BY <1>1 DEF Row
<1>6. AbstractLog!Record(row.evidence)
  BY <1>3, <1>4 DEF AbstractLog!Record, Log
<1> QED
  BY <1>5, <1>6

\* Taking a snapshot reads the whole log.
LEMMA SnapshotReads ==
  ASSUME IInv, NEW r \in Readers, TakeSnapshot(r)
  PROVE  AbstractLog!Read(r)
<1> USE RecordingAssumption
<1>1. UNCHANGED <<committedPosition, rows>>
  BY DEF TakeSnapshot, database
<1> DEFINE taken == [position |-> committedPosition, rows |-> rows]
<1>2. taken \in Snapshots
  BY DEF IInv, TypeOK, Snapshots
<1>3. \A q \in Readers : snapshot'[q] = IF q = r THEN taken ELSE snapshot[q]
  BY DEF IInv, TypeOK, TakeSnapshot
<1>4. \A q \in Readers :
        (IF snapshot'[q] = Null THEN <<>> ELSE LogOf(snapshot'[q].position, snapshot'[q].rows))
          = IF q = r THEN Log
            ELSE IF snapshot[q] = Null THEN <<>>
            ELSE LogOf(snapshot[q].position, snapshot[q].rows)
  BY <1>2, <1>3 DEF Log
<1> QED
  BY <1>1, <1>4 DEF AbstractLog!Read, Log

LEMMA StepImplementsLog ==
  ASSUME IInv, IInv', KeysUnique', [Next]_vars
  PROVE  [AbstractLog!Next]_<<Log, Seen>>
<1>1. CASE \E r \in Readers : TakeSnapshot(r)
  BY <1>1, SnapshotReads DEF AbstractLog!Next
<1>2. CASE ~\E r \in Readers : TakeSnapshot(r)
  <2>1. snapshot' = snapshot
    BY <1>2 DEF Next, Begin, Allocate, Insert, Commit, Abort, vars
  <2>2. CASE UNCHANGED <<committedPosition, rows>>
    BY <2>1, <2>2 DEF Log, Seen
  <2>3. CASE /\ committedPosition' = committedPosition + 1
             /\ \E row : /\ rows' = rows \cup {row}
                         /\ row.position = committedPosition + 1
                         /\ row \notin rows
    BY <2>1, <2>3, CommitRecords DEF AbstractLog!Next
  <2> QED
    BY <2>2, <2>3, StepAppends
<1> QED
  BY <1>1, <1>2

\* Recording implements an append-only log: every commit records one new piece of
\* evidence at its end or nothing, and every snapshot reads the whole of it.
THEOREM ImplementsLogAlways == Spec => ImplementsLog
<1>1. Init => AbstractLog!Init
  BY DEF Init, LogOf, AbstractLog!Init, AbstractLog!Nothing
<1>2. IInv /\ IInv' /\ KeysUnique' /\ [Next]_vars => [AbstractLog!Next]_<<Log, Seen>>
  BY StepImplementsLog
<1> QED
  BY <1>1, <1>2, Invariance, KeysAlwaysUnique, PTL
  DEF Spec, ImplementsLog, AbstractLog!Spec, Log, Seen

=============================================================================
