-------------------------- MODULE AuthorityRecording --------------------------
(***************************************************************************)
(* The PostgreSQL side of authority recording, migrations 000006 and       *)
(* 000010 to 000012: transactions that allocate a recording position from  *)
(* the boundary row, insert evidence rows and commit under the deferred    *)
(* constraint triggers, and readers that take a repeatable-read snapshot.  *)
(*                                                                         *)
(* A transaction here may issue any statements: the repository's writers,  *)
(* and direct SQL that skips the allocation, allocates twice or makes a    *)
(* position up.  AuthorityRepository restricts them to what the Go code    *)
(* does.  Transactions run at READ COMMITTED and are used once, so that    *)
(* a transaction's name is also its transaction id (xid8).                 *)
(***************************************************************************)
EXTENDS Naturals, FiniteSets

CONSTANTS
  Tx,         \* writing transactions
  Readers,    \* snapshot transactions
  Evidence,   \* what a row can say: records with at least a table and a key
  Legacy,     \* evidence stored before positions existed
  Null,       \* SQL NULL; also no transaction, no snapshot
  MaxPosition \* bound on the positions drawn or made up

Positions == Nat \ {0}
Row == [evidence : Evidence, position : Positions \cup {Null}]
Snapshots == [position : Nat, rows : SUBSET Row]  \* what a reader can see

ASSUME RecordingAssumption ==
  /\ Null \notin Tx
  /\ Null \notin Nat
  /\ Null \notin Snapshots
  /\ MaxPosition \in Nat
  /\ Legacy \subseteq Evidence
  /\ \A e, f \in Legacy : <<e.table, e.key>> = <<f.table, f.key>> => e = f

VARIABLES
  committedPosition, \* authority_recording_boundary.committed_position
  allocatingXid,     \* authority_recording_boundary.allocating_xid
  rows,              \* committed rows of the three evidence tables
  status,            \* of each transaction
  own,               \* boundary position each open transaction has written, or Null
  allocated,         \* all positions it has drawn
  inserted,          \* rows each open transaction has inserted
  boundaryLock,      \* transaction holding the boundary row, or Null
  snapshot           \* what each reader's transaction sees, or Null

database == <<committedPosition, allocatingXid, rows>>
transactions == <<status, own, allocated, inserted, boundaryLock>>
vars == <<database, transactions, snapshot>>

Init ==
  /\ committedPosition = 0
  /\ allocatingXid = Null
  /\ rows = [evidence : Legacy, position : {Null}]
  /\ status = [t \in Tx |-> "idle"]
  /\ own = [t \in Tx |-> Null]
  /\ allocated = [t \in Tx |-> {}]
  /\ inserted = [t \in Tx |-> {}]
  /\ boundaryLock = Null
  /\ snapshot = [r \in Readers |-> Null]

-----------------------------------------------------------------------------
(* What a statement of transaction t sees: committed rows and its own       *)

Visible(t) == rows \cup inserted[t]

VisiblePosition(t) == IF own[t] = Null THEN committedPosition ELSE own[t]

VisibleXid(t) == IF own[t] = Null THEN allocatingXid ELSE t

\* Two rows that a primary key or a partial unique index keeps apart.
Clash(a, b) ==
  /\ a.evidence.table = b.evidence.table
  /\ \/ a.evidence.key = b.evidence.key
     \/ a.position = b.position /\ a.position # Null

\* authority_evidence_position_count(position) = 1, over the three tables
IdentifiesExactlyOne(position, table) ==
  \E row \in table : {r \in table : r.position = position} = {row}

-----------------------------------------------------------------------------
(* Statements                                                               *)

Begin(t) ==
  /\ status[t] = "idle"
  /\ status' = [status EXCEPT ![t] = "open"]
  /\ UNCHANGED <<database, own, allocated, inserted, boundaryLock, snapshot>>

\* Fault: positions come from a PostgreSQL sequence, which locks nothing.
AllocateFromSequence(t) ==
  LET drawn == UNION {allocated[u] : u \in Tx} \cup 0..committedPosition
      next  == CHOOSE n \in 1..(MaxPosition + 1) : n \notin drawn /\ n - 1 \in drawn
  IN /\ status[t] = "open"
     /\ next <= MaxPosition
     /\ own' = [own EXCEPT ![t] = next]
     /\ allocated' = [allocated EXCEPT ![t] = @ \cup {next}]
     /\ UNCHANGED <<database, status, inserted, boundaryLock, snapshot>>

\* next_authority_recording_position(): the UPDATE waits for the row lock and
\* keeps it until the transaction ends.
Allocate(t) ==
  /\ status[t] = "open"
  /\ boundaryLock \in {Null, t}
  /\ VisiblePosition(t) < MaxPosition
  /\ boundaryLock' = t
  /\ own' = [own EXCEPT ![t] = VisiblePosition(t) + 1]
  /\ allocated' = [allocated EXCEPT ![t] = @ \cup {VisiblePosition(t) + 1}]
  /\ UNCHANGED <<database, status, inserted, snapshot>>

\* INSERT of one evidence row.  A clash with a committed row or its own fails
\* the statement; one with another open transaction's row makes it wait.
Insert(t, row) ==
  /\ status[t] = "open"
  /\ \A r \in rows \cup UNION {inserted[u] : u \in Tx} : ~Clash(r, row)
  /\ inserted' = [inserted EXCEPT ![t] = @ \cup {row}]
  /\ UNCHANGED <<database, status, own, allocated, boundaryLock, snapshot>>

\* validate_authority_evidence_recording, once per inserted row
EvidenceGuard(t) ==
  \A row \in inserted[t] :
     /\ row.position # Null
     /\ VisibleXid(t) = t
     /\ VisiblePosition(t) = row.position
     /\ IdentifiesExactlyOne(row.position, Visible(t))

\* Fault: an allocation nothing was inserted for passes.
AllocationUnguarded(t) == status[t] = "open"

\* validate_authority_recording_allocation, once per update of the boundary
AllocationGuard(t) ==
  \A position \in allocated[t] : IdentifiesExactlyOne(position, Visible(t))

Release(t) ==
  /\ own' = [own EXCEPT ![t] = Null]
  /\ allocated' = [allocated EXCEPT ![t] = {}]
  /\ inserted' = [inserted EXCEPT ![t] = {}]
  /\ boundaryLock' = IF boundaryLock = t THEN Null ELSE boundaryLock

\* COMMIT: the deferred triggers run, then everything becomes visible at once.
Commit(t) ==
  /\ status[t] = "open"
  /\ EvidenceGuard(t) /\ AllocationGuard(t)
  /\ status' = [status EXCEPT ![t] = "committed"]
  /\ committedPosition' = VisiblePosition(t)
  /\ allocatingXid' = VisibleXid(t)
  /\ rows' = Visible(t)
  /\ Release(t)
  /\ UNCHANGED snapshot

\* A failed statement or trigger, ROLLBACK, a lost connection or a crash.
Abort(t) ==
  /\ status[t] = "open"
  /\ status' = [status EXCEPT ![t] = "aborted"]
  /\ Release(t)
  /\ UNCHANGED <<database, snapshot>>

\* Fault: the rows are read before the boundary rather than with it.
TakeSnapshotTorn(r) ==
  /\ snapshot' = [snapshot EXCEPT ![r] =
                    [position |-> committedPosition,
                     rows     |-> IF snapshot[r] = Null THEN rows ELSE snapshot[r].rows]]
  /\ UNCHANGED <<database, transactions>>

\* The first read of a REPEATABLE READ transaction fixes all it will see.
TakeSnapshot(r) ==
  /\ snapshot' = [snapshot EXCEPT ![r] =
                    [position |-> committedPosition, rows |-> rows]]
  /\ UNCHANGED <<database, transactions>>

Next ==
  \/ \E t \in Tx : Begin(t) \/ Allocate(t) \/ Commit(t) \/ Abort(t)
  \/ \E t \in Tx, e \in Evidence, position \in 1..MaxPosition \cup {Null} :
        Insert(t, [evidence |-> e, position |-> position])
  \/ \E r \in Readers : TakeSnapshot(r)

Spec == Init /\ [][Next]_vars

-----------------------------------------------------------------------------
(* Properties                                                               *)

TypeOK ==
  /\ committedPosition \in Nat
  /\ allocatingXid \in Tx \cup {Null}
  /\ rows \subseteq Row
  /\ status \in [Tx -> {"idle", "open", "committed", "aborted"}]
  /\ own \in [Tx -> Positions \cup {Null}]
  /\ allocated \in [Tx -> SUBSET Positions]
  /\ inserted \in [Tx -> SUBSET Row]
  /\ boundaryLock \in Tx \cup {Null}
  /\ snapshot \in [Readers -> Snapshots \cup {Null}]

\* The committed evidence occupies the positions 1 to the boundary, each exactly
\* once: no gap after a rollback, no position shared by rows of two tables, none
\* made up, whatever statements the transactions issue.  Rows without a position
\* are the ones that were there before (migrations 000011, 000012).
SequenceComplete(position, table) ==
  /\ \A p \in 1..position : IdentifiesExactlyOne(p, table)
  /\ \A row \in table : IF row.position = Null THEN row.evidence \in Legacy
                         ELSE row.position <= position

RecordingSequenceComplete == SequenceComplete(committedPosition, rows)

\* No two rows, committed or about to be, have the same primary key or position
\* within a table.
KeysUnique ==
  LET everything == rows \cup UNION {inserted[t] : t \in Tx}
  IN \A a, b \in everything : a # b => ~Clash(a, b)

\* What LoadAuthoritativeSnapshot validates before trusting a snapshot
\* (validateAuthorityRecordingCompleteness): always so without legacy evidence.
SnapshotsComplete ==
  Legacy = {} =>
    \A r \in Readers : snapshot[r] # Null =>
       /\ SequenceComplete(snapshot[r].position, snapshot[r].rows)
       /\ \A row \in snapshot[r].rows : row.position # Null

\* Of two snapshots the one with the lower position is exactly the part of the
\* other recorded up to there: the position orders what readers see.
SnapshotsArePrefixes ==
  \A q, r \in Readers :
     (/\ snapshot[q] # Null /\ snapshot[r] # Null
      /\ snapshot[q].position <= snapshot[r].position) =>
        snapshot[q].rows = {row \in snapshot[r].rows :
                              row.position = Null \/ row.position <= snapshot[q].position}

\* A snapshot taken later holds all that any reader has seen before: no reader goes
\* back, and none learns of evidence another reader will later miss.
SnapshotsAdvance ==
  [][ \A q, r \in Readers :
        (snapshot[q] # Null /\ snapshot'[r] # snapshot[r]) =>
          /\ snapshot[q].position <= snapshot'[r].position
          /\ snapshot[q].rows \subseteq snapshot'[r].rows
    ]_vars

\* Committed evidence is never changed or removed, and the boundary moves by
\* exactly one row at a time.
EvidenceAppendOnly ==
  [][ /\ rows \subseteq rows'
      /\ committedPosition' # committedPosition =>
           /\ committedPosition' = committedPosition + 1
           /\ \E row \in rows' : rows' = rows \cup {row} /\ row \notin rows
    ]_vars

\* The recording protocol implements the log: what is recorded is the evidence in
\* position order, and every reader has seen a prefix of it.
EvidenceAt(position, table) ==
  IF \E row \in table : row.position = position
  THEN (CHOOSE row \in table : row.position = position).evidence
  ELSE Null
LogOf(position, table) == [p \in 1..position |-> EvidenceAt(p, table)]

AbstractLog == INSTANCE AuthorityLog WITH
  log  <- LogOf(committedPosition, rows),
  seen <- [r \in Readers |-> IF snapshot[r] = Null THEN <<>>
                             ELSE LogOf(snapshot[r].position, snapshot[r].rows)]
ImplementsLog == AbstractLog!Spec

=============================================================================
