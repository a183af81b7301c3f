------------------------------ MODULE Clients_proofs ------------------------------
(***************************************************************************)
(* What the run of Clients shows on a small instance holds for any         *)
(* constants: each safety property from an invariant of its program alone, *)
(* and so with the programs side by side.                                  *)
(***************************************************************************)
EXTENDS Clients, TLAPS

-----------------------------------------------------------------------------
(* Requestor screens                                                        *)

(* A save never overwrites a claim its screen has not seen, for any drafts, *)
(* texts and bound on versions.  A version only ever counts a save that the *)
(* screen has been told of, so a row at the screen's version holds the      *)
(* claim the screen knows, be its 1 that of the row it was opened with or   *)
(* of an older one.                                                         *)

DraftRows == [status : {"DRAFT"}, claim : Texts, version : Nat \ {0}]
ClosedRows == [status : {"SUBMITTED", "CANCELED"}]
Details == [status : {"DRAFT", "SUBMITTED", "REJECTED"}, of : Drafts, known : Texts,
            opened : Drafts, version : Nat \ {0}]

RowsTyped == rows \in [Drafts -> DraftRows \cup ClosedRows \cup {NoRow}]

\* What a list or an answer said of a new draft holds for as long as its version is 1.
Fresh(r, claim) ==
  /\ r \in Exists /\ claim \in Texts
  /\ r \in Open /\ rows[r].version = 1 => rows[r].claim = claim

\* The draft is at version v with this claim, or later.
Tracks(r, v, claim) ==
  r \in Open => rows[r].version >= v /\ (rows[r].version = v => rows[r].claim = claim)

\* What the screen is to know of the row it was opened with: upon a save that has been
\* accepted, what the answer says.
KnowsItsRow ==
  IF sent.op = "save" /\ sent.answer = "ok"
  THEN Tracks(detail.opened, detail.version + 1, sent.row.claim)
  ELSE Tracks(detail.opened, detail.version, detail.known)

\* Another request's id, once given, is not taken back: the screen may then end a call for
\* its own row, and sends no other.
Concerned == detail.of = detail.opened \/ (Saving /\ sent.of = detail.opened)

DetailInv ==
  /\ detail \in Details /\ detail.opened \in Exists /\ detail.of \in Exists
  /\ detail.of = detail.opened /\ Saving => sent.of = detail.opened
  /\ detail.of # detail.opened /\ creation.op = "answered" => creation.of # detail.opened
  /\ Concerned => KnowsItsRow

SentInv ==
  Saving => /\ detail # NoRow /\ sent.of \in Exists
            /\ sent.answer = "none" => sent = [answer |-> "none", of |-> sent.of, op |-> sent.op]
            /\ sent.op = "save" /\ sent.answer = "ok" => sent.row.claim \in Texts

RequestorInv ==
  /\ RowsTyped
  /\ \A row \in list : Fresh(row.of, row.claim)
  /\ creation.op = "answered" => Fresh(creation.of, creation.claim)
  /\ detail # NoRow => DetailInv
  /\ SentInv

\* A row that is a draft after a step was one before it, and is the same or at a later
\* version.
Kept(r) ==
  r \in Exists =>
    /\ r \in Exists'
    /\ r \in Open' => r \in Open /\ (rows'[r] = rows[r] \/ rows'[r].version > rows[r].version)

LEMMA OpenRows ==
  ASSUME RowsTyped, NEW r \in Open
  PROVE  r \in Drafts /\ rows[r] \in DraftRows
  BY DEF RowsTyped, Open, Exists, DraftRows, ClosedRows

LEMMA FreshStays ==
  ASSUME RowsTyped, RowsTyped', NEW r, NEW claim, Fresh(r, claim), Kept(r)
  PROVE  Fresh(r, claim)'
  <1>1. CASE r \notin Open'
    BY <1>1 DEF Fresh, Kept
  <1>2. CASE r \in Open'
    <2>1. r \in Open /\ (rows'[r] = rows[r] \/ rows'[r].version > rows[r].version)
      BY <1>2 DEF Fresh, Kept
    <2>2. rows[r] \in DraftRows
      BY <2>1, OpenRows
    <2>3. rows[r].version \in Nat \ {0}
      BY <2>2 DEF DraftRows
    <2> QED
      BY <2>1, <2>3 DEF Fresh, Kept
  <1> QED
    BY <1>1, <1>2

LEMMA TracksStays ==
  ASSUME RowsTyped, RowsTyped', NEW r \in Exists, NEW v \in Nat, NEW claim,
         Tracks(r, v, claim), Kept(r)
  PROVE  Tracks(r, v, claim)'
  <1> SUFFICES ASSUME r \in Open' PROVE Tracks(r, v, claim)'
    BY DEF Tracks
  <1>1. r \in Open /\ (rows'[r] = rows[r] \/ rows'[r].version > rows[r].version)
    BY DEF Kept
  <1>2. rows[r].version \in Nat
    BY <1>1, OpenRows DEF DraftRows
  <1>3. rows'[r] \in DraftRows
    BY DEF RowsTyped, Open, Exists, DraftRows, ClosedRows
  <1>4. rows'[r].version \in Nat
    BY <1>3 DEF DraftRows
  <1> QED
    BY <1>1, <1>2, <1>4 DEF Tracks

\* One row is replaced.
LEMMA OneRowReplaced ==
  ASSUME RowsTyped, NEW r \in Exists, NEW row \in DraftRows \cup ClosedRows,
         rows' = [rows EXCEPT ![r] = row],
         row \in DraftRows => r \in Open /\ row.version > rows[r].version
  PROVE  /\ RowsTyped' /\ rows'[r] = row
         /\ \A s \in Drafts : Kept(s)
  <1>1. r \in Drafts /\ rows'[r] = row /\ RowsTyped'
    BY DEF RowsTyped, Exists
  <1>2. row # NoRow
    BY NoRowIsNoRecord DEF DraftRows, ClosedRows
  <1>3. \A s \in Drafts : s # r => rows'[s] = rows[s]
    BY DEF RowsTyped
  <1>4. ASSUME NEW s \in Drafts, s # r PROVE Kept(s)
    BY <1>3, <1>4 DEF Kept, Exists, Open
  <1>5. Kept(r)
    <2>1. CASE row \in DraftRows
      BY <1>1, <1>2, <2>1 DEF Kept, Exists, Open
    <2>2. CASE row \in ClosedRows
      BY <1>1, <1>2, <2>2 DEF Kept, Exists, Open, ClosedRows
    <2> QED
      BY <2>1, <2>2
  <1> QED
    BY <1>1, <1>4, <1>5

LEMMA RowsUnchanged ==
  ASSUME RowsTyped, rows' = rows
  PROVE  RowsTyped' /\ Exists' = Exists /\ Open' = Open /\ \A s \in Drafts : Kept(s)
  BY DEF RowsTyped, Kept, Exists, Open

\* A step that leaves the open request and its call alone, and at most creates another row.
LEMMA DetailStays ==
  ASSUME RequestorInv, RowsTyped', \A s \in Drafts : Kept(s), UNCHANGED <<detail, sent>>,
         creation'.op = "answered" =>
           (creation' = creation \/ creation'.of \notin Exists)
  PROVE  (detail # NoRow => DetailInv)' /\ SentInv'
  <1>1. SentInv'
    BY DEF RequestorInv, SentInv, Saving, Kept, Exists
  <1>2. ASSUME detail # NoRow PROVE DetailInv'
    <2> USE <1>2
    <2>1. DetailInv /\ detail' = detail /\ sent' = sent
      BY DEF RequestorInv
    <2>2. detail.opened \in Drafts /\ detail.version \in Nat
      BY <2>1 DEF DetailInv, Details
    <2>3. detail.opened \in Exists /\ detail.opened \in Exists' /\ detail.of \in Exists'
      BY <2>1, <2>2 DEF DetailInv, Kept, Exists
    <2>4. Concerned => KnowsItsRow'
      <3>1. SUFFICES ASSUME KnowsItsRow PROVE KnowsItsRow'
        BY <2>1 DEF DetailInv
      <3>2. RowsTyped /\ Kept(detail.opened)
        BY <2>2 DEF RequestorInv
      <3>3. CASE sent.op = "save" /\ sent.answer = "ok"
        <4>1. Tracks(detail.opened, detail.version + 1, sent.row.claim) /\ detail.version + 1 \in Nat
          BY <2>2, <3>1, <3>3 DEF KnowsItsRow
        <4> DEFINE o == detail.opened  v == detail.version + 1  c == sent.row.claim
        <4>2. o \in Exists /\ v \in Nat /\ Tracks(o, v, c) /\ Kept(o)
          BY <2>3, <3>2, <4>1
        <4>3. Tracks(o, v, c)'
          BY <2>1, <3>2, <4>2, TracksStays
        <4> QED
          BY <2>1, <3>3, <4>3 DEF KnowsItsRow
      <3>4. CASE ~(sent.op = "save" /\ sent.answer = "ok")
        <4> DEFINE o == detail.opened  v == detail.version  c == detail.known
        <4>1. Tracks(o, v, c) /\ o \in Exists /\ v \in Nat /\ Kept(o)
          BY <2>2, <2>3, <3>1, <3>2, <3>4 DEF KnowsItsRow
        <4>2. Tracks(o, v, c)'
          BY <2>1, <3>2, <4>1, TracksStays
        <4> QED
          BY <2>1, <3>4, <4>2 DEF KnowsItsRow
      <3> QED
        BY <3>3, <3>4
    <2> QED
      BY <2>1, <2>3, <2>4 DEF DetailInv, Concerned, Saving
  <1> QED
    BY <1>1, <1>2

LEMMA ListStays ==
  ASSUME RequestorInv, RowsTyped', \A s \in Drafts : Kept(s), list' = list
  PROVE  (\A row \in list : Fresh(row.of, row.claim))'
  <1> SUFFICES ASSUME NEW row \in list PROVE Fresh(row.of, row.claim)'
    OBVIOUS
  <1>1. Fresh(row.of, row.claim) /\ row.of \in Drafts
    BY DEF RequestorInv, Fresh, Exists
  <1> QED
    BY <1>1, FreshStays DEF RequestorInv

LEMMA CreationStays ==
  ASSUME RequestorInv, RowsTyped', \A s \in Drafts : Kept(s), creation' = creation
  PROVE  (creation.op = "answered" => Fresh(creation.of, creation.claim))'
  <1> SUFFICES ASSUME creation.op = "answered" PROVE Fresh(creation.of, creation.claim)'
    OBVIOUS
  <1> DEFINE r == creation.of  c == creation.claim
  <1>1. Fresh(r, c) /\ r \in Drafts
    BY DEF RequestorInv, Fresh, Exists
  <1>2. \A o, k : o \in Drafts /\ Fresh(o, k) => Fresh(o, k)'
    BY FreshStays DEF RequestorInv
  <1> QED
    BY <1>1, <1>2

\* The API replaces the row of the call and may answer: a save one version on, the others
\* with a row that is no draft.
LEMMA CommitStep ==
  ASSUME RequestorInv, Saving, sent.answer = "none", NEW row \in DraftRows \cup ClosedRows,
         Commits(row), sent.op = "save" <=> row \in DraftRows,
         row \in DraftRows => /\ sent.of \in Open /\ row.version = rows[sent.of].version + 1
                              /\ rows[sent.of].version = detail.version
  PROVE  RequestorInv'
  <1>1. /\ detail # NoRow /\ DetailInv /\ RowsTyped /\ sent.of \in Exists
        /\ sent = [answer |-> "none", of |-> sent.of, op |-> sent.op]
    BY DEF RequestorInv, SentInv
  <1>2. rows' = [rows EXCEPT ![sent.of] = row] /\ UNCHANGED <<list, creation, detail>>
    BY DEF Commits
  <1>3. row \in DraftRows => row.version > rows[sent.of].version
    <2>1. sent.of \in Open => rows[sent.of].version \in Nat
      BY <1>1, OpenRows DEF DraftRows
    <2> QED
      BY <2>1
  <1>4. RowsTyped' /\ rows'[sent.of] = row /\ \A s \in Drafts : Kept(s)
    <2> DEFINE r == sent.of
    <2>1. r \in Exists /\ rows' = [rows EXCEPT ![r] = row]
          /\ (row \in DraftRows => r \in Open /\ row.version > rows[r].version)
      BY <1>1, <1>2, <1>3
    <2> HIDE DEF r
    <2>2. RowsTyped' /\ rows'[r] = row /\ \A s \in Drafts : Kept(s)
      BY <1>1, <2>1, OneRowReplaced
    <2> QED
      BY <2>2 DEF r
  <1>5. /\ sent'.op = sent.op /\ sent'.of = sent.of
        /\ sent'.answer \in {"ok", "failed"} /\ (sent'.answer = "ok" => sent'.row = row)
    <2>1. CASE sent' = [answer |-> "ok", of |-> sent.of, op |-> sent.op, row |-> row]
      BY <2>1
    <2>2. CASE sent' = [sent EXCEPT !.answer = "failed"]
      BY <1>1, <2>2
    <2> QED
      BY <2>1, <2>2 DEF Commits
  <1>6. SentInv'
    <2>1. sent.of \in Exists'
      BY <1>1, <1>4 DEF Kept, Exists
    <2>2. row \in DraftRows => row.claim \in Texts
      BY DEF DraftRows
    <2> QED
      BY <1>1, <1>2, <1>5, <2>1, <2>2 DEF SentInv
  <1>7. DetailInv'
    <2>1. detail.opened \in Exists' /\ detail.of \in Exists'
      BY <1>1, <1>4 DEF DetailInv, Kept, Exists
    <2>2. ASSUME Concerned PROVE KnowsItsRow'
      <3>1. sent.of = detail.opened
        BY <1>1, <2>2 DEF DetailInv, Concerned
      <3>2. rows'[detail.opened] = row /\ detail.version \in Nat
        BY <1>1, <1>4, <3>1 DEF DetailInv, Details
      <3>3. CASE row \in ClosedRows
        <4>1. detail.opened \notin Open'
          BY <3>2, <3>3 DEF Open, ClosedRows
        <4> QED
          BY <1>2, <4>1 DEF KnowsItsRow, Tracks
      <3>4. CASE row \in DraftRows
        <4>1. row.version = detail.version + 1
          BY <3>4
        <4>2. CASE sent'.answer = "ok"
          BY <1>2, <1>5, <3>2, <3>4, <4>1, <4>2 DEF KnowsItsRow, Tracks
        <4>3. CASE sent'.answer = "failed"
          BY <1>2, <1>5, <3>2, <3>4, <4>1, <4>3 DEF KnowsItsRow, Tracks
        <4> QED
          BY <1>5, <4>2, <4>3
      <3> QED
        BY <3>3, <3>4
    <2>3. Concerned' <=> Concerned
      BY <1>2, <1>5 DEF Concerned, Saving
    <2>4. sent.of = sent'.of /\ (Saving' <=> Saving)
      BY <1>5 DEF Saving
    <2> QED
      BY <1>1, <1>2, <2>1, <2>2, <2>3, <2>4 DEF DetailInv
  <1> QED
    BY <1>1, <1>2, <1>4, <1>6, <1>7, ListStays, CreationStays DEF RequestorInv

LEMMA RowSaved ==
  ASSUME NEW r \in DraftRows, NEW c \in Texts, NEW v \in Nat \ {0}
  PROVE  LET row == [r EXCEPT !.version = v, !.claim = c]
         IN row \in DraftRows /\ row.version = v
  BY DEF DraftRows

LEMMA NextVersion ==
  ASSUME NEW r \in DraftRows, NEW c \in Texts
  PROVE  LET row == [r EXCEPT !.version = @ + 1, !.claim = c]
         IN row \in DraftRows /\ row.version = r.version + 1 /\ row.version > r.version
  <1>1. r.version \in Nat \ {0} /\ r.version + 1 \in Nat \ {0} /\ r.version + 1 > r.version
    BY DEF DraftRows
  <1> DEFINE v == r.version + 1
  <1>2. v \in Nat \ {0}
    BY <1>1
  <1>3. LET row == [r EXCEPT !.version = v, !.claim = c]
        IN row \in DraftRows /\ row.version = v
    <2> HIDE DEF v
    <2> QED
      BY <1>2 DEF DraftRows
  <1> QED
    BY <1>1, <1>3 DEF v

LEMMA SaveRowStep == RequestorInv /\ SaveRow => RequestorInv'
  <1> SUFFICES ASSUME RequestorInv, SaveRow PROVE RequestorInv'
    OBVIOUS
  <1>1. PICK claim \in Texts :
          /\ Waits("save") /\ sent.of \in Open /\ rows[sent.of].version = detail.version
          /\ Commits([rows[sent.of] EXCEPT !.version = @ + 1, !.claim = claim])
    BY DEF SaveRow
  <1>2. rows[sent.of] \in DraftRows
    BY <1>1, OpenRows DEF RequestorInv
  <1> DEFINE row == [rows[sent.of] EXCEPT !.version = @ + 1, !.claim = claim]
  <1>3. row \in DraftRows /\ row.version = rows[sent.of].version + 1
    BY <1>2, NextVersion
  <1>4. Saving /\ sent.answer = "none" /\ sent.op = "save"
    BY <1>1 DEF Waits, Saving
  <1>5. Commits(row)
    BY <1>1
  <1> HIDE DEF row
  <1>6. \A r \in DraftRows :
          Commits(r) /\ r.version = rows[sent.of].version + 1 => RequestorInv'
    BY <1>1, <1>4, CommitStep
  <1> QED
    BY <1>3, <1>5, <1>6

LEMMA ClosingStep == RequestorInv /\ (SubmitRow \/ CancelRow) => RequestorInv'
  <1> SUFFICES ASSUME RequestorInv, SubmitRow \/ CancelRow PROVE RequestorInv'
    OBVIOUS
  <1>1. PICK row \in ClosedRows : Commits(row)
    BY DEF SubmitRow, CancelRow, ClosedRows
  <1>2. Saving /\ sent.answer = "none" /\ sent.op # "save"
    BY DEF SubmitRow, CancelRow, Waits, Saving
  <1>3. row \notin DraftRows
    BY DEF DraftRows, ClosedRows
  <1> QED
    BY <1>1, <1>2, <1>3, CommitStep

LEMMA OtherDeviceStep == RequestorInv /\ OtherDevice => RequestorInv'
  <1> SUFFICES ASSUME RequestorInv, OtherDevice PROVE RequestorInv'
    OBVIOUS
  <1>1. UNCHANGED <<list, creation, detail, sent>> /\ RowsTyped
    BY DEF OtherDevice, RequestorInv
  <1>2. PICK r \in Open :
          \/ \E claim \in Texts :
               rows' = [rows EXCEPT ![r] = [rows[r] EXCEPT !.version = @ + 1, !.claim = claim]]
          \/ \E status \in {"SUBMITTED", "CANCELED"} :
               rows' = [rows EXCEPT ![r] = [status |-> status]]
    BY DEF OtherDevice
  <1>3. r \in Exists /\ rows[r] \in DraftRows
    BY <1>1, OpenRows DEF Open
  <1>4. \E row \in DraftRows \cup ClosedRows :
          /\ rows' = [rows EXCEPT ![r] = row]
          /\ row \in DraftRows => row.version > rows[r].version
    <2>1. ASSUME NEW claim \in Texts,
                 rows' = [rows EXCEPT ![r] = [rows[r] EXCEPT !.version = @ + 1, !.claim = claim]]
          PROVE  <1>4!:
      <3> DEFINE row == [rows[r] EXCEPT !.version = @ + 1, !.claim = claim]
      <3>1. row \in DraftRows /\ row.version > rows[r].version
        BY <1>3, NextVersion
      <3> HIDE DEF row
      <3>2. rows' = [rows EXCEPT ![r] = row]
        BY <2>1 DEF row
      <3> QED
        BY <3>1, <3>2
    <2>2. ASSUME NEW status \in {"SUBMITTED", "CANCELED"},
                 rows' = [rows EXCEPT ![r] = [status |-> status]]
          PROVE  <1>4!:
      <3> DEFINE row == [status |-> status]
      <3>1. row \in ClosedRows /\ row \notin DraftRows
        BY DEF ClosedRows, DraftRows
      <3> QED
        BY <2>2, <3>1
    <2> QED
      BY <1>2, <2>1, <2>2
  <1>5. RowsTyped' /\ \A s \in Drafts : Kept(s)
    BY <1>1, <1>3, <1>4, OneRowReplaced
  <1> QED
    BY <1>1, <1>5, DetailStays, ListStays, CreationStays DEF RequestorInv

LEMMA CreationStep == RequestorInv /\ (Create \/ CreateRow \/ CreateFails) => RequestorInv'
  <1> SUFFICES ASSUME RequestorInv, Create \/ CreateRow \/ CreateFails PROVE RequestorInv'
    OBVIOUS
  <1>1. UNCHANGED <<list, detail, sent>> /\ RowsTyped
    BY DEF Create, CreateRow, CreateFails, RequestorInv
  <1>2. CASE Create \/ CreateFails
    <2>1. rows' = rows /\ creation'.op # "answered"
      BY <1>2 DEF Create, CreateFails, NoCall
    <2>2. RowsTyped' /\ \A s \in Drafts : Kept(s)
      BY <1>1, <2>1, RowsUnchanged
    <2> QED
      BY <1>1, <2>1, <2>2, DetailStays, ListStays DEF RequestorInv
  <1>3. CASE CreateRow
    <2>1. PICK r \in Drafts \ Exists, claim \in Texts :
            /\ creation' \in {NoCall, [of |-> r, op |-> "answered", claim |-> claim]}
            /\ rows' = [rows EXCEPT ![r] = [status |-> "DRAFT", claim |-> claim, version |-> 1]]
      BY <1>3 DEF CreateRow
    <2> DEFINE row == [status |-> "DRAFT", claim |-> claim, version |-> 1]
    <2>2. row \in DraftRows /\ row # NoRow /\ row.claim = claim
      BY NoRowIsNoRecord DEF DraftRows
    <2>3. rows' = [rows EXCEPT ![r] = row]
      BY <2>1
    <2> HIDE DEF row
    <2>4. RowsTyped' /\ rows'[r] = row /\ \A s \in Drafts : s # r => rows'[s] = rows[s]
      BY <1>1, <2>2, <2>3 DEF RowsTyped
    <2>5. \A s \in Drafts : Kept(s)
      BY <2>1, <2>4 DEF Kept, Exists, Open
    <2>6. creation'.op = "answered" => creation'.of = r /\ creation'.claim = claim
      BY <2>1 DEF NoCall
    <2>7. Fresh(r, claim)'
      BY <2>2, <2>4 DEF Fresh, Exists, Open
    <2>8. (creation.op = "answered" => Fresh(creation.of, creation.claim))'
      BY <2>6, <2>7 DEF Fresh
    <2> QED
      BY <1>1, <2>1, <2>4, <2>5, <2>6, <2>8, DetailStays, ListStays DEF RequestorInv
  <1> QED
    BY <1>2, <1>3

\* A screen opened on what is known of a new draft.
LEMMA Opening ==
  ASSUME RequestorInv, NEW d, d.of \in Exists, Fresh(d.of, d.claim), detail' = Opened(d),
         UNCHANGED <<rows, list, sent>>, ~Saving, creation'.op = "answered" => creation' = creation
  PROVE  RequestorInv'
  <1>1. /\ detail'.of = d.of /\ detail'.opened = d.of /\ detail'.version = 1
        /\ detail'.known = d.claim /\ detail' \in Details
    BY DEF Opened, Details, Fresh, Exists
  <1>2. RowsTyped' /\ Exists' = Exists /\ Open' = Open /\ \A s \in Drafts : Kept(s)
    BY RowsUnchanged DEF RequestorInv
  <1>3. Tracks(d.of, 1, d.claim)
    <2> SUFFICES ASSUME d.of \in Open PROVE Tracks(d.of, 1, d.claim)
      BY DEF Tracks
    <2>1. rows[d.of].version \in Nat \ {0}
      BY OpenRows DEF RequestorInv, DraftRows
    <2> QED
      BY <2>1 DEF Tracks, Fresh
  <1>4. sent' = sent /\ sent.op = "none"
    BY DEF Saving
  <1>5. KnowsItsRow'
    BY <1>1, <1>2, <1>3, <1>4 DEF KnowsItsRow, Tracks
  <1>6. DetailInv' /\ SentInv'
    BY <1>1, <1>2, <1>4, <1>5 DEF DetailInv, SentInv, Saving, Concerned
  <1>7. (creation.op = "answered" => Fresh(creation.of, creation.claim))'
    BY <1>2 DEF RequestorInv, Fresh
  <1> QED
    BY <1>2, <1>6, <1>7, ListStays DEF RequestorInv

LEMMA CreatedStep == RequestorInv /\ Created => RequestorInv'
  <1> SUFFICES ASSUME RequestorInv, Created PROVE RequestorInv'
    OBVIOUS
  <1>1. /\ creation.op = "answered" /\ Fresh(creation.of, creation.claim)
        /\ UNCHANGED <<rows, list, sent>> /\ creation' = NoCall /\ creation'.op = "none"
    BY DEF Created, RequestorInv, NoCall
  <1>2. CASE detail = NoRow
    <2>1. ~Saving /\ detail' = Opened(creation) /\ creation.of \in Exists
      BY <1>1, <1>2 DEF Created, RequestorInv, SentInv, Fresh
    <2> QED
      BY <1>1, <2>1, Opening
  <1>3. CASE detail # NoRow
    <2>1. detail' = [detail EXCEPT !.of = creation.of] /\ DetailInv
      BY <1>3 DEF Created, RequestorInv
    <2>2. creation.of \in Exists /\ creation.of \in Drafts
      BY <1>1 DEF Fresh, Exists
    <2>3. /\ detail' \in Details /\ detail'.of = creation.of /\ detail'.opened = detail.opened
          /\ detail'.version = detail.version /\ detail'.known = detail.known
      BY <2>1, <2>2 DEF DetailInv, Details
    <2>4. detail'.of = detail'.opened => detail.of = detail.opened
      BY <1>1, <2>1, <2>3 DEF DetailInv
    <2>5. Concerned' => Concerned
      BY <1>1, <2>3, <2>4 DEF Concerned, Saving
    <2>6. KnowsItsRow => KnowsItsRow'
      BY <1>1, <2>3 DEF KnowsItsRow, Tracks, Open, Exists
    <2>7. DetailInv'
      BY <1>1, <2>1, <2>2, <2>3, <2>4, <2>5, <2>6 DEF DetailInv, Exists, Saving
    <2>8. detail' # NoRow
      BY <2>3, NoRowIsNoRecord DEF Details
    <2>9. SentInv'
      BY <1>1, <2>8 DEF RequestorInv, SentInv, Saving, Exists
    <2>10. RowsTyped' /\ \A s \in Drafts : Kept(s)
      BY <1>1, RowsUnchanged DEF RequestorInv
    <2> QED
      BY <1>1, <2>7, <2>9, <2>10, ListStays DEF RequestorInv
  <1> QED
    BY <1>2, <1>3

\* The screen ends its call, or sends one.
LEMMA DetailStep ==
  RequestorInv /\ (Press \/ CallFails \/ Saved \/ SubmittedOrCancelled \/ LeaveDetail)
    => RequestorInv'
  <1> SUFFICES ASSUME RequestorInv,
                      Press \/ CallFails \/ Saved \/ SubmittedOrCancelled \/ LeaveDetail
               PROVE  RequestorInv'
    OBVIOUS
  <1>1. UNCHANGED <<rows, list, creation>>
    BY DEF Press, CallFails, Saved, SubmittedOrCancelled, LeaveDetail
  <1>2. RowsTyped' /\ Exists' = Exists /\ Open' = Open /\ \A s \in Drafts : Kept(s)
    BY <1>1, RowsUnchanged DEF RequestorInv
  <1>3. SUFFICES (detail # NoRow => DetailInv)' /\ SentInv'
    BY <1>1, <1>2, ListStays, CreationStays DEF RequestorInv
  <1>4. CASE LeaveDetail
    BY <1>4 DEF LeaveDetail, SentInv, Saving, NoCall
  <1>5. ASSUME Saving \/ detail # NoRow PROVE DetailInv /\ detail # NoRow
    BY <1>5 DEF RequestorInv, SentInv
  <1>6. CASE Press
    <2>1. detail' = detail /\ detail # NoRow /\ ~Saving
      BY <1>6 DEF Press, Editable
    <2>2. PICK op \in {"save", "submit", "cancel"} :
            sent' = [answer |-> "none", of |-> detail.of, op |-> op]
      BY <1>6 DEF Press
    <2>3. Concerned' => Concerned
      BY <2>1, <2>2 DEF Concerned
    <2>4. KnowsItsRow => KnowsItsRow'
      BY <1>1, <2>1, <2>2 DEF KnowsItsRow, Tracks, Open, Exists, Saving
    <2> QED
      BY <1>1, <1>2, <1>5, <2>1, <2>2, <2>3, <2>4 DEF DetailInv, SentInv, Saving
  <1>7. CASE CallFails
    <2>1. /\ sent = [answer |-> "none", of |-> sent.of, op |-> sent.op] /\ sent.of \in Exists
          /\ sent' = [sent EXCEPT !.answer = "failed"] /\ detail' = detail /\ Saving
      BY <1>7 DEF CallFails, RequestorInv, SentInv
    <2>2. sent'.of = sent.of /\ sent'.op = sent.op /\ sent'.answer = "failed" /\ sent.answer = "none"
      BY <2>1
    <2>3. KnowsItsRow => KnowsItsRow'
      BY <1>1, <2>1, <2>2 DEF KnowsItsRow, Tracks, Open, Exists
    <2> QED
      BY <1>1, <1>2, <1>5, <2>1, <2>2, <2>3 DEF DetailInv, SentInv, Saving, Concerned
  <1>8. CASE Saved
    <2>1. sent.op = "save" /\ Saving /\ sent' = NoCall /\ ~Saving'
      BY <1>8 DEF Saved, Saving, NoCall
    <2> DEFINE v == IF sent.answer = "ok" THEN detail.version + 1 ELSE detail.version
               c == IF sent.answer = "ok" THEN sent.row.claim ELSE detail.known
    <2>2. detail' = [detail EXCEPT !.version = v, !.known = c]
      BY <1>8 DEF Saved, Counts
    <2>3. v \in Nat \ {0} /\ c \in Texts
      BY <1>5, <2>1 DEF RequestorInv, SentInv, DetailInv, Details
    <2>4. Concerned => Tracks(detail.opened, v, c)
      BY <1>5, <2>1 DEF DetailInv, KnowsItsRow
    <2> HIDE DEF v, c
    <2>5. /\ detail' \in Details /\ detail'.of = detail.of /\ detail'.opened = detail.opened
          /\ detail'.version = v /\ detail'.known = c
      BY <1>5, <2>1, <2>2, <2>3 DEF DetailInv, Details
    <2>6. Concerned' => Concerned /\ Tracks(detail.opened, v, c)
      BY <2>1, <2>4, <2>5 DEF Concerned
    <2>7. Concerned' => KnowsItsRow'
      BY <1>1, <2>1, <2>5, <2>6 DEF KnowsItsRow, Tracks, Open, Exists, NoCall
    <2> QED
      BY <1>1, <1>2, <1>5, <2>1, <2>5, <2>7 DEF DetailInv, SentInv
  <1>9. CASE SubmittedOrCancelled
    <2>1. sent.op # "save" /\ Saving /\ sent' = NoCall /\ ~Saving'
      BY <1>9 DEF SubmittedOrCancelled, Saving, NoCall
    <2>2. PICK status \in {detail.status, "REJECTED", "SUBMITTED"} :
            detail' = [detail EXCEPT !.status = status]
      BY <1>9 DEF SubmittedOrCancelled
    <2>3. /\ detail' \in Details /\ detail'.of = detail.of /\ detail'.opened = detail.opened
          /\ detail'.version = detail.version /\ detail'.known = detail.known
      BY <1>5, <2>1, <2>2 DEF DetailInv, Details
    <2>4. Concerned' => Concerned
      BY <2>1, <2>3 DEF Concerned
    <2>5. KnowsItsRow => KnowsItsRow'
      BY <1>1, <2>1, <2>3 DEF KnowsItsRow, Tracks, Open, Exists, NoCall
    <2> QED
      BY <1>1, <1>2, <1>5, <2>1, <2>3, <2>4, <2>5 DEF DetailInv, SentInv
  <1> QED
    BY <1>4, <1>6, <1>7, <1>8, <1>9

LEMMA RequestorInitially == RequestorInit => RequestorInv
  BY DEF RequestorInit, RequestorInv, RowsTyped, SentInv, Saving, NoCall

LEMMA RequestorStep == RequestorInv /\ [RequestorNext]_requestorVars => RequestorInv'
  <1> SUFFICES ASSUME RequestorInv, [RequestorNext]_requestorVars PROVE RequestorInv'
    OBVIOUS
  <1>1. CASE LoadList
    <2>1. rows' = rows /\ UNCHANGED <<creation, detail, sent>>
      BY <1>1 DEF LoadList
    <2>2. RowsTyped' /\ Exists' = Exists /\ Open' = Open /\ \A s \in Drafts : Kept(s)
      BY <2>1, RowsUnchanged DEF RequestorInv
    <2>3. ASSUME NEW row \in list' PROVE Fresh(row.of, row.claim)'
      <3>1. PICK r \in Open : row = [of |-> r, claim |-> rows[r].claim]
        BY <1>1, <2>3 DEF LoadList, Rows
      <3>2. rows[r].claim \in Texts /\ r \in Exists
        BY OpenRows DEF RequestorInv, DraftRows, Open
      <3> QED
        BY <2>1, <2>2, <3>1, <3>2 DEF Fresh
    <2> QED
      BY <2>1, <2>2, <2>3, CreationStays, DetailStays DEF RequestorInv
  <1>2. CASE OpenRow
    <2>1. PICK row \in list : detail = NoRow /\ detail' = Opened(row)
      BY <1>2 DEF OpenRow
    <2>2. ~Saving /\ Fresh(row.of, row.claim) /\ row.of \in Exists
      BY <2>1 DEF RequestorInv, SentInv, Fresh
    <2> QED
      BY <1>2, <2>1, <2>2, Opening DEF OpenRow
  <1>3. CASE UNCHANGED requestorVars
    <2>1. UNCHANGED <<rows, list, creation, detail, sent>>
      BY <1>3 DEF requestorVars
    <2>2. RowsTyped' /\ \A s \in Drafts : Kept(s)
      BY <2>1, RowsUnchanged DEF RequestorInv
    <2> QED
      BY <2>1, <2>2, ListStays, CreationStays, DetailStays DEF RequestorInv
  <1> QED
    BY <1>1, <1>2, <1>3, CreationStep, CreatedStep, SaveRowStep, ClosingStep, OtherDeviceStep,
       DetailStep DEF RequestorNext, ApiAnswers

\* A save that the row it was opened with accepts replaces the claim it knows.
LEMMA SaveReplacesTheKnown ==
  RequestorInv /\ SaveRow /\ sent.of = detail.opened => rows[sent.of].claim = detail.known
  <1> SUFFICES ASSUME RequestorInv, SaveRow, sent.of = detail.opened
               PROVE  rows[sent.of].claim = detail.known
    OBVIOUS
  <1>1. Saving /\ sent.answer = "none" /\ sent.of \in Open /\ rows[sent.of].version = detail.version
    BY DEF SaveRow, Waits, Saving
  <1>2. DetailInv
    BY <1>1 DEF RequestorInv, SentInv
  <1> QED
    BY <1>1, <1>2 DEF DetailInv, Concerned, KnowsItsRow, Tracks

\* A save overwrites only what the screen was opened with or last saved, for any drafts,
\* texts and bound on versions (RequestorRequestDetailScreen.tsx:50, 102, 107).
THEOREM SavesOverwriteTheKnown == RequestorSpec => SavesOverwriteNothingUnseen
  <1>1. RequestorInv /\ [RequestorNext]_requestorVars =>
          [SaveRow /\ sent.of = detail.opened => rows[sent.of].claim = detail.known]_requestorVars
    BY SaveReplacesTheKnown
  <1> QED
    BY <1>1, RequestorInitially, RequestorStep, PTL
       DEF RequestorSpec, SavesOverwriteNothingUnseen


-----------------------------------------------------------------------------
(* Self-service pages                                                       *)

\* AnnouncedIsDone says nothing of an answer on its way, which must be as true as what
\* the page shows when it takes it.
AnswersAreTrue ==
  /\ kratos.recovery = "sent_email" => kratos.sent
  /\ request.kind = "code" => kratos.sent
  /\ request.answer = "accepted" =>
       /\ request.kind = "code" => kratos.passed
       /\ request.kind = "password" => kratos.changed
       /\ request.kind = "verification-code" => kratos.verified

RequestFields == request = [kind |-> request.kind, answer |-> request.answer]
KratosFields ==
  kratos \in [recovery : {"choose_method", "sent_email", "passed_challenge"},
              sent : BOOLEAN, mailed : BOOLEAN, passed : BOOLEAN, changed : BOOLEAN, verified : BOOLEAN]

SelfInv == RequestFields /\ KratosFields /\ AnswersAreTrue /\ AnnouncedIsDone

LEMMA Sending ==
  ASSUME NEW k, Sends(k)
  PROVE  RequestFields' /\ request'.kind = k /\ request'.answer = "none"
  BY DEF Sends, RequestFields

LEMMA Answering ==
  ASSUME RequestFields, NEW a, Answers(a)
  PROVE  RequestFields' /\ request'.kind = request.kind /\ request'.answer = a
  BY DEF Answers, RequestFields

LEMMA Showing ==
  ASSUME NEW to, Shows(to)
  PROVE  /\ RequestFields' /\ request'.kind = "none" /\ request'.answer = "none"
         /\ form' = to /\ kratos' = kratos
  BY DEF Shows, NoRequest, RequestFields

LEMMA ComingBack ==
  ASSUME NEW kind, NEW a, Back(kind, a)
  PROVE  request.kind = kind /\ request.answer = a
  BY DEF Back

\* What a step may do that neither Kratos nor an answer announces anything by.
LEMMA SelfQuiet ==
  ASSUME SelfInv, RequestFields', kratos' = kratos, AnnouncedIsDone',
         request'.kind = "code" => kratos.sent,
         request'.answer = "accepted" => request'.kind = request.kind /\ request'.answer = request.answer
  PROVE  SelfInv'
  BY DEF SelfInv, KratosFields, AnswersAreTrue

LEMMA SelfInitially == SelfInit => SelfInv
  <1> SUFFICES ASSUME SelfInit PROVE SelfInv
    OBVIOUS
  <1>1. PICK p \in Pages : form = p[2] /\ request = [kind |-> p[3], answer |-> "none"]
    BY DEF SelfInit
  <1>2. request.kind = p[3] /\ request.answer = "none" /\ RequestFields
    BY <1>1 DEF RequestFields
  <1>3. p[3] # "code"
    BY DEF Pages
  <1>4. AnnouncedIsDone
    BY <1>1 DEF Pages, AnnouncedIsDone
  <1>5. KratosFields /\ kratos.recovery = "choose_method"
    BY DEF SelfInit, FreshFlow, KratosFields
  <1> QED
    BY <1>2, <1>3, <1>4, <1>5 DEF SelfInv, AnswersAreTrue

LEMMA KratosStep == SelfInv /\ Kratos => SelfInv'
  <1> SUFFICES ASSUME SelfInv, Kratos PROVE SelfInv'
    OBVIOUS
  <1> USE DEF SelfInv
  <1>1. CASE KratosShowsFlow
    <2>1. PICK a \in {"flow", "expired"} : Answers(a)
      BY <1>1 DEF KratosShowsFlow
    <2> QED
      BY <1>1, <2>1, Answering, SelfQuiet
         DEF KratosShowsFlow, KratosUnchanged, AnnouncedIsDone, AnswersAreTrue
  <1>2. CASE KratosMails
    <2>1. request.kind = "email" /\ form' = form
      BY <1>2 DEF KratosMails, Asked, KratosUnchanged
    <2>2. PICK a \in {"flow", "expired"} : Answers(a)
      BY <1>2 DEF KratosMails
    <2>3. RequestFields' /\ request'.kind = "email" /\ request'.answer = a
      BY <2>1, <2>2, Answering
    <2>4. CASE kratos' = kratos
      BY <2>1, <2>3, <2>4, SelfQuiet DEF AnnouncedIsDone
    <2>5. CASE \E mailed \in {kratos.mailed, TRUE} :
            kratos' = [kratos EXCEPT !.recovery = "sent_email", !.sent = TRUE, !.mailed = mailed]
      <3>1. KratosFields' /\ kratos'.sent /\ kratos'.passed = kratos.passed
            /\ kratos'.changed = kratos.changed /\ kratos'.verified = kratos.verified
        BY <2>5 DEF KratosFields
      <3> QED
        BY <2>1, <2>3, <3>1 DEF AnswersAreTrue, AnnouncedIsDone
    <2> QED
      BY <1>2, <2>4, <2>5 DEF KratosMails
  <1>3. CASE KratosChecksCode
    <2>1. request.kind = "code" /\ form' = form
      BY <1>3 DEF KratosChecksCode, Asked, KratosUnchanged
    <2>2. CASE kratos' = [kratos EXCEPT !.recovery = "passed_challenge", !.passed = TRUE]
               /\ (Answers("redirect") \/ Answers("accepted"))
      <3>1. RequestFields' /\ request'.kind = "code"
        BY <2>1, <2>2, Answering
      <3>2. KratosFields' /\ kratos'.passed /\ kratos'.sent = kratos.sent
            /\ kratos'.changed = kratos.changed /\ kratos'.verified = kratos.verified
            /\ kratos'.recovery = "passed_challenge"
        BY <2>2 DEF KratosFields
      <3> QED
        BY <2>1, <3>1, <3>2 DEF AnswersAreTrue, AnnouncedIsDone
    <2>3. CASE kratos' = kratos /\ (Answers("wrong") \/ Answers("expired"))
      <3>1. RequestFields' /\ request'.kind = "code" /\ request'.answer \in {"wrong", "expired"}
        BY <2>1, <2>3, Answering
      <3> QED
        BY <2>1, <2>3, <3>1, SelfQuiet DEF AnswersAreTrue, AnnouncedIsDone
    <2> QED
      BY <1>3, <2>2, <2>3 DEF KratosChecksCode
  <1>4. CASE KratosSetsPassword
    <2>1. request.kind = "password" /\ form' = form
      BY <1>4 DEF KratosSetsPassword, Asked, KratosUnchanged
    <2>2. CASE kratos' = [kratos EXCEPT !.changed = TRUE] /\ Answers("accepted")
      <3>1. RequestFields' /\ request'.kind = "password"
        BY <2>1, <2>2, Answering
      <3>2. KratosFields' /\ kratos'.changed /\ kratos'.sent = kratos.sent
            /\ kratos'.passed = kratos.passed /\ kratos'.verified = kratos.verified
            /\ kratos'.recovery = kratos.recovery
        BY <2>2 DEF KratosFields
      <3> QED
        BY <2>1, <3>1, <3>2 DEF AnswersAreTrue, AnnouncedIsDone
    <2>3. CASE kratos' = kratos /\ Answers("wrong")
      <3>1. RequestFields' /\ request'.kind = "password" /\ request'.answer = "wrong"
        BY <2>1, <2>3, Answering
      <3> QED
        BY <2>1, <2>3, <3>1, SelfQuiet DEF AnnouncedIsDone
    <2> QED
      BY <1>4, <2>2, <2>3 DEF KratosSetsPassword
  <1>5. CASE KratosVerifies
    <2>1. request.kind = "verification-code" /\ form' = form
      BY <1>5 DEF KratosVerifies, Asked, KratosUnchanged
    <2>2. CASE kratos' = [kratos EXCEPT !.verified = TRUE] /\ Answers("accepted")
      <3>1. RequestFields' /\ request'.kind = "verification-code"
        BY <2>1, <2>2, Answering
      <3>2. KratosFields' /\ kratos'.verified /\ kratos'.sent = kratos.sent
            /\ kratos'.passed = kratos.passed /\ kratos'.changed = kratos.changed
            /\ kratos'.recovery = kratos.recovery
        BY <2>2 DEF KratosFields
      <3> QED
        BY <2>1, <3>1, <3>2 DEF AnswersAreTrue, AnnouncedIsDone
    <2>3. CASE kratos' = kratos /\ Answers("wrong")
      <3>1. RequestFields' /\ request'.kind = "verification-code" /\ request'.answer = "wrong"
        BY <2>1, <2>3, Answering
      <3> QED
        BY <2>1, <2>3, <3>1, SelfQuiet DEF AnnouncedIsDone
    <2> QED
      BY <1>5, <2>2, <2>3 DEF KratosVerifies
  <1> QED
    BY <1>1, <1>2, <1>3, <1>4, <1>5 DEF Kratos

\* A page that shows an answer: by then what it announces is done.
LEMMA ShowsStep ==
  ASSUME SelfInv, NEW to, Shows(to),
         to \in {"emailSentEnterCode", "submittingCode"} => kratos.sent,
         to = "complete" => kratos.passed, to = "updated" => kratos.changed,
         to = "success" => kratos.verified
  PROVE  SelfInv'
  <1>1. RequestFields' /\ request'.kind = "none" /\ request'.answer = "none"
        /\ form' = to /\ kratos' = kratos
    BY Showing
  <1> QED
    BY <1>1, SelfQuiet DEF AnnouncedIsDone

LEMMA ReceivesStep ==
  ASSUME SelfInv, NEW kind, Receives(kind)
  PROVE  SelfInv'
  <1>1. CASE Shows(FormOf(kratos.recovery))
    <2>1. FormOf(kratos.recovery) \in {"enteringEmail", "emailSentEnterCode", "expiredOrInvalidFlow"}
          /\ (FormOf(kratos.recovery) = "emailSentEnterCode" => kratos.recovery = "sent_email")
      BY DEF SelfInv, KratosFields, FormOf
    <2> QED
      BY <1>1, <2>1, ShowsStep DEF SelfInv, AnswersAreTrue
  <1>2. CASE Shows("expiredOrInvalidFlow")
    BY <1>2, ShowsStep
  <1> QED
    BY <1>1, <1>2 DEF Receives

\* A request sent from a page that announces nothing.
LEMMA SendsStep ==
  ASSUME SelfInv, NEW k, Sends(k), kratos' = kratos, AnnouncedIsDone',
         k = "code" => kratos.sent
  PROVE  SelfInv'
  BY Sending, SelfQuiet

LEMMA AnsweredStep == SelfInv /\ Answered => SelfInv'
  <1> SUFFICES ASSUME SelfInv, Answered PROVE SelfInv'
    OBVIOUS
  <1>1. CASE RecoveryLoaded
    BY <1>1, ReceivesStep, ShowsStep DEF RecoveryLoaded
  <1>2. CASE EmailAnswered
    BY <1>2, ReceivesStep, ShowsStep DEF EmailAnswered
  <1>3. CASE CodeAnswered
    <2>1. CASE Back("code", "expired") /\ Shows("expiredOrInvalidFlow")
      BY <2>1, ShowsStep
    <2>2. CASE Back("code", "wrong") /\ Shows("emailSentEnterCode")
      BY <2>2, ShowsStep, ComingBack DEF SelfInv, AnswersAreTrue
    <2>3. CASE Back("code", "accepted") /\ Shows("complete")
      BY <2>3, ShowsStep, ComingBack DEF SelfInv, AnswersAreTrue
    <2>4. CASE Load(<<"settings", "loading", "load">>) /\ UNCHANGED kratos
      <3>1. form' = "loading" /\ Sends("load")
        BY <2>4 DEF Load
      <3> QED
        BY <2>4, <3>1, SendsStep DEF AnnouncedIsDone
    <2>5. CASE Back("code", "broken") /\ Shows(CodeBroken)
      BY <2>5, ShowsStep DEF CodeBroken
    <2> QED
      BY <1>3, <2>1, <2>2, <2>3, <2>4, <2>5 DEF CodeAnswered
  <1>4. CASE SettingsLoaded
    BY <1>4, ShowsStep DEF SettingsLoaded
  <1>5. CASE PasswordAnswered
    BY <1>5, ShowsStep DEF PasswordAnswered, PasswordUpdated, SelfInv, AnswersAreTrue
  <1>6. CASE VerificationLoaded
    BY <1>6, ShowsStep DEF VerificationLoaded
  <1>7. CASE VerificationAnswered
    BY <1>7, ShowsStep DEF VerificationAnswered, SelfInv, AnswersAreTrue
  <1> QED
    BY <1>1, <1>2, <1>3, <1>4, <1>5, <1>6, <1>7 DEF Answered

LEMMA SelfStep == SelfInv /\ [SelfNext]_selfVars => SelfInv'
  <1> SUFFICES ASSUME SelfInv, [SelfNext]_selfVars PROVE SelfInv'
    OBVIOUS
  <1>1. CASE Reload
    <2>1. PICK p \in Pages : p[3] = "load" /\ Load(p) /\ kratos' = kratos
      BY <1>1 DEF Reload
    <2>2. form' = p[2] /\ Sends("load")
      BY <2>1 DEF Load
    <2>3. AnnouncedIsDone'
      BY <2>2 DEF Pages, AnnouncedIsDone
    <2> QED
      BY <2>1, <2>2, <2>3, SendsStep
  <1>2. CASE NewFlow
    <2>1. form' = "loadingBrowserFlow" /\ Sends("load") /\ kratos' = FreshFlow
      BY <1>2 DEF NewFlow, Load
    <2>2. RequestFields' /\ request'.kind = "load" /\ request'.answer = "none"
      BY <2>1, Sending
    <2>3. KratosFields' /\ kratos'.recovery = "choose_method"
      BY <2>1 DEF FreshFlow, KratosFields
    <2> QED
      BY <2>1, <2>2, <2>3 DEF SelfInv, AnswersAreTrue, AnnouncedIsDone
  <1>3. CASE Kratos \/ Answered
    BY <1>3, KratosStep, AnsweredStep
  <1>4. CASE Breaks
    <2>1. RequestFields' /\ request'.kind = request.kind /\ request'.answer = "broken"
      BY <1>4, Answering DEF Breaks, SelfInv
    <2> QED
      BY <1>4, <2>1, SelfQuiet DEF Breaks, KratosUnchanged, SelfInv, AnswersAreTrue, AnnouncedIsDone
  <1>5. CASE SubmitEmail
    BY <1>5, SendsStep DEF SubmitEmail, AnnouncedIsDone
  <1>6. CASE SubmitCode
    <2>1. kratos.sent
      BY <1>6 DEF SubmitCode, SelfInv, AnnouncedIsDone
    <2> QED
      BY <1>6, <2>1, SendsStep, ShowsStep DEF SubmitCode, AnnouncedIsDone
  <1>7. CASE RestartFlow
    BY <1>7, ShowsStep DEF RestartFlow
  <1>8. CASE NativeEmail
    <2>1. KratosFields' /\ kratos'.sent = kratos.sent /\ kratos'.recovery = kratos.recovery
          /\ kratos'.passed = kratos.passed /\ kratos'.changed = kratos.changed /\ kratos'.verified = kratos.verified
      BY <1>8 DEF NativeEmail, SelfInv, KratosFields
    <2> QED
      BY <1>8, <2>1 DEF NativeEmail, SelfInv, RequestFields, AnswersAreTrue, AnnouncedIsDone
  <1>9. CASE SubmitPassword \/ SubmitVerification
    BY <1>9, SendsStep DEF SubmitPassword, SubmitVerification, AnnouncedIsDone
  <1>10. ASSUME LeaveForSignIn, kratos' = kratos PROVE SelfInv'
    <2>1. form' = "none" /\ RequestFields' /\ request'.kind = "none" /\ request'.answer = "none"
      BY <1>10 DEF LeaveForSignIn, NoRequest, RequestFields
    <2> QED
      BY <1>10, <2>1, SelfQuiet DEF AnnouncedIsDone
  <1>11. CASE Tick
    <2>1. CASE UNCHANGED <<form, request, kratos>>
      BY <2>1 DEF SelfInv, RequestFields, KratosFields, AnswersAreTrue, AnnouncedIsDone
    <2> QED
      BY <1>10, <1>11, <2>1 DEF Tick
  <1>12. CASE BackToSignIn
    BY <1>10, <1>12 DEF BackToSignIn
  <1>13. CASE UNCHANGED selfVars
    BY <1>13 DEF selfVars, SelfInv, RequestFields, KratosFields, AnswersAreTrue, AnnouncedIsDone
  <1> QED
    BY <1>1, <1>2, <1>3, <1>4, <1>5, <1>6, <1>7, <1>8, <1>9, <1>11, <1>12, <1>13 DEF SelfNext

\* The pages announce only what Kratos did, however many answers were lost and pages
\* loaded again (RecoveryScreen.tsx:99-139).
THEOREM PagesAnnounceWhatIsDone == SelfSpec => []AnnouncedIsDone
  <1>1. SelfInv => AnnouncedIsDone
    BY DEF SelfInv
  <1> QED
    BY <1>1, SelfInitially, SelfStep, PTL DEF SelfSpec

-----------------------------------------------------------------------------
(* HR review                                                                *)

\* One upload at a time is under way, so the digests it knows are those there are.
OneUpload ==
  /\ \A u, v \in Uploads : uploads[u].at # "idle" /\ uploads[v].at # "idle" => u = v
  /\ \A u \in Uploads : uploads[u].at # "idle" => uploads[u].known = digests
  /\ \A u \in Uploads : uploads[u].at = "sending" =>
       uploads[u].content \in Contents /\ uploads[u].content \notin digests
  /\ \A c \in Contents : acked[c] = IF c \in digests THEN 1 ELSE 0

Ups == [at : {"idle", "sheet", "picking", "sending"}, known : SUBSET Contents,
        content : Contents \cup {Nothing}]

EvidenceInv ==
  /\ uploads \in [Uploads -> Ups] /\ digests \in SUBSET Contents
  /\ acked \in [Contents -> Nat] /\ OneUpload

LEMMA EvidenceInitially == HrInit => EvidenceInv
  BY DEF HrInit, EvidenceInv, OneUpload, Ups, NoUpload

LEMMA UploadOpened ==
  ASSUME NEW r \in Ups, NEW D \in SUBSET Contents
  PROVE  LET up == [r EXCEPT !.at = "sheet", !.known = D]
         IN up \in Ups /\ up.at = "sheet" /\ up.known = D
  BY DEF Ups

LEMMA UploadSent ==
  ASSUME NEW r \in Ups, NEW c \in Contents
  PROVE  LET up == [r EXCEPT !.at = "sending", !.content = c]
         IN up \in Ups /\ up.at = "sending" /\ up.known = r.known /\ up.content = c
  BY DEF Ups

LEMMA EvidenceStep == EvidenceInv /\ [HrNext]_hrVars => EvidenceInv'
  <1> SUFFICES ASSUME EvidenceInv, [HrNext]_hrVars PROVE EvidenceInv'
    OBVIOUS
  <1> USE DEF EvidenceInv, OneUpload, Ups, NoUpload
  <1>1. CASE UNCHANGED evidenceVars
    BY <1>1 DEF evidenceVars
  <1>2. CASE Reopen
    BY <1>2 DEF Reopen
  <1>3. CASE PressUpload
    <2>1. PICK u \in Uploads :
            /\ \A v \in Uploads : uploads[v].at \notin {"picking", "sending"}
            /\ \A v \in Uploads : uploads[v].at # "sheet"
            /\ uploads' = [uploads EXCEPT ![u] = [@ EXCEPT !.at = "sheet", !.known = digests]]
            /\ UNCHANGED <<digests, acked>>
      BY <1>3 DEF PressUpload, CanUpload
    <2>2. \A v \in Uploads : uploads[v].at = "idle"
      BY <2>1
    <2> DEFINE up == [uploads[u] EXCEPT !.at = "sheet", !.known = digests]
    <2>3. up \in Ups /\ up.at = "sheet" /\ up.known = digests
      BY UploadOpened
    <2> HIDE DEF up
    <2>4. uploads' = [uploads EXCEPT ![u] = up]
      BY <2>1 DEF up
    <2>5. uploads' \in [Uploads -> Ups]
      BY <2>3, <2>4
    <2>6. \A v \in Uploads : v # u => uploads'[v].at = "idle"
      BY <2>2, <2>4
    <2>7. uploads'[u].at = "sheet" /\ uploads'[u].known = digests
      BY <2>3, <2>4
    <2> QED
      BY <2>1, <2>5, <2>6, <2>7
  <1>4. ASSUME NEW u \in Uploads, PickSource(u) PROVE EvidenceInv'
    BY <1>4 DEF PickSource
  <1>5. ASSUME NEW u \in Uploads, PickFile(u) PROVE EvidenceInv'
    <2>1. PICK c \in Contents :
            /\ uploads[u].at = "picking" /\ c \notin uploads[u].known
            /\ uploads' = [uploads EXCEPT ![u] = [@ EXCEPT !.at = "sending", !.content = c]]
            /\ UNCHANGED <<digests, acked>>
      BY <1>5 DEF PickFile
    <2>2. \A v \in Uploads : v # u => uploads[v].at = "idle"
      BY <2>1
    <2>3. uploads[u].known = digests
      BY <2>1
    <2>0. uploads[u] \in Ups
      OBVIOUS
    <2> DEFINE up == [uploads[u] EXCEPT !.at = "sending", !.content = c]
    <2>4. up \in Ups /\ up.at = "sending" /\ up.known = digests /\ up.content = c
      BY <2>0, <2>3, UploadSent
    <2> HIDE DEF up
    <2>5. uploads' = [uploads EXCEPT ![u] = up]
      BY <2>1 DEF up
    <2>6. uploads' \in [Uploads -> Ups]
      BY <2>4, <2>5
    <2>7. uploads'[u] = up /\ \A v \in Uploads : v # u => uploads'[v].at = "idle"
      BY <2>2, <2>5
    <2> QED
      BY <2>1, <2>3, <2>4, <2>6, <2>7
  <1>6. ASSUME NEW u \in Uploads, UploadFails(u) PROVE EvidenceInv'
    BY <1>6 DEF UploadFails
  <1>7. ASSUME NEW u \in Uploads, Uploaded(u) PROVE EvidenceInv'
    <2> DEFINE c == uploads[u].content
    <2>1. /\ uploads[u].at = "sending" /\ c \in Contents /\ c \notin digests /\ acked[c] = 0
          /\ uploads' = [uploads EXCEPT ![u] = NoUpload]
          /\ digests' = digests \cup {c} /\ acked' = [acked EXCEPT ![c] = @ + 1]
      BY <1>7 DEF Uploaded
    <2>2. \A v \in Uploads : uploads'[v].at = "idle"
      BY <2>1
    <2>3. \A d \in Contents : acked'[d] = IF d \in digests' THEN 1 ELSE 0
      BY <2>1
    <2>4. acked' \in [Contents -> Nat] /\ digests' \in SUBSET Contents /\ uploads' \in [Uploads -> Ups]
      BY <2>1
    <2> QED
      BY <2>2, <2>3, <2>4
  <1>8. HrNext => \/ UNCHANGED evidenceVars \/ Reopen \/ PressUpload
                  \/ \E u \in Uploads : PickSource(u) \/ PickFile(u) \/ UploadFails(u) \/ Uploaded(u)
    BY DEF HrNext, PullRefresh, ReplaceToken, RefreshEnds, RefreshFails, DropAnswer, ShowQueue,
           ShowDetail, OpenChooser, Choose, ChosenDetail, PressDecision, AnswerSheet, Decide, DecisionEnds,
           DecisionAccepted, DecisionFails, OthersAct, RefreshUnchanged, ChoiceUnchanged,
           DecisionUnchanged
  <1> QED
    BY <1>1, <1>2, <1>3, <1>4, <1>5, <1>6, <1>7, <1>8 DEF hrVars

\* No content is attached twice, for any number of uploads and contents, whatever sheets
\* and pickers are left open (HRReviewScreen.SettingsStyle.tsx:584).
THEOREM EvidenceAttachedOnce == HrSpec => []NoEvidenceTwice
  <1>1. EvidenceInv => NoEvidenceTwice
    BY DEF EvidenceInv, OneUpload, NoEvidenceTwice
  <1> QED
    BY <1>1, EvidenceInitially, EvidenceStep, PTL DEF HrSpec

-----------------------------------------------------------------------------
(* The recruiter's list                                                     *)

\* What has been asked for, and what is shown once nothing is loading, as far as the
\* first p goes, is the applied query's.
FirstPagesAreApplied ==
  /\ store = [applied |-> store.applied, draft |-> store.draft]
  /\ \A p \in asked : p.by = "first" => p.of = store.applied
  /\ ListIsOfTheAppliedQuery

LEMMA ListInitially == RecruiterInit => FirstPagesAreApplied
  BY DEF RecruiterInit, FirstPagesAreApplied, ListIsOfTheAppliedQuery, FirstPage, Page

LEMMA ListStep == FirstPagesAreApplied /\ [RecruiterNext]_recruiterVars => FirstPagesAreApplied'
  <1> SUFFICES ASSUME FirstPagesAreApplied, [RecruiterNext]_recruiterVars
               PROVE FirstPagesAreApplied'
    OBVIOUS
  <1> USE DEF FirstPagesAreApplied, ListIsOfTheAppliedQuery, Page
  <1>1. CASE Hydrate
    BY <1>1 DEF Hydrate, Refetch, Abandoned
  <1>2. CASE OpenFilters \/ ChangeDraft
    BY <1>2 DEF OpenFilters, ChangeDraft
  <1>3. CASE Done
    BY <1>3 DEF Done, Refetch, Abandoned
  <1>4. CASE NewToken
    BY <1>4 DEF NewToken, Refetch, Abandoned
  <1>5. CASE Return
    BY <1>5 DEF Return, FirstPage
  <1>6. CASE PullDown \/ Scroll
    BY <1>6 DEF PullDown, Scroll
  <1>7. CASE PageArrives
    <2> PICK p \in asked : PageEnds(p)
      BY <1>7 DEF PageArrives
    <2> USE DEF PageEnds, FlagOf
    <2>1. CASE p.by = "first"
      BY <2>1 DEF PageAnswered, PageFailed
    <2>2. CASE p.by # "first"
      BY <2>2 DEF PageAnswered, PageFailed
    <2> QED
      BY <2>1, <2>2
  <1>8. CASE UNCHANGED recruiterVars
    BY <1>8 DEF recruiterVars
  <1> QED
    BY <1>1, <1>2, <1>3, <1>4, <1>5, <1>6, <1>7, <1>8 DEF RecruiterNext

\* Whatever is asked for, given up or answered late, for any queries
\* (RecruiterCandidates.tsx:213-258).
THEOREM ListFollowsTheQuery == RecruiterSpec => []ListIsOfTheAppliedQuery
  <1>1. FirstPagesAreApplied => ListIsOfTheAppliedQuery
    BY DEF FirstPagesAreApplied
  <1> QED
    BY <1>1, ListInitially, ListStep, PTL DEF RecruiterSpec

-----------------------------------------------------------------------------
(* Publication of the trust artifacts                                       *)

\* What a publication has done stays of its period: the pointer once it is moved, then
\* the stable copies in their order.
MovedSoFar(sha) ==
  /\ runs[sha] \in 0..7
  /\ runs[sha] > 0 => sha \in period
  /\ runs[sha] > 4 => latest \in period
  /\ runs[sha] > 5 => copies["jwks"] \in period
  /\ runs[sha] > 6 => copies["policy"] \in period

AllOfThePeriod == latest \in period /\ \A a \in Artifacts : copies[a] \in period

TrustInv ==
  /\ runs \in [Shas -> Nat]
  /\ copies = [a \in Artifacts |-> copies[a]]
  /\ \A sha \in Shas : MovedSoFar(sha)
  /\ completed => AllOfThePeriod

LEMMA StepsInOrder ==
  /\ Len(Steps) = 7
  /\ \A i \in 1..3 : Steps[i].op = "put"
  /\ Steps[4] = [op |-> "latest"]
  /\ Steps[5] = [of |-> "jwks", op |-> "copy"]
  /\ Steps[6] = [of |-> "policy", op |-> "copy"]
  /\ Steps[7] = [of |-> "statuslist", op |-> "copy"]
  BY DEF Steps, Versioned

LEMMA TrustInitially == TrustInit => TrustInv
  BY DEF TrustInit, TrustInv, MovedSoFar

LEMMA StartKeeps == TrustInv /\ StartPublication => TrustInv'
  <1> SUFFICES ASSUME TrustInv, StartPublication PROVE TrustInv'
    OBVIOUS
  <1>1. PICK sha \in Shas :
          /\ runs[sha] = 0 /\ runs' = [runs EXCEPT ![sha] = 1]
          /\ period' = IF NoneRuns THEN {sha} ELSE period \cup {sha}
          /\ completed' = (completed /\ ~NoneRuns)
          /\ UNCHANGED <<put, latest, copies>>
    BY DEF StartPublication
  <1>2. runs' \in [Shas -> Nat] /\ runs'[sha] = 1 /\ sha \in period'
    BY <1>1 DEF TrustInv
  <1>3. \A other \in Shas : other # sha => runs'[other] = runs[other]
    BY <1>1 DEF TrustInv
  <1>4. CASE NoneRuns
    <2>1. \A other \in Shas : other # sha => runs'[other] = 0
      BY <1>3, <1>4 DEF NoneRuns
    <2>2. \A other \in Shas : MovedSoFar(other)'
      BY <1>2, <2>1 DEF MovedSoFar
    <2>3. completed' = FALSE /\ copies' = copies
      BY <1>1, <1>4
    <2> QED
      BY <1>2, <2>2, <2>3 DEF TrustInv
  <1>5. CASE ~NoneRuns
    <2>1. period \subseteq period' /\ latest' = latest /\ copies' = copies
      BY <1>1, <1>5
    <2>2. completed' => completed
      BY <1>1
    <2>3. \A other \in Shas : MovedSoFar(other)'
      BY <1>2, <1>3, <2>1 DEF TrustInv, MovedSoFar
    <2>4. AllOfThePeriod => AllOfThePeriod'
      BY <2>1 DEF AllOfThePeriod
    <2> QED
      BY <1>2, <2>1, <2>2, <2>3, <2>4 DEF TrustInv
  <1> QED
    BY <1>4, <1>5

LEMMA StepKeeps == TrustInv /\ PublicationStep => TrustInv'
  <1> SUFFICES ASSUME TrustInv, PublicationStep PROVE TrustInv'
    OBVIOUS
  <1>1. PICK sha \in Shas :
          /\ runs[sha] > 0 /\ Perform(sha, Steps[runs[sha]])
          /\ runs' = [runs EXCEPT ![sha] = IF @ = 7 THEN 0 ELSE @ + 1]
          /\ completed' = (completed \/ runs[sha] = 7)
          /\ period' = period
    BY StepsInOrder DEF PublicationStep
  <1>2. runs' \in [Shas -> Nat] /\ runs'[sha] = IF runs[sha] = 7 THEN 0 ELSE runs[sha] + 1
    BY <1>1 DEF TrustInv
  <1>3. \A other \in Shas : other # sha => runs'[other] = runs[other]
    BY <1>1 DEF TrustInv
  <1>4. MovedSoFar(sha) /\ runs[sha] \in 1..7 /\ sha \in period
    BY <1>1 DEF TrustInv, MovedSoFar
  <1>5. /\ latest' = IF runs[sha] = 4 THEN sha ELSE latest
        /\ copies' = [a \in Artifacts |->
             IF \/ runs[sha] = 5 /\ a = "jwks"
                \/ runs[sha] = 6 /\ a = "policy"
                \/ runs[sha] = 7 /\ a = "statuslist"
             THEN sha ELSE copies[a]]
    <2>0. /\ Perform(sha, Steps[runs[sha]])
          /\ copies = [a \in Artifacts |-> copies[a]]
      BY <1>1 DEF TrustInv
    <2>1. CASE runs[sha] \in 1..3
      <3>1. Steps[runs[sha]].op = "put"
        BY <2>1, StepsInOrder
      <3>2. latest' = latest /\ copies' = copies
        BY <2>0, <3>1 DEF Perform
      <3> QED
        BY <2>0, <2>1, <3>2
    <2>2. CASE runs[sha] = 4
      <3>1. latest' = sha /\ copies' = copies
        BY <2>0, <2>2, StepsInOrder DEF Perform
      <3> QED
        BY <2>0, <2>2, <3>1
    <2>3. CASE runs[sha] \in 5..7
      <3>1. ASSUME runs[sha] = 5
            PROVE  latest' = latest /\ copies' = [copies EXCEPT !["jwks"] = sha]
        <4>1. Perform(sha, [of |-> "jwks", op |-> "copy"])
          BY <2>0, <3>1, StepsInOrder
        <4> QED
          BY <4>1 DEF Perform
      <3>2. ASSUME runs[sha] = 6
            PROVE  latest' = latest /\ copies' = [copies EXCEPT !["policy"] = sha]
        <4>1. Perform(sha, [of |-> "policy", op |-> "copy"])
          BY <2>0, <3>2, StepsInOrder
        <4> QED
          BY <4>1 DEF Perform
      <3>3. ASSUME runs[sha] = 7
            PROVE  latest' = latest /\ copies' = [copies EXCEPT !["statuslist"] = sha]
        <4>1. Perform(sha, [of |-> "statuslist", op |-> "copy"])
          BY <2>0, <3>3, StepsInOrder
        <4> QED
          BY <4>1 DEF Perform
      <3> QED
        BY <2>0, <2>3, <3>1, <3>2, <3>3
    <2> QED
      BY <1>4, <2>1, <2>2, <2>3
  <1>6. /\ latest \in period => latest' \in period
        /\ \A a \in Artifacts : copies[a] \in period => copies'[a] \in period
    BY <1>4, <1>5
  <1>7. \A other \in Shas : MovedSoFar(other)'
    <2>1. ASSUME NEW other \in Shas, other # sha PROVE MovedSoFar(other)'
      BY <1>1, <1>3, <1>6, <2>1 DEF TrustInv, MovedSoFar, Artifacts
    <2>2. MovedSoFar(sha)'
      BY <1>1, <1>2, <1>4, <1>5 DEF MovedSoFar, Artifacts
    <2> QED
      BY <2>1, <2>2
  <1>8. completed' => AllOfThePeriod'
    <2>1. runs[sha] = 7 => AllOfThePeriod'
      BY <1>1, <1>4, <1>5 DEF MovedSoFar, AllOfThePeriod, Artifacts
    <2>2. completed => AllOfThePeriod'
      BY <1>1, <1>6 DEF TrustInv, AllOfThePeriod
    <2> QED
      BY <1>1, <2>1, <2>2
  <1>9. copies' = [a \in Artifacts |-> copies'[a]]
    BY <1>5
  <1> QED
    BY <1>2, <1>7, <1>8, <1>9 DEF TrustInv

LEMMA StopKeeps == TrustInv /\ PublicationStops => TrustInv'
  <1> SUFFICES ASSUME TrustInv, PublicationStops PROVE TrustInv'
    OBVIOUS
  <1>1. PICK sha \in Shas : runs' = [runs EXCEPT ![sha] = 0]
    BY DEF PublicationStops
  <1>2. UNCHANGED <<latest, copies, period, completed>>
    BY DEF PublicationStops
  <1>3. \A other \in Shas : MovedSoFar(other)'
    BY <1>1, <1>2 DEF TrustInv, MovedSoFar
  <1>4. AllOfThePeriod => AllOfThePeriod'
    BY <1>2 DEF AllOfThePeriod
  <1> QED
    BY <1>1, <1>2, <1>3, <1>4 DEF TrustInv

LEMMA TrustStep == TrustInv /\ [TrustNext]_trustVars => TrustInv'
  <1>1. TrustInv /\ UNCHANGED trustVars => TrustInv'
    BY DEF trustVars, TrustInv, MovedSoFar, AllOfThePeriod
  <1> QED
    BY <1>1, StartKeeps, StepKeeps, StopKeeps DEF TrustNext

LEMMA CopiesDecide == TrustInv => VerdictsAreOfThePeriod
  <1> SUFFICES ASSUME TrustInv, completed
               PROVE  latest \in period /\ copies \in [Artifacts -> period]
    BY DEF VerdictsAreOfThePeriod
  <1> QED
    BY DEF TrustInv, AllOfThePeriod

\* For any commits, artifacts and credentials, wherever publications are cut short and
\* however they overlap: once one has run to its end verifiers decide by what was
\* published since nothing was running (publish.ts:82-114, verify.ts:10).
THEOREM StableCopiesAreOfThePeriod == TrustSpec => []VerdictsAreOfThePeriod
  BY CopiesDecide, TrustInitially, TrustStep, PTL DEF TrustSpec

-----------------------------------------------------------------------------
(* Side by side                                                             *)

\* A step of one program is a step of it and leaves the others alone.
LEMMA StepsApart ==
  [ClientsNext]_clientVars =>
    /\ [SelfNext]_selfVars /\ [HrNext]_hrVars /\ [RequestorNext]_requestorVars
    /\ [RecruiterNext]_recruiterVars /\ [TrustNext]_trustVars
  BY DEF ClientsNext, clientVars, SelfServiceSteps, HRReviewSteps, ReqHomeSteps,
         RecruiterSteps, PublicationSteps

\* What is shown is true, attached once and of the current question, and verdicts are of
\* what was published together, whichever program runs (AppShell.tsx, routeForRole).
THEOREM ClientsShowWhatIsSo ==
  ClientsSpec =>
    [](/\ AnnouncedIsDone /\ NoEvidenceTwice
       /\ ListIsOfTheAppliedQuery /\ VerdictsAreOfThePeriod)
  <1> DEFINE Inv == SelfInv /\ EvidenceInv /\ FirstPagesAreApplied /\ TrustInv
  <1>1. ClientsInit => Inv
    BY SelfInitially, EvidenceInitially, ListInitially, TrustInitially DEF ClientsInit
  <1>2. Inv /\ [ClientsNext]_clientVars => Inv'
    BY StepsApart, SelfStep, EvidenceStep, ListStep, TrustStep
  <1>3. Inv => /\ AnnouncedIsDone /\ NoEvidenceTwice
               /\ ListIsOfTheAppliedQuery /\ VerdictsAreOfThePeriod
    BY CopiesDecide DEF SelfInv, EvidenceInv, OneUpload, NoEvidenceTwice, FirstPagesAreApplied
  <1> QED
    BY <1>1, <1>2, <1>3, PTL DEF ClientsSpec

\* The requestor's screens among them overwrite nothing unseen.
THEOREM ClientsOverwriteTheKnown == ClientsSpec => SavesOverwriteNothingUnseen
  <1>1. ClientsInit => RequestorInv
    BY RequestorInitially DEF ClientsInit
  <1>2. RequestorInv /\ [ClientsNext]_clientVars => RequestorInv'
    BY StepsApart, RequestorStep
  <1>3. RequestorInv /\ [ClientsNext]_clientVars =>
          [SaveRow /\ sent.of = detail.opened => rows[sent.of].claim = detail.known]_requestorVars
    BY SaveReplacesTheKnown
  <1> QED
    BY <1>1, <1>2, <1>3, PTL DEF ClientsSpec, SavesOverwriteNothingUnseen

=============================================================================
