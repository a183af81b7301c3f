------------------------- MODULE EmployerAccess_proofs -------------------------
(***************************************************************************)
(* Authorizations hold and assignments stay unique, for any connections,   *)
(* principals, employers and assignments.  The inductive invariant is      *)
(* about the locks: an authorized call shares its principal's row, a call  *)
(* that may write holds it alone, and what a call has read under a lock or *)
(* can rely on without one is still true (Sharing, Excluding, Targeting,   *)
(* Writing).  It also allows for calls that EmployerAttestation adds.      *)
(***************************************************************************)
EXTENDS EmployerAccess, TLAPS

Revocations == [op : {"revoke"}, employer : {Null}, principal : Principals \cup {Null},
                value : {TRUE}, assignment : AssignmentIds]

\* The statement a connection executes next is one of its call's.
Calling == \A c \in Connections :
  /\ phase[c] \in {"authorize", "check", "authorized"} => call[c].op \in {"review", "attest"}
  /\ phase[c] = "find" => call[c].op = "revoke"
  /\ phase[c] = "row" => call[c].op = "amend"
  /\ phase[c] = "principal" => call[c].op \in {"grant", "revoke", "amend", "account"}
  /\ phase[c] = "write" => call[c].op \in {"grant", "revoke", "amend"}

\* The call of a busy connection names what its operation takes.
Naming == \A c \in Connections : phase[c] # "idle" =>
  /\ call[c].op \in {"review", "attest", "grant", "amend", "account"} =>
       call[c].principal \in Principals
  /\ call[c].op \in {"grant", "amend"} => call[c].employer \in Employers
  /\ call[c].op = "amend" => call[c].assignment \in AssignmentIds /\ call[c].value \in BOOLEAN
  /\ call[c].op = "revoke" => call[c] \in Revocations

Types ==
  /\ phase = [c \in Connections |-> phase[c]]
  /\ call = [c \in Connections |-> call[c]]
  /\ written = [c \in Connections |-> written[c]]
  /\ assignments \in [AssignmentIds -> Assignment \cup {Null}]
  /\ shared \in [Principals -> SUBSET Connections]
  /\ exclusive \in [Principals -> Connections \cup {Null}]
  /\ reviewer \subseteq Principals

\* A lock FOR UPDATE excludes those FOR SHARE.
Excluded == \A p \in Principals : exclusive[p] # Null => shared[p] = {}

\* An authorized call, or one about to be, shares its principal's row; what it saw
\* in that row and among the assignments is still so.
Sharing == \A c \in Connections :
  (/\ phase[c] \notin {"idle", "authorize", "failed"}
   /\ call[c].op \in {"review", "attest"}) =>
     /\ c \in shared[call[c].principal]
     /\ call[c].principal \in reviewer
     /\ phase[c] # "check" => Assigned(call[c].principal, call[c].employer)

\* A call that may write an assignment or an account, or has, holds the principal's
\* row alone.
Excluding == \A c \in Connections :
  \/ phase[c] = "write"
  \/ phase[c] = "ready" /\ call[c].op = "account"
  \/ phase[c] # "idle" /\ written[c] # Null
  => exclusive[call[c].principal] = c

\* Rows keep their principal and employer, so what a revocation or an amendment read
\* before it locked the principal has not gone stale.
Targeting == \A c \in Connections :
  phase[c] \in {"principal", "write"} /\ call[c].op \in {"revoke", "amend"} =>
     LET row == assignments[call[c].assignment]
     IN /\ row # Null
        /\ row.principal = call[c].principal
        /\ call[c].op = "amend" => row.employer = call[c].employer /\ call[c].value

\* What a transaction has written is a new and only active assignment of its
\* principal, or the revocation of a committed one.
Writing == \A c \in Connections : written[c] # Null =>
  /\ phase[c] = "ready"
  /\ call[c].op \in {"grant", "revoke", "amend"}
  /\ call[c].principal \in Principals
  /\ written[c].id \in AssignmentIds /\ written[c].row \in Assignment
  /\ written[c].row.principal = call[c].principal
  /\ LET old == assignments[written[c].id]
     IN \/ /\ old = Null
           /\ ~Assigned(written[c].row.principal, written[c].row.employer)
        \/ /\ old # Null
           /\ written[c].row.revoked
           /\ old.principal = written[c].row.principal
           /\ old.employer = written[c].row.employer

\* Two open transactions never insert under one id.
Inserting == \A c, d \in Connections :
  c # d /\ written[c] # Null /\ written[d] # Null /\ written[c].id = written[d].id =>
     assignments[written[c].id] # Null

AccessInv ==
  /\ Types /\ Calling /\ Naming /\ Excluded /\ Sharing /\ Excluding /\ Targeting
  /\ Writing /\ Inserting /\ OneActiveAssignment

-----------------------------------------------------------------------------

LEMMA InitAccessInv == Init => AccessInv
<1> SUFFICES ASSUME Init PROVE AccessInv
  OBVIOUS
<1>1. Types
  BY AccessAssumption DEF Init, Types
<1>2. Calling /\ Naming /\ Sharing /\ Excluding /\ Targeting
  BY DEF Init, Calling, Naming, Sharing, Excluding, Targeting
<1>3. Excluded /\ Writing /\ Inserting
  BY DEF Init, Excluded, Writing, Inserting
<1>4. OneActiveAssignment
  BY AccessAssumption DEF Init, OneActiveAssignment, Assignment
<1> QED
  BY <1>1, <1>2, <1>3, <1>4 DEF AccessInv

LEMMA LockSharedKeeps ==
  ASSUME AccessInv, NEW c \in Connections, LockShared(c)
  PROVE  AccessInv'
<1> USE DEF AccessInv, LockShared, Goto, locks
<1>1. Types'
  BY DEF Types, Calling, Naming
<1>2. Calling'
  BY DEF Types, Calling, Naming
<1>3. Naming'
  BY DEF Types, Calling, Naming
<1>4. Excluded'
  BY DEF Types, Calling, Naming, Excluded
<1>5. Sharing'
  BY DEF Types, Calling, Naming, Sharing, Assigned, Active
<1>6. Excluding'
  BY DEF Types, Calling, Naming, Excluding
<1>7. Targeting'
  BY DEF Types, Calling, Naming, Targeting
<1>8. Writing'
  BY DEF Types, Calling, Naming, Writing, Assigned, Active
<1>9. Inserting'
  BY DEF Types, Calling, Naming, Inserting
<1>10. OneActiveAssignment'
  BY DEF Types, Calling, Naming, OneActiveAssignment
<1> QED
  BY <1>1, <1>2, <1>3, <1>4, <1>5, <1>6, <1>7, <1>8, <1>9, <1>10

LEMMA CheckAssignmentKeeps ==
  ASSUME AccessInv, NEW c \in Connections, CheckAssignment(c)
  PROVE  AccessInv'
<1> USE DEF AccessInv, CheckAssignment, Goto, locks
<1>1. Types'
  BY DEF Types, Calling, Naming
<1>2. Calling'
  BY DEF Types, Calling, Naming
<1>3. Naming'
  BY DEF Types, Calling, Naming
<1>4. Excluded'
  BY DEF Types, Calling, Naming, Excluded
<1>5. Sharing'
  BY DEF Types, Calling, Naming, Sharing, Assigned, Active
<1>6. Excluding'
  BY DEF Types, Calling, Naming, Excluding
<1>7. Targeting'
  BY DEF Types, Calling, Naming, Targeting
<1>8. Writing'
  BY DEF Types, Calling, Naming, Writing, Assigned, Active
<1>9. Inserting'
  BY DEF Types, Calling, Naming, Inserting
<1>10. OneActiveAssignment'
  BY DEF Types, Calling, Naming, OneActiveAssignment
<1> QED
  BY <1>1, <1>2, <1>3, <1>4, <1>5, <1>6, <1>7, <1>8, <1>9, <1>10

LEMMA ReadRequestsKeeps ==
  ASSUME AccessInv, NEW c \in Connections, ReadRequests(c)
  PROVE  AccessInv'
<1> USE DEF AccessInv, ReadRequests, Goto, locks, Doing
<1>1. Types'
  BY DEF Types, Calling, Naming
<1>2. Calling'
  BY DEF Types, Calling, Naming
<1>3. Naming'
  BY DEF Types, Calling, Naming
<1>4. Excluded'
  BY DEF Types, Calling, Naming, Excluded
<1>5. Sharing'
  BY DEF Types, Calling, Naming, Sharing, Assigned, Active
<1>6. Excluding'
  BY DEF Types, Calling, Naming, Excluding
<1>7. Targeting'
  BY DEF Types, Calling, Naming, Targeting
<1>8. Writing'
  BY DEF Types, Calling, Naming, Writing, Assigned, Active
<1>9. Inserting'
  BY DEF Types, Calling, Naming, Inserting
<1>10. OneActiveAssignment'
  BY DEF Types, Calling, Naming, OneActiveAssignment
<1> QED
  BY <1>1, <1>2, <1>3, <1>4, <1>5, <1>6, <1>7, <1>8, <1>9, <1>10

LEMMA Redirected ==
  ASSUME NEW r \in Revocations, NEW p \in Principals
  PROVE  LET u == [r EXCEPT !.principal = p]
         IN /\ u \in Revocations /\ u.op = "revoke"
            /\ u.principal = p /\ u.assignment = r.assignment
  BY DEF Revocations

LEMMA FindAssignmentKeeps ==
  ASSUME AccessInv, NEW c \in Connections, FindAssignment(c)
  PROVE  AccessInv'
<1> DEFINE i == call[c].assignment
           row == assignments[i]
<1>1. /\ phase[c] = "find" /\ call[c].op = "revoke" /\ call[c] \in Revocations
      /\ i \in AssignmentIds /\ row \in Assignment \cup {Null}
  BY DEF AccessInv, FindAssignment, Calling, Naming, Types, Revocations
<1>2. /\ UNCHANGED <<reviewer, assignments, written, shared, exclusive>>
      /\ \A d \in Connections \ {c} : call'[d] = call[d] /\ phase'[d] = phase[d]
      /\ Types'
  BY DEF AccessInv, FindAssignment, Types, Goto, locks
<1>3. \/ phase'[c] = "failed" /\ call'[c] = call[c]
      \/ /\ phase'[c] = "principal" /\ row # Null
         /\ call'[c] \in Revocations /\ call'[c].op = "revoke"
         /\ call'[c].principal = row.principal /\ call'[c].assignment = i
  <2>1. CASE row = Null
    BY <2>1 DEF AccessInv, FindAssignment, Types, Goto
  <2>2. CASE row # Null
    <3> DEFINE u == [call[c] EXCEPT !.principal = row.principal]
    <3>1. row.principal \in Principals
      BY <1>1, <2>2 DEF Assignment
    <3>2. /\ u \in Revocations /\ u.op = "revoke"
          /\ u.principal = row.principal /\ u.assignment = i
      BY <1>1, <3>1, Redirected
    <3>3. call' = [call EXCEPT ![c] = u] /\ phase' = [phase EXCEPT ![c] = "principal"]
      BY <2>2 DEF FindAssignment, Goto
    <3> HIDE DEF u
    <3> QED
      BY <2>2, <3>2, <3>3 DEF AccessInv, Types
  <2> QED
    BY <2>1, <2>2
<1>4. Calling' /\ Naming'
  BY <1>1, <1>2, <1>3 DEF AccessInv, Calling, Naming
<1>5. Excluded' /\ Sharing'
  BY <1>1, <1>2, <1>3 DEF AccessInv, Excluded, Sharing, Assigned, Active
<1>6. Excluding'
  BY <1>1, <1>2, <1>3 DEF AccessInv, Excluding, Writing
<1>7. Targeting'
  BY <1>1, <1>2, <1>3 DEF AccessInv, Targeting
<1>8. Writing' /\ Inserting'
  BY <1>1, <1>2, <1>3 DEF AccessInv, Writing, Inserting, Assigned, Active
<1>9. OneActiveAssignment'
  BY <1>2 DEF AccessInv, OneActiveAssignment
<1> QED
  BY <1>2, <1>4, <1>5, <1>6, <1>7, <1>8, <1>9 DEF AccessInv

LEMMA LockExclusiveKeeps ==
  ASSUME AccessInv, NEW c \in Connections, LockExclusive(c)
  PROVE  AccessInv'
<1> USE DEF AccessInv, LockExclusive, Goto, AfterLock
<1>1. Types'
  BY DEF Types, Calling, Naming
<1>2. Calling'
  BY DEF Types, Calling, Naming
<1>3. Naming'
  BY DEF Types, Calling, Naming
<1>4. Excluded'
  BY DEF Types, Calling, Naming, Excluded
<1>5. Sharing'
  BY DEF Types, Calling, Naming, Sharing, Assigned, Active
<1>6. Excluding'
  <2>1. call[c].principal \in Principals
    <3>1. CASE call[c].op = "revoke"
      <4>1. call[c].assignment \in AssignmentIds
        BY <3>1 DEF Naming, Revocations
      <4> QED
        BY <3>1, <4>1 DEF Types, Targeting, Assignment
    <3>2. CASE call[c].op # "revoke"
      BY <3>2 DEF Calling, Naming
    <3> QED
      BY <3>1, <3>2
  <2> QED
    BY <2>1, AccessAssumption DEF Types, Calling, Naming, Excluding
<1>7. Targeting'
  BY DEF Types, Calling, Naming, Targeting
<1>8. Writing'
  BY DEF Types, Calling, Naming, Writing, Assigned, Active
<1>9. Inserting'
  BY DEF Types, Calling, Naming, Inserting
<1>10. OneActiveAssignment'
  BY DEF Types, Calling, Naming, OneActiveAssignment
<1> QED
  BY <1>1, <1>2, <1>3, <1>4, <1>5, <1>6, <1>7, <1>8, <1>9, <1>10

\* A write of a row that is a new and only assignment, or revokes a committed one.
LEMMA WriteKept ==
  ASSUME AccessInv, NEW c \in Connections, NEW w,
         phase[c] = "write", Goto(c, "ready"), written' = [written EXCEPT ![c] = w],
         UNCHANGED <<call, assignments>>,
         w.id \in AssignmentIds, w.row \in Assignment,
         w.row.principal = call[c].principal,
         \/ /\ assignments[w.id] = Null
            /\ ~Assigned(w.row.principal, w.row.employer)
            /\ \A d \in Connections : written[d] # Null => written[d].id # w.id
         \/ /\ assignments[w.id] # Null /\ w.row.revoked
            /\ assignments[w.id].principal = w.row.principal
            /\ assignments[w.id].employer = w.row.employer
  PROVE  Writing' /\ Inserting'
<1>1. /\ phase'[c] = "ready" /\ written'[c] = w
      /\ \A d \in Connections \ {c} : phase'[d] = phase[d] /\ written'[d] = written[d]
  BY DEF AccessInv, Types, Goto
<1>2. call[c].op \in {"grant", "revoke", "amend"} /\ call[c].principal \in Principals
  BY DEF AccessInv, Calling, Assignment
<1>3. Writing'
  BY <1>1, <1>2 DEF AccessInv, Writing, Assigned, Active
<1>4. Inserting'
  BY <1>1 DEF AccessInv, Inserting
<1> QED
  BY <1>3, <1>4

LEMMA InsertAssignmentKeeps ==
  ASSUME AccessInv, NEW c \in Connections, InsertAssignment(c)
  PROVE  AccessInv'
<1> USE DEF AccessInv, InsertAssignment, Goto, Doing, locks
<1>1. Types'
  BY DEF Types, Calling, Naming
<1>2. Calling'
  BY DEF Types, Calling, Naming
<1>3. Naming'
  BY DEF Types, Calling, Naming
<1>4. Excluded'
  BY DEF Types, Calling, Naming, Excluded
<1>5. Sharing'
  BY DEF Types, Calling, Naming, Sharing, Assigned, Active
<1>6. Excluding'
  BY DEF Types, Calling, Naming, Excluding
<1>7. Targeting'
  BY DEF Types, Calling, Naming, Targeting
<1>8. Writing' /\ Inserting'
  <2>1. CASE Assigned(call[c].principal, call[c].employer)
    BY <2>1 DEF Types, Calling, Naming, Writing, Inserting, Assigned, Active
  <2>2. CASE ~Assigned(call[c].principal, call[c].employer)
    <3> DEFINE row == Granted(call[c].principal, call[c].employer)
    <3>1. PICK i \in AssignmentIds :
            /\ assignments[i] = Null
            /\ \A d \in Connections : written[d] # Null => written[d].id # i
            /\ written' = [written EXCEPT ![c] = [id |-> i, row |-> row]]
      BY <2>2
    <3>2. /\ row \in Assignment
          /\ row.principal = call[c].principal /\ row.employer = call[c].employer
      BY DEF Naming, Granted, Assignment
    <3> DEFINE w == [id |-> i, row |-> row]
    <3>3. w.id = i /\ w.row = row
      OBVIOUS
    <3> HIDE DEF row, w
    <3>4. /\ phase[c] = "write" /\ Goto(c, "ready") /\ UNCHANGED <<call, assignments>>
          /\ written' = [written EXCEPT ![c] = w]
      BY <2>2, <3>1 DEF w
    <3> QED
      BY <2>2, <3>1, <3>2, <3>3, <3>4, WriteKept
  <2> QED
    BY <2>1, <2>2
<1>9. OneActiveAssignment'
  BY DEF Types, Calling, Naming, OneActiveAssignment
<1> QED
  BY <1>1, <1>2, <1>3, <1>4, <1>5, <1>6, <1>7, <1>8, <1>9

LEMMA RevokeAssignmentKeeps ==
  ASSUME AccessInv, NEW c \in Connections, RevokeAssignment(c)
  PROVE  AccessInv'
<1> USE DEF AccessInv, RevokeAssignment, Goto, Doing
<1>1. Types'
  BY DEF Types, Calling, Naming
<1>2. Calling'
  BY DEF Types, Calling, Naming
<1>3. Naming'
  BY DEF Types, Calling, Naming
<1>4. Excluded'
  BY DEF Types, Calling, Naming, Excluded
<1>5. Sharing'
  BY DEF Types, Calling, Naming, Sharing, Assigned, Active
<1>6. Excluding'
  BY DEF Types, Calling, Naming, Excluding
<1>7. Targeting'
  BY DEF Types, Calling, Naming, Targeting
<1>8. Writing' /\ Inserting'
  <2> DEFINE i == call[c].assignment
             old == assignments[i]
             row == [old EXCEPT !.revoked = TRUE]
             w == [id |-> i, row |-> row]
  <2>1. i \in AssignmentIds
    BY DEF Naming, Revocations
  <2>2. old \in Assignment /\ old # Null /\ old.principal = call[c].principal
    BY <2>1 DEF Types, Targeting
  <2>3. /\ row \in Assignment /\ row.revoked
        /\ row.principal = old.principal /\ row.employer = old.employer
    BY <2>2 DEF Assignment
  <2>4. w.id = i /\ w.row = row
    OBVIOUS
  <2>5. CASE old.revoked
    BY <2>5 DEF Types, Calling, Naming, Writing, Inserting, Assigned, Active
  <2>6. CASE ~old.revoked
    <3>1. /\ phase[c] = "write" /\ Goto(c, "ready") /\ UNCHANGED <<call, assignments>>
          /\ written' = [written EXCEPT ![c] = w]
      BY <2>6
    <3> HIDE DEF row, w
    <3> QED
      BY <2>1, <2>2, <2>3, <2>4, <3>1, WriteKept
  <2> QED
    BY <2>5, <2>6
<1>9. OneActiveAssignment'
  BY DEF Types, Calling, Naming, OneActiveAssignment
<1> QED
  BY <1>1, <1>2, <1>3, <1>4, <1>5, <1>6, <1>7, <1>8, <1>9

LEMMA LockRowKeeps ==
  ASSUME AccessInv, NEW c \in Connections, LockRow(c)
  PROVE  AccessInv'
<1> USE DEF AccessInv, LockRow, Goto, UpdatePermitted
<1>1. Types'
  BY DEF Types, Calling, Naming
<1>2. Calling'
  BY DEF Types, Calling, Naming
<1>3. Naming'
  BY DEF Types, Calling, Naming
<1>4. Excluded'
  BY DEF Types, Calling, Naming, Excluded
<1>5. Sharing'
  BY DEF Types, Calling, Naming, Sharing, Assigned, Active
<1>6. Excluding'
  BY DEF Types, Calling, Naming, Excluding
<1>7. Targeting'
  BY DEF Types, Calling, Naming, Targeting
<1>8. Writing'
  BY DEF Types, Calling, Naming, Writing, Assigned, Active
<1>9. Inserting'
  BY DEF Types, Calling, Naming, Inserting
<1>10. OneActiveAssignment'
  BY DEF Types, Calling, Naming, OneActiveAssignment
<1> QED
  BY <1>1, <1>2, <1>3, <1>4, <1>5, <1>6, <1>7, <1>8, <1>9, <1>10

LEMMA UpdateAssignmentKeeps ==
  ASSUME AccessInv, NEW c \in Connections, UpdateAssignment(c)
  PROVE  AccessInv'
<1> USE DEF AccessInv, UpdateAssignment, Goto, Doing, locks
<1>1. Types'
  BY DEF Types, Calling, Naming
<1>2. Calling'
  BY DEF Types, Calling, Naming
<1>3. Naming'
  BY DEF Types, Calling, Naming
<1>4. Excluded'
  BY DEF Types, Calling, Naming, Excluded
<1>5. Sharing'
  BY DEF Types, Calling, Naming, Sharing, Assigned, Active
<1>6. Excluding'
  BY DEF Types, Calling, Naming, Excluding
<1>7. Targeting'
  BY DEF Types, Calling, Naming, Targeting
<1>8. Writing' /\ Inserting'
  <2> DEFINE i == call[c].assignment
             old == assignments[i]
             row == [employer |-> call[c].employer, principal |-> call[c].principal,
                     revoked |-> call[c].value]
             w == [id |-> i, row |-> row]
  <2>1. /\ i \in AssignmentIds /\ old # Null
        /\ old.principal = call[c].principal /\ old.employer = call[c].employer
        /\ call[c].value
    BY DEF Naming, Targeting
  <2>2. row \in Assignment
    BY DEF Naming, Assignment
  <2>3. row.revoked /\ row.principal = old.principal /\ row.employer = old.employer
    BY <2>1
  <2>4. w.id = i /\ w.row = row
    OBVIOUS
  <2>5. /\ phase[c] = "write" /\ Goto(c, "ready") /\ UNCHANGED <<call, assignments>>
        /\ written' = [written EXCEPT ![c] = w]
    OBVIOUS
  <2> HIDE DEF row, w
  <2> QED
    BY <2>1, <2>2, <2>3, <2>4, <2>5, WriteKept
<1>9. OneActiveAssignment'
  BY DEF Types, Calling, Naming, OneActiveAssignment
<1> QED
  BY <1>1, <1>2, <1>3, <1>4, <1>5, <1>6, <1>7, <1>8, <1>9

LEMMA DeadlockVictimKeeps ==
  ASSUME AccessInv, NEW c \in Connections, DeadlockVictim(c)
  PROVE  AccessInv'
<1> USE DEF AccessInv, DeadlockVictim, Goto, locks, Waits, Doing
<1>1. Types'
  BY DEF Types, Calling, Naming
<1>2. Calling'
  BY DEF Types, Calling, Naming
<1>3. Naming'
  BY DEF Types, Calling, Naming
<1>4. Excluded'
  BY DEF Types, Calling, Naming, Excluded
<1>5. Sharing'
  BY DEF Types, Calling, Naming, Sharing, Assigned, Active
<1>6. Excluding'
  BY DEF Types, Calling, Naming, Excluding
<1>7. Targeting'
  BY DEF Types, Calling, Naming, Targeting
<1>8. Writing'
  BY DEF Types, Calling, Naming, Writing, Assigned, Active
<1>9. Inserting'
  BY DEF Types, Calling, Naming, Inserting
<1>10. OneActiveAssignment'
  BY DEF Types, Calling, Naming, OneActiveAssignment
<1> QED
  BY <1>1, <1>2, <1>3, <1>4, <1>5, <1>6, <1>7, <1>8, <1>9, <1>10

LEMMA BeginKeeps ==
  ASSUME AccessInv, NEW c \in Connections, BeginCall(c)
  PROVE  AccessInv'
<1>1. PICK where, request :
        /\ Begin(c, where, request)
        /\ \/ /\ where = "authorize" /\ request.op = "review"
              /\ request.principal \in Principals
           \/ /\ where = "principal" /\ request.op \in {"grant", "account"}
              /\ request.principal \in Principals
              /\ request.op = "grant" => request.employer \in Employers
           \/ where = "find" /\ request \in Revocations /\ request.op = "revoke"
           \/ /\ where = "row" /\ request.op = "amend"
              /\ request.principal \in Principals /\ request.employer \in Employers
              /\ request.assignment \in AssignmentIds /\ request.value \in BOOLEAN
  <2>1. CASE BeginReview(c)
    BY <2>1 DEF BeginReview, Request
  <2>2. CASE BeginGrant(c)
    BY <2>2 DEF BeginGrant, Request
  <2>3. CASE BeginRevoke(c)
    <3>1. PICK i \in AssignmentIds :
            Begin(c, "find", Request("revoke", Null, Null, i, TRUE))
      BY <2>3 DEF BeginRevoke
    <3>2. /\ Request("revoke", Null, Null, i, TRUE) \in Revocations
          /\ Request("revoke", Null, Null, i, TRUE).op = "revoke"
      BY DEF Request, Revocations
    <3> QED
      BY <3>1, <3>2
  <2>4. CASE BeginUpdate(c)
    BY <2>4 DEF BeginUpdate, Request
  <2>5. CASE BeginAccount(c)
    BY <2>5 DEF BeginAccount, Request
  <2> QED
    BY <2>1, <2>2, <2>3, <2>4, <2>5 DEF BeginCall
<1>2. /\ UNCHANGED <<reviewer, assignments, written, shared, exclusive>>
      /\ \A d \in Connections \ {c} : call'[d] = call[d] /\ phase'[d] = phase[d]
      /\ phase[c] = "idle" /\ phase'[c] = where /\ call'[c] = request
      /\ Types'
  BY <1>1 DEF AccessInv, Types, Begin, Goto, locks
<1>3. Calling' /\ Naming'
  BY <1>1, <1>2 DEF AccessInv, Calling, Naming
<1>4. Excluded' /\ Sharing'
  BY <1>1, <1>2 DEF AccessInv, Excluded, Sharing, Assigned, Active
<1>5. Excluding'
  BY <1>1, <1>2 DEF AccessInv, Excluding, Writing
<1>6. Targeting'
  BY <1>1, <1>2 DEF AccessInv, Targeting
<1>7. Writing' /\ Inserting'
  BY <1>1, <1>2 DEF AccessInv, Writing, Inserting, Assigned, Active
<1>8. OneActiveAssignment'
  BY <1>2 DEF AccessInv, OneActiveAssignment
<1> QED
  BY <1>2, <1>3, <1>4, <1>5, <1>6, <1>7, <1>8 DEF AccessInv

LEMMA EndReleases ==
  ASSUME AccessInv, NEW c \in Connections, End(c)
  PROVE  /\ phase'[c] = "idle" /\ written'[c] = Null
         /\ \A d \in Connections \ {c} :
              call'[d] = call[d] /\ phase'[d] = phase[d] /\ written'[d] = written[d]
         /\ \A p \in Principals : shared'[p] = shared[p] \ {c}
         /\ Calling' /\ Naming' /\ Excluded' /\ Excluding'
         /\ shared' \in [Principals -> SUBSET Connections]
         /\ exclusive' \in [Principals -> Connections \cup {Null}]
         /\ phase' = [d \in Connections |-> phase'[d]]
         /\ call' = [d \in Connections |-> call'[d]]
         /\ written' = [d \in Connections |-> written'[d]]
<1> USE DEF AccessInv, End, Release, Goto
<1>1. /\ phase'[c] = "idle" /\ written'[c] = Null
      /\ \A d \in Connections \ {c} :
           call'[d] = call[d] /\ phase'[d] = phase[d] /\ written'[d] = written[d]
      /\ phase' = [d \in Connections |-> phase'[d]]
      /\ call' = [d \in Connections |-> call'[d]]
      /\ written' = [d \in Connections |-> written'[d]]
  BY DEF Types
<1>2. \A p \in Principals :
        /\ shared'[p] = shared[p] \ {c}
        /\ exclusive'[p] = IF exclusive[p] = c THEN Null ELSE exclusive[p]
  BY DEF Types
<1>3. /\ shared' \in [Principals -> SUBSET Connections]
      /\ exclusive' \in [Principals -> Connections \cup {Null}]
  BY DEF Types
<1>4. Calling' /\ Naming'
  BY <1>1 DEF Calling, Naming
<1>5. Excluded'
  BY <1>2 DEF Excluded, Types
<1>6. Excluding'
  <2> SUFFICES ASSUME NEW d \in Connections,
                      \/ phase'[d] = "write"
                      \/ phase'[d] = "ready" /\ call'[d].op = "account"
                      \/ phase'[d] # "idle" /\ written'[d] # Null
               PROVE  exclusive'[call'[d].principal] = d
    BY DEF Excluding
  <2>1. d # c /\ call'[d] = call[d] /\ exclusive[call[d].principal] = d
    BY <1>1 DEF Excluding
  <2>2. call[d].principal \in Principals
    <3>1. CASE phase[d] = "write" /\ call[d].op = "revoke"
      <4>1. call[d].assignment \in AssignmentIds
        BY <3>1 DEF Naming, Revocations
      <4> QED
        BY <3>1, <4>1 DEF Types, Targeting, Assignment
    <3>2. CASE written[d] # Null
      BY <3>2 DEF Writing
    <3>3. CASE written[d] = Null /\ ~(phase[d] = "write" /\ call[d].op = "revoke")
      BY <1>1, <2>1, <3>3 DEF Calling, Naming
    <3> QED
      BY <3>1, <3>2, <3>3
  <2> QED
    BY <1>2, <2>1, <2>2
<1> QED
  BY <1>1, <1>2, <1>3, <1>4, <1>5, <1>6

\* A rollback.
LEMMA EndKeeps ==
  ASSUME AccessInv, NEW c \in Connections, End(c), UNCHANGED <<reviewer, assignments>>
  PROVE  AccessInv'
<1>1. /\ phase'[c] = "idle" /\ written'[c] = Null
      /\ \A d \in Connections \ {c} :
           call'[d] = call[d] /\ phase'[d] = phase[d] /\ written'[d] = written[d]
      /\ \A p \in Principals : shared'[p] = shared[p] \ {c}
  BY EndReleases
<1>2. Calling' /\ Naming' /\ Excluded' /\ Excluding'
  BY EndReleases
<1>3. Types'
  BY EndReleases DEF AccessInv, Types
<1>4. Sharing'
  BY <1>1 DEF AccessInv, Calling, Naming, Sharing, Assigned, Active
<1>5. Targeting'
  BY <1>1 DEF AccessInv, Targeting
<1>6. Writing' /\ Inserting'
  BY <1>1 DEF AccessInv, Writing, Inserting, Assigned, Active
<1>7. OneActiveAssignment'
  BY DEF AccessInv, OneActiveAssignment
<1> QED
  BY <1>2, <1>3, <1>4, <1>5, <1>6, <1>7 DEF AccessInv

\* A commit that writes no assignment, and may change an account.
LEMMA PublishAccountKeeps ==
  ASSUME AccessInv, NEW c \in Connections, Publish(c), written[c] = Null
  PROVE  AccessInv'
<1>1. End(c) /\ phase[c] = "ready" /\ UNCHANGED assignments
  BY DEF Publish
<1>2. /\ phase'[c] = "idle" /\ written'[c] = Null
      /\ \A d \in Connections \ {c} :
           call'[d] = call[d] /\ phase'[d] = phase[d] /\ written'[d] = written[d]
      /\ \A p \in Principals : shared'[p] = shared[p] \ {c}
  BY <1>1, EndReleases
<1>3. Calling' /\ Naming' /\ Excluded' /\ Excluding'
  BY <1>1, EndReleases
<1>4. /\ reviewer' \subseteq Principals
      /\ \A p \in Principals : p \in reviewer /\ p \notin reviewer' => shared[p] = {}
  <2>1. CASE call[c].op # "account"
    BY <2>1 DEF Publish, AccessInv, Types
  <2>2. CASE call[c].op = "account"
    <3>1. call[c].principal \in Principals /\ exclusive[call[c].principal] = c
      BY <1>1, <2>2 DEF AccessInv, Naming, Excluding
    <3>2. shared[call[c].principal] = {}
      BY <3>1, AccessAssumption DEF AccessInv, Excluded
    <3> QED
      BY <2>2, <3>1, <3>2 DEF Publish, AccessInv, Types
  <2> QED
    BY <2>1, <2>2
<1>5. Types'
  BY <1>1, <1>4, EndReleases DEF AccessInv, Types
<1>6. Sharing'
  BY <1>1, <1>2, <1>4 DEF AccessInv, Calling, Naming, Sharing, Assigned, Active
<1>7. Targeting'
  BY <1>1, <1>2 DEF AccessInv, Targeting
<1>8. Writing' /\ Inserting'
  BY <1>1, <1>2 DEF AccessInv, Writing, Inserting, Assigned, Active
<1>9. OneActiveAssignment'
  BY <1>1 DEF AccessInv, OneActiveAssignment
<1> QED
  BY <1>3, <1>5, <1>6, <1>7, <1>8, <1>9 DEF AccessInv

\* A commit that writes an assignment: its writer holds the principal alone, so no
\* authorization and no other writer is about that principal.
LEMMA PublishAssignmentKeeps ==
  ASSUME AccessInv, NEW c \in Connections, Publish(c), written[c] # Null
  PROVE  AccessInv'
<1> DEFINE id == written[c].id
           row == written[c].row
           old == assignments[id]
           After(p, e) == \E i \in AssignmentIds :
             /\ assignments'[i] # Null
             /\ assignments'[i].principal = p /\ assignments'[i].employer = e
             /\ ~assignments'[i].revoked
<1>1. End(c) /\ phase[c] = "ready" /\ assignments' = [assignments EXCEPT ![id] = row]
  BY DEF Publish
<1>2. /\ phase'[c] = "idle" /\ written'[c] = Null
      /\ \A d \in Connections \ {c} :
           call'[d] = call[d] /\ phase'[d] = phase[d] /\ written'[d] = written[d]
      /\ \A p \in Principals : shared'[p] = shared[p] \ {c}
  BY <1>1, EndReleases
<1>3. Calling' /\ Naming' /\ Excluded' /\ Excluding'
  BY <1>1, EndReleases
<1>4. /\ call[c].op \in {"grant", "revoke", "amend"}
      /\ id \in AssignmentIds /\ row \in Assignment
      /\ row.principal = call[c].principal /\ row.principal \in Principals
      /\ \/ old = Null /\ ~Assigned(row.principal, row.employer)
         \/ /\ old # Null /\ row.revoked
            /\ old.principal = row.principal /\ old.employer = row.employer
  BY DEF AccessInv, Writing
<1>5. row # Null /\ old \in Assignment \cup {Null}
  BY <1>4, AccessAssumption DEF AccessInv, Types
<1>6. exclusive[row.principal] = c /\ shared[row.principal] = {}
  <2>1. exclusive[row.principal] = c
    BY <1>1, <1>4 DEF AccessInv, Excluding
  <2> QED
    BY <1>4, <2>1, AccessAssumption DEF AccessInv, Excluded
<1>7. /\ assignments'[id] = row
      /\ \A i \in AssignmentIds \ {id} : assignments'[i] = assignments[i]
      /\ assignments' \in [AssignmentIds -> Assignment \cup {Null}]
  BY <1>1, <1>4 DEF AccessInv, Types
<1> HIDE DEF id, row, old
<1>8. UNCHANGED reviewer
  BY <1>4 DEF Publish
<1>9. Types'
  BY <1>1, <1>7, <1>8, EndReleases DEF AccessInv, Types
<1>10. \A p \in Principals, e \in Employers :
         p # row.principal => (After(p, e) <=> Assigned(p, e))
  BY <1>4, <1>5, <1>7 DEF Assigned, Active, old
<1>11. Sharing'
  <2> SUFFICES ASSUME NEW d \in Connections,
                      phase'[d] \notin {"idle", "authorize", "failed"},
                      call'[d].op \in {"review", "attest"}
               PROVE  /\ d \in shared'[call'[d].principal]
                      /\ call'[d].principal \in reviewer'
                      /\ phase'[d] # "check" =>
                           After(call'[d].principal, call'[d].employer)
    BY DEF Sharing, Assigned, Active
  <2>1. /\ d # c /\ call'[d] = call[d] /\ phase'[d] = phase[d]
        /\ d \in shared[call[d].principal] /\ call[d].principal \in reviewer
        /\ call[d].principal \in Principals
        /\ phase[d] # "check" => Assigned(call[d].principal, call[d].employer)
    BY <1>2 DEF AccessInv, Sharing, Naming
  <2>2. call[d].principal # row.principal
    BY <1>6, <2>1
  <2>3. \A e : (\E i \in AssignmentIds : Active(i, call[d].principal, e))
               => After(call[d].principal, e)
    BY <1>7, <2>2, <1>4 DEF Active, old
  <2> QED
    BY <1>2, <1>8, <2>1, <2>2, <2>3 DEF Assigned
<1>12. Targeting'
  <2> SUFFICES ASSUME NEW d \in Connections, d # c,
                      phase[d] \in {"principal", "write"}, call[d].op \in {"revoke", "amend"}
               PROVE  LET new == assignments'[call[d].assignment]
                      IN /\ new # Null
                         /\ new.principal = call[d].principal
                         /\ call[d].op = "amend" =>
                              new.employer = call[d].employer /\ call[d].value
    BY <1>2 DEF Targeting
  <2> DEFINE i == call[d].assignment
  <2>1. i \in AssignmentIds
    BY DEF AccessInv, Naming, Revocations
  <2>2. /\ assignments[i] # Null /\ assignments[i].principal = call[d].principal
        /\ call[d].op = "amend" =>
             assignments[i].employer = call[d].employer /\ call[d].value
    BY DEF AccessInv, Targeting
  <2>3. CASE i = id
    BY <1>4, <1>5, <1>7, <2>2, <2>3 DEF old
  <2>4. CASE i # id
    BY <1>7, <2>1, <2>2, <2>4
  <2> QED
    BY <2>3, <2>4
<1>13. Writing'
  <2> SUFFICES ASSUME NEW d \in Connections, d # c, written[d] # Null
               PROVE  \/ /\ assignments'[written[d].id] = Null
                         /\ ~After(written[d].row.principal, written[d].row.employer)
                      \/ /\ assignments'[written[d].id] # Null
                         /\ written[d].row.revoked
                         /\ assignments'[written[d].id].principal = written[d].row.principal
                         /\ assignments'[written[d].id].employer = written[d].row.employer
    BY <1>2 DEF AccessInv, Writing, Assigned, Active
  <2> DEFINE id2 == written[d].id
             row2 == written[d].row
             old2 == assignments[id2]
  <2>1. /\ id2 \in AssignmentIds /\ row2 \in Assignment
        /\ \/ old2 = Null /\ ~Assigned(row2.principal, row2.employer)
           \/ /\ old2 # Null /\ row2.revoked
              /\ old2.principal = row2.principal /\ old2.employer = row2.employer
    BY DEF AccessInv, Writing
  <2>2. exclusive[row2.principal] = d
    BY DEF AccessInv, Writing, Excluding
  <2>3. row2.principal # row.principal
    BY <1>6, <2>2
  <2>4. row2.principal \in Principals /\ row2.employer \in Employers
    BY <2>1 DEF Assignment
  <2>5. id2 = id => old2 # Null
    BY DEF AccessInv, Inserting, id
  <2>6. CASE id2 = id
    BY <1>4, <1>5, <1>7, <2>1, <2>5, <2>6 DEF old
  <2>7. CASE id2 # id
    BY <1>7, <1>10, <2>1, <2>3, <2>4, <2>7
  <2> QED
    BY <2>6, <2>7
<1>14. Inserting'
  BY <1>2, <1>4, <1>5, <1>7 DEF AccessInv, Inserting, Writing
<1>15. OneActiveAssignment'
  BY <1>4, <1>5, <1>7 DEF AccessInv, OneActiveAssignment, Assigned, Active
<1> QED
  BY <1>3, <1>9, <1>11, <1>12, <1>13, <1>14, <1>15 DEF AccessInv

LEMMA NextAccessInv == AccessInv /\ [Next]_vars => AccessInv'
<1> SUFFICES ASSUME AccessInv, [Next]_vars PROVE AccessInv'
  OBVIOUS
<1>1. ASSUME NEW c \in Connections, BeginCall(c) PROVE AccessInv'
  BY <1>1, BeginKeeps
<1>2. ASSUME NEW c \in Connections, Statement(c) PROVE AccessInv'
  BY <1>2, LockSharedKeeps, CheckAssignmentKeeps, ReadRequestsKeeps, FindAssignmentKeeps,
     LockExclusiveKeeps, InsertAssignmentKeeps, RevokeAssignmentKeeps, LockRowKeeps,
     UpdateAssignmentKeeps, DeadlockVictimKeeps DEF Statement
<1>3. ASSUME NEW c \in Connections, Commit(c) PROVE AccessInv'
  BY <1>3, PublishAccountKeeps, PublishAssignmentKeeps DEF Commit
<1>4. ASSUME NEW c \in Connections, Rollback(c) \/ Lose(c) PROVE AccessInv'
  BY <1>4, EndKeeps DEF Rollback, Lose
<1>5. CASE UNCHANGED vars
  BY <1>5 DEF vars, locks, AccessInv, Types, Calling, Naming, Excluded, Sharing, Assigned,
     Active, Excluding, Targeting, Writing, Inserting, OneActiveAssignment
<1> QED
  BY <1>1, <1>2, <1>3, <1>4, <1>5 DEF Next, Step

LEMMA AccessInvHolds == Spec => []AccessInv
<1> QED
  BY InitAccessInv, NextAccessInv, PTL DEF Spec

-----------------------------------------------------------------------------

\* From its authorization to the end of its transaction, an employer endpoint acts for
\* an active reviewer who is assigned to the employer, whatever administrators and
\* operators do at the same time.
THEOREM AuthorizationHoldsAlways == Spec => []AuthorizationHolds
<1>1. AccessInv => AuthorizationHolds
  BY DEF AccessInv, Sharing, AuthorizationHolds, Authorized
<1> QED
  BY <1>1, AccessInvHolds, PTL

\* However grants, revocations and operator SQL interleave, no principal is assigned
\* twice to an employer.
THEOREM OneActiveAssignmentAlways == Spec => []OneActiveAssignment
<1>1. AccessInv => OneActiveAssignment
  BY DEF AccessInv
<1> QED
  BY <1>1, AccessInvHolds, PTL

\* An assignment, once made, stays with its principal and its employer, and its
\* revocation is final.
AssignmentsKept == \A i \in AssignmentIds : assignments[i] # Null =>
  /\ assignments'[i] # Null
  /\ assignments'[i].principal = assignments[i].principal
  /\ assignments'[i].employer = assignments[i].employer
  /\ assignments[i].revoked => assignments'[i].revoked

\* What Revoke reads before it holds any lock (assignments.go:89-92) is therefore
\* still so when it writes, and a revoked assignment never grants access again.
THEOREM RevocationIsFinal == Spec => [][AssignmentsKept]_vars
<1>1. AccessInv /\ [Next]_vars => [AssignmentsKept]_vars
  <2> SUFFICES ASSUME AccessInv, Next PROVE AssignmentsKept
    OBVIOUS
  <2>1. UNCHANGED assignments \/ \E c \in Connections : Publish(c)
    BY DEF Next, BeginCall, BeginReview, BeginGrant, BeginRevoke, BeginUpdate, BeginAccount,
       Begin, Step, Statement, LockShared, CheckAssignment, ReadRequests, FindAssignment,
       LockExclusive, InsertAssignment, RevokeAssignment, LockRow, UpdateAssignment,
       DeadlockVictim, Commit, Rollback, Lose
  <2>2. CASE UNCHANGED assignments
    BY <2>2 DEF AssignmentsKept
  <2>3. ASSUME NEW c \in Connections, Publish(c), written[c] # Null PROVE AssignmentsKept
    <3> DEFINE id == written[c].id
               row == written[c].row
               old == assignments[id]
    <3>1. /\ id \in AssignmentIds /\ row \in Assignment
          /\ old # Null => /\ row.revoked
                           /\ old.principal = row.principal /\ old.employer = row.employer
      BY <2>3 DEF AccessInv, Writing
    <3>2. row # Null
      BY <3>1, AccessAssumption
    <3>3. /\ assignments'[id] = row
          /\ \A i \in AssignmentIds \ {id} : assignments'[i] = assignments[i]
      BY <2>3, <3>1 DEF Publish, AccessInv, Types
    <3> QED
      BY <3>1, <3>2, <3>3 DEF AssignmentsKept
  <2>4. ASSUME NEW c \in Connections, Publish(c), written[c] = Null PROVE AssignmentsKept
    BY <2>4 DEF Publish, AssignmentsKept
  <2> QED
    BY <2>1, <2>2, <2>3, <2>4
<1> QED
  BY <1>1, AccessInvHolds, PTL DEF Spec

=============================================================================
