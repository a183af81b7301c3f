----------------------------- MODULE EmployerAccess -----------------------------
(***************************************************************************)
(* internal/employeraccess/assignments.go over migration 000014: which     *)
(* principals may act for which employers.  An authorization holds the     *)
(* principal's row FOR SHARE until its transaction ends; grants and        *)
(* revocations hold it FOR UPDATE, and so does operator SQL, through the   *)
(* trigger on employer_hr_assignments.                                     *)
(*                                                                         *)
(* A connection runs one READ COMMITTED transaction at a time.  Its call   *)
(* is [op, employer, principal, value, assignment]:                        *)
(*   review   EmployerList or EmployerGet of an employer                   *)
(*   grant    Grant                                                        *)
(*   revoke   Revoke of an assignment                                      *)
(*   amend    an operator's UPDATE of an assignment to (principal,         *)
(*            employer, revoked = value)                                   *)
(*   account  UPDATE of domain_users that makes the principal an active    *)
(*            HR reviewer (value = TRUE) or not                               *)
(* A status other than active and a role other than hr_reviewer are one    *)
(* thing here: not a reviewer.                                             *)
(***************************************************************************)
EXTENDS Naturals, FiniteSets

CONSTANTS
  Connections, Principals, Employers, AssignmentIds,
  Null,       \* SQL NULL, no row, no call, no holder
  Stored,     \* the assignments there are at first
  MaxCalls    \* bound on the calls ever begun

VARIABLES
  call,        \* what each connection is executing, or Null
  phase,       \* the statement it executes next
  configured,  \* employers with a row in evt_employer_config
  reviewer,    \* principals whose row says active and hr_reviewer
  assignments, \* committed rows of employer_hr_assignments
  written,     \* the assignment each open transaction has written, or Null
  shared,      \* connections holding each principal's row FOR SHARE
  exclusive,   \* connection holding it FOR UPDATE, or Null
  rowLock,     \* connection holding each assignment's row, or Null
  begun        \* calls begun so far

locks == <<shared, exclusive, rowLock>>
vars == <<call, phase, configured, reviewer, assignments, written, locks, begun>>

Doing(c, op, where) == phase[c] = where /\ call[c].op = op

Goto(c, where) == phase' = [phase EXCEPT ![c] = where]

Assignment == [employer : Employers, principal : Principals, revoked : BOOLEAN]

Granted(p, e) == [employer |-> e, principal |-> p, revoked |-> FALSE]

ASSUME AccessAssumption ==
  /\ Null \notin Connections \cup Assignment
  /\ Stored \in [AssignmentIds -> Assignment \cup {Null}]
  /\ \A i, j \in AssignmentIds :
       Stored[i] = Stored[j] /\ Stored[i] # Null /\ ~Stored[i].revoked => i = j
  /\ MaxCalls \in Nat

Init ==
  /\ call = [c \in Connections |-> Null]
  /\ phase = [c \in Connections |-> "idle"]
  /\ configured \in SUBSET Employers
  /\ \A i \in AssignmentIds : Stored[i] # Null => Stored[i].employer \in configured
  /\ reviewer \in SUBSET Principals
  /\ assignments = Stored
  /\ written = [c \in Connections |-> Null]
  /\ shared = [p \in Principals |-> {}]
  /\ exclusive = [p \in Principals |-> Null]
  /\ rowLock = [i \in AssignmentIds |-> Null]
  /\ begun = 0

\* An unrevoked assignment of p to e.
Active(i, p, e) ==
  /\ assignments[i] # Null
  /\ assignments[i].principal = p /\ assignments[i].employer = e
  /\ ~assignments[i].revoked

Assigned(p, e) == \E i \in AssignmentIds : Active(i, p, e)

-----------------------------------------------------------------------------
(* Beginning a call                                                         *)

Begin(c, where, request) ==
  /\ phase[c] = "idle" /\ begun < MaxCalls
  /\ call' = [call EXCEPT ![c] = request]
  /\ Goto(c, where)
  /\ begun' = begun + 1
  /\ UNCHANGED <<configured, reviewer, assignments, written, locks>>

Request(op, p, e, i, value) ==
  [op |-> op, employer |-> e, principal |-> p, value |-> value, assignment |-> i]

BeginReview(c) == \E p \in Principals, e \in Employers :
  Begin(c, "authorize", Request("review", p, e, Null, FALSE))

\* AssignmentIds bounds the grants: each that begins has an id to itself.
IdsSuffice ==
  Cardinality({d \in Connections : phase[d] # "idle" /\ call[d].op = "grant"})
    < Cardinality({i \in AssignmentIds : assignments[i] = Null})

BeginGrant(c) == IdsSuffice /\ \E p \in Principals, e \in Employers :
  Begin(c, "principal", Request("grant", p, e, Null, FALSE))

BeginRevoke(c) == \E i \in AssignmentIds :
  Begin(c, "find", Request("revoke", Null, Null, i, TRUE))

BeginUpdate(c) ==
  \E p \in Principals, e \in Employers, i \in AssignmentIds, value \in BOOLEAN :
     Begin(c, "row", Request("amend", p, e, i, value))

BeginAccount(c) == \E p \in Principals, value \in BOOLEAN :
  Begin(c, "principal", Request("account", p, Null, Null, value))

-----------------------------------------------------------------------------
(* Authorize: check_employer_hr_assignment, whose two queries see what was  *)
(* committed when each of them starts                                       *)

\* Fault: the principal is read without FOR SHARE.
ReadPrincipalUnlocked(c) ==
  /\ phase[c] = "authorize"
  /\ Goto(c, IF call[c].principal \in reviewer THEN "check" ELSE "failed")
  /\ UNCHANGED <<call, configured, reviewer, assignments, written, locks, begun>>

LockShared(c) ==
  LET p == call[c].principal
  IN /\ phase[c] = "authorize"
     /\ exclusive[p] = Null
     /\ shared' = [shared EXCEPT ![p] = @ \cup {c}]
     /\ Goto(c, IF p \in reviewer THEN "check" ELSE "failed")
     /\ UNCHANGED <<call, configured, reviewer, assignments, written, exclusive, rowLock, begun>>

CheckAssignment(c) ==
  /\ phase[c] = "check"
  /\ Goto(c, IF Assigned(call[c].principal, call[c].employer) THEN "authorized" ELSE "failed")
  /\ UNCHANGED <<call, configured, reviewer, assignments, written, locks, begun>>

\* EmployerList and EmployerGet read the employer's requests.
ReadRequests(c) ==
  /\ Doing(c, "review", "authorized")
  /\ Goto(c, "ready")
  /\ UNCHANGED <<call, configured, reviewer, assignments, written, locks, begun>>

-----------------------------------------------------------------------------
(* Administration                                                           *)

\* Revoke reads whose assignment it is before it locks the principal.
FindAssignment(c) ==
  LET i == call[c].assignment
  IN /\ phase[c] = "find"
     /\ IF assignments[i] = Null
        THEN Goto(c, "failed") /\ UNCHANGED call
        ELSE /\ call' = [call EXCEPT ![c].principal = assignments[i].principal]
             /\ Goto(c, "principal")
     /\ UNCHANGED <<configured, reviewer, assignments, written, locks, begun>>

\* What an exclusive lock on the principal lets the call do next: a grant looks
\* at status and role, a revocation does not.
AfterLock(c) ==
  CASE call[c].op = "grant"   -> IF /\ call[c].principal \in reviewer
                                    /\ call[c].employer \in configured
                                 THEN "write" ELSE "failed"
    [] call[c].op = "account" -> "ready"
    [] OTHER                  -> "write"

\* Fault: the lock is granted beside shared ones.
LockBesideSharers(c) ==
  LET p == call[c].principal
  IN /\ phase[c] = "principal"
     /\ exclusive[p] = Null
     /\ exclusive' = [exclusive EXCEPT ![p] = c]
     /\ Goto(c, AfterLock(c))
     /\ UNCHANGED <<call, configured, reviewer, assignments, written, shared, rowLock, begun>>

LockExclusive(c) ==
  LET p == call[c].principal
  IN /\ phase[c] = "principal"
     /\ exclusive[p] = Null /\ shared[p] = {}
     /\ exclusive' = [exclusive EXCEPT ![p] = c]
     /\ Goto(c, AfterLock(c))
     /\ UNCHANGED <<call, configured, reviewer, assignments, written, shared, rowLock, begun>>

\* Fault: no unique index over unrevoked assignments.
InsertAnother(c) ==
  /\ Doing(c, "grant", "write")
  /\ \E i \in AssignmentIds :
       /\ assignments[i] = Null
       /\ \A d \in Connections : written[d] # Null => written[d].id # i
       /\ written' = [written EXCEPT ![c] =
            [id |-> i, row |-> Granted(call[c].principal, call[c].employer)]]
  /\ Goto(c, "ready")
  /\ UNCHANGED <<call, configured, reviewer, assignments, locks, begun>>

\* INSERT under a new UUID, refused by employer_hr_one_active if one is active.
InsertAssignment(c) ==
  /\ Doing(c, "grant", "write")
  /\ IF Assigned(call[c].principal, call[c].employer)
     THEN Goto(c, "failed") /\ UNCHANGED written
     ELSE /\ \E i \in AssignmentIds :
               /\ assignments[i] = Null
               /\ \A d \in Connections : written[d] # Null => written[d].id # i
               /\ written' = [written EXCEPT ![c] =
                    [id |-> i, row |-> Granted(call[c].principal, call[c].employer)]]
          /\ Goto(c, "ready")
  /\ UNCHANGED <<call, configured, reviewer, assignments, locks, begun>>

\* UPDATE ... WHERE assignment_id = $1 AND revoked_at IS NULL: waits for the row,
\* and is a conflict when the row it finds is revoked.
RevokeAssignment(c) ==
  LET i == call[c].assignment
  IN /\ Doing(c, "revoke", "write")
     /\ IF assignments[i].revoked
        THEN Goto(c, "failed") /\ UNCHANGED <<written, rowLock>>
        ELSE /\ rowLock[i] = Null
             /\ rowLock' = [rowLock EXCEPT ![i] = c]
             /\ written' = [written EXCEPT ![c] =
                  [id |-> i, row |-> [assignments[i] EXCEPT !.revoked = TRUE]]]
             /\ Goto(c, "ready")
     /\ UNCHANGED <<call, configured, reviewer, assignments, shared, exclusive, begun>>

\* enforce_employer_hr_assignment on UPDATE
UpdatePermitted(old, new) ==
  /\ ~old.revoked /\ new.revoked
  /\ new.principal = old.principal /\ new.employer = old.employer

\* PostgreSQL locks the row before it fires the BEFORE trigger on it, and the
\* trigger compares OLD and NEW before it locks the principal.
LockRow(c) ==
  LET i == call[c].assignment
      new == [employer |-> call[c].employer, principal |-> call[c].principal,
              revoked |-> call[c].value]
  IN /\ phase[c] = "row"
     /\ IF assignments[i] = Null
        THEN Goto(c, "ready") /\ UNCHANGED rowLock
        ELSE /\ rowLock[i] = Null
             /\ rowLock' = [rowLock EXCEPT ![i] = c]
             /\ Goto(c, IF UpdatePermitted(assignments[i], new) THEN "principal" ELSE "failed")
     /\ UNCHANGED <<call, configured, reviewer, assignments, written, shared, exclusive, begun>>

UpdateAssignment(c) ==
  /\ Doing(c, "amend", "write")
  /\ written' = [written EXCEPT ![c] =
       [id |-> call[c].assignment,
        row |-> [employer |-> call[c].employer, principal |-> call[c].principal,
                 revoked |-> call[c].value]]]
  /\ Goto(c, "ready")
  /\ UNCHANGED <<call, configured, reviewer, assignments, locks, begun>>

-----------------------------------------------------------------------------
(* Ending a transaction                                                     *)

\* Fault: an error return that leaves the transaction, and its locks, open.
ReleaseNothing(c) == UNCHANGED locks

Release(c) ==
  /\ shared' = [p \in Principals |-> shared[p] \ {c}]
  /\ exclusive' = [p \in Principals |-> IF exclusive[p] = c THEN Null ELSE exclusive[p]]
  /\ rowLock' = [i \in AssignmentIds |-> IF rowLock[i] = c THEN Null ELSE rowLock[i]]

End(c) ==
  /\ Release(c)
  /\ call' = [call EXCEPT ![c] = Null]
  /\ Goto(c, "idle")
  /\ written' = [written EXCEPT ![c] = Null]
  /\ UNCHANGED begun

Publish(c) ==
  /\ phase[c] = "ready"
  /\ assignments' = IF written[c] = Null THEN assignments
                    ELSE [assignments EXCEPT ![written[c].id] = written[c].row]
  /\ reviewer' = IF call[c].op # "account" THEN reviewer
                 ELSE IF call[c].value THEN reviewer \cup {call[c].principal}
                 ELSE reviewer \ {call[c].principal}
  /\ End(c)

Commit(c) == Publish(c) /\ UNCHANGED configured

\* The deferred Rollback of WithTx after an error.
Rollback(c) ==
  phase[c] = "failed" /\ End(c) /\ UNCHANGED <<configured, assignments, reviewer>>

\* Cancelled context, lost connection, crash of the process.
Lose(c) ==
  phase[c] # "idle" /\ End(c) /\ UNCHANGED <<configured, assignments, reviewer>>

\* d holds the row that c's next statement needs.
Waits(c, d) ==
  /\ c # d
  /\ \/ phase[c] = "authorize" /\ exclusive[call[c].principal] = d
     \/ /\ phase[c] = "principal"
        /\ d \in shared[call[c].principal] \cup {exclusive[call[c].principal]}
     \/ phase[c] = "row" /\ rowLock[call[c].assignment] = d
     \/ Doing(c, "revoke", "write") /\ rowLock[call[c].assignment] = d

\* PostgreSQL ends a statement that waits in a cycle.
DeadlockVictim(c) ==
  /\ \E d \in Connections : Waits(c, d) /\ Waits(d, c)
  /\ Goto(c, "failed")
  /\ UNCHANGED <<call, configured, reviewer, assignments, written, locks, begun>>

-----------------------------------------------------------------------------

BeginCall(c) ==
  \/ BeginReview(c) \/ BeginGrant(c) \/ BeginRevoke(c) \/ BeginUpdate(c) \/ BeginAccount(c)

Statement(c) ==
  \/ LockShared(c) \/ CheckAssignment(c) \/ ReadRequests(c)
  \/ FindAssignment(c) \/ LockExclusive(c) \/ InsertAssignment(c) \/ RevokeAssignment(c)
  \/ LockRow(c) \/ UpdateAssignment(c) \/ DeadlockVictim(c)

Step(c) == Statement(c) \/ Commit(c) \/ Rollback(c)

Next == \E c \in Connections : BeginCall(c) \/ Step(c) \/ Lose(c)

\* A connection that can go on does; nobody need ever call.
Spec == Init /\ [][Next]_vars /\ \A c \in Connections : WF_vars(Step(c))

-----------------------------------------------------------------------------
(* Properties                                                               *)

\* The transaction was authorized and has not ended.
Authorized(c) ==
  /\ phase[c] \notin {"idle", "authorize", "check", "failed"}
  /\ call[c].op \in {"review", "attest"}

\* From the moment an employer endpoint is authorized until its transaction ends,
\* the principal is an active reviewer with an unrevoked assignment to the employer:
\* a revocation or a disabled account waits for it or precedes it
\* (assignments.go:15-17, weekend-2-authorization-design.md:54).
AuthorizationHolds ==
  \A c \in Connections : Authorized(c) =>
     /\ call[c].principal \in reviewer
     /\ Assigned(call[c].principal, call[c].employer)

\* A principal has at most one unrevoked assignment to an employer, so that
\* revoking it is enough, however grants and revocations interleave.
OneActiveAssignment ==
  \A i, j \in AssignmentIds :
     (/\ assignments[i] # Null /\ assignments[j] # Null
      /\ ~assignments[i].revoked /\ ~assignments[j].revoked
      /\ assignments[i].principal = assignments[j].principal
      /\ assignments[i].employer = assignments[j].employer) => i = j

\* Every call ends, once calls stop arriving: locks are released on every path, and
\* the cycle of waits between Revoke and an operator's UPDATE, which lock principal
\* and assignment in opposite orders (assignments.go:89-96, 000014:152), is broken.
CallsEnd == \A c \in Connections : phase[c] # "idle" ~> phase[c] = "idle"

=============================================================================
