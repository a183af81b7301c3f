------------------------------- MODULE AuthSession -------------------------------
(***************************************************************************)
(* The auth handlers of internal/httpapi: a sign-in opens a session with   *)
(* one refresh token, a refresh replaces the current token of its session, *)
(* and a replaced token that comes back is taken for reuse and closes the  *)
(* session.  Refresh runs SERIALIZABLE and logout READ COMMITTED; both     *)
(* lock the session's row first.                                           *)
(*                                                                         *)
(* A request is sent, perhaps begun (its snapshot is taken), and answered; *)
(* the connection may break at any of these points.                        *)
(***************************************************************************)
EXTENDS Naturals, FiniteSets

CONSTANTS
  Callers,     \* who may have one request outstanding
  Sessions, Tokens, None

ASSUME IdAssumption ==
  /\ Sessions \subseteq Nat /\ Tokens \subseteq Nat
  /\ None \notin Sessions \cup Tokens

VARIABLES
  session,   \* session_id of each refresh token, None before it is issued
  current,   \* tokens with is_current
  revoked,   \* tokens with revoked_at
  state,     \* of each session: "none", "open" or its revoke_reason
  version,   \* version of each row of auth_sessions, as the database tells them apart
  op         \* each caller's request

tables == <<session, current, revoked, state, version>>
sessionVars == <<tables, op>>

Reasons == {"logout", "reuse_detected", "user_inactive"}
Statuses == {"ok", "unauthorized", "forbidden", "failed"}   \* "failed": a 5xx, or no answer
Idle == [at |-> "idle"]
Requests == [at : {"sent"}, token : Tokens \cup {None}, kind : {"exchange", "refresh", "logout"}]
Running == [at : {"begun"}, token : Tokens, seen : Nat, rotates : BOOLEAN]
Answers == [status : Statuses, at : {"answered"}, token : Tokens \cup {None}]

Family(s) == {t \in Tokens : session[t] = s}
FreshToken(t) == session[t] = None /\ \A u \in Tokens : u < t => session[u] # None
FreshSession(s) == state[s] = "none" /\ \A r \in Sessions : r < s => state[r] # "none"

\* What HandleAuthRefresh turns away before it looks at is_current.  A token may also
\* have reached expires_at: the clock is a choice of RefuseRefresh.
Invalid(t) == state[session[t]] # "open" \/ t \in revoked

SessionInit ==
  /\ session = [t \in Tokens |-> None]
  /\ current = {} /\ revoked = {}
  /\ state = [s \in Sessions |-> "none"]
  /\ version = [s \in Sessions |-> 0]
  /\ op = [c \in Callers |-> Idle]

-----------------------------------------------------------------------------
(* Requests and answers                                                     *)

Send(c, kind, t) ==
  op' = [op EXCEPT ![c] = [at |-> "sent", token |-> t, kind |-> kind]]

Reply(c, status, t) ==
  op' = [op EXCEPT ![c] = [status |-> status, at |-> "answered", token |-> t]]

Sent(c, kind) == op[c].at = "sent" /\ op[c].kind = kind

\* The request or its answer is lost; a transaction under way dies with the context
\* of its request.
Disconnect(c) ==
  /\ op[c].at # "idle" /\ (op[c].at = "answered" => op[c].status # "failed")
  /\ Reply(c, "failed", None)
  /\ UNCHANGED tables

\* Any failing statement rolls the transaction back.
ServerError(c) ==
  /\ op[c].at \in {"sent", "begun"}
  /\ Reply(c, "failed", None)
  /\ UNCHANGED tables

-----------------------------------------------------------------------------
(* issueAuthExchangeResponseForKratosIdentity                                *)

OpenSession(c) == \E s \in Sessions, t \in Tokens :
  /\ FreshSession(s) /\ FreshToken(t)
  /\ session' = [session EXCEPT ![t] = s]
  /\ current' = current \cup {t}
  /\ state' = [state EXCEPT ![s] = "open"]
  /\ Reply(c, "ok", t)
  /\ UNCHANGED <<revoked, version>>

Exchange(c) ==
  /\ Sent(c, "exchange")
  /\ \/ OpenSession(c)
     \/ Reply(c, "forbidden", None) /\ UNCHANGED tables

-----------------------------------------------------------------------------
(* HandleAuthRefresh                                                        *)

\* The first statement takes the snapshot and waits for the row; the lock is granted
\* when the call goes on.
BeginRefresh(c) ==
  /\ Sent(c, "refresh")
  /\ LET t == op[c].token IN
     op' = [op EXCEPT ![c] =
       [at |-> "begun", token |-> t, seen |-> version[session[t]],
        rotates |-> ~Invalid(t) /\ t \in current]]
  /\ UNCHANGED tables

\* A row changed since the snapshot cannot be locked by a serializable transaction.
Serializable(c) == version[session[op[c].token]] = op[c].seen

\* Fault: the rows are read without FOR UPDATE.
RotatesFaultUnlocked(c) == op[c].rotates

Rotates(c) ==
  LET t == op[c].token IN Serializable(c) /\ ~Invalid(t) /\ t \in current

\* UPDATE ... WHERE session_id = ... AND revoked_at IS NULL, on both tables.
RevokeFamily(s, reason) ==
  /\ current' = current \ (Family(s) \ revoked)
  /\ revoked' = revoked \cup Family(s)
  /\ state' = [state EXCEPT ![s] = IF @ = "open" THEN reason ELSE @]
  /\ version' = [version EXCEPT ![s] = IF state[s] = "open" THEN @ + 1 ELSE @]
  /\ UNCHANGED session

Conflict(c) ==
  /\ op[c].at = "begun" /\ ~Serializable(c)
  /\ Reply(c, "failed", None)
  /\ UNCHANGED tables

\* Invalid, past expires_at, or of a user whose role cannot be read.
RefuseRefresh(c) ==
  /\ op[c].at = "begun" /\ Serializable(c)
  /\ Reply(c, "unauthorized", None)
  /\ UNCHANGED tables

\* Reuse, and a user whose status is not active at this moment, close the session in
\* the refused call; the error of that COMMIT is only logged.
CloseSession(c) ==
  LET t == op[c].token IN
  /\ op[c].at = "begun" /\ Serializable(c) /\ ~Invalid(t)
  /\ Reply(c, IF t \in current THEN "forbidden" ELSE "unauthorized", None)
  /\ \/ RevokeFamily(session[t], IF t \in current THEN "user_inactive" ELSE "reuse_detected")
     \/ UNCHANGED tables

Rotate(c) == \E t \in Tokens :
  LET old == op[c].token  s == session[op[c].token] IN
  /\ op[c].at = "begun" /\ Rotates(c)
  /\ FreshToken(t)
  /\ session' = [session EXCEPT ![t] = s]
  /\ current' = (current \ {old}) \cup {t}
  /\ version' = [version EXCEPT ![s] = @ + 1]
  /\ Reply(c, "ok", t)
  /\ UNCHANGED <<revoked, state>>

-----------------------------------------------------------------------------
(* HandleAuthLogout, and the callers                                         *)

Logout(c) ==
  /\ Sent(c, "logout")
  /\ RevokeFamily(session[op[c].token], "logout")
  /\ Reply(c, "ok", None)

Handle(c) ==
  \/ Exchange(c) \/ BeginRefresh(c) \/ Conflict(c) \/ RefuseRefresh(c)
  \/ CloseSession(c) \/ Rotate(c) \/ Logout(c)

\* A caller sends a token it was given, or takes its answer.
Call(c) ==
  /\ \/ op[c].at = "idle" /\ Send(c, "exchange", None)
     \/ /\ op[c].at = "idle"
        /\ \E t \in Tokens, kind \in {"refresh", "logout"} :
              session[t] # None /\ Send(c, kind, t)
     \/ op[c].at = "answered" /\ op' = [op EXCEPT ![c] = Idle]
  /\ UNCHANGED tables

SessionNext ==
  \E c \in Callers : Handle(c) \/ ServerError(c) \/ Disconnect(c) \/ Call(c)

SessionSpec == SessionInit /\ [][SessionNext]_sessionVars

-----------------------------------------------------------------------------
(* Properties                                                               *)

SessionTypeOK ==
  /\ session \in [Tokens -> Sessions \cup {None}]
  /\ current \subseteq Tokens /\ revoked \subseteq Tokens
  /\ state \in [Sessions -> {"none", "open"} \cup Reasons]
  /\ version \in [Sessions -> Nat]
  /\ op \in [Callers -> {Idle} \cup Requests \cup Running \cup Answers]

\* An open session has exactly one token that can be rotated, a closed one none:
\* however refreshes, sign-ins and logouts race, no second line of tokens survives
\* (refresh.go:55-62, logout.go:45-81).
OneCurrentToken ==
  /\ \A s \in Sessions : state[s] = "open" =>
       \E t \in Family(s) \ revoked : current \cap Family(s) = {t}
  /\ \A t \in current : state[session[t]] = "open"

\* A revoked session keeps its reason and is never given another token: a refresh
\* that raced a logout or a reuse cannot outlive it ("A revoked session must reject
\* even a token left current by a racing logout", refresh.go:56).
RevokedSessionIsFinal ==
  [][\A s \in Sessions : state[s] \in Reasons =>
        state'[s] = state[s] /\ {t \in Tokens : session'[t] = s} = Family(s)]_sessionVars

=============================================================================
