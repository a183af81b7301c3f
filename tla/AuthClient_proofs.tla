----------------------------- MODULE AuthClient_proofs -----------------------------
(***************************************************************************)
(* What AuthClient's run shows of two calls and one relaunch holds for any *)
(* number of calls, relaunches, sessions and tokens.                       *)
(***************************************************************************)
EXTENDS AuthClient, TLAPS

-----------------------------------------------------------------------------
(* The sessions of AuthSession keep one current token while they are open   *)
(* and end for good, for any number of callers, sessions and tokens, with   *)
(* callers that send whatever tokens were issued, in any order and twice.   *)

\* A request names a token that was issued.
KnownRequest(r) ==
  /\ r.at = "sent" /\ r.kind # "exchange" => r.token \in Tokens /\ session[r.token] \in Sessions
  /\ r.at = "begun" => session[r.token] \in Sessions

KnownRequests == \A c \in Callers : KnownRequest(op[c])

\* OneCurrentToken says nothing of sessions that were not opened, nor what a revoked
\* token's session is: a step could give a closed session a token, or revoke one token
\* of an open session.
TokensFollowSessions ==
  /\ \A t \in current : session[t] \in Sessions /\ state[session[t]] = "open"
  /\ \A t, u \in current : session[t] = session[u] => t = u
  /\ \A s \in Sessions : state[s] = "open" => \E t \in current : session[t] = s
  /\ \A t \in revoked : session[t] \in Sessions /\ state[session[t]] \in Reasons
  /\ \A t \in Tokens, s \in Sessions : session[t] = s => state[s] # "none"

IInv == SessionTypeOK /\ KnownRequests /\ TokensFollowSessions

\* What RevokedSessionIsFinal says of one step.
FinalStep ==
  \A s \in Sessions : state[s] \in Reasons =>
    state'[s] = state[s] /\ {t \in Tokens : session'[t] = s} = Family(s)

-----------------------------------------------------------------------------
\* The invariant states what a reader of the tables relies on.
LEMMA InvariantGivesOneCurrentToken == IInv => OneCurrentToken
  <1> SUFFICES ASSUME IInv PROVE OneCurrentToken
    OBVIOUS
  <1> USE DEF IInv, TokensFollowSessions, SessionTypeOK
  <1>1. \A t \in current : state[session[t]] = "open"
    OBVIOUS
  <1>2. ASSUME NEW s \in Sessions, state[s] = "open"
        PROVE  \E t \in Family(s) \ revoked : current \cap Family(s) = {t}
    <2>1. PICK t \in current : session[t] = s
      BY <1>2
    <2>2. t \in Family(s) \ revoked
      BY <1>2, <2>1 DEF Family, Reasons
    <2>3. current \cap Family(s) = {t}
      BY <2>1 DEF Family
    <2> QED
      BY <2>2, <2>3
  <1> QED
    BY <1>1, <1>2 DEF OneCurrentToken

LEMMA InitEstablishesInvariant == SessionInit => IInv
  <1> SUFFICES ASSUME SessionInit PROVE IInv
    OBVIOUS
  <1>1. SessionTypeOK
    BY DEF SessionInit, SessionTypeOK
  <1>2. KnownRequests
    BY DEF SessionInit, KnownRequests, KnownRequest, Idle
  <1>3. TokensFollowSessions
    BY IdAssumption DEF SessionInit, TokensFollowSessions
  <1> QED
    BY <1>1, <1>2, <1>3 DEF IInv

\* A step that writes no table keeps the invariant if what it sends is well formed.
LEMMA RequestsOnly ==
  ASSUME IInv, UNCHANGED tables,
         op' \in [Callers -> {Idle} \cup Requests \cup Running \cup Answers],
         KnownRequests'
  PROVE  IInv' /\ FinalStep
  <1>1. SessionTypeOK'
    BY DEF IInv, SessionTypeOK, tables
  <1>2. TokensFollowSessions'
    BY DEF IInv, TokensFollowSessions, tables
  <1>3. FinalStep
    BY DEF FinalStep, Family, tables
  <1> QED
    BY <1>1, <1>2, <1>3 DEF IInv

\* A step that changes one caller's request only.
LEMMA OneRequestOnly ==
  ASSUME IInv, UNCHANGED tables, NEW c \in Callers,
         NEW r \in {Idle} \cup Requests \cup Running \cup Answers,
         KnownRequest(r), op' = [op EXCEPT ![c] = r]
  PROVE  IInv' /\ FinalStep
  <1>1. op' \in [Callers -> {Idle} \cup Requests \cup Running \cup Answers]
    BY DEF IInv, SessionTypeOK
  <1>2. KnownRequests'
    BY DEF IInv, SessionTypeOK, KnownRequests, KnownRequest, tables
  <1> QED
    BY <1>1, <1>2, RequestsOnly

\* An answer carries no request.
LEMMA AnswerOnly ==
  ASSUME IInv, UNCHANGED tables, NEW c \in Callers, NEW answer \in Statuses,
         NEW t \in Tokens \cup {None}, Reply(c, answer, t)
  PROVE  IInv' /\ FinalStep
  <1> DEFINE r == [status |-> answer, at |-> "answered", token |-> t]
  <1>1. r \in Answers /\ KnownRequest(r)
    BY DEF Answers, KnownRequest
  <1>2. op' = [op EXCEPT ![c] = r]
    BY DEF Reply
  <1> HIDE DEF r
  <1> QED
    BY <1>1, <1>2, OneRequestOnly

-----------------------------------------------------------------------------
(* The handlers                                                             *)

\* A sign-in gives a session that is new a token that is new.
LEMMA OpenSessionKeeps ==
  ASSUME IInv, NEW c \in Callers, OpenSession(c)
  PROVE  IInv' /\ FinalStep
  <1>1. PICK s \in Sessions, t \in Tokens :
          /\ state[s] = "none" /\ session[t] = None
          /\ session' = [session EXCEPT ![t] = s]
          /\ current' = current \cup {t}
          /\ state' = [state EXCEPT ![s] = "open"]
          /\ Reply(c, "ok", t)
          /\ UNCHANGED <<revoked, version>>
    BY DEF OpenSession, FreshSession, FreshToken
  <1> USE DEF IInv, SessionTypeOK
  <1>2. [status |-> "ok", at |-> "answered", token |-> t] \in Answers
    BY DEF Answers, Statuses
  <1>3. SessionTypeOK'
    BY <1>1, <1>2 DEF Reply
  <1>4. KnownRequests'
    BY <1>1, IdAssumption DEF KnownRequests, KnownRequest, Reply
  <1>5. t \notin current /\ t \notin revoked /\ \A u \in Tokens : session[u] # s
    BY <1>1, IdAssumption DEF TokensFollowSessions
  <1>6. TokensFollowSessions'
    <2>1. \A u \in current' : session'[u] \in Sessions /\ state'[session'[u]] = "open"
      BY <1>1, <1>5 DEF TokensFollowSessions
    <2>2. \A u, v \in current' : session'[u] = session'[v] => u = v
      BY <1>1, <1>5 DEF TokensFollowSessions
    <2>3. \A r \in Sessions : state'[r] = "open" => \E u \in current' : session'[u] = r
      BY <1>1, <1>5 DEF TokensFollowSessions
    <2>4. \A u \in revoked' : session'[u] \in Sessions /\ state'[session'[u]] \in Reasons
      BY <1>1, <1>5 DEF TokensFollowSessions
    <2>5. \A u \in Tokens, r \in Sessions : session'[u] = r => state'[r] # "none"
      BY <1>1, <1>5 DEF TokensFollowSessions
    <2> QED
      BY <2>1, <2>2, <2>3, <2>4, <2>5 DEF TokensFollowSessions
  <1>7. FinalStep
    BY <1>1, IdAssumption DEF FinalStep, Family, Reasons
  <1> QED
    BY <1>3, <1>4, <1>6, <1>7

\* Revoking a family ends its session, or leaves it ended as it was.
LEMMA RevokeFamilyKeeps ==
  ASSUME IInv, NEW c \in Callers, NEW s \in Sessions, NEW reason \in Reasons,
         NEW answer \in Statuses, Reply(c, answer, None),
         RevokeFamily(s, reason), state[s] # "none"
  PROVE  IInv' /\ FinalStep
  <1> USE DEF IInv, SessionTypeOK
  <1>1. [status |-> answer, at |-> "answered", token |-> None] \in Answers
    BY DEF Answers
  <1>2. SessionTypeOK'
    <2>1. state' \in [Sessions -> {"none", "open"} \cup Reasons]
      BY DEF RevokeFamily
    <2>2. version' \in [Sessions -> Nat]
      BY DEF RevokeFamily
    <2>3. op' \in [Callers -> {Idle} \cup Requests \cup Running \cup Answers]
      BY <1>1 DEF Reply
    <2> QED
      BY <2>1, <2>2, <2>3 DEF RevokeFamily, Family
  <1>3. KnownRequests'
    BY DEF KnownRequests, KnownRequest, Reply, RevokeFamily
  <1>4. current' = {t \in current : session[t] # s}
    BY DEF RevokeFamily, Family, TokensFollowSessions, Reasons
  <1>5. state'[s] \in Reasons /\ \A r \in Sessions : r # s => state'[r] = state[r]
    BY DEF RevokeFamily
  <1>6. TokensFollowSessions'
    <2>1. \A t \in revoked' : session'[t] \in Sessions /\ state'[session'[t]] \in Reasons
      BY <1>5 DEF RevokeFamily, Family, TokensFollowSessions
    <2>2. \A t \in current' : session'[t] \in Sessions /\ state'[session'[t]] = "open"
      BY <1>4, <1>5 DEF RevokeFamily, TokensFollowSessions
    <2>3. \A r \in Sessions : state'[r] = "open" => \E t \in current' : session'[t] = r
      BY <1>4, <1>5 DEF RevokeFamily, TokensFollowSessions, Reasons
    <2>4. \A t \in Tokens, r \in Sessions : session'[t] = r => state'[r] # "none"
      BY <1>5 DEF RevokeFamily, TokensFollowSessions, Reasons
    <2> QED
      BY <1>4, <2>1, <2>2, <2>3, <2>4 DEF RevokeFamily, TokensFollowSessions
  <1>7. FinalStep
    BY DEF FinalStep, RevokeFamily, Family, Reasons
  <1> QED
    BY <1>2, <1>3, <1>6, <1>7

\* A rotation moves the one current token of an open session on.
LEMMA RotateKeeps ==
  ASSUME IInv, NEW c \in Callers, Rotate(c)
  PROVE  IInv' /\ FinalStep
  <1> DEFINE old == op[c].token
             s == session[old]
  <1> USE DEF IInv, SessionTypeOK
  <1>1. PICK t \in Tokens :
          /\ session[t] = None
          /\ session' = [session EXCEPT ![t] = s]
          /\ current' = (current \ {old}) \cup {t}
          /\ version' = [version EXCEPT ![s] = @ + 1]
          /\ Reply(c, "ok", t)
          /\ UNCHANGED <<revoked, state>>
    BY DEF Rotate, FreshToken
  <1>2. s \in Sessions /\ old \in current /\ state[s] = "open"
    BY DEF Rotate, Rotates, Invalid, KnownRequests, KnownRequest
  <1> HIDE DEF old, s
  <1>3. [status |-> "ok", at |-> "answered", token |-> t] \in Answers
    BY DEF Answers, Statuses
  <1>4. SessionTypeOK'
    BY <1>1, <1>2, <1>3 DEF Reply
  <1>5. KnownRequests'
    BY <1>1, <1>2, IdAssumption DEF KnownRequests, KnownRequest, Reply
  <1>6. session[old] = s
    BY DEF s
  <1>7. t \notin current /\ t \notin revoked
    BY <1>1, IdAssumption DEF TokensFollowSessions
  <1>8. TokensFollowSessions'
    <2>1. \A u \in current' : session'[u] \in Sessions /\ state'[session'[u]] = "open"
      BY <1>1, <1>2, <1>7 DEF TokensFollowSessions
    <2>2. \A u, v \in current' : session'[u] = session'[v] => u = v
      BY <1>1, <1>2, <1>6, <1>7 DEF TokensFollowSessions
    <2>3. \A r \in Sessions : state'[r] = "open" => \E u \in current' : session'[u] = r
      BY <1>1, <1>2, <1>6, <1>7 DEF TokensFollowSessions
    <2>4. \A u \in revoked' : session'[u] \in Sessions /\ state'[session'[u]] \in Reasons
      BY <1>1, <1>7 DEF TokensFollowSessions
    <2>5. \A u \in Tokens, r \in Sessions : session'[u] = r => state'[r] # "none"
      BY <1>1, <1>2 DEF TokensFollowSessions
    <2> QED
      BY <2>1, <2>2, <2>3, <2>4, <2>5 DEF TokensFollowSessions
  <1>9. FinalStep
    BY <1>1, <1>2, IdAssumption DEF FinalStep, Family, Reasons
  <1> QED
    BY <1>4, <1>5, <1>8, <1>9

\* Reuse and an inactive user end the session, or do not when their COMMIT fails.
LEMMA CloseSessionKeeps ==
  ASSUME IInv, NEW c \in Callers, CloseSession(c)
  PROVE  IInv' /\ FinalStep
  <1> DEFINE t == op[c].token
             answer == IF t \in current THEN "forbidden" ELSE "unauthorized"
             reason == IF t \in current THEN "user_inactive" ELSE "reuse_detected"
  <1>1. session[t] \in Sessions /\ state[session[t]] = "open"
    BY DEF CloseSession, Invalid, IInv, KnownRequests, KnownRequest
  <1>2. Reply(c, answer, None) /\ answer \in Statuses /\ reason \in Reasons
    BY DEF CloseSession, Statuses, Reasons
  <1>3. CASE UNCHANGED tables
    BY <1>2, <1>3, AnswerOnly
  <1>4. CASE RevokeFamily(session[t], reason)
    BY <1>1, <1>2, <1>4, RevokeFamilyKeeps
  <1> QED
    BY <1>3, <1>4 DEF CloseSession

LEMMA LogoutKeeps ==
  ASSUME IInv, NEW c \in Callers, Logout(c)
  PROVE  IInv' /\ FinalStep
  <1> DEFINE t == op[c].token
  <1>1. t \in Tokens /\ session[t] \in Sessions
    BY DEF Logout, Sent, IInv, KnownRequests, KnownRequest
  <1>2. state[session[t]] # "none"
    BY <1>1 DEF IInv, TokensFollowSessions
  <1>3. Reply(c, "ok", None) /\ RevokeFamily(session[t], "logout")
    BY DEF Logout
  <1> QED
    BY <1>1, <1>2, <1>3, RevokeFamilyKeeps DEF Statuses, Reasons

LEMMA BeginRefreshKeeps ==
  ASSUME IInv, NEW c \in Callers, BeginRefresh(c)
  PROVE  IInv' /\ FinalStep
  <1> DEFINE t == op[c].token
             r == [at |-> "begun", token |-> t, seen |-> version[session[t]],
                   rotates |-> ~Invalid(t) /\ t \in current]
  <1>1. t \in Tokens /\ session[t] \in Sessions
    BY DEF BeginRefresh, Sent, IInv, KnownRequests, KnownRequest
  <1>2. r \in Running /\ KnownRequest(r)
    BY <1>1 DEF Running, KnownRequest, IInv, SessionTypeOK
  <1>3. op' = [op EXCEPT ![c] = r] /\ UNCHANGED tables
    BY DEF BeginRefresh
  <1> HIDE DEF r
  <1> QED
    BY <1>2, <1>3, OneRequestOnly

\* Whatever the server does with a request.
LEMMA ServerKeeps ==
  ASSUME IInv, NEW c \in Callers, Handle(c) \/ ServerError(c) \/ Disconnect(c)
  PROVE  IInv' /\ FinalStep
  <1>1. CASE Exchange(c)
    <2>1. CASE OpenSession(c)
      BY <2>1, OpenSessionKeeps
    <2>2. CASE Reply(c, "forbidden", None) /\ UNCHANGED tables
      BY <2>2, AnswerOnly DEF Statuses
    <2> QED
      BY <1>1, <2>1, <2>2 DEF Exchange
  <1>2. CASE BeginRefresh(c)
    BY <1>2, BeginRefreshKeeps
  <1>3. CASE Conflict(c)
    BY <1>3, AnswerOnly DEF Conflict, Statuses
  <1>4. CASE RefuseRefresh(c)
    BY <1>4, AnswerOnly DEF RefuseRefresh, Statuses
  <1>5. CASE CloseSession(c)
    BY <1>5, CloseSessionKeeps
  <1>6. CASE Rotate(c)
    BY <1>6, RotateKeeps
  <1>7. CASE Logout(c)
    BY <1>7, LogoutKeeps
  <1>8. CASE ServerError(c)
    BY <1>8, AnswerOnly DEF ServerError, Statuses
  <1>9. CASE Disconnect(c)
    BY <1>9, AnswerOnly DEF Disconnect, Statuses
  <1> QED
    BY <1>1, <1>2, <1>3, <1>4, <1>5, <1>6, <1>7, <1>8, <1>9 DEF Handle

-----------------------------------------------------------------------------
(* Callers, and the theorems                                                *)

\* A caller sends a token that was issued.
LEMMA SendKeeps ==
  ASSUME IInv, UNCHANGED tables, NEW c \in Callers,
         NEW kind \in {"exchange", "refresh", "logout"}, NEW t \in Tokens \cup {None},
         kind # "exchange" => t \in Tokens /\ session[t] \in Sessions,
         Send(c, kind, t)
  PROVE  IInv' /\ FinalStep
  <1> DEFINE r == [at |-> "sent", token |-> t, kind |-> kind]
  <1>1. r \in Requests /\ KnownRequest(r)
    BY DEF Requests, KnownRequest
  <1>2. op' = [op EXCEPT ![c] = r]
    BY DEF Send
  <1> HIDE DEF r
  <1> QED
    BY <1>1, <1>2, OneRequestOnly

\* A caller takes its answer.
LEMMA TakeKeeps ==
  ASSUME IInv, UNCHANGED tables, NEW c \in Callers, op' = [op EXCEPT ![c] = Idle]
  PROVE  IInv' /\ FinalStep
  <1>1. KnownRequest(Idle)
    BY DEF KnownRequest, Idle
  <1> QED
    BY <1>1, OneRequestOnly

LEMMA CallKeeps ==
  ASSUME IInv, NEW c \in Callers, Call(c)
  PROVE  IInv' /\ FinalStep
  <1>1. UNCHANGED tables
    BY DEF Call
  <1>2. CASE Send(c, "exchange", None)
    BY <1>1, <1>2, SendKeeps
  <1>3. CASE \E t \in Tokens, kind \in {"refresh", "logout"} :
               session[t] # None /\ Send(c, kind, t)
    <2>1. PICK t \in Tokens, kind \in {"refresh", "logout"} :
            session[t] # None /\ Send(c, kind, t)
      BY <1>3
    <2>2. session[t] \in Sessions
      BY <2>1 DEF IInv, SessionTypeOK
    <2> QED
      BY <1>1, <2>1, <2>2, SendKeeps
  <1>4. CASE op' = [op EXCEPT ![c] = Idle]
    BY <1>1, <1>4, TakeKeeps
  <1> QED
    BY <1>2, <1>3, <1>4 DEF Call

LEMMA SessionStep == IInv /\ [SessionNext]_sessionVars => IInv' /\ FinalStep
  <1> SUFFICES ASSUME IInv, [SessionNext]_sessionVars PROVE IInv' /\ FinalStep
    OBVIOUS
  <1>1. CASE SessionNext
    BY <1>1, ServerKeeps, CallKeeps DEF SessionNext
  <1>2. CASE UNCHANGED sessionVars
    <2>1. op' \in [Callers -> {Idle} \cup Requests \cup Running \cup Answers]
      BY <1>2 DEF sessionVars, IInv, SessionTypeOK
    <2>2. KnownRequests'
      BY <1>2 DEF sessionVars, tables, IInv, KnownRequests, KnownRequest
    <2> QED
      BY <1>2, <2>1, <2>2, RequestsOnly DEF sessionVars
  <1> QED
    BY <1>1, <1>2

LEMMA SessionInvariant == SessionSpec => []IInv
  <1>1. SessionInit => IInv
    BY InitEstablishesInvariant
  <1>2. IInv /\ [SessionNext]_sessionVars => IInv'
    BY SessionStep
  <1> QED
    BY <1>1, <1>2, PTL DEF SessionSpec

\* The tables and requests keep their types (refresh.go, logout.go, auth_handlers.go).
THEOREM SessionTypeCorrect == SessionSpec => []SessionTypeOK
  <1>1. IInv => SessionTypeOK
    BY DEF IInv
  <1> QED
    BY <1>1, SessionInvariant, PTL

\* However many callers race with whatever tokens were issued, an open session has
\* exactly one token that can be rotated, and a closed one none (refresh.go:55-62).
THEOREM AlwaysOneCurrentToken == SessionSpec => []OneCurrentToken
  <1>1. IInv => OneCurrentToken
    BY InvariantGivesOneCurrentToken
  <1> QED
    BY <1>1, SessionInvariant, PTL

\* A session once revoked keeps its reason and gets no further token (refresh.go:56).
THEOREM RevokedSessionsAreFinal == SessionSpec => RevokedSessionIsFinal
  <1>1. IInv /\ [SessionNext]_sessionVars => [FinalStep]_sessionVars
    BY SessionStep
  <1> QED
    BY <1>1, SessionInvariant, PTL DEF SessionSpec, RevokedSessionIsFinal, FinalStep


DeviceTypeOK ==
  /\ calls \in [Calls -> {"ended", "sent", "waiting"}]
  /\ access \in BOOLEAN /\ refreshing \in BOOLEAN /\ cookie \in BOOLEAN
  /\ unlocked \in BOOLEAN /\ lost \in BOOLEAN /\ signedOut \in BOOLEAN
  /\ platform \in {"native", "web"}

\* refreshInFlightRef is set exactly while a refresh of this launch is on its way; each
\* caller sends its own kind of request.
OneFlight ==
  /\ refreshing = (op["refresh"].at # "idle")
  /\ \A c \in {"refresh", "orphan"} : op[c].at = "sent" => op[c].kind = "refresh"
  /\ op["signin"].at # "begun" /\ (op["signin"].at = "sent" => op["signin"].kind = "exchange")
  /\ op["logout"].at # "begun" /\ (op["logout"].at = "sent" => op["logout"].kind = "logout")

\* What the device holds or is given was issued.
HoldsIssued ==
  /\ stored # None => stored \in Tokens /\ session[stored] \in Sessions
  /\ \A c \in Callers : op[c].at = "answered" /\ op[c].token # None =>
       session[op[c].token] \in Sessions

\* Until the bootstrap is over nothing else runs.
Bootstrapping ==
  gate # "complete" =>
    /\ signIn = NoSignIn /\ signOut = "none" /\ \A k \in Calls : calls[k] = "ended"
    /\ refreshing => gate = "restoring-session"
    /\ gate = "prompting" => stored # None

\* Whatever could send the stored token was allowed to by biometrics or a sign-in.
UsesUnlocked ==
  platform = "native" /\ (refreshing \/ status = "authenticated"
                          \/ \E k \in Calls : calls[k] # "ended") => unlocked

\* After a completed sign-out nothing is left that could sign the user in.
NothingLeft ==
  signedOut =>
    /\ ~access /\ stored = None /\ status # "authenticated"
    /\ ~refreshing /\ ~cookie /\ signIn \in {NoSignIn, <<"hydrate", "kratos">>}

\* Sending t is not reuse.
Usable(t) == t = None \/ t \in current \/ state[session[t]] # "open"

\* Unless a refresh was cut off or its outcome not stored, the device never holds a token
\* that was rotated, but for the time in which the answer to the rotation is on its way.
NothingStale ==
  ~lost =>
    /\ op["orphan"].at = "idle"
    /\ Usable(stored) \/ op["refresh"].at = "answered"
    /\ op["refresh"].at # "idle" => Usable(op["refresh"].token)
    /\ op["signin"].at = "answered" /\ op["signin"].token # None =>
         /\ Usable(op["signin"].token) /\ stored # op["signin"].token
         /\ op["refresh"].at # "idle" => op["refresh"].token # op["signin"].token
    /\ \A s \in Sessions : state[s] # "reuse_detected"

DeviceInv ==
  DeviceTypeOK /\ OneFlight /\ HoldsIssued /\ Bootstrapping /\ UsesUnlocked /\ NothingLeft

Inv == IInv /\ DeviceInv /\ NothingStale

\* A step of the installation, none of which writes the server's tables.
DeviceNext ==
  \/ Forget \/ Continue \/ User
  \/ \E k \in Calls : CallEnds(k) \/ CallDenied(k)

-----------------------------------------------------------------------------
(* The device as a caller of AuthSession                                    *)

\* The names of CallerAssumption.
LEMMA FourCallers ==
  /\ "refresh" \in Callers /\ "signin" \in Callers
  /\ "logout" \in Callers /\ "orphan" \in Callers
  BY CallerAssumption

\* What the installation does to the requests under way: nothing, take an answer, send
\* one of its three, or be launched again.
RequestStep ==
  \/ UNCHANGED op
  \/ \E c \in Callers : Take(c)
  \/ Send("signin", "exchange", None)
  \/ stored # None /\ Send("refresh", "refresh", stored)
  \/ stored # None /\ Send("logout", "logout", stored)
  \/ \E late \in {Idle, op["refresh"]} :
       /\ late.at # "answered"
       /\ op' = [c \in Callers |-> IF c = "orphan" THEN late ELSE Idle]

\* The device writes no table, and sends no token but the stored one.
LEMMA DeviceSendsIssued ==
  ASSUME Bootstrapping, DeviceNext
  PROVE  UNCHANGED tables /\ RequestStep
  <1> USE FourCallers
  <1> USE DEF RequestStep, LaunchRefresh, UNCHANGEDServer, sessionVars
  <1>1. CASE Forget
    BY <1>1 DEF Forget
  <1>2. CASE Continue
    <2>1. CASE RefreshAnswered \/ RefreshThrows
      BY <2>1 DEF RefreshAnswered, RefreshThrows
    <2>2. CASE LogoutAnswered \/ SignInAnswered \/ SignInRefused
      BY <2>2 DEF LogoutAnswered, SignInAnswered, SignInRefused
    <2>3. CASE SignInDenied
      BY <2>3 DEF SignInDenied
    <2>4. CASE RetryExchange \/ KratosAccepts
      BY <2>4 DEF RetryExchange, KratosAccepts
    <2>5. CASE KratosRefuses \/ KratosLogout \/ FinishLogout \/ FindStoredSession
      BY <2>5 DEF KratosRefuses, KratosLogout, FinishLogout, FindStoredSession,
                  BootstrapUnchanged
    <2> QED
      BY <1>2, <2>1, <2>2, <2>3, <2>4, <2>5 DEF Continue
  <1>3. CASE User
    <2>1. CASE DenyUnlock \/ RetryUnlock \/ ContinueWithPassword \/ BeginReauth
      BY <2>1 DEF DenyUnlock, RetryUnlock, ContinueWithPassword, BeginReauth,
                  BootstrapUnchanged
    <2>2. CASE RestoreSession
      BY <2>2 DEF RestoreSession, Bootstrapping
    <2>3. CASE \E kind \in {"login", "register"} : BeginSignIn(kind)
      BY <2>3 DEF BeginSignIn
    <2>4. CASE \E k \in Calls : SendCall(k)
      BY <2>4 DEF SendCall
    <2>5. CASE BeginLogout
      BY <2>5 DEF BeginLogout
    <2>6. CASE Restart
      BY <2>6 DEF Restart
    <2> QED
      BY <1>3, <2>1, <2>2, <2>3, <2>4, <2>5, <2>6 DEF User
  <1>4. CASE \E k \in Calls : CallEnds(k) \/ CallDenied(k)
    BY <1>4 DEF CallEnds, CallDenied
  <1> QED
    BY <1>1, <1>2, <1>3, <1>4 DEF DeviceNext

\* So to the server it is one more caller that sends issued tokens.
LEMMA DeviceKeepsSessions ==
  ASSUME IInv, HoldsIssued, Bootstrapping, DeviceNext
  PROVE  IInv' /\ FinalStep
  <1> USE FourCallers
  <1>1. UNCHANGED tables /\ RequestStep
    BY DeviceSendsIssued
  <1>2. CASE UNCHANGED op
    <2>1. KnownRequests'
      BY <1>1, <1>2 DEF IInv, KnownRequests, KnownRequest, tables
    <2> QED
      BY <1>1, <1>2, <2>1, RequestsOnly DEF IInv, SessionTypeOK
  <1>3. CASE \E c \in Callers : Take(c)
    BY <1>1, <1>3, TakeKeeps DEF Take
  <1>4. CASE Send("signin", "exchange", None)
    BY <1>1, <1>4, SendKeeps
  <1>5. CASE stored # None /\ Send("refresh", "refresh", stored)
    BY <1>1, <1>5, SendKeeps DEF HoldsIssued
  <1>6. CASE stored # None /\ Send("logout", "logout", stored)
    BY <1>1, <1>6, SendKeeps DEF HoldsIssued
  <1>7. CASE \E late \in {Idle, op["refresh"]} :
               /\ late.at # "answered"
               /\ op' = [c \in Callers |-> IF c = "orphan" THEN late ELSE Idle]
    <2>1. PICK late \in {Idle, op["refresh"]} :
            op' = [c \in Callers |-> IF c = "orphan" THEN late ELSE Idle]
      BY <1>7
    <2>2. late \in {Idle} \cup Requests \cup Running \cup Answers /\ KnownRequest(late)
      BY DEF IInv, SessionTypeOK, KnownRequests, KnownRequest, Idle
    <2>3. op' \in [Callers -> {Idle} \cup Requests \cup Running \cup Answers]
      BY <2>1, <2>2
    <2>4. KnownRequests'
      BY <1>1, <2>1, <2>2 DEF KnownRequests, KnownRequest, Idle, tables
    <2> QED
      BY <1>1, <2>3, <2>4, RequestsOnly
  <1> QED
    BY <1>1, <1>2, <1>3, <1>4, <1>5, <1>6, <1>7 DEF RequestStep

-----------------------------------------------------------------------------
(* What the server does as the device sees it                               *)

\* The server goes on with one request that was sent, gives out issued tokens, and
\* takes no token from its session.
Served(c, r) ==
  /\ op[c].at # "idle" /\ op' = [op EXCEPT ![c] = r]
  /\ r.at = "begun" => op[c].at = "sent" /\ op[c].kind = "refresh"
  /\ r.at = "answered" /\ r.token # None => r.token \in Tokens /\ session'[r.token] \in Sessions

\* That is what every handler, failure and lost connection comes to.
LEMMA ServerGoesOn ==
  ASSUME IInv, NEW c \in Callers, Handle(c) \/ ServerError(c) \/ Disconnect(c)
  PROVE  /\ \E r \in Running \cup Answers : Served(c, r)
         /\ \A t \in Tokens : session[t] \in Sessions => session'[t] = session[t]
  <1> DEFINE answer(code, t) == [status |-> code, at |-> "answered", token |-> t]
             Goal == /\ \E r \in Running \cup Answers : Served(c, r)
                     /\ \A t \in Tokens : session[t] \in Sessions => session'[t] = session[t]
  <1>1. ASSUME NEW code \in Statuses, Reply(c, code, None), op[c].at # "idle",
               UNCHANGED session
        PROVE  Goal
    <2>1. answer(code, None) \in Answers
      BY DEF Answers
    <2>2. Served(c, answer(code, None))
      BY <1>1 DEF Served, Reply
    <2> QED
      BY <1>1, <2>1, <2>2
  <1>2. ASSUME NEW s \in Sessions, NEW t \in Tokens, Reply(c, "ok", t), op[c].at # "idle",
               session[t] = None, session' = [session EXCEPT ![t] = s]
        PROVE  Goal
    <2>1. answer("ok", t) \in Answers
      BY DEF Answers, Statuses
    <2>2. Served(c, answer("ok", t))
      BY <1>2 DEF Served, Reply, IInv, SessionTypeOK
    <2> QED
      BY <1>2, <2>1, <2>2, IdAssumption DEF IInv, SessionTypeOK
  <1>3. CASE Exchange(c)
    <2>1. CASE OpenSession(c)
      BY <1>3, <2>1, <1>2 DEF Exchange, Sent, OpenSession, FreshToken
    <2>2. CASE Reply(c, "forbidden", None) /\ UNCHANGED tables
      BY <1>3, <2>2, <1>1 DEF Exchange, Sent, tables, Statuses
    <2> QED
      BY <1>3, <2>1, <2>2 DEF Exchange
  <1>4. CASE BeginRefresh(c)
    <2> DEFINE u == op[c].token
               r == [at |-> "begun", token |-> u, seen |-> version[session[u]],
                     rotates |-> ~Invalid(u) /\ u \in current]
    <2>1. r \in Running
      BY <1>4 DEF BeginRefresh, Sent, Running, IInv, SessionTypeOK, KnownRequests, KnownRequest
    <2>2. Served(c, r)
      BY <1>4 DEF BeginRefresh, Sent, Served
    <2>3. UNCHANGED session
      BY <1>4 DEF BeginRefresh, tables
    <2> HIDE DEF r
    <2> QED
      BY <2>1, <2>2, <2>3
  <1>5. CASE Rotate(c)
    <2>1. session[op[c].token] \in Sessions
      BY <1>5 DEF Rotate, IInv, KnownRequests, KnownRequest
    <2> QED
      BY <1>5, <2>1, <1>2 DEF Rotate, FreshToken
  <1>6. CASE Conflict(c) \/ RefuseRefresh(c) \/ ServerError(c) \/ Disconnect(c)
    BY <1>6, <1>1 DEF Conflict, RefuseRefresh, ServerError, Disconnect, tables, Statuses
  <1>7. CASE CloseSession(c)
    BY <1>7, <1>1 DEF CloseSession, RevokeFamily, tables, Statuses
  <1>8. CASE Logout(c)
    BY <1>8, <1>1 DEF Logout, Sent, RevokeFamily, Statuses
  <1> QED
    BY <1>3, <1>4, <1>5, <1>6, <1>7, <1>8 DEF Handle

\* None of it breaks what the device relies on.
LEMMA ServerKeepsDevice ==
  ASSUME IInv, DeviceInv, NEW c \in Callers, Server(c)
  PROVE  DeviceInv'
  <1> USE FourCallers
  <1>1. PICK r \in Running \cup Answers : Served(c, r)
    BY ServerGoesOn DEF Server
  <1>2. \A t \in Tokens : session[t] \in Sessions => session'[t] = session[t]
    BY ServerGoesOn DEF Server
  <1>3. UNCHANGED device /\ r.at \in {"begun", "answered"}
    BY DEF Server, Running, Answers
  <1>4. DeviceTypeOK' /\ Bootstrapping' /\ NothingLeft' /\ UsesUnlocked'
    BY <1>3 DEF DeviceInv, DeviceTypeOK, Bootstrapping, NothingLeft, UsesUnlocked, device
  <1>5. OneFlight'
    BY <1>1, <1>3 DEF DeviceInv, OneFlight, Served, device, IInv, SessionTypeOK
  <1>6. HoldsIssued'
    <2>1. stored' # None => stored' \in Tokens /\ session'[stored'] \in Sessions
      BY <1>2, <1>3 DEF DeviceInv, HoldsIssued, device
    <2>2. ASSUME NEW d \in Callers, op'[d].at = "answered", op'[d].token # None
          PROVE  session'[op'[d].token] \in Sessions
      <3>1. CASE d = c
        BY <1>1, <2>2, <3>1 DEF Served, IInv, SessionTypeOK
      <3>2. CASE d # c
        <4>1. op'[d] = op[d]
          BY <1>1, <3>2 DEF Served, IInv, SessionTypeOK
        <4>2. op[d].token \in Tokens
          BY <2>2, <4>1 DEF IInv, SessionTypeOK, Idle, Requests, Running, Answers
        <4> QED
          BY <1>2, <2>2, <4>1, <4>2 DEF DeviceInv, HoldsIssued
      <3> QED
        BY <3>1, <3>2
    <2> QED
      BY <2>1, <2>2 DEF HoldsIssued
  <1> QED
    BY <1>4, <1>5, <1>6 DEF DeviceInv

-----------------------------------------------------------------------------
(* What the device itself does                                              *)

\* The types of the device's state.
LEMMA DeviceTypesKept ==
  ASSUME IInv, DeviceInv, DeviceNext
  PROVE  DeviceTypeOK'
  <1> USE FourCallers
  <1> USE DEF DeviceInv, DeviceTypeOK, UNCHANGEDServer, device, sessionVars
  <1>1. CASE Forget
    BY <1>1 DEF Forget
  <1>2. CASE Continue
    <2>1. CASE RefreshAnswered
      BY <2>1 DEF RefreshAnswered, Resume, SignedInWith, SignedOutAs, NobodySignedIn,
                  ExpiresUncleared
    <2>2. CASE RefreshThrows
      BY <2>2 DEF RefreshThrows
    <2>3. CASE LogoutAnswered
      BY <2>3 DEF LogoutAnswered, SignOutUnchanged
    <2>4. CASE SignInAnswered
      BY <2>4 DEF SignInAnswered, SignedInWith, SignInUnchanged
    <2>5. CASE SignInDenied
      BY <2>5 DEF SignInDenied, Denied, NobodySignedIn, SignedOutAs, LaunchRefresh
    <2>6. CASE RetryExchange
      BY <2>6 DEF RetryExchange, SignInUnchanged
    <2>7. CASE SignInRefused
      BY <2>7 DEF SignInRefused, SignInUnchanged
    <2>8. CASE KratosAccepts
      BY <2>8 DEF KratosAccepts, SignInUnchanged
    <2>9. CASE KratosRefuses
      BY <2>9 DEF KratosRefuses, SignInUnchanged
    <2>10. CASE KratosLogout
      BY <2>10 DEF KratosLogout, SignOutUnchanged
    <2>11. CASE FinishLogout
      BY <2>11 DEF FinishLogout, ClearsStorage, SignOutUnchanged
    <2>12. CASE FindStoredSession
      BY <2>12 DEF FindStoredSession, BootstrapUnchanged
    <2> QED
      BY <1>2, <2>1, <2>2, <2>3, <2>4, <2>5, <2>6, <2>7, <2>8, <2>9, <2>10, <2>11, <2>12
         DEF Continue
  <1>3. CASE User
    <2>1. CASE DenyUnlock
      BY <2>1 DEF DenyUnlock, Denials, BootstrapUnchanged
    <2>2. CASE RestoreSession
      BY <2>2 DEF RestoreSession, Unlocks, LaunchRefresh
    <2>3. CASE RetryUnlock
      BY <2>3 DEF RetryUnlock, BootstrapUnchanged
    <2>4. CASE ContinueWithPassword
      BY <2>4 DEF ContinueWithPassword, BootstrapUnchanged
    <2>5. CASE BeginReauth
      BY <2>5 DEF BeginReauth, BootstrapUnchanged
    <2>6. CASE \E kind \in {"login", "register"} : BeginSignIn(kind)
      BY <2>6 DEF BeginSignIn, SignInUnchanged
    <2>7. CASE \E k \in Calls : SendCall(k)
      BY <2>7 DEF SendCall, CallsUnchanged
    <2>8. CASE BeginLogout
      BY <2>8 DEF BeginLogout, SignOutUnchanged
    <2>9. CASE Restart
      BY <2>9 DEF Restart, Mounted
    <2> QED
      BY <1>3, <2>1, <2>2, <2>3, <2>4, <2>5, <2>6, <2>7, <2>8, <2>9 DEF User
  <1>4. CASE \E k \in Calls : CallEnds(k) \/ CallDenied(k)
    <2>1. CASE \E k \in Calls : CallEnds(k)
      BY <2>1 DEF CallEnds, CallsUnchanged
    <2>2. CASE \E k \in Calls : CallDenied(k)
      BY <2>2 DEF CallDenied, CallsUnchanged, LaunchRefresh, NobodySignedIn, SignedOutAs
    <2> QED
      BY <1>4, <2>1, <2>2
  <1> QED
    BY <1>1, <1>2, <1>3, <1>4 DEF DeviceNext

\* Sending a refresh when none is under way starts the one flight.
LEMMA LaunchStartsFlight ==
  ASSUME IInv, OneFlight, LaunchRefresh
  PROVE  OneFlight'
  <1> USE FourCallers
  <1>1. op' = [op EXCEPT !["refresh"] = [at |-> "sent", token |-> stored, kind |-> "refresh"]]
    BY DEF LaunchRefresh, Send
  <1>2. op'["refresh"].at = "sent" /\ op'["refresh"].kind = "refresh"
    BY <1>1 DEF IInv, SessionTypeOK
  <1>3. \A c \in Callers : c # "refresh" => op'[c] = op[c]
    BY <1>1 DEF IInv, SessionTypeOK
  <1>4. refreshing' = TRUE
    BY DEF LaunchRefresh
  <1> QED
    BY <1>2, <1>3, <1>4 DEF OneFlight

\* A new launch has none.
LEMMA RestartHasNoFlight ==
  ASSUME OneFlight, Restart
  PROVE  OneFlight'
  <1> USE FourCallers
  <1>1. PICK late \in {Idle, op["refresh"]} :
          op' = [c \in Callers |-> IF c = "orphan" THEN late ELSE Idle]
    BY DEF Restart
  <1>2. /\ op'["orphan"] = late /\ op'["refresh"] = Idle
        /\ op'["signin"] = Idle /\ op'["logout"] = Idle
    BY <1>1
  <1>3. late.at = "sent" => late.kind = "refresh"
    BY DEF OneFlight, Idle
  <1>4. refreshing' = FALSE
    BY DEF Restart
  <1>5. Idle.at = "idle"
    BY DEF Idle
  <1>6. \A c \in {"refresh", "orphan"} : op'[c].at = "sent" => op'[c].kind = "refresh"
    BY <1>2, <1>3, <1>5
  <1> QED
    BY <1>2, <1>4, <1>5, <1>6 DEF OneFlight

\* Only LaunchRefresh starts a flight, and only an answer or a new launch ends it.
LEMMA OneFlightKept ==
  ASSUME IInv, DeviceInv, DeviceNext
  PROVE  OneFlight'
  <1> USE FourCallers
  <1> USE DEF IInv, SessionTypeOK, DeviceInv, DeviceTypeOK, OneFlight, Idle, Take, Send,
                     Answered, UNCHANGEDServer, device, sessionVars, Joins, Bootstrapping
  <1>1. CASE Forget
    BY <1>1 DEF Forget
  <1>2. CASE Continue
    <2>1. CASE RefreshAnswered
      BY <2>1 DEF RefreshAnswered, Resume, SignedInWith, SignedOutAs, NobodySignedIn,
                  ExpiresUncleared
    <2>2. CASE RefreshThrows
      BY <2>2 DEF RefreshThrows
    <2>3. CASE LogoutAnswered
      BY <2>3 DEF LogoutAnswered, SignOutUnchanged
    <2>4. CASE SignInAnswered
      BY <2>4 DEF SignInAnswered, SignedInWith, SignInUnchanged
    <2>5. CASE SignInDenied
      <3>1. CASE LaunchRefresh
        BY <3>1, LaunchStartsFlight
      <3>2. CASE UNCHANGED <<op, refreshing>>
        BY <3>2
      <3> QED
        BY <2>5, <3>1, <3>2 DEF SignInDenied
    <2>6. CASE RetryExchange
      BY <2>6 DEF RetryExchange, SignInUnchanged
    <2>7. CASE SignInRefused
      BY <2>7 DEF SignInRefused, SignInUnchanged
    <2>8. CASE KratosAccepts
      BY <2>8 DEF KratosAccepts, SignInUnchanged
    <2>9. CASE KratosRefuses
      BY <2>9 DEF KratosRefuses, SignInUnchanged
    <2>10. CASE KratosLogout
      BY <2>10 DEF KratosLogout, SignOutUnchanged
    <2>11. CASE FinishLogout
      BY <2>11 DEF FinishLogout, ClearsStorage, SignOutUnchanged
    <2>12. CASE FindStoredSession
      BY <2>12 DEF FindStoredSession, BootstrapUnchanged
    <2> QED
      BY <1>2, <2>1, <2>2, <2>3, <2>4, <2>5, <2>6, <2>7, <2>8, <2>9, <2>10, <2>11, <2>12
         DEF Continue
  <1>3. CASE User
    <2>1. CASE DenyUnlock
      BY <2>1 DEF DenyUnlock, Denials, BootstrapUnchanged
    <2>2. CASE RestoreSession
      BY <2>2, LaunchStartsFlight DEF RestoreSession
    <2>3. CASE RetryUnlock
      BY <2>3 DEF RetryUnlock, BootstrapUnchanged
    <2>4. CASE ContinueWithPassword
      BY <2>4 DEF ContinueWithPassword, BootstrapUnchanged
    <2>5. CASE BeginReauth
      BY <2>5 DEF BeginReauth, BootstrapUnchanged
    <2>6. CASE \E kind \in {"login", "register"} : BeginSignIn(kind)
      BY <2>6 DEF BeginSignIn, SignInUnchanged
    <2>7. CASE \E k \in Calls : SendCall(k)
      BY <2>7 DEF SendCall, CallsUnchanged
    <2>8. CASE BeginLogout
      BY <2>8 DEF BeginLogout, SignOutUnchanged
    <2>9. CASE Restart
      BY <2>9, RestartHasNoFlight
    <2> QED
      BY <1>3, <2>1, <2>2, <2>3, <2>4, <2>5, <2>6, <2>7, <2>8, <2>9 DEF User
  <1>4. CASE \E k \in Calls : CallEnds(k) \/ CallDenied(k)
    <2>1. CASE \E k \in Calls : CallEnds(k)
      BY <2>1 DEF CallEnds, CallsUnchanged
    <2>2. CASE \E k \in Calls : CallDenied(k)
      <3>1. CASE LaunchRefresh
        BY <3>1, LaunchStartsFlight
      <3>2. CASE UNCHANGED <<op, refreshing>>
        BY <3>2
      <3> QED
        BY <2>2, <3>1, <3>2 DEF CallDenied
    <2> QED
      BY <1>4, <2>1, <2>2
  <1> QED
    BY <1>1, <1>2, <1>3, <1>4 DEF DeviceNext

\* The bootstrap comes first.
LEMMA BootstrappingKept ==
  ASSUME IInv, DeviceInv, DeviceNext
  PROVE  Bootstrapping'
  <1> USE FourCallers
  <1> USE DEF DeviceInv, DeviceTypeOK, Bootstrapping, NoSignIn, At, SignInKind,
                     UNCHANGEDServer, device, sessionVars, Joins, Waiting
  <1>1. CASE Forget
    BY <1>1 DEF Forget
  <1>2. CASE Continue
    <2>1. CASE RefreshAnswered
      BY <2>1 DEF RefreshAnswered, Resume, SignedInWith, SignedOutAs, NobodySignedIn,
                  ExpiresUncleared
    <2>2. CASE RefreshThrows
      BY <2>2 DEF RefreshThrows
    <2>3. CASE LogoutAnswered
      BY <2>3 DEF LogoutAnswered, SignOutUnchanged
    <2>4. CASE SignInAnswered
      BY <2>4 DEF SignInAnswered, SignedInWith, SignInUnchanged
    <2>5. CASE SignInDenied
      BY <2>5 DEF SignInDenied, Denied, NobodySignedIn, SignedOutAs, LaunchRefresh
    <2>6. CASE RetryExchange
      BY <2>6 DEF RetryExchange, SignInUnchanged
    <2>7. CASE SignInRefused
      BY <2>7 DEF SignInRefused, SignInUnchanged
    <2>8. CASE KratosAccepts
      BY <2>8 DEF KratosAccepts, SignInUnchanged
    <2>9. CASE KratosRefuses
      BY <2>9 DEF KratosRefuses, SignInUnchanged
    <2>10. CASE KratosLogout
      BY <2>10 DEF KratosLogout, SignOutUnchanged
    <2>11. CASE FinishLogout
      BY <2>11 DEF FinishLogout, ClearsStorage, SignOutUnchanged
    <2>12. CASE FindStoredSession
      BY <2>12 DEF FindStoredSession, BootstrapUnchanged
    <2> QED
      BY <1>2, <2>1, <2>2, <2>3, <2>4, <2>5, <2>6, <2>7, <2>8, <2>9, <2>10, <2>11, <2>12
         DEF Continue
  <1>3. CASE User
    <2>1. CASE DenyUnlock
      BY <2>1 DEF DenyUnlock, Denials, BootstrapUnchanged
    <2>2. CASE RestoreSession
      BY <2>2 DEF RestoreSession, Unlocks, LaunchRefresh
    <2>3. CASE RetryUnlock
      BY <2>3 DEF RetryUnlock, BootstrapUnchanged
    <2>4. CASE ContinueWithPassword
      BY <2>4 DEF ContinueWithPassword, BootstrapUnchanged
    <2>5. CASE BeginReauth
      BY <2>5 DEF BeginReauth, BootstrapUnchanged
    <2>6. CASE \E kind \in {"login", "register"} : BeginSignIn(kind)
      BY <2>6 DEF BeginSignIn, SignInUnchanged
    <2>7. CASE \E k \in Calls : SendCall(k)
      BY <2>7 DEF SendCall, CallsUnchanged
    <2>8. CASE BeginLogout
      BY <2>8 DEF BeginLogout, SignOutUnchanged
    <2>9. CASE Restart
      BY <2>9 DEF Restart, Mounted
    <2> QED
      BY <1>3, <2>1, <2>2, <2>3, <2>4, <2>5, <2>6, <2>7, <2>8, <2>9 DEF User
  <1>4. CASE \E k \in Calls : CallEnds(k) \/ CallDenied(k)
    <2>1. CASE \E k \in Calls : CallEnds(k)
      BY <2>1 DEF CallEnds, CallsUnchanged
    <2>2. CASE \E k \in Calls : CallDenied(k)
      BY <2>2 DEF CallDenied, CallsUnchanged, LaunchRefresh, NobodySignedIn, SignedOutAs
    <2> QED
      BY <1>4, <2>1, <2>2
  <1> QED
    BY <1>1, <1>2, <1>3, <1>4 DEF DeviceNext

\* Every way to a refresh passes biometrics or a sign-in.
LEMMA UsesUnlockedKept ==
  ASSUME IInv, DeviceInv, DeviceNext
  PROVE  UsesUnlocked'
  <1> USE FourCallers
  <1> USE DEF DeviceInv, DeviceTypeOK, UsesUnlocked, UNCHANGEDServer, device, sessionVars,
                     Joins, Waiting, Bootstrapping, AfterThrow
  <1>1. CASE Forget
    BY <1>1 DEF Forget
  <1>2. CASE Continue
    <2>1. CASE RefreshAnswered
      BY <2>1 DEF RefreshAnswered, Resume, SignedInWith, SignedOutAs, NobodySignedIn,
                  ExpiresUncleared
    <2>2. CASE RefreshThrows
      BY <2>2 DEF RefreshThrows
    <2>3. CASE LogoutAnswered
      BY <2>3 DEF LogoutAnswered, SignOutUnchanged
    <2>4. CASE SignInAnswered
      BY <2>4 DEF SignInAnswered, SignedInWith, SignInUnchanged
    <2>5. CASE SignInDenied
      BY <2>5 DEF SignInDenied, Denied, NobodySignedIn, SignedOutAs, LaunchRefresh
    <2>6. CASE RetryExchange
      BY <2>6 DEF RetryExchange, SignInUnchanged
    <2>7. CASE SignInRefused
      BY <2>7 DEF SignInRefused, SignInUnchanged
    <2>8. CASE KratosAccepts
      BY <2>8 DEF KratosAccepts, SignInUnchanged
    <2>9. CASE KratosRefuses
      BY <2>9 DEF KratosRefuses, SignInUnchanged
    <2>10. CASE KratosLogout
      BY <2>10 DEF KratosLogout, SignOutUnchanged
    <2>11. CASE FinishLogout
      BY <2>11 DEF FinishLogout, ClearsStorage, SignOutUnchanged
    <2>12. CASE FindStoredSession
      BY <2>12 DEF FindStoredSession, BootstrapUnchanged
    <2> QED
      BY <1>2, <2>1, <2>2, <2>3, <2>4, <2>5, <2>6, <2>7, <2>8, <2>9, <2>10, <2>11, <2>12
         DEF Continue
  <1>3. CASE User
    <2>1. CASE DenyUnlock
      BY <2>1 DEF DenyUnlock, Denials, BootstrapUnchanged
    <2>2. CASE RestoreSession
      BY <2>2 DEF RestoreSession, Unlocks, LaunchRefresh
    <2>3. CASE RetryUnlock
      BY <2>3 DEF RetryUnlock, BootstrapUnchanged
    <2>4. CASE ContinueWithPassword
      BY <2>4 DEF ContinueWithPassword, BootstrapUnchanged
    <2>5. CASE BeginReauth
      BY <2>5 DEF BeginReauth, BootstrapUnchanged
    <2>6. CASE \E kind \in {"login", "register"} : BeginSignIn(kind)
      BY <2>6 DEF BeginSignIn, SignInUnchanged
    <2>7. CASE \E k \in Calls : SendCall(k)
      BY <2>7 DEF SendCall, CallsUnchanged
    <2>8. CASE BeginLogout
      BY <2>8 DEF BeginLogout, SignOutUnchanged
    <2>9. CASE Restart
      BY <2>9 DEF Restart, Mounted
    <2> QED
      BY <1>3, <2>1, <2>2, <2>3, <2>4, <2>5, <2>6, <2>7, <2>8, <2>9 DEF User
  <1>4. CASE \E k \in Calls : CallEnds(k) \/ CallDenied(k)
    <2>1. CASE \E k \in Calls : CallEnds(k)
      BY <2>1 DEF CallEnds, CallsUnchanged
    <2>2. CASE \E k \in Calls : CallDenied(k)
      BY <2>2 DEF CallDenied, CallsUnchanged, LaunchRefresh, NobodySignedIn, SignedOutAs
    <2> QED
      BY <1>4, <2>1, <2>2
  <1> QED
    BY <1>1, <1>2, <1>3, <1>4 DEF DeviceNext

\* Only a sign-in ends a completed sign-out.
LEMMA NothingLeftKept ==
  ASSUME IInv, DeviceInv, DeviceNext
  PROVE  NothingLeft'
  <1> USE FourCallers
  <1> USE DEF DeviceInv, DeviceTypeOK, NothingLeft, UNCHANGEDServer, device, sessionVars,
                     Joins, Bootstrapping, AfterThrow, NoSignIn, At, SignInKind
  <1>1. CASE Forget
    BY <1>1 DEF Forget
  <1>2. CASE Continue
    <2>1. CASE RefreshAnswered
      BY <2>1 DEF RefreshAnswered, Resume, SignedInWith, SignedOutAs, NobodySignedIn,
                  ExpiresUncleared
    <2>2. CASE RefreshThrows
      BY <2>2 DEF RefreshThrows
    <2>3. CASE LogoutAnswered
      BY <2>3 DEF LogoutAnswered, SignOutUnchanged
    <2>4. CASE SignInAnswered
      BY <2>4 DEF SignInAnswered, SignedInWith, SignInUnchanged
    <2>5. CASE SignInDenied
      BY <2>5 DEF SignInDenied, Denied, NobodySignedIn, SignedOutAs, LaunchRefresh
    <2>6. CASE RetryExchange
      BY <2>6 DEF RetryExchange, SignInUnchanged
    <2>7. CASE SignInRefused
      BY <2>7 DEF SignInRefused, SignInUnchanged
    <2>8. CASE KratosAccepts
      BY <2>8 DEF KratosAccepts, SignInUnchanged
    <2>9. CASE KratosRefuses
      BY <2>9 DEF KratosRefuses, SignInUnchanged
    <2>10. CASE KratosLogout
      BY <2>10 DEF KratosLogout, SignOutUnchanged
    <2>11. CASE FinishLogout
      BY <2>11 DEF FinishLogout, ClearsStorage, SignOutUnchanged
    <2>12. CASE FindStoredSession
      BY <2>12 DEF FindStoredSession, BootstrapUnchanged
    <2> QED
      BY <1>2, <2>1, <2>2, <2>3, <2>4, <2>5, <2>6, <2>7, <2>8, <2>9, <2>10, <2>11, <2>12
         DEF Continue
  <1>3. CASE User
    <2>1. CASE DenyUnlock
      BY <2>1 DEF DenyUnlock, Denials, BootstrapUnchanged
    <2>2. CASE RestoreSession
      BY <2>2 DEF RestoreSession, Unlocks, LaunchRefresh
    <2>3. CASE RetryUnlock
      BY <2>3 DEF RetryUnlock, BootstrapUnchanged
    <2>4. CASE ContinueWithPassword
      BY <2>4 DEF ContinueWithPassword, BootstrapUnchanged
    <2>5. CASE BeginReauth
      BY <2>5 DEF BeginReauth, BootstrapUnchanged
    <2>6. CASE \E kind \in {"login", "register"} : BeginSignIn(kind)
      BY <2>6 DEF BeginSignIn, SignInUnchanged
    <2>7. CASE \E k \in Calls : SendCall(k)
      BY <2>7 DEF SendCall, CallsUnchanged
    <2>8. CASE BeginLogout
      BY <2>8 DEF BeginLogout, SignOutUnchanged
    <2>9. CASE Restart
      BY <2>9 DEF Restart, Mounted
    <2> QED
      BY <1>3, <2>1, <2>2, <2>3, <2>4, <2>5, <2>6, <2>7, <2>8, <2>9 DEF User
  <1>4. CASE \E k \in Calls : CallEnds(k) \/ CallDenied(k)
    <2>1. CASE \E k \in Calls : CallEnds(k)
      BY <2>1 DEF CallEnds, CallsUnchanged
    <2>2. CASE \E k \in Calls : CallDenied(k)
      BY <2>2 DEF CallDenied, CallsUnchanged, LaunchRefresh, NobodySignedIn, SignedOutAs
    <2> QED
      BY <1>4, <2>1, <2>2
  <1> QED
    BY <1>1, <1>2, <1>3, <1>4 DEF DeviceNext

\* No answer is made up on the device: what it stores came with one.
LEMMA AnswersStay ==
  ASSUME IInv, Bootstrapping, DeviceNext, NEW c \in Callers, op'[c].at = "answered"
  PROVE  op'[c] = op[c]
  <1> USE FourCallers
  <1> USE DEF IInv, SessionTypeOK
  <1>1. RequestStep
    BY DeviceSendsIssued
  <1>2. Idle.at # "answered"
    BY DEF Idle
  <1>3. ASSUME NEW d \in Callers, NEW r, op' = [op EXCEPT ![d] = r], r.at # "answered"
        PROVE  op'[c] = op[c]
    BY <1>3
  <1>4. CASE \E d \in Callers : Take(d)
    BY <1>2, <1>3, <1>4 DEF Take
  <1>5. ASSUME NEW d \in Callers, NEW kind, NEW t, Send(d, kind, t)
        PROVE  op'[c] = op[c]
    BY <1>3, <1>5 DEF Send
  <1>6. CASE \E late \in {Idle, op["refresh"]} :
               /\ late.at # "answered"
               /\ op' = [d \in Callers |-> IF d = "orphan" THEN late ELSE Idle]
    BY <1>2, <1>6
  <1> QED
    BY <1>1, <1>4, <1>5, <1>6 DEF RequestStep

StoredStep ==
  \/ stored' \in {stored, None}
  \/ \E c \in Callers : op[c].at = "answered" /\ stored' = op[c].token

\* The token in storage stays, is cleared, or came with an answer.
LEMMA StoresWhatItHasOrWasGiven ==
  ASSUME IInv, DeviceInv, DeviceNext
  PROVE  StoredStep
  <1> USE FourCallers
  <1> USE DEF StoredStep, device, sessionVars, Answered, Token
  <1>1. CASE Forget
    BY <1>1 DEF Forget
  <1>2. CASE Continue
    <2>1. CASE RefreshAnswered
      BY <2>1 DEF RefreshAnswered, Resume, SignedInWith, SignedOutAs, NobodySignedIn,
                  ExpiresUncleared
    <2>2. CASE RefreshThrows
      BY <2>2 DEF RefreshThrows
    <2>3. CASE LogoutAnswered
      BY <2>3 DEF LogoutAnswered, SignOutUnchanged
    <2>4. CASE SignInAnswered
      BY <2>4 DEF SignInAnswered, SignedInWith, SignInUnchanged
    <2>5. CASE SignInDenied
      BY <2>5 DEF SignInDenied, Denied, NobodySignedIn, SignedOutAs, LaunchRefresh
    <2>6. CASE RetryExchange
      BY <2>6 DEF RetryExchange, SignInUnchanged
    <2>7. CASE SignInRefused
      BY <2>7 DEF SignInRefused, SignInUnchanged
    <2>8. CASE KratosAccepts
      BY <2>8 DEF KratosAccepts, SignInUnchanged
    <2>9. CASE KratosRefuses
      BY <2>9 DEF KratosRefuses, SignInUnchanged
    <2>10. CASE KratosLogout
      BY <2>10 DEF KratosLogout, SignOutUnchanged
    <2>11. CASE FinishLogout
      BY <2>11 DEF FinishLogout, ClearsStorage, SignOutUnchanged
    <2>12. CASE FindStoredSession
      BY <2>12 DEF FindStoredSession, BootstrapUnchanged
    <2> QED
      BY <1>2, <2>1, <2>2, <2>3, <2>4, <2>5, <2>6, <2>7, <2>8, <2>9, <2>10, <2>11, <2>12
         DEF Continue
  <1>3. CASE User
    <2>1. CASE DenyUnlock
      BY <2>1 DEF DenyUnlock, Denials, BootstrapUnchanged
    <2>2. CASE RestoreSession
      BY <2>2 DEF RestoreSession, Unlocks, LaunchRefresh
    <2>3. CASE RetryUnlock
      BY <2>3 DEF RetryUnlock, BootstrapUnchanged
    <2>4. CASE ContinueWithPassword
      BY <2>4 DEF ContinueWithPassword, BootstrapUnchanged
    <2>5. CASE BeginReauth
      BY <2>5 DEF BeginReauth, BootstrapUnchanged
    <2>6. CASE \E kind \in {"login", "register"} : BeginSignIn(kind)
      BY <2>6 DEF BeginSignIn, SignInUnchanged
    <2>7. CASE \E k \in Calls : SendCall(k)
      BY <2>7 DEF SendCall, CallsUnchanged
    <2>8. CASE BeginLogout
      BY <2>8 DEF BeginLogout, SignOutUnchanged
    <2>9. CASE Restart
      BY <2>9 DEF Restart, Mounted
    <2> QED
      BY <1>3, <2>1, <2>2, <2>3, <2>4, <2>5, <2>6, <2>7, <2>8, <2>9 DEF User
  <1>4. CASE \E k \in Calls : CallEnds(k) \/ CallDenied(k)
    <2>1. CASE \E k \in Calls : CallEnds(k)
      BY <2>1 DEF CallEnds, CallsUnchanged
    <2>2. CASE \E k \in Calls : CallDenied(k)
      BY <2>2 DEF CallDenied, CallsUnchanged, LaunchRefresh, NobodySignedIn, SignedOutAs
    <2> QED
      BY <1>4, <2>1, <2>2
  <1> QED
    BY <1>1, <1>2, <1>3, <1>4 DEF DeviceNext

\* What it stores was issued to it, then or earlier.
LEMMA HoldsIssuedKept ==
  ASSUME IInv, DeviceInv, DeviceNext
  PROVE  HoldsIssued'
  <1>1. UNCHANGED tables
    BY DeviceSendsIssued DEF DeviceInv
  <1>2. \A c \in Callers : op'[c].at = "answered" => op'[c] = op[c]
    BY AnswersStay DEF DeviceInv
  <1>3. StoredStep
    BY StoresWhatItHasOrWasGiven
  <1>4. \A c \in Callers : op[c].at = "answered" => op[c].token \in Tokens \cup {None}
    BY DEF IInv, SessionTypeOK, Idle, Requests, Running, Answers
  <1> QED
    BY <1>1, <1>2, <1>3, <1>4 DEF DeviceInv, HoldsIssued, StoredStep, tables

\* All of DeviceInv.
LEMMA DeviceKeepsDevice ==
  ASSUME IInv, DeviceInv, DeviceNext
  PROVE  DeviceInv'
  BY DeviceTypesKept, OneFlightKept, BootstrappingKept, UsesUnlockedKept, NothingLeftKept,
     HoldsIssuedKept DEF DeviceInv

-----------------------------------------------------------------------------
(* No reuse without a loss                                                  *)

\* Usable after the step.
UsableNext(t) == t = None \/ t \in current' \/ state'[session'[t]] # "open"

\* A token stays usable until it is rotated.
LEMMA UsableUntilRotated ==
  ASSUME IInv, NEW c \in Callers, Handle(c) \/ ServerError(c) \/ Disconnect(c),
         NEW t, t # None => t \in Tokens /\ session[t] \in Sessions,
         Usable(t), Rotate(c) => t # op[c].token
  PROVE  UsableNext(t)
  <1> USE DEF UsableNext, IInv, SessionTypeOK, Usable
  <1>1. CASE UNCHANGED tables
    BY <1>1 DEF tables
  <1>2. CASE OpenSession(c)
    <2>1. PICK s \in Sessions, u \in Tokens :
            /\ state[s] = "none" /\ session[u] = None
            /\ session' = [session EXCEPT ![u] = s]
            /\ current' = current \cup {u}
            /\ state' = [state EXCEPT ![s] = "open"]
      BY <1>2 DEF OpenSession, FreshSession, FreshToken
    <2>2. CASE t \in current
      BY <2>1, <2>2
    <2>3. CASE t # None /\ state[session[t]] # "open"
      <3>1. t # u /\ session[t] # s
        BY <2>1, <2>3, IdAssumption DEF TokensFollowSessions
      <3> QED
        BY <2>1, <2>3, <3>1
    <2> QED
      BY <2>2, <2>3
  <1>3. CASE Rotate(c)
    BY <1>3, IdAssumption DEF Rotate, FreshToken
  <1>4. ASSUME NEW s \in Sessions, NEW reason \in Reasons, RevokeFamily(s, reason)
        PROVE  UsableNext(t)
    BY <1>4 DEF RevokeFamily, Family, Reasons
  <1>5. CASE CloseSession(c)
    <2>1. session[op[c].token] \in Sessions
      BY <1>5 DEF CloseSession, KnownRequests, KnownRequest
    <2> QED
      BY <1>1, <1>4, <1>5, <2>1 DEF CloseSession, Reasons
  <1>6. CASE Logout(c)
    <2>1. session[op[c].token] \in Sessions
      BY <1>6 DEF Logout, Sent, KnownRequests, KnownRequest
    <2> QED
      BY <1>4, <1>6, <2>1 DEF Logout, Reasons
  <1> QED
    BY <1>1, <1>2, <1>3, <1>5, <1>6
       DEF Handle, Exchange, BeginRefresh, Conflict, RefuseRefresh, ServerError, Disconnect

\* The server answers a request without a token, goes on with its refresh, or hands out
\* a new token: that of a new session for an exchange, of the old one for a refresh.
ServedWith(c) ==
  \/ /\ op'[c].at = "answered" /\ op'[c].token = None
  \/ /\ op[c].at = "sent" /\ op[c].kind = "refresh"
     /\ op'[c].at = "begun" /\ op'[c].token = op[c].token
  \/ /\ op'[c].at = "answered" /\ op'[c].token \in Tokens /\ session[op'[c].token] = None
     /\ op'[c].token \in current'
     /\ \/ op[c].at = "sent" /\ op[c].kind = "exchange" /\ ~Rotate(c)
        \/ op[c].at = "begun"

\* Again, for every handler, failure and lost connection.
LEMMA ServerAnswers ==
  ASSUME IInv, NEW c \in Callers, Handle(c) \/ ServerError(c) \/ Disconnect(c)
  PROVE  ServedWith(c)
  <1> USE DEF IInv, SessionTypeOK
  <1>1. ASSUME NEW code, NEW t, Reply(c, code, t)
        PROVE  op'[c].at = "answered" /\ op'[c].token = t
    BY <1>1 DEF Reply
  <1>2. CASE \E code : Reply(c, code, None)
    BY <1>1, <1>2 DEF ServedWith
  <1>3. CASE Exchange(c) /\ OpenSession(c)
    <2>1. PICK t \in Tokens : session[t] = None /\ t \in current' /\ Reply(c, "ok", t)
      BY <1>3 DEF OpenSession, FreshToken
    <2>2. op[c].at = "sent" /\ op[c].kind = "exchange" /\ ~Rotate(c)
      BY <1>3 DEF Exchange, Sent, Rotate
    <2> QED
      BY <1>1, <2>1, <2>2 DEF ServedWith
  <1>4. CASE BeginRefresh(c)
    BY <1>4 DEF BeginRefresh, Sent, ServedWith
  <1>5. CASE Rotate(c)
    <2>1. PICK t \in Tokens : session[t] = None /\ t \in current' /\ Reply(c, "ok", t)
      BY <1>5 DEF Rotate, FreshToken
    <2>2. op[c].at = "begun"
      BY <1>5 DEF Rotate
    <2> QED
      BY <1>1, <2>1, <2>2 DEF ServedWith
  <1> QED
    BY <1>2, <1>3, <1>4, <1>5
       DEF Handle, Exchange, Conflict, RefuseRefresh, CloseSession, Logout, ServerError, Disconnect

\* Only the device's own refresh rotates its token, and then it is answered.
LEMMA ServerKeepsFresh ==
  ASSUME IInv, DeviceInv, NothingStale, NEW c \in Callers, Server(c)
  PROVE  NothingStale'
  <1> USE FourCallers
  <1> SUFFICES ASSUME ~lost PROVE NothingStale'
    BY DEF Server, device, NothingStale
  <1> USE DEF DeviceInv, OneFlight
  <1> DEFINE acts == Handle(c) \/ ServerError(c) \/ Disconnect(c)
  <1>1. acts /\ UNCHANGED <<stored, lost>>
    BY DEF Server, device
  <1>2. c # "orphan"
    <2>1. op["orphan"].at = "idle"
      BY DEF NothingStale
    <2>2. \E r \in Running \cup Answers : Served(c, r)
      BY <1>1, ServerGoesOn
    <2> QED
      BY <2>1, <2>2 DEF Served
  <1>3. \A d \in Callers : d # c => op'[d] = op[d]
    <2>1. PICK r \in Running \cup Answers : Served(c, r)
      BY <1>1, ServerGoesOn
    <2> QED
      BY <2>1 DEF Served, IInv, SessionTypeOK
  <1>4. ServedWith(c) /\ op[c].at # "idle"
    BY <1>1, ServerAnswers, ServerGoesOn DEF Served
  <1>5. Rotate(c) => c = "refresh" /\ op'[c].at = "answered"
    <2>1. Rotate(c) => op'[c].at = "answered"
      BY DEF Rotate, Reply, IInv, SessionTypeOK
    <2> QED
      BY <1>2, <2>1, CallerAssumption DEF Rotate
  <1>6. \A d \in Callers : op[d].at \in {"begun", "answered"} => op[d].token \in Tokens \cup {None}
    BY DEF IInv, SessionTypeOK, Idle, Requests, Running, Answers
  <1>7. op["refresh"].at # "idle" /\ op["refresh"].token # None
          => op["refresh"].token \in Tokens /\ session[op["refresh"].token] \in Sessions
    <2>1. op["refresh"].at \in {"idle", "sent", "begun", "answered"}
      BY DEF IInv, SessionTypeOK, Idle, Requests, Running, Answers
    <2> QED
      BY <1>6, <2>1 DEF IInv, KnownRequests, KnownRequest, HoldsIssued
  <1>8. op["signin"].at = "answered" /\ op["signin"].token # None
          => op["signin"].token \in Tokens /\ session[op["signin"].token] \in Sessions
    BY <1>6 DEF HoldsIssued
  <1>9. stored # None => stored \in Tokens /\ session[stored] \in Sessions
    BY DEF HoldsIssued
  <1>10. op'["orphan"].at = "idle"
    BY <1>2, <1>3 DEF NothingStale
  <1>11. Usable(stored)' \/ op'["refresh"].at = "answered"
    <2>1. CASE op["refresh"].at = "answered"
      <3>1. CASE c = "refresh"
        BY <1>4, <2>1, <3>1 DEF ServedWith
      <3>2. CASE c # "refresh"
        BY <1>3, <2>1, <3>2
      <3> QED
        BY <3>1, <3>2
    <2>2. CASE Rotate(c)
      BY <1>5, <2>2
    <2>3. CASE Usable(stored) /\ ~Rotate(c)
      BY <1>1, <1>9, <2>3, UsableUntilRotated DEF Usable, UsableNext
    <2> QED
      BY <2>1, <2>2, <2>3 DEF NothingStale
  <1>12. op'["refresh"].at # "idle" => Usable(op["refresh"].token)'
    <2>1. CASE c = "refresh"
      <3>1. CASE op'[c].at = "answered" /\ (op'[c].token = None \/ op'[c].token \in current')
        BY <2>1, <3>1 DEF Usable
      <3>2. CASE op[c].at = "sent" /\ op'[c].token = op[c].token
        <4>1. ~Rotate(c)
          BY <3>2 DEF Rotate
        <4> QED
          BY <1>1, <1>7, <2>1, <3>2, <4>1, UsableUntilRotated DEF Usable, UsableNext, NothingStale
      <3> QED
        BY <1>4, <3>1, <3>2 DEF ServedWith
    <2>2. CASE c # "refresh" /\ op["refresh"].at # "idle"
      <3>1. UsableNext(op["refresh"].token)
        BY <1>1, <1>5, <1>7, <2>2, UsableUntilRotated DEF NothingStale
      <3> QED
        BY <1>3, <2>2, <3>1 DEF Usable, UsableNext
    <2> QED
      BY <1>3, <2>1, <2>2
  <1>13. ASSUME op'["signin"].at = "answered", op'["signin"].token # None
         PROVE  /\ Usable(op["signin"].token)' /\ stored' # op'["signin"].token
                /\ op'["refresh"].at # "idle" => op'["refresh"].token # op'["signin"].token
    <2>1. CASE c = "signin"
      <3>1. op["signin"].at # "begun"
        OBVIOUS
      <3>2. CASE op[c].at = "sent"
        <4>1. session[op'[c].token] = None /\ op'[c].token \in current'
          BY <1>4, <1>13, <2>1, <3>2 DEF ServedWith
        <4> QED
          BY <1>1, <1>3, <1>7, <1>9, <1>13, <2>1, <4>1, IdAssumption DEF Usable
      <3>3. CASE op[c].at = "answered"
        BY <1>4, <1>13, <2>1, <3>3 DEF ServedWith
      <3> QED
        BY <1>4, <2>1, <3>1, <3>2, <3>3 DEF IInv, SessionTypeOK, Idle, Requests, Running, Answers
    <2>2. CASE c # "signin"
      <3>1. op'["signin"] = op["signin"]
        BY <1>3, <2>2
      <3>2. UsableNext(op["signin"].token)
        <4>1. Rotate(c) => op["signin"].token # op[c].token
          BY <1>5, <1>13, <3>1 DEF NothingStale, Rotate
        <4> QED
          BY <1>1, <1>8, <1>13, <3>1, <4>1, UsableUntilRotated DEF NothingStale
      <3>3. op'["refresh"].at # "idle" => op'["refresh"].token # op["signin"].token
        <4>1. CASE c = "refresh"
          BY <1>4, <1>8, <1>13, <3>1, <4>1, IdAssumption DEF ServedWith, NothingStale
        <4>2. CASE c # "refresh"
          BY <1>3, <1>13, <3>1, <4>2 DEF NothingStale
        <4> QED
          BY <4>1, <4>2
      <3> QED
        BY <1>1, <1>13, <3>1, <3>2, <3>3 DEF Usable, UsableNext, NothingStale
    <2> QED
      BY <2>1, <2>2
  <1>14. \A s \in Sessions : state'[s] # "reuse_detected"
    <2>1. CASE UNCHANGED state
      BY <2>1 DEF NothingStale
    <2>2. CASE OpenSession(c)
      BY <2>2 DEF OpenSession, NothingStale, IInv, SessionTypeOK
    <2>3. CASE Logout(c)
      BY <2>3 DEF Logout, RevokeFamily, NothingStale, IInv, SessionTypeOK
    <2>4. CASE CloseSession(c)
      <3>1. c = "refresh"
        BY <1>2, <2>4, CallerAssumption DEF CloseSession
      <3>2. op[c].token \in current
        <4>1. op[c].at = "begun" /\ state[session[op[c].token]] = "open"
          BY <2>4 DEF CloseSession, Invalid
        <4>2. op[c].token \in Tokens
          BY <4>1 DEF IInv, SessionTypeOK, Idle, Requests, Running, Answers
        <4>3. Usable(op[c].token)
          BY <3>1, <4>1 DEF NothingStale
        <4> QED
          BY <4>1, <4>2, <4>3, IdAssumption DEF Usable
      <3> QED
        BY <2>1, <2>4, <3>2 DEF CloseSession, RevokeFamily, NothingStale, tables, IInv, SessionTypeOK
    <2> QED
      BY <1>1, <2>1, <2>2, <2>3, <2>4
         DEF Handle, Exchange, BeginRefresh, Conflict, RefuseRefresh, Rotate, ServerError,
             Disconnect, tables
  <1> QED
    BY <1>10, <1>11, <1>12, <1>13, <1>14 DEF NothingStale

\* A refresh is sent with a token that is usable, and not with one a sign-in brings.
LEMMA LaunchIsFresh ==
  ASSUME IInv, OneFlight, NothingStale, ~refreshing, LaunchRefresh, UNCHANGED <<tables, lost>>
  PROVE  NothingStale'
  <1> USE FourCallers
  <1>1. op' = [op EXCEPT !["refresh"] = [at |-> "sent", token |-> stored, kind |-> "refresh"]]
    BY DEF LaunchRefresh, Send
  <1>2. op'["refresh"].at = "sent" /\ op'["refresh"].token = stored
    BY <1>1 DEF IInv, SessionTypeOK
  <1>3. op'["signin"] = op["signin"] /\ op'["orphan"] = op["orphan"]
    BY <1>1 DEF IInv, SessionTypeOK
  <1>4. stored' = stored /\ op["refresh"].at = "idle"
    BY DEF LaunchRefresh, OneFlight
  <1> QED
    BY <1>2, <1>3, <1>4 DEF NothingStale, Usable, tables

\* So is a new launch, unless it cuts a refresh off.
LEMMA RestartIsFresh ==
  ASSUME IInv, OneFlight, NothingStale, Restart
  PROVE  NothingStale'
  <1> USE FourCallers
  <1> SUFFICES ASSUME ~lost' PROVE NothingStale'
    BY DEF NothingStale
  <1>1. PICK late \in {Idle, op["refresh"]} :
          op' = [c \in Callers |-> IF c = "orphan" THEN late ELSE Idle]
    BY DEF Restart
  <1>2. op'["orphan"] = late /\ op'["refresh"] = Idle /\ op'["signin"] = Idle
    BY <1>1
  <1>3. Idle.at = "idle"
    BY DEF Idle
  <1>4. ~lost /\ op["refresh"].at = "idle" /\ stored' = stored /\ UNCHANGED tables
    BY DEF Restart, UNCHANGEDServer, OneFlight
  <1> QED
    BY <1>1, <1>2, <1>3, <1>4 DEF NothingStale, Usable, tables

\* The device takes the answer to a rotation before it sends another token.
LEMMA DeviceKeepsFresh ==
  ASSUME IInv, DeviceInv, NothingStale, DeviceNext
  PROVE  NothingStale'
  <1> USE FourCallers
  <1> USE DEF IInv, SessionTypeOK, DeviceInv, OneFlight, NothingStale, Usable, Idle, Take,
                     Send, Answered, Token, UNCHANGEDServer, tables, device, sessionVars, Joins,
                     Bootstrapping
  <1>1. CASE Forget
    BY <1>1 DEF Forget
  <1>2. CASE Continue
    <2>1. CASE RefreshAnswered
      BY <2>1 DEF RefreshAnswered, Resume, SignedInWith, SignedOutAs, NobodySignedIn,
                  ExpiresUncleared
    <2>2. CASE RefreshThrows
      BY <2>2 DEF RefreshThrows
    <2>3. CASE LogoutAnswered
      BY <2>3 DEF LogoutAnswered, SignOutUnchanged
    <2>4. CASE SignInAnswered
      BY <2>4 DEF SignInAnswered, SignedInWith, SignInUnchanged
    <2>5. CASE SignInDenied
      <3>1. CASE ~Joins /\ LaunchRefresh
        BY <2>5, <3>1, LaunchIsFresh DEF SignInDenied
      <3>2. CASE op' = op /\ stored' \in {stored, None}
        BY <2>5, <3>2 DEF SignInDenied
      <3> QED
        BY <2>5, <3>1, <3>2 DEF SignInDenied, NobodySignedIn, SignedOutAs
    <2>6. CASE RetryExchange
      BY <2>6 DEF RetryExchange, SignInUnchanged
    <2>7. CASE SignInRefused
      BY <2>7 DEF SignInRefused, SignInUnchanged
    <2>8. CASE KratosAccepts
      BY <2>8 DEF KratosAccepts, SignInUnchanged
    <2>9. CASE KratosRefuses
      BY <2>9 DEF KratosRefuses, SignInUnchanged
    <2>10. CASE KratosLogout
      BY <2>10 DEF KratosLogout, SignOutUnchanged
    <2>11. CASE FinishLogout
      BY <2>11 DEF FinishLogout, ClearsStorage, SignOutUnchanged
    <2>12. CASE FindStoredSession
      BY <2>12 DEF FindStoredSession, BootstrapUnchanged
    <2> QED
      BY <1>2, <2>1, <2>2, <2>3, <2>4, <2>5, <2>6, <2>7, <2>8, <2>9, <2>10, <2>11, <2>12
         DEF Continue
  <1>3. CASE User
    <2>1. CASE DenyUnlock
      BY <2>1 DEF DenyUnlock, Denials, BootstrapUnchanged
    <2>2. CASE RestoreSession
      BY <2>2, LaunchIsFresh DEF RestoreSession
    <2>3. CASE RetryUnlock
      BY <2>3 DEF RetryUnlock, BootstrapUnchanged
    <2>4. CASE ContinueWithPassword
      BY <2>4 DEF ContinueWithPassword, BootstrapUnchanged
    <2>5. CASE BeginReauth
      BY <2>5 DEF BeginReauth, BootstrapUnchanged
    <2>6. CASE \E kind \in {"login", "register"} : BeginSignIn(kind)
      BY <2>6 DEF BeginSignIn, SignInUnchanged
    <2>7. CASE \E k \in Calls : SendCall(k)
      BY <2>7 DEF SendCall, CallsUnchanged
    <2>8. CASE BeginLogout
      BY <2>8 DEF BeginLogout, SignOutUnchanged
    <2>9. CASE Restart
      BY <2>9, RestartIsFresh
    <2> QED
      BY <1>3, <2>1, <2>2, <2>3, <2>4, <2>5, <2>6, <2>7, <2>8, <2>9 DEF User
  <1>4. CASE \E k \in Calls : CallEnds(k) \/ CallDenied(k)
    <2>1. CASE \E k \in Calls : CallEnds(k)
      BY <2>1 DEF CallEnds, CallsUnchanged
    <2>2. CASE \E k \in Calls : CallDenied(k)
      <3>1. CASE ~Joins /\ LaunchRefresh
        BY <2>2, <3>1, LaunchIsFresh DEF CallDenied, CallsUnchanged
      <3>2. CASE op' = op /\ stored' \in {stored, None}
        BY <2>2, <3>2 DEF CallDenied, CallsUnchanged
      <3> QED
        BY <2>2, <3>1, <3>2 DEF CallDenied, NobodySignedIn, SignedOutAs
    <2> QED
      BY <1>4, <2>1, <2>2
  <1> QED
    BY <1>1, <1>2, <1>3, <1>4 DEF DeviceNext

-----------------------------------------------------------------------------
(* The invariant, and the theorems                                          *)

\* A first launch.
LEMMA InitEstablishesInv == Init => Inv
  <1> SUFFICES ASSUME Init PROVE Inv
    OBVIOUS
  <1> USE FourCallers
  <1> USE DEF Init
  <1>1. IInv
    BY InitEstablishesInvariant
  <1>2. \A c \in Callers : op[c] = Idle /\ op[c].at = "idle"
    BY DEF SessionInit, Idle
  <1>3. DeviceTypeOK /\ Bootstrapping /\ UsesUnlocked /\ NothingLeft
    BY DEF DeviceTypeOK, Bootstrapping, UsesUnlocked, NothingLeft
  <1>4. OneFlight /\ HoldsIssued
    BY <1>2 DEF OneFlight, HoldsIssued
  <1>5. NothingStale
    BY <1>2 DEF NothingStale, Usable, SessionInit
  <1> QED
    BY <1>1, <1>3, <1>4, <1>5 DEF Inv, DeviceInv

\* Stuttering.
LEMMA UnchangedKeeps ==
  ASSUME Inv, UNCHANGED vars
  PROVE  Inv' /\ FinalStep
  <1> USE DEF vars, sessionVars, device, tables
  <1>1. SessionTypeOK' /\ KnownRequests' /\ TokensFollowSessions'
    BY DEF Inv, IInv, SessionTypeOK, KnownRequests, KnownRequest, TokensFollowSessions
  <1>2. /\ DeviceTypeOK' /\ OneFlight' /\ HoldsIssued'
        /\ Bootstrapping' /\ UsesUnlocked' /\ NothingLeft'
    BY DEF Inv, DeviceInv, DeviceTypeOK, OneFlight, HoldsIssued, Bootstrapping, UsesUnlocked,
           NothingLeft
  <1>3. NothingStale'
    BY DEF Inv, NothingStale, Usable
  <1> QED
    BY <1>1, <1>2, <1>3 DEF Inv, IInv, DeviceInv, FinalStep, Family

\* Every step.
LEMMA StepKeepsInv == Inv /\ [Next]_vars => Inv' /\ FinalStep
  <1> SUFFICES ASSUME Inv, [Next]_vars PROVE Inv' /\ FinalStep
    OBVIOUS
  <1>1. CASE \E c \in Callers : Server(c)
    <2>1. PICK c \in Callers : Server(c)
      BY <1>1
    <2> QED
      BY <2>1, ServerKeeps, ServerKeepsDevice, ServerKeepsFresh DEF Inv, Server
  <1>2. CASE DeviceNext
    BY <1>2, DeviceKeepsSessions, DeviceKeepsDevice, DeviceKeepsFresh DEF Inv, DeviceInv
  <1>3. CASE UNCHANGED vars
    BY <1>3, UnchangedKeeps
  <1> QED
    BY <1>1, <1>2, <1>3 DEF Next, DeviceNext

\* Hence always.
LEMMA ClientInvariant == Spec => []Inv
  <1> QED
    BY InitEstablishesInv, StepKeepsInv, PTL DEF Spec

\* With the installation as its caller, and a refresh of an earlier launch still at the
\* server, an open session has one current token and a closed one none.
THEOREM InstallationKeepsOneCurrentToken == Spec => []OneCurrentToken
  <1>1. Inv => OneCurrentToken
    BY InvariantGivesOneCurrentToken DEF Inv
  <1> QED
    BY <1>1, ClientInvariant, PTL

\* Nor does a refresh racing a sign-out or a reuse outlive the session.
THEOREM InstallationLeavesRevokedSessions == Spec => RevokedSessionIsFinal
  <1>1. Inv /\ [Next]_vars => [FinalStep]_sessionVars
    BY StepKeepsInv
  <1> QED
    BY <1>1, ClientInvariant, PTL DEF Spec, RevokedSessionIsFinal, FinalStep

\* No callback of the device sends the stored token before biometrics or a sign-in of
\* the same launch, for any number of calls and launches (AppShell.tsx:133).
THEOREM NothingConsumedLocked == Spec => []UnlockedBeforeConsumption
  <1>1. Inv => UnlockedBeforeConsumption
    BY DEF Inv, DeviceInv, OneFlight, UsesUnlocked, UnlockedBeforeConsumption
  <1> QED
    BY <1>1, ClientInvariant, PTL

\* The device is never taken for a thief unless a refresh of it was cut off or its outcome
\* not stored (AuthContext.tsx:247, refresh.go:109).
THEOREM NoReuseWithoutLoss == Spec => []ReuseOnlyAfterLoss
  <1>1. Inv => ReuseOnlyAfterLoss
    BY DEF Inv, DeviceInv, DeviceTypeOK, NothingStale, ReuseOnlyAfterLoss
  <1> QED
    BY <1>1, ClientInvariant, PTL

\* A sign-out with nothing under way lasts until the next sign-in (AuthContext.tsx:805).
THEOREM SignedOutForGood == Spec => []SignOutLasts
  <1>1. Inv => SignOutLasts
    BY DEF Inv, DeviceInv, NothingLeft, SignOutLasts
  <1> QED
    BY <1>1, ClientInvariant, PTL

=============================================================================
