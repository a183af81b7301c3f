------------------------------- MODULE AuthClient -------------------------------
(***************************************************************************)
(* One installation of the application (evt-ui-expo) signing in, calling   *)
(* the API and signing out against the session handlers of AuthSession:    *)
(* AuthContext.tsx with the fetch interceptor, the biometric bootstrap of  *)
(* AppShell.tsx, and the sign-in screens and logout button that drive      *)
(* them.                                                                   *)
(*                                                                         *)
(* Everything JavaScript does between two awaits is one step, and so is a  *)
(* storage operation of the device, which may fail, with the code that     *)
(* awaits it.  Kratos is external: it accepts, refuses or cannot be        *)
(* reached.                                                                *)
(***************************************************************************)
EXTENDS AuthSession

CONSTANTS
  Calls,            \* API calls the screens make
  MaxRestarts,      \* bound on relaunches of the app
  FailingLaunches   \* bound on storage failures: the launches in which a write may fail

VARIABLES
  platform,    \* "native" or "web"
  launch,      \* which run of the app this is
  status,      \* AuthContext status
  gate,        \* AppShell biometricGate
  access,      \* an access token is in memory
  stored,      \* refresh token in SecureStore or localStorage, or None
  refreshing,  \* refreshInFlightRef is set
  signIn,      \* login(), register() or the web hydration in progress
  signOut,     \* step of logout() in progress (isLoggingOutRef)
  calls,       \* step of each API call, "ended" before the first and after each
  cookie,      \* the browser holds a Kratos session
  unlocked,    \* history: this launch passed biometrics or a sign-in
  lost,        \* history: after a refresh the storage holds what it held, for want of an
               \* answer or because it could not be written
  signedOut    \* history: logout() completed, nothing else under way, no sign-in since

device == <<platform, launch, status, gate, access, stored, refreshing, signIn, signOut,
            calls, cookie, unlocked, lost, signedOut>>
vars == <<sessionVars, device>>

\* "orphan" is a refresh of an earlier launch that the server still has before it.
ASSUME CallerAssumption == Callers = {"refresh", "signin", "logout", "orphan"}

Answered(name) == op[name].at = "answered"
Answer(name) == op[name].status
Token(name) == op[name].token
Take(name) == op' = [op EXCEPT ![name] = Idle]
UNCHANGEDServer == UNCHANGED tables

NoSignIn == <<"none", "none">>
WebRoutes == {"hydrate", "self-service"}

\* AuthContext and AppShell as they are mounted: the browser hydrates its cookie
\* session, except on a self-service page; the device looks for a stored one.
Mounted(p, route) ==
  /\ gate' = IF p = "web" THEN "complete" ELSE "checking-session"
  /\ status' = IF p = "web" /\ route = "self-service" THEN "unauthenticated" ELSE "checking"
  /\ signIn' = IF p = "web" /\ route = "hydrate" THEN <<"hydrate", "kratos">> ELSE NoSignIn

Init ==
  /\ SessionInit
  /\ platform \in {"native", "web"} /\ launch = 0
  /\ \E route \in WebRoutes :
       /\ platform = "native" => route = "hydrate"
       /\ gate = IF platform = "web" THEN "complete" ELSE "checking-session"
       /\ status = IF route = "self-service" THEN "unauthenticated" ELSE "checking"
       /\ signIn = IF platform = "web" /\ route = "hydrate" THEN <<"hydrate", "kratos">>
                   ELSE NoSignIn
  /\ access = FALSE /\ stored = None
  /\ refreshing = FALSE /\ signOut = "none"
  /\ calls = [k \in Calls |-> "ended"]
  /\ cookie = FALSE
  /\ unlocked = FALSE /\ lost = FALSE /\ signedOut = FALSE

-----------------------------------------------------------------------------
(* refresh(): one flight, awaited by the bootstrap and by API calls          *)

Waiting == {k \in Calls : calls[k] = "waiting"}

\* setAccessToken, storeRefreshToken, setStatus.
SignedInWith(t) ==
  /\ access' = TRUE /\ stored' = t /\ status' = "authenticated"

SignedOutAs(s) ==
  /\ access' = FALSE /\ stored' = None /\ status' = s

NobodySignedIn == SignedOutAs("unauthenticated")

\* Fault: every 401 sends the stored token on its own.
JoinsFaultNever == FALSE

\* refreshInFlightRef: whoever finds a flight under way awaits it.
Joins == refreshing

\* Starts a flight, for callers that find none under way.
LaunchRefresh ==
  /\ refreshing' = TRUE
  /\ Send("refresh", "refresh", stored)
  /\ UNCHANGED <<access, stored, status>>

\* Fault: a caller that joined the flight is not resumed by a refusal.
ResumeFaultOnSuccess(t) ==
  /\ refreshing' = FALSE
  /\ signIn' = IF signIn[2] # "refresh" THEN signIn
               ELSE <<signIn[1], IF t = None THEN "refused" ELSE "retry">>
  /\ calls' = [k \in Calls |->
       IF k \in Waiting /\ t # None THEN "ended" ELSE calls[k]]
  /\ gate' = IF gate = "restoring-session" THEN "complete" ELSE gate

\* What the flight's outcome does to those awaiting it: API calls get their first
\* answer, or are sent once more past the interceptor, and so does the exchange of a
\* browser; the bootstrap is over.
Resume(t) ==
  /\ refreshing' = FALSE
  /\ signIn' = IF signIn[2] # "refresh" THEN signIn
               ELSE <<signIn[1], IF t = None THEN "refused" ELSE "retry">>
  /\ calls' = [k \in Calls |->
       IF k \in Waiting THEN "ended" ELSE calls[k]]
  /\ gate' = IF gate = "restoring-session" THEN "complete" ELSE gate

\* storeRefreshToken or clearStoredRefreshToken may reject.
StorageFails == launch \in FailingLaunches

\* markSessionExpired goes on when it cannot clear the storage.
ExpiresUncleared ==
  /\ StorageFails /\ UNCHANGED stored /\ lost' = TRUE
  /\ access' = FALSE /\ status' = "session-expired"

RefreshAnswered ==
  /\ refreshing /\ Answered("refresh") /\ Take("refresh")
  /\ \/ /\ UNCHANGED lost
        /\ \/ Answer("refresh") = "ok" /\ SignedInWith(Token("refresh"))
           \/ Answer("refresh") = "unauthorized" /\ SignedOutAs("session-expired")
           \/ Answer("refresh") \in {"forbidden", "failed"} /\ NobodySignedIn
     \/ Answer("refresh") = "unauthorized" /\ ExpiresUncleared
  /\ Resume(Token("refresh"))
  /\ UNCHANGEDServer
  /\ UNCHANGED <<platform, launch, signOut, cookie, unlocked, signedOut>>

\* The body of a successful answer breaks off, or its token cannot be stored; or the
\* storage cannot be cleared after a failure.  The promise rejects, and with it
\* everybody awaiting the flight.
RefreshThrows ==
  /\ refreshing /\ Answered("refresh") /\ Answer("refresh") # "unauthorized" /\ Take("refresh")
  /\ \/ Answer("refresh") = "ok" /\ UNCHANGED access
     \/ StorageFails /\ access' = (access \/ Answer("refresh") = "ok")
  /\ refreshing' = FALSE
  /\ signIn' = IF signIn[2] = "refresh" THEN <<signIn[1], "refused">> ELSE signIn
  /\ calls' = [k \in Calls |->
       IF k \in Waiting THEN "ended" ELSE calls[k]]
  /\ gate' = IF gate = "restoring-session" THEN "failed" ELSE gate
  /\ lost' = TRUE
  /\ UNCHANGEDServer
  /\ UNCHANGED <<platform, launch, status, stored, signOut, cookie, unlocked, signedOut>>

-----------------------------------------------------------------------------
(* Bootstrap of the native app                                              *)

BootstrapUnchanged ==
  UNCHANGED <<sessionVars, platform, launch, access, stored, refreshing, signIn, signOut,
              calls, cookie, lost, signedOut>>

FindStoredSession ==
  /\ gate = "checking-session"
  /\ \/ stored = None /\ gate' = "complete" /\ status' = "unauthenticated"
     \/ stored # None /\ gate' = "prompting" /\ UNCHANGED status
  /\ UNCHANGED unlocked /\ BootstrapUnchanged

\* Outcomes of runBiometricCheck other than success, by what AppShell offers next: a
\* cancelled or failed prompt can be tried again, a locked or absent sensor cannot.
Denials == {"failed", "unavailable"}

DenyUnlock ==
  /\ gate = "prompting" /\ gate' \in Denials
  /\ UNCHANGED <<status, unlocked>> /\ BootstrapUnchanged

\* Fault: a device without biometrics restores its session too.
UnlocksFaultUnavailable(result) == result \in {"success", "unavailable"}

\* Only success goes on to restoreSession().
Unlocks(result) == result = "success"

RestoreSession == \E result \in Denials \cup {"success"} :
  /\ gate = "prompting" /\ Unlocks(result)
  /\ ~refreshing
  /\ gate' = "restoring-session"
  /\ unlocked' = (unlocked \/ result = "success")
  /\ LaunchRefresh
  /\ UNCHANGEDServer
  /\ UNCHANGED <<platform, launch, signIn, signOut, calls, cookie, lost, signedOut>>

RetryUnlock ==
  /\ gate = "failed" /\ gate' = "checking-session"
  /\ UNCHANGED <<status, unlocked>> /\ BootstrapUnchanged

ContinueWithPassword ==
  /\ gate \in Denials /\ gate' = "complete" /\ status' = "unauthenticated"
  /\ UNCHANGED unlocked /\ BootstrapUnchanged

\* SessionExpiredScreen.
BeginReauth ==
  /\ gate = "complete" /\ status = "session-expired" /\ status' = "unauthenticated"
  /\ UNCHANGED <<gate, unlocked>> /\ BootstrapUnchanged

-----------------------------------------------------------------------------
(* login(), register() and the hydration of a browser                        *)

SignInKind == signIn[1]
At(step) == signIn[2] = step

SignInUnchanged ==
  UNCHANGED <<platform, launch, gate, refreshing, signOut, calls, lost>>

\* The screens are there to press a button on only while nobody is signed in.
BeginSignIn(kind) ==
  /\ gate = "complete" /\ status = "unauthenticated" /\ signIn = NoSignIn
  /\ signIn' = <<kind, "kratos">> /\ status' = "checking" /\ signedOut' = FALSE
  /\ UNCHANGED <<sessionVars, access, stored, cookie, unlocked>> /\ SignInUnchanged

\* Kratos accepts the credentials, or whoami the cookie.  A registration in the
\* browser leads to the verification page or back to the sign-in screen; the others
\* go on to exchange the Kratos session.
KratosAccepts ==
  /\ At("kratos")
  /\ SignInKind = "hydrate" => cookie
  /\ IF platform = "web" /\ SignInKind = "register"
     THEN /\ signIn' = NoSignIn /\ status' = "unauthenticated"
          /\ UNCHANGED <<op, cookie>>
     ELSE /\ signIn' = <<SignInKind, "exchange">>
          /\ cookie' = (platform = "web")
          /\ Send("signin", "exchange", None)
          /\ UNCHANGED status
  /\ UNCHANGEDServer
  /\ UNCHANGED <<access, stored, unlocked, signedOut>> /\ SignInUnchanged

\* What a failed attempt leaves on screen.  login() has no catch: if fetch rejects or
\* the exchange throws, status stays "checking" and the app shows its spinner.
AfterThrow(kind) == IF kind = "login" THEN status ELSE "unauthenticated"

KratosRefuses ==
  /\ At("kratos")
  /\ signIn' = NoSignIn
  /\ status' \in {"unauthenticated", AfterThrow(SignInKind)}
  /\ UNCHANGED <<sessionVars, access, stored, cookie, unlocked, signedOut>>
  /\ SignInUnchanged

\* isAuthEndpoint does not know /auth/web/exchange: a browser's exchange that is denied
\* waits for a refresh with the stored token, like any call.
Denied ==
  platform = "web" /\ At("exchange") /\ Answered("signin") /\ Answer("signin") = "forbidden"

SignInDenied ==
  /\ Denied
  /\ \/ /\ Joins \/ stored # None
        /\ signIn' = <<SignInKind, "refresh">>
        /\ IF Joins THEN UNCHANGED <<op, refreshing, access, stored, status>> ELSE LaunchRefresh
     \/ /\ ~Joins /\ stored = None
        /\ signIn' = <<SignInKind, "refused">> /\ NobodySignedIn
        /\ UNCHANGED <<op, refreshing>>
  /\ UNCHANGEDServer
  /\ UNCHANGED <<platform, launch, gate, signOut, calls, cookie, unlocked, lost, signedOut>>

RetryExchange ==
  /\ At("retry") /\ signIn' = <<SignInKind, "exchange-again">>
  /\ Send("signin", "exchange", None)
  /\ UNCHANGEDServer
  /\ UNCHANGED <<status, access, stored, cookie, unlocked, signedOut>> /\ SignInUnchanged

SignInRefused ==
  /\ At("refused") /\ signIn' = NoSignIn /\ Take("signin")
  /\ status' = "unauthenticated"
  /\ UNCHANGEDServer
  /\ UNCHANGED <<access, stored, cookie, unlocked, signedOut>> /\ SignInUnchanged

\* A token that does not arrive or cannot be stored is as good as none.
SignInAnswered ==
  /\ At("exchange") \/ At("exchange-again")
  /\ Answered("signin") /\ ~Denied /\ Take("signin")
  /\ signIn' = NoSignIn
  /\ \/ /\ Answer("signin") = "ok" /\ SignedInWith(Token("signin"))
        /\ unlocked' = TRUE /\ signedOut' = FALSE
     \/ /\ status' = IF platform = "web" THEN "unauthenticated"
                     ELSE AfterThrow(SignInKind)
        /\ UNCHANGED <<access, stored, unlocked, signedOut>>
  /\ UNCHANGEDServer /\ UNCHANGED cookie /\ SignInUnchanged

-----------------------------------------------------------------------------
(* API calls through the interceptor                                         *)

CallsUnchanged ==
  UNCHANGED <<platform, launch, signIn, signOut, cookie, unlocked, lost, signedOut>>

SendCall(k) ==
  /\ status = "authenticated" /\ gate = "complete" /\ calls[k] = "ended"
  /\ calls' = [calls EXCEPT ![k] = "sent"]
  /\ UNCHANGED <<sessionVars, status, gate, access, stored, refreshing>> /\ CallsUnchanged

\* A first answer the interceptor does not act on, or none at all.
CallEnds(k) ==
  /\ calls[k] = "sent"
  /\ calls' = [calls EXCEPT ![k] = "ended"]
  /\ UNCHANGED <<sessionVars, status, gate, access, stored, refreshing>> /\ CallsUnchanged

\* A first 401 or 403: the access token may have lapsed at any time, or lack the role.
CallDenied(k) ==
  /\ calls[k] = "sent"
  /\ \/ /\ Joins
        /\ calls' = [calls EXCEPT ![k] = "waiting"]
        /\ UNCHANGED <<op, status, access, stored, refreshing>>
     \/ /\ ~Joins /\ stored # None
        /\ calls' = [calls EXCEPT ![k] = "waiting"]
        /\ LaunchRefresh
     \/ /\ ~Joins /\ stored = None
        /\ calls' = [calls EXCEPT ![k] = "ended"]
        /\ NobodySignedIn
        /\ UNCHANGED <<op, refreshing>>
  /\ UNCHANGEDServer /\ UNCHANGED gate /\ CallsUnchanged

-----------------------------------------------------------------------------
(* logout()                                                                 *)

SignOutUnchanged ==
  UNCHANGED <<platform, launch, gate, refreshing, signIn, calls, unlocked, lost>>

AfterApi == IF platform = "web" THEN "kratos" ELSE "clear"

BeginLogout ==
  /\ gate = "complete" /\ status = "authenticated" /\ signOut = "none"
  /\ \/ stored # None /\ Send("logout", "logout", stored) /\ signOut' = "api"
     \/ stored = None /\ signOut' = AfterApi /\ UNCHANGED op
  /\ UNCHANGEDServer
  /\ UNCHANGED <<status, access, stored, cookie, signedOut>> /\ SignOutUnchanged

\* Whatever the API answers.
LogoutAnswered ==
  /\ signOut = "api" /\ Answered("logout") /\ Take("logout")
  /\ signOut' = AfterApi
  /\ UNCHANGEDServer
  /\ UNCHANGED <<status, access, stored, cookie, signedOut>> /\ SignOutUnchanged

KratosLogout ==
  /\ signOut = "kratos" /\ signOut' = "clear"
  /\ cookie' \in {FALSE, cookie}
  /\ UNCHANGED <<sessionVars, status, access, stored, signedOut>> /\ SignOutUnchanged

\* Fault: the token is left in storage.
ClearsStorageFaultNever == FALSE

\* clearStoredRefreshToken comes last, after both servers.
ClearsStorage == TRUE

\* If the storage cannot be cleared the user stays signed in.
FinishLogout ==
  /\ signOut = "clear" /\ signOut' = "none"
  /\ \/ /\ access' = FALSE /\ status' = "unauthenticated"
        /\ stored' = IF ClearsStorage THEN None ELSE stored
        /\ signedOut' = (~refreshing /\ signIn = NoSignIn /\ ~cookie)
     \/ StorageFails /\ UNCHANGED <<access, status, stored, signedOut>>
  /\ UNCHANGED <<sessionVars, cookie>> /\ SignOutUnchanged

-----------------------------------------------------------------------------
(* The device                                                               *)

\* The app is killed, or the page reloaded, at any moment: what is stored survives.
\* Its requests are lost, except that a refresh may still be answered by the server.
Restart == \E route \in WebRoutes :
  /\ launch < MaxRestarts /\ launch' = launch + 1
  /\ platform = "native" => route = "hydrate"
  /\ Mounted(platform, route)
  /\ access' = FALSE /\ refreshing' = FALSE /\ signOut' = "none" /\ unlocked' = FALSE
  /\ lost' = (lost \/ refreshing)
  /\ \E late \in {Idle, op["refresh"]} :
       /\ late.at \in {"idle", "sent", "begun"}
       /\ op' = [c \in Callers |-> IF c = "orphan" THEN late ELSE Idle]
  /\ calls' = [k \in Calls |-> "ended"]
  /\ UNCHANGEDServer
  /\ UNCHANGED <<platform, stored, cookie, signedOut>>

-----------------------------------------------------------------------------
Server(c) ==
  /\ Handle(c) \/ ServerError(c) \/ (c # "orphan" /\ Disconnect(c))
  /\ UNCHANGED device

Continue ==
  \/ RefreshAnswered \/ RefreshThrows \/ LogoutAnswered
  \/ SignInAnswered \/ SignInDenied \/ RetryExchange \/ SignInRefused
  \/ KratosAccepts \/ KratosRefuses \/ KratosLogout \/ FinishLogout \/ FindStoredSession

User ==
  \/ DenyUnlock \/ RestoreSession \/ RetryUnlock \/ ContinueWithPassword \/ BeginReauth
  \/ \E kind \in {"login", "register"} : BeginSignIn(kind)
  \/ \E k \in Calls : SendCall(k)
  \/ BeginLogout \/ Restart

\* The answer to a refresh of an earlier launch reaches nobody.
Forget == Answered("orphan") /\ Take("orphan") /\ UNCHANGEDServer /\ UNCHANGED device

Next ==
  \/ \E c \in Callers : Server(c)
  \/ Forget
  \/ Continue \/ User
  \/ \E k \in Calls : CallEnds(k) \/ CallDenied(k)

\* Every request is answered, or the platform reports that it cannot be; what awaits
\* an answer goes on when it is there.  Users and clocks owe nothing.
Fairness ==
  /\ \A c \in Callers : WF_vars(Server(c))
  /\ WF_vars(RefreshAnswered \/ RefreshThrows)
  /\ \A k \in Calls : WF_vars(CallEnds(k) \/ CallDenied(k))

Spec == Init /\ [][Next]_vars /\ Fairness

-----------------------------------------------------------------------------
(* Properties                                                               *)

\* On a device, a stored token is sent only after biometrics or a sign-in of this
\* launch, whichever callback sends it ("It MUST NOT be consumed until local biometric
\* authorization succeeds", AppShell.tsx:133).
UnlockedBeforeConsumption ==
  platform = "native" /\ op["refresh"].at # "idle" => unlocked

\* The server takes the device's own token for a stolen one only when a refresh was cut
\* off or the storage not written after the server may have answered it: neither several
\* denied calls, nor a sign-out beside a refresh, nor an unreachable server gets there
\* (AuthContext.tsx:247, 278, 294, 311).
ReuseOnlyAfterLoss == (\E s \in Sessions : state[s] = "reuse_detected") => lost

\* A sign-out that finishes with no refresh in flight lasts until the next sign-in:
\* no late answer, denied call or relaunch signs the user in again or leaves a token
\* for biometrics to unlock (AuthContext.tsx:805-890, AppShell.tsx:119).
SignOutLasts ==
  signedOut => ~access /\ stored = None /\ status # "authenticated"

\* Every API call comes back, however many share one refresh and whatever becomes of
\* it (AuthContext.tsx:317-321, 386-397).
CallsReturn ==
  \A k \in Calls : calls[k] # "ended" ~> calls[k] = "ended"

=============================================================================
