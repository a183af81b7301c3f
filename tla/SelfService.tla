------------------------------- MODULE SelfService -------------------------------
(***************************************************************************)
(* The self-service pages of the web application: password recovery        *)
(* (RecoveryScreen with recoveryStateMachine.ts), the new password that    *)
(* follows it (SettingsScreen) and e-mail verification (VerifyScreen).     *)
(* Each page shows a flow that Kratos keeps.  On a device only the         *)
(* request for a recovery e-mail works.                                    *)
(*                                                                         *)
(* Kratos is external: what it may answer is what the pages tell apart.    *)
(* An answer is lost when the connection breaks, before or after Kratos    *)
(* did what it was asked, or when the page is loaded again.                *)
(***************************************************************************)
EXTENDS Naturals

CONSTANTS
  REDIRECT_SECONDS,
  MaxReloads         \* bound on the user's reloading a page

VARIABLES
  page,      \* "recovery", "native-recovery", "settings", "verification" or "sign-in"
  form,      \* uiState.type, or what SettingsScreen and VerifyScreen show
  request,   \* the page's request to Kratos, and its answer
  seconds,   \* countdownSeconds
  reloads,
  kratos     \* what Kratos did: state of the recovery flow and whether it has been sent_email,
             \* code mailed, passed, password changed, address verified

selfVars == <<page, form, request, seconds, reloads, kratos>>

NoRequest == [kind |-> "none", answer |-> "none"]
Sends(kind) == request' = [kind |-> kind, answer |-> "none"]
Answers(a) == request' = [request EXCEPT !.answer = a]
Asked(kind) == request.kind = kind /\ request.answer = "none"

\* The request of this kind has come back, or been found impossible ("broken").
Back(kind, a) == request = [kind |-> kind, answer |-> a]

FreshFlow == [recovery |-> "choose_method", sent |-> FALSE, mailed |-> FALSE,
              passed |-> FALSE, changed |-> FALSE, verified |-> FALSE]

\* A page as it is mounted with the flow of its URL; recovery without one goes to
\* Kratos to get one.
Pages == {<<"recovery", "loadingBrowserFlow", "load">>,
          <<"recovery", "bootstrappingBrowserFlow", "none">>,
          <<"native-recovery", "nativeApiRecovery", "none">>,
          <<"settings", "loading", "load">>,
          <<"settings", "unavailable", "none">>,
          <<"verification", "loading", "load">>,
          <<"verification", "invalid", "none">>}

SelfInit ==
  /\ \E p \in Pages :
       page = p[1] /\ form = p[2] /\ request = [kind |-> p[3], answer |-> "none"]
  /\ seconds = REDIRECT_SECONDS /\ reloads = 0 /\ kratos = FreshFlow

\* The page is loaded again, or the browser led to another.
Load(p) ==
  /\ page' = p[1] /\ form' = p[2] /\ Sends(p[3])
  /\ seconds' = REDIRECT_SECONDS

Reload == \E p \in Pages :
  /\ reloads < MaxReloads /\ reloads' = reloads + 1
  /\ page = p[1] /\ p[3] = "load" /\ Load(p)
  /\ UNCHANGED kratos

\* Kratos begins a recovery flow and redirects the browser to the page with it.
NewFlow ==
  /\ form \in {"bootstrappingBrowserFlow", "restartingFlow"}
  /\ Load(<<"recovery", "loadingBrowserFlow", "load">>)
  /\ kratos' = FreshFlow /\ UNCHANGED reloads

LeaveForSignIn ==
  /\ page' = "sign-in" /\ form' = "none" /\ request' = NoRequest
  /\ seconds' = REDIRECT_SECONDS

-----------------------------------------------------------------------------
(* Kratos                                                                   *)

KratosUnchanged == UNCHANGED <<page, form, seconds, reloads>>

\* A flow is there to be shown, or expired.
KratosShowsFlow ==
  /\ Asked("load") /\ KratosUnchanged /\ UNCHANGED kratos
  /\ Answers("flow") \/ Answers("expired")

\* An e-mail address: the flow is at sent_email, whether or not the address is one a code
\* is mailed to, or comes back unchanged.
KratosMails ==
  /\ Asked("email") /\ KratosUnchanged
  /\ \/ Answers("flow") /\ UNCHANGED kratos
     \/ /\ \E mailed \in {kratos.mailed, TRUE} :
             kratos' = [kratos EXCEPT !.recovery = "sent_email", !.sent = TRUE, !.mailed = mailed]
        /\ Answers("flow")
     \/ Answers("expired") /\ UNCHANGED kratos

\* A code: accepted with a page to go on to or without one, wrong, or too late.
KratosChecksCode ==
  /\ Asked("code") /\ KratosUnchanged
  /\ \/ /\ kratos.mailed
        /\ kratos' = [kratos EXCEPT !.recovery = "passed_challenge", !.passed = TRUE]
        /\ Answers("redirect") \/ Answers("accepted")
     \/ (Answers("wrong") \/ Answers("expired")) /\ UNCHANGED kratos

KratosSetsPassword ==
  /\ Asked("password") /\ KratosUnchanged
  /\ \/ kratos' = [kratos EXCEPT !.changed = TRUE] /\ Answers("accepted")
     \/ Answers("wrong") /\ UNCHANGED kratos

KratosVerifies ==
  /\ Asked("verification-code") /\ KratosUnchanged
  /\ \/ kratos' = [kratos EXCEPT !.verified = TRUE] /\ Answers("accepted")
     \/ Answers("wrong") /\ UNCHANGED kratos

\* fetch rejects: the request or its answer is lost.
Breaks ==
  /\ request.kind # "none" /\ request.answer # "broken"
  /\ Answers("broken") /\ KratosUnchanged /\ UNCHANGED kratos

-----------------------------------------------------------------------------
(* Recovery                                                                 *)

Shows(to) ==
  form' = to /\ request' = NoRequest /\ UNCHANGED <<page, seconds, reloads, kratos>>

\* Fault: any flow Kratos returns is taken for one at sent_email.
FormOfFaultNotCheckingState(state) == "emailSentEnterCode"

\* mapBrowserFlowToAction and the reducer.
FormOf(state) ==
  CASE state = "choose_method" -> "enteringEmail"
    [] state = "sent_email" -> "emailSentEnterCode"
    [] OTHER -> "expiredOrInvalidFlow"

Receives(kind) ==
  \/ Back(kind, "flow") /\ Shows(FormOf(kratos.recovery))
  \/ Back(kind, "expired") /\ Shows("expiredOrInvalidFlow")

RecoveryLoaded ==
  /\ page = "recovery"
  /\ Receives("load") \/ (Back("load", "broken") /\ Shows("expiredOrInvalidFlow"))

\* The code form sends the address again when the flow offers to.
SubmitEmail ==
  /\ page = "recovery" /\ form \in {"enteringEmail", "emailSentEnterCode"}
  /\ form' = "submittingEmail" /\ Sends("email")
  /\ UNCHANGED <<page, seconds, reloads, kratos>>

\* A rejected fetch is caught by submitRecoveryEmail, which leaves uiState alone: the
\* form stays busy until the page is loaded again.
EmailAnswered ==
  \/ Receives("email")
  \/ Back("email", "broken") /\ Shows("submittingEmail")

\* A flow without its CSRF token cannot be submitted.
SubmitCode ==
  /\ page = "recovery" /\ form = "emailSentEnterCode"
  /\ \/ /\ form' = "submittingCode" /\ Sends("code")
        /\ UNCHANGED <<page, seconds, reloads, kratos>>
     \/ Shows("expiredOrInvalidFlow")

\* Fault: the exception is logged and nothing dispatched.
CodeBrokenFaultStaying == "submittingCode"

\* What a fetch that rejects is taken for.
CodeBroken == "expiredOrInvalidFlow"

CodeAnswered ==
  \/ Back("code", "expired") /\ Shows("expiredOrInvalidFlow")
  \/ Back("code", "wrong") /\ Shows("emailSentEnterCode")
  \/ Back("code", "accepted") /\ Shows("complete")
  \/ /\ Back("code", "redirect") /\ Load(<<"settings", "loading", "load">>)
     /\ UNCHANGED <<reloads, kratos>>
  \/ Back("code", "broken") /\ Shows(CodeBroken)

RestartFlow ==
  /\ page = "recovery" /\ form = "expiredOrInvalidFlow" /\ Shows("restartingFlow")

\* On a device the form is never busy, and the outcome only worded.
NativeEmail ==
  /\ page = "native-recovery"
  /\ \E mailed \in {kratos.mailed, TRUE} : kratos' = [kratos EXCEPT !.mailed = mailed]
  /\ UNCHANGED <<page, form, request, seconds, reloads>>

-----------------------------------------------------------------------------
(* The new password                                                         *)

\* A flow without the password method cannot be used either.
SettingsLoaded ==
  /\ page = "settings"
  /\ \/ Back("load", "flow") /\ Shows("editing")
     \/ request.kind = "load" /\ request.answer # "none" /\ Shows("unavailable")

SubmitPassword ==
  /\ page = "settings" /\ form = "editing"
  /\ form' = "submitting" /\ Sends("password")
  /\ UNCHANGED <<page, seconds, reloads, kratos>>

\* response.ok
PasswordUpdated(answer) == answer = "accepted"

PasswordAnswered ==
  /\ request.kind = "password" /\ request.answer # "none"
  /\ Shows(IF PasswordUpdated(request.answer) THEN "updated" ELSE "editing")

Tick ==
  /\ page = "settings" /\ form = "updated"
  /\ \/ /\ seconds > 1 /\ seconds' = seconds - 1
        /\ UNCHANGED <<page, form, request>>
     \/ seconds <= 1 /\ LeaveForSignIn
  /\ UNCHANGED <<reloads, kratos>>

-----------------------------------------------------------------------------
(* Verification                                                             *)

VerificationLoaded ==
  /\ page = "verification"
  /\ \/ Back("load", "flow") /\ Shows("enteringCode")
     \/ request.kind = "load" /\ request.answer \in {"expired", "broken"} /\ Shows("invalid")

SubmitVerification ==
  /\ page = "verification" /\ form = "enteringCode"
  /\ form' = "verifying" /\ Sends("verification-code")
  /\ UNCHANGED <<page, seconds, reloads, kratos>>

VerificationAnswered ==
  /\ request.kind = "verification-code" /\ request.answer # "none"
  /\ Shows(IF request.answer = "accepted" THEN "success" ELSE "enteringCode")

-----------------------------------------------------------------------------
Busy == {"bootstrappingBrowserFlow", "loadingBrowserFlow", "submittingEmail",
         "submittingCode", "restartingFlow"}

\* The link below each page; recovery disables it while busy, verification shows it at
\* the end only.
BackToSignIn ==
  /\ page # "sign-in" /\ form \notin Busy \cup {"enteringCode", "verifying"}
  /\ page = "verification" => form # "loading"
  /\ LeaveForSignIn /\ UNCHANGED <<reloads, kratos>>

Kratos ==
  KratosShowsFlow \/ KratosMails \/ KratosChecksCode \/ KratosSetsPassword \/ KratosVerifies

Answered ==
  \/ RecoveryLoaded \/ EmailAnswered \/ CodeAnswered \/ SettingsLoaded \/ PasswordAnswered
  \/ VerificationLoaded \/ VerificationAnswered

SelfNext ==
  \/ Reload \/ NewFlow \/ Kratos \/ Breaks \/ Answered
  \/ SubmitEmail \/ SubmitCode \/ RestartFlow \/ NativeEmail
  \/ SubmitPassword \/ Tick \/ BackToSignIn \/ SubmitVerification

\* Requests end one way or another, the pages go on with their answers, the browser
\* follows redirects, and intervals fire.
SelfFairness ==
  /\ WF_selfVars(Kratos \/ Breaks) /\ WF_selfVars(Answered)
  /\ WF_selfVars(NewFlow) /\ WF_selfVars(Tick)

SelfSpec == SelfInit /\ [][SelfNext]_selfVars /\ SelfFairness

-----------------------------------------------------------------------------
(* Properties                                                               *)

\* A page asks for the code only after Kratos' flow got as far as asking for it (whether a
\* code was mailed the page cannot tell), and announces only what Kratos did, whatever
\* answers were lost and however often a page was loaded again
\* (RecoveryScreen.tsx:99-139, SettingsScreen.tsx:296-306, VerifyScreen.tsx:157-163).
AnnouncedIsDone ==
  /\ form \in {"emailSentEnterCode", "submittingCode"} => kratos.sent
  /\ form = "complete" => kratos.passed
  /\ form = "updated" => kratos.changed
  /\ form = "success" => kratos.verified

\* What a page shows until an answer, or the countdown, moves it on; a recovery e-mail
\* whose request cannot be sent leaves its form busy for good.
Waiting == (Busy \ {"submittingEmail"}) \cup {"loading", "submitting", "verifying", "updated"}

=============================================================================
