--------------------------------- MODULE Clients ---------------------------------
(***************************************************************************)
(* The programs in front of the API, side by side: the pages one can use   *)
(* without being signed in, the screens routeForRole gives a signed-in     *)
(* user by his role, and the publication of trust artifacts.  Each keeps   *)
(* its own state and none sees another's; what they meet in, the API, is   *)
(* part of each of their modules as far as they can tell.  So one of them  *)
(* is running here, and the others are as they start.                      *)
(***************************************************************************)
EXTENDS SelfService, HrReview, RequestorScreens, RecruiterList, TrustPublication

VARIABLE running

Programs == {"self-service", "HRReview", "ReqHome", "Recruiter", "publication"}

clientVars == <<running, selfVars, hrVars, requestorVars, recruiterVars, trustVars>>

\* What may be found at a start is left open for the running program only.
ClientsInit ==
  /\ running \in Programs
  /\ SelfInit /\ HrInit /\ RequestorInit /\ RecruiterInit /\ TrustInit
  /\ running # "self-service" => page = "native-recovery"
  /\ running # "Recruiter" => stored = NoQuery

SelfServiceSteps ==
  /\ running = "self-service" /\ SelfNext
  /\ UNCHANGED <<running, hrVars, requestorVars, recruiterVars, trustVars>>

HRReviewSteps ==
  /\ running = "HRReview" /\ HrNext
  /\ UNCHANGED <<running, selfVars, requestorVars, recruiterVars, trustVars>>

ReqHomeSteps ==
  /\ running = "ReqHome" /\ RequestorNext
  /\ UNCHANGED <<running, selfVars, hrVars, recruiterVars, trustVars>>

RecruiterSteps ==
  /\ running = "Recruiter" /\ RecruiterNext
  /\ UNCHANGED <<running, selfVars, hrVars, requestorVars, trustVars>>

PublicationSteps ==
  /\ running = "publication" /\ TrustNext
  /\ UNCHANGED <<running, selfVars, hrVars, requestorVars, recruiterVars>>

ClientsNext ==
  \/ SelfServiceSteps \/ HRReviewSteps \/ ReqHomeSteps \/ RecruiterSteps \/ PublicationSteps

\* Each program's own, while it runs.
ClientsFairness ==
  /\ WF_selfVars(running = "self-service" /\ (Kratos \/ Breaks))
  /\ WF_selfVars(running = "self-service" /\ Answered)
  /\ WF_selfVars(running = "self-service" /\ (NewFlow \/ Tick))
  /\ WF_hrVars(running = "HRReview" /\ RefreshEnds)
  /\ WF_hrVars(running = "HRReview" /\ DecisionEnds)
  /\ WF_requestorVars(running = "ReqHome" /\ ApiAnswers)
  /\ WF_requestorVars(running = "ReqHome" /\ (Saved \/ SubmittedOrCancelled))
  /\ \A by \in {"first", "refresh", "more"} :
       WF_recruiterVars(running = "Recruiter" /\ \E p \in Under(by) : PageEnds(p))

ClientsSpec == ClientsInit /\ [][ClientsNext]_clientVars /\ ClientsFairness

-----------------------------------------------------------------------------
\* A page waits, a decision is under way with the refresh it asks for, or a request is
\* being saved.
Held == form \in Waiting \/ attest.at \notin {"none", "sheet"} \/ Saving

\* These waits end, whichever requests fail or lose their answer: those of the
\* self-service pages but for the form of a recovery e-mail, a decision of HR with the
\* refresh after it, the saving, submitting or canceling of a request, and the three
\* spinners of the recruiter's list (SettingsScreen.tsx:218-237,
\* HRReviewScreen.SettingsStyle.tsx:974, RequestorRequestDetailScreen.tsx:121,
\* RecruiterCandidates.tsx:268-319).
NothingStaysBusy ==
  /\ Held ~> ~Held
  /\ \A flag \in {"loading", "refreshing", "loadingMore"} :
       (running = "Recruiter" /\ flag \in flags) ~> flag \notin flags

=============================================================================
