-------------------------------- MODULE HrReview --------------------------------
(***************************************************************************)
(* HRReviewScreen.SettingsStyle.tsx: a reviewer's queue of pending         *)
(* requests, the one on screen, the decision about it, and the upload of   *)
(* evidence.  The queue and the details come from the API, which other     *)
(* reviewers and requestors use too.                                       *)
(*                                                                         *)
(* What runs between two awaits is one step.  A callback that a sheet or   *)
(* an await keeps for later sees the state of the render it was made in;   *)
(* that state is kept with it.                                             *)
(***************************************************************************)
EXTENDS Naturals, FiniteSets

CONSTANTS
  Cases,      \* requests to this employer
  Contents,   \* contents of files the reviewer may pick
  Uploads,    \* bound on uploads at one time
  Nothing

VARIABLES
  cases,      \* of each request: "later", "pending" or "decided"
  queue,      \* the queue on screen
  selected,   \* the request on screen, or Nothing
  preferred,  \* selectedIdRef
  refresh,    \* the refresh under way (inflightRef); live while its sequence number is the last
  offered,    \* requests in the open sheet, those of the queue it was opened on
  choosing,   \* chosen requests whose details are awaited
  loading,    \* set by a refresh and a choice alike, and reset by whichever ends first
  attest,     \* the decision asked for or under way, and the request it was pressed for
  uploads,    \* what each upload does, and the digests its callback knows
  digests,    \* evidenceDigests
  acked,      \* history: uploads of each content that succeeded since the screen opened
  loaded      \* history: since it opened, a refresh was shown or failed

reviewVars == <<queue, selected, preferred, refresh, offered, choosing, loading, attest, loaded>>
evidenceVars == <<uploads, digests, acked>>
hrVars == <<cases, reviewVars, evidenceVars>>

NoRefresh == [at |-> "none", live |-> FALSE, next |-> Nothing]
NewRefresh == [at |-> "queue", live |-> TRUE, next |-> Nothing]
NoDecision == [at |-> "none", of |-> Nothing]
NoUpload == [at |-> "idle", known |-> {}, content |-> Nothing]

Pending == {r \in Cases : cases[r] = "pending"}

HrInit ==
  /\ cases = [r \in Cases |-> "later"]
  /\ queue = {} /\ selected = Nothing /\ preferred = Nothing
  /\ refresh = NewRefresh /\ loading = TRUE /\ offered = {} /\ choosing = {}
  /\ attest = NoDecision /\ loaded = FALSE
  /\ uploads = [u \in Uploads |-> NoUpload]
  /\ digests = {} /\ acked = [c \in Contents |-> 0]

\* The screen is left and opened again: another component, which asks for the queue on
\* its first focus.  Answers to the old one reach nobody.
Reopen ==
  /\ queue' = {} /\ selected' = Nothing /\ preferred' = Nothing
  /\ refresh' = NewRefresh /\ loading' = TRUE /\ offered' = {} /\ choosing' = {}
  /\ attest' = NoDecision /\ loaded' = FALSE
  /\ uploads' = [u \in Uploads |-> NoUpload]
  /\ digests' = {} /\ acked' = [c \in Contents |-> 0]
  /\ UNCHANGED cases

-----------------------------------------------------------------------------
(* refreshQueueAndSelection                                                 *)

\* Whoever finds one under way leaves it at that.
AskForQueue ==
  IF refresh.at = "none" THEN refresh' = NewRefresh /\ loading' = TRUE
  ELSE UNCHANGED <<refresh, loading>>

\* A decision waits for the refresh it asked for.
EndRefresh ==
  /\ refresh' = NoRefresh /\ loading' = FALSE
  /\ attest' = IF attest.at = "refreshing" THEN NoDecision ELSE attest

RefreshUnchanged == UNCHANGED <<cases, offered, choosing, evidenceVars>>

PullRefresh ==
  /\ refresh.at = "none" /\ AskForQueue
  /\ UNCHANGED <<queue, selected, preferred, attest, loaded>> /\ RefreshUnchanged

\* The interceptor answers a 401 with a new access token.  The focus effect depends on
\* it and runs again: its cleanup counts seqRef up, its body asks for the queue.
ReplaceToken ==
  /\ refresh.at # "none" \/ choosing # {} \/ attest.at = "posting"
  /\ IF refresh.at = "none" THEN AskForQueue
     ELSE refresh' = [refresh EXCEPT !.live = FALSE] /\ UNCHANGED loading
  /\ UNCHANGED <<queue, selected, preferred, attest, loaded>> /\ RefreshUnchanged

RefreshFails ==
  /\ refresh.at # "none" /\ EndRefresh
  /\ loaded' = TRUE
  /\ UNCHANGED <<queue, selected, preferred>> /\ RefreshUnchanged

\* mySeq !== seqRef.current
DropAnswer ==
  /\ refresh.at # "none" /\ ~refresh.live /\ EndRefresh
  /\ UNCHANGED <<queue, selected, preferred, loaded>> /\ RefreshUnchanged

\* Next on screen is the preferred request if the queue still has it, else its first.
ShowQueue ==
  /\ refresh.at = "queue" /\ refresh.live
  /\ queue' = Pending /\ loaded' = TRUE
  /\ \/ /\ Pending = {} /\ EndRefresh
        /\ selected' = Nothing /\ preferred' = Nothing
     \/ \E next \in Pending :
          /\ preferred \in Pending => next = preferred
          /\ refresh' = [refresh EXCEPT !.at = "detail", !.next = next]
          /\ UNCHANGED <<attest, selected, preferred, loading>>
  /\ RefreshUnchanged

\* Whatever was chosen since.
ShowDetail ==
  /\ refresh.at = "detail" /\ refresh.live /\ EndRefresh
  /\ selected' = refresh.next /\ preferred' = refresh.next
  /\ UNCHANGED <<queue, loaded>> /\ RefreshUnchanged

-----------------------------------------------------------------------------
(* handleChooseRequest                                                      *)

ChoiceUnchanged == UNCHANGED <<cases, queue, refresh, attest, loaded, evidenceVars>>

OpenChooser ==
  /\ offered = {} /\ ~loading /\ offered' = queue
  /\ UNCHANGED <<selected, preferred, choosing, loading>> /\ ChoiceUnchanged

Choose ==
  /\ offered # {} /\ offered' = {}
  /\ \/ UNCHANGED <<choosing, loading>>
     \/ loading' = TRUE /\ \E r \in offered : choosing' = choosing \cup {r}
  /\ UNCHANGED <<selected, preferred>> /\ ChoiceUnchanged

\* Whatever was refreshed meanwhile.
ChosenDetail == \E r \in choosing :
  /\ choosing' = choosing \ {r} /\ loading' = FALSE
  /\ \/ selected' = r /\ preferred' = r
     \/ UNCHANGED <<selected, preferred>>
  /\ UNCHANGED offered /\ ChoiceUnchanged

-----------------------------------------------------------------------------
(* attest                                                                   *)

DecisionUnchanged == UNCHANGED <<queue, selected, offered, choosing, loaded, evidenceVars>>

\* Approving posts at once; rejecting asks for a reason first, in a sheet.
PressDecision ==
  /\ attest.at = "none" /\ selected # Nothing /\ queue # {}
  /\ \E at \in {"posting", "sheet"} : attest' = [at |-> at, of |-> selected]
  /\ UNCHANGED <<cases, preferred, refresh, loading>> /\ DecisionUnchanged

\* Whatever is on screen by then: the sheet's callback knows the request it was opened for.
AnswerSheet ==
  /\ attest.at = "sheet"
  /\ attest' \in {[attest EXCEPT !.at = "posting"], NoDecision}
  /\ UNCHANGED <<cases, preferred, refresh, loading>> /\ DecisionUnchanged

\* EmployerAttestServerSigned
Decide ==
  /\ attest.at = "posting" /\ cases[attest.of] = "pending"
  /\ cases' = [cases EXCEPT ![attest.of] = "decided"]
  /\ attest' = [attest EXCEPT !.at = "accepted"]
  /\ UNCHANGED <<preferred, refresh, loading>> /\ DecisionUnchanged

\* Accepted, the decision lasts until the queue has been refreshed, unless a refresh
\* is under way already.
DecisionAccepted ==
  /\ attest.at = "accepted"
  /\ preferred' = attest.of
  /\ attest' = IF refresh.at = "none" THEN [NoDecision EXCEPT !.at = "refreshing"] ELSE NoDecision
  /\ AskForQueue
  /\ UNCHANGED cases /\ DecisionUnchanged

\* Refused, or its answer lost.
DecisionFails ==
  /\ attest.at \in {"posting", "accepted"}
  /\ attest' = NoDecision
  /\ UNCHANGED <<cases, preferred, refresh, loading>> /\ DecisionUnchanged

-----------------------------------------------------------------------------
(* Evidence                                                                 *)

\* Fault: the button is not disabled while an upload is under way.
CanUploadFaultAlways == TRUE

CanUpload == \A u \in Uploads : uploads[u].at \notin {"picking", "sending"}

\* The sheet that offers the sources is modal.
PressUpload == \E u \in Uploads :
  /\ CanUpload
  /\ \A v \in Uploads : uploads[v].at # "sheet"
  /\ uploads[u].at = "idle"
  /\ uploads' = [uploads EXCEPT ![u] = [@ EXCEPT !.at = "sheet", !.known = digests]]
  /\ UNCHANGED <<cases, reviewVars, digests, acked>>

PickSource(u) ==
  /\ uploads[u].at = "sheet"
  /\ uploads' = [uploads EXCEPT ![u].at = "picking"]
  /\ UNCHANGED <<cases, reviewVars, digests, acked>>

\* A file whose digest the callback does not know is sent.
PickFile(u) == \E c \in Contents :
  /\ uploads[u].at = "picking" /\ c \notin uploads[u].known
  /\ uploads' = [uploads EXCEPT ![u] = [@ EXCEPT !.at = "sending", !.content = c]]
  /\ UNCHANGED <<cases, reviewVars, digests, acked>>

\* Nothing picked, a file of the wrong kind, one attached already, or a failed
\* request: the file may be picked again, even if it was stored.
UploadFails(u) ==
  /\ uploads[u].at # "idle"
  /\ uploads' = [uploads EXCEPT ![u] = NoUpload]
  /\ UNCHANGED <<cases, reviewVars, digests, acked>>

Uploaded(u) ==
  /\ uploads[u].at = "sending"
  /\ uploads' = [uploads EXCEPT ![u] = NoUpload]
  /\ digests' = digests \cup {uploads[u].content}
  /\ acked' = [acked EXCEPT ![uploads[u].content] = @ + 1]
  /\ UNCHANGED <<cases, reviewVars>>

-----------------------------------------------------------------------------
\* Requests reach this employer, and other reviewers decide some.
OthersAct == \E r \in Cases :
  /\ \/ cases[r] = "later" /\ cases' = [cases EXCEPT ![r] = "pending"]
     \/ cases[r] = "pending" /\ cases' = [cases EXCEPT ![r] = "decided"]
  /\ UNCHANGED <<reviewVars, evidenceVars>>

RefreshEnds == RefreshFails \/ DropAnswer \/ ShowQueue \/ ShowDetail
DecisionEnds == DecisionAccepted \/ DecisionFails

HrNext ==
  \/ Reopen \/ PullRefresh \/ ReplaceToken \/ RefreshEnds
  \/ OpenChooser \/ Choose \/ ChosenDetail \/ PressDecision \/ AnswerSheet \/ Decide \/ DecisionEnds
  \/ PressUpload \/ OthersAct
  \/ \E u \in Uploads : PickSource(u) \/ PickFile(u) \/ UploadFails(u) \/ Uploaded(u)

\* Requests are answered or fail.
HrFairness ==
  /\ WF_hrVars(RefreshEnds) /\ WF_hrVars(ChosenDetail) /\ WF_hrVars(DecisionEnds)

HrSpec == HrInit /\ [][HrNext]_hrVars /\ HrFairness

-----------------------------------------------------------------------------
(* Properties                                                               *)

\* No content is attached twice while the screen is open, although each upload checks
\* the digests its own callback was made with, and a sheet or picker may stay open
\* while others end ("Hard dedupe: do NOT upload, do NOT add second copy", line 584).
NoEvidenceTwice == \A c \in Contents : acked[c] <= 1

\* The refresh asked for when the screen gets the focus ends by showing a queue or
\* failing ("On focus: refresh once", line 1023); only blur or unmounting discards its
\* answer ("On blur/unmount: invalidate late responses", line 1026).
FocusRefreshes == ~loaded => refresh.at # "none"

=============================================================================
