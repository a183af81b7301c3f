---------------------------- MODULE RequestorScreens ----------------------------
(***************************************************************************)
(* The requestor's screens: the list of his requests (RequestorHome-       *)
(* Screen), a new draft (RequestorNewRequestScreen), and one request that  *)
(* may be edited, submitted and cancelled while it is a draft              *)
(* (RequestorRequestDetailScreen).  The API is the candidate's part of     *)
(* EvtRequest, one call at a time.  The screens only tell drafts from the  *)
(* others: what becomes of a request once it is submitted is one status    *)
(* here, and the home screen's other rows, which can only be looked at,    *)
(* are left out.                                                           *)
(*                                                                         *)
(* The list carries no version: an opened request is taken to be at 1.     *)
(***************************************************************************)
EXTENDS Naturals

CONSTANTS
  Drafts,      \* requests there can be
  Texts,       \* contents of a claim
  MaxVersion,  \* bound on a row's version
  NoRow

ASSUME NoRowIsNoRecord ==
  /\ NoRow \notin [status : {"DRAFT"}, claim : Texts, version : Nat]
  /\ NoRow \notin [status : {"SUBMITTED", "CANCELED"}]
  /\ NoRow \notin [status : {"DRAFT", "SUBMITTED", "REJECTED"}, of : Drafts, known : Texts,
                  opened : Drafts, version : Nat]

VARIABLES
  rows,      \* evt_requests: status, and of a draft version and claim; or NoRow
  list,      \* drafts on the home screen
  creation,  \* the call of the new-request screen, and its answer
  detail,    \* the open request, or NoRow
  sent       \* the call of the open request under way

requestorVars == <<rows, list, creation, detail, sent>>

NoCall == [op |-> "none"]

RequestorInit ==
  /\ rows = [r \in Drafts |-> NoRow]
  /\ list = {} /\ creation = NoCall /\ detail = NoRow /\ sent = NoCall

Saving == sent.op # "none"

-----------------------------------------------------------------------------
(* Home                                                                     *)

Exists == {r \in Drafts : rows[r] # NoRow}
Open == {r \in Exists : rows[r].status = "DRAFT"}
Rows == {[of |-> r, claim |-> rows[r].claim] : r \in Open}

\* On mounting, with each new access token, and whenever Refresh is pressed; a failure
\* empties the list.  The list may be older than the rows for as long as one likes, so
\* an answer that is late or out of order adds nothing.
LoadList == list' \in {Rows, {}} /\ UNCHANGED <<rows, creation, detail, sent>>

\* useState(1): whatever the row's version is.
Opened(row) ==
  [status |-> "DRAFT", of |-> row.of, known |-> row.claim, opened |-> row.of, version |-> 1]

OpenRow == \E row \in list :
  /\ detail = NoRow /\ detail' = Opened(row)
  /\ UNCHANGED <<rows, list, creation, sent>>

\* Leaving the screen does not recall what it has sent: that is OtherDevice's from then on.
LeaveDetail ==
  /\ detail # NoRow /\ detail' = NoRow /\ sent' = NoCall
  /\ UNCHANGED <<rows, list, creation>>

-----------------------------------------------------------------------------
(* Creating a draft                                                         *)

Create ==
  /\ creation.op = "none" /\ creation' = [op |-> "create"]
  /\ UNCHANGED <<rows, list, detail, sent>>

CreateRow == \E r \in Drafts \ Exists, claim \in Texts :
  /\ creation.op = "create"
  /\ creation' \in {NoCall, [of |-> r, op |-> "answered", claim |-> claim]}
  /\ rows' = [rows EXCEPT ![r] = [status |-> "DRAFT", claim |-> claim, version |-> 1]]
  /\ UNCHANGED <<list, detail, sent>>

CreateFails ==
  /\ creation.op = "create" /\ creation' = NoCall
  /\ UNCHANGED <<rows, list, detail, sent>>

\* The new request's screen goes on to the detail, wherever the user is by then.  Is a
\* detail on top, the navigator keeps it and gives it the new request's id; what it
\* shows and its version stay those of the old one.
Created ==
  /\ creation.op = "answered" /\ creation' = NoCall
  /\ detail' = IF detail = NoRow THEN Opened(creation) ELSE [detail EXCEPT !.of = creation.of]
  /\ UNCHANGED <<rows, list, sent>>

-----------------------------------------------------------------------------
(* One request                                                              *)

Editable == detail # NoRow /\ detail.status = "DRAFT" /\ ~Saving

\* patchDraft sends what was typed (chosen in SaveRow, where it first matters); submit
\* and cancel send no claim: the row's is what is submitted.
Press == \E op \in {"save", "submit", "cancel"} :
  /\ Editable
  /\ sent' = [answer |-> "none", of |-> detail.of, op |-> op]
  /\ UNCHANGED <<rows, list, creation, detail>>

Waits(op) == sent.op = op /\ sent.answer = "none"

\* The row becomes row; the answer arrives or is lost.
Commits(row) ==
  /\ rows' = [rows EXCEPT ![sent.of] = row]
  /\ \/ sent' = [answer |-> "ok", of |-> sent.of, op |-> sent.op, row |-> row]
     \/ sent' = [sent EXCEPT !.answer = "failed"]
  /\ UNCHANGED <<list, creation, detail>>

SaveRow ==
  LET row == rows[sent.of] IN
  /\ Waits("save") /\ sent.of \in Open /\ row.version = detail.version
  /\ row.version < MaxVersion
  /\ \E claim \in Texts : Commits([row EXCEPT !.version = @ + 1, !.claim = claim])

SubmitRow == Waits("submit") /\ sent.of \in Open /\ Commits([status |-> "SUBMITTED"])

CancelRow ==
  /\ Waits("cancel") /\ rows[sent.of].status \in {"DRAFT", "SUBMITTED"}
  /\ Commits([status |-> "CANCELED"])

CallFails ==
  /\ Saving /\ sent.answer = "none" /\ sent' = [sent EXCEPT !.answer = "failed"]
  /\ UNCHANGED <<rows, list, creation, detail>>

\* Another device of his, or a call that outlived its screen; a save there is taken to
\* change the claim.
OtherDevice == \E r \in Open :
  /\ \/ \E claim \in Texts \ {rows[r].claim} :
          LET row == rows[r] IN
          /\ row.version < MaxVersion
          /\ rows' = [rows EXCEPT ![r] = [row EXCEPT !.version = @ + 1, !.claim = claim]]
     \/ \E status \in {"SUBMITTED", "CANCELED"} : rows' = [rows EXCEPT ![r] = [status |-> status]]
  /\ UNCHANGED <<list, creation, detail, sent>>

-----------------------------------------------------------------------------
(* Answers                                                                  *)

\* Fault: the version is counted up whatever the answer.
CountsFaultAlways(answer) == TRUE

\* setExpectedVersion(v + 1) upon a 204 only.
Counts(answer) == answer = "ok"

Saved ==
  /\ sent.op = "save" /\ sent.answer # "none"
  /\ detail' = [detail EXCEPT
       !.version = IF Counts(sent.answer) THEN @ + 1 ELSE @,
       !.known = IF sent.answer = "ok" THEN sent.row.claim ELSE @]
  /\ sent' = NoCall /\ UNCHANGED <<rows, list, creation>>

\* After a cancellation the screen says REJECTED.
SubmittedOrCancelled ==
  /\ sent.op \in {"submit", "cancel"} /\ sent.answer # "none"
  /\ detail' = [detail EXCEPT !.status =
       IF sent.answer = "failed" THEN @
       ELSE IF sent.op = "cancel" THEN "REJECTED" ELSE "SUBMITTED"]
  /\ sent' = NoCall /\ UNCHANGED <<rows, list, creation>>

ApiAnswers == SaveRow \/ SubmitRow \/ CancelRow \/ CallFails

RequestorNext ==
  \/ LoadList \/ OpenRow \/ LeaveDetail
  \/ Create \/ CreateRow \/ CreateFails \/ Created
  \/ Press \/ ApiAnswers \/ OtherDevice
  \/ Saved \/ SubmittedOrCancelled

\* Calls are answered or fail.
RequestorFairness ==
  /\ WF_requestorVars(ApiAnswers)
  /\ WF_requestorVars(Saved \/ SubmittedOrCancelled)

RequestorSpec == RequestorInit /\ [][RequestorNext]_requestorVars /\ RequestorFairness

-----------------------------------------------------------------------------
(* Properties                                                               *)

\* A save that is accepted replaces the claim this screen was opened with or last
\* saved, never one it has not seen: with the version missing from the list, answers
\* lost, and another device saving (RequestorRequestDetailScreen.tsx:50, 102, 107).
\* Not so once the screen was given another request's id.
SavesOverwriteNothingUnseen ==
  [][SaveRow /\ sent.of = detail.opened => rows[sent.of].claim = detail.known]_requestorVars

=============================================================================
