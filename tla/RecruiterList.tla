------------------------------ MODULE RecruiterList ------------------------------
(***************************************************************************)
(* The recruiter's list of candidates (RecruiterCandidates), its filters   *)
(* (RecruiterFilters, recruiterFiltersStore) and the query kept on the     *)
(* device.  Every change of the applied query, and every new access token, *)
(* gives up the request for the first page and sends another one; what     *)
(* pulling down and scrolling have sent is never given up.                 *)
(*                                                                         *)
(* A query is a name, a page of rows is the query it answers and whether   *)
(* it was the first page or came later.                                    *)
(***************************************************************************)
EXTENDS Naturals, FiniteSets

CONSTANTS
  Queries,
  DefaultQuery,
  NoQuery

VARIABLES
  store,    \* applied, and the draft of the open filters or NoQuery
  stored,   \* the query in AsyncStorage, or NoQuery
  hydrated, \* didHydrateRef
  shown,    \* pages in the list
  more,     \* is there a next_cursor
  asked,    \* requests not given up: of the first page, of pulling down, of scrolling
  flags     \* of loading, refreshing and loadingMore, those that are set

recruiterVars == <<store, stored, hydrated, shown, more, asked, flags>>

MaxPulls == 1      \* bound on the requests of pulling down under way

Page(query, by) == [by |-> by, of |-> query]

FirstPage == {Page(store.applied, "first")}

RecruiterInit ==
  /\ store = [applied |-> DefaultQuery, draft |-> NoQuery]
  /\ stored \in Queries \cup {NoQuery}
  /\ hydrated = FALSE
  /\ shown = {} /\ more = FALSE
  /\ asked = FirstPage /\ flags = {"loading"}

-----------------------------------------------------------------------------
(* The query                                                                *)

\* Fault: the cleanup of the effect does not abort.
AbandonedFaultNothing == {}

\* What a request for the first page gives up on sending the next one.
Abandoned == {page \in asked : page.by = "first"}

\* The effect upon a new applied query, or token.  Its object is a new one even when
\* the query is the old one.
Refetch(query) ==
  /\ asked' = (asked \ Abandoned) \cup {Page(query, "first")}
  /\ flags' = flags \cup {"loading"}

\* Kept once hydrated; a failure is ignored.
Persist(query, when) == stored' \in IF when THEN {query, stored} ELSE {stored}

\* No query, or one that cannot be read, is the default one.  What was applied in the
\* meantime is gone.
Hydrate == \E query \in {DefaultQuery} \cup ({stored} \ {NoQuery}) :
  /\ ~hydrated /\ hydrated' = TRUE
  /\ store' = [store EXCEPT !.applied = query]
  /\ Persist(query, TRUE) /\ Refetch(query)
  /\ UNCHANGED <<shown, more>>

OpenFilters ==
  /\ store.draft = NoQuery /\ store' = [store EXCEPT !.draft = store.applied]
  /\ UNCHANGED <<stored, hydrated, shown, more, asked, flags>>

\* setDraft and reset, or closing without Done.
ChangeDraft == \E draft \in Queries \cup {NoQuery} :
  /\ store.draft # NoQuery /\ store' = [store EXCEPT !.draft = draft]
  /\ UNCHANGED <<stored, hydrated, shown, more, asked, flags>>

Done ==
  /\ store.draft # NoQuery
  /\ store' = [applied |-> store.draft, draft |-> NoQuery]
  /\ Persist(store.draft, hydrated) /\ Refetch(store.draft)
  /\ UNCHANGED <<hydrated, shown, more>>

NewToken ==
  /\ Refetch(store.applied)
  /\ UNCHANGED <<store, stored, hydrated, shown, more>>

\* Another screen of the application and back: the store outlives the list.
Return ==
  /\ store.draft = NoQuery /\ hydrated' = FALSE /\ shown' = {} /\ more' = FALSE
  /\ asked' = FirstPage /\ flags' = {"loading"}
  /\ UNCHANGED <<store, stored>>

-----------------------------------------------------------------------------
(* Pages                                                                    *)

Under(by) == {page \in asked : page.by = by}

\* onRefresh
PullDown ==
  /\ "loadingMore" \notin flags /\ Cardinality(Under("refresh")) < MaxPulls
  /\ asked' = asked \cup {Page(store.applied, "refresh")}
  /\ flags' = flags \cup {"refreshing"}
  /\ UNCHANGED <<store, stored, hydrated, shown, more>>

\* loadMore
Scroll ==
  /\ more /\ flags = {}
  /\ asked' = asked \cup {Page(store.applied, "more")}
  /\ flags' = {"loadingMore"}
  /\ UNCHANGED <<store, stored, hydrated, shown, more>>

FlagOf == [refresh |-> "refreshing", more |-> "loadingMore", first |-> "loading"]

\* The first page replaces the list, be it of the query that is applied or not; the
\* next ones are added.
PageAnswered(page) ==
  /\ shown' = IF page.by = "more" THEN shown \cup {page} ELSE {page}
  /\ more' \in BOOLEAN
  /\ UNCHANGED <<store, stored, hydrated>>

PageFailed(page) ==
  /\ IF page.by = "more" THEN UNCHANGED <<shown, more>> ELSE shown' = {} /\ more' = FALSE
  /\ UNCHANGED <<store, stored, hydrated>>

PageEnds(page) ==
  /\ page \in asked /\ asked' = asked \ {page} /\ flags' = flags \ {FlagOf[page.by]}
  /\ PageAnswered(page) \/ PageFailed(page)

PageArrives == \E page \in asked : PageEnds(page)

RecruiterNext ==
  \/ Hydrate \/ OpenFilters \/ ChangeDraft \/ Done \/ NewToken \/ Return
  \/ PullDown \/ Scroll \/ PageArrives

\* Requests are answered or fail, and nobody changes the query faster than that for ever.
RecruiterFairness ==
  \A by \in {"first", "refresh", "more"} :
    WF_recruiterVars(\E page \in Under(by) : PageEnds(page))

RecruiterSpec == RecruiterInit /\ [][RecruiterNext]_recruiterVars /\ RecruiterFairness

-----------------------------------------------------------------------------
(* Properties                                                               *)

\* Once the first page is there, the list shows the applied query's, except for what
\* pulling down and scrolling had asked for before the query changed: their answers are
\* not recognised as late (RecruiterCandidates.tsx:277-319).
ListIsOfTheAppliedQuery ==
  "loading" \notin flags =>
    \A page \in shown : page.by = "first" => page.of = store.applied

=============================================================================
