---------------------------- MODULE JournalReplay ----------------------------
(***************************************************************************)
(* internal/authority/registry.go as operators: which events a journal     *)
(* accepts, what it says of an authorization at a recorded-time cutoff,    *)
(* and the derived view in which corrections have been applied.            *)
(*                                                                         *)
(* A journal is a sequence of events                                       *)
(*   [id, auth, type, effectiveAt, recordedAt, actor, evidenceRef,         *)
(*    satisfied, corrects, field]                                          *)
(* An instant is a positive integer, Microsecond of them to the            *)
(* microsecond; a stored timestamp is a whole number of microseconds.      *)
(* corrects = NoEvent marks a lifecycle event, any other value a           *)
(* correction of that event.  A correction always carries a reason here:   *)
(* its text is left out, and so are empty identifiers.                     *)
(***************************************************************************)
EXTENDS AuthorityTransitions, Naturals, Sequences, SequencesExt

CONSTANTS NoEvent,      \* the CorrectsEventID of a lifecycle event
          Microsecond   \* instants in a microsecond

ASSUME MicrosecondAssumption == Microsecond \in Nat \ {0}

IsCorrection(e) == e.corrects # NoEvent

\* The fields of an event, whoever signed it and whatever it cites.
EventShaped(e) ==
  e \in [id : Nat, auth : {e.auth}, type : LifecycleEvents, effectiveAt : Nat,
         recordedAt : Nat, actor : {e.actor}, evidenceRef : {e.evidenceRef},
         satisfied : BOOLEAN, corrects : Nat \cup {NoEvent}, field : {e.field}]

\* The elements of a sequence at the positions in a set, in their order.
Pick(s, positions) ==
  LET picked[i \in 0..Len(s)] ==
        IF i = 0 THEN <<>>
        ELSE IF i \in positions THEN Append(picked[i - 1], s[i]) ELSE picked[i - 1]
  IN picked[Len(s)]

Canonical(time) == time > 0 /\ time % Microsecond = 0

Replays == [state : LifecycleStates, ok : BOOLEAN]

\* One turn of the replay loops; ok goes FALSE where the code returns an error.
ReplayStep(e) ==
  [replay \in Replays |->
     LET t == Transition(e.type, e.satisfied)[replay.state]
     IN [state |-> t.state, ok |-> replay.ok /\ t.applied]]

\* The state machine run over the events at the positions in a set.
Replay(events, positions) ==
  LET run[i \in 0..Len(events)] ==
        IF i = 0 THEN [state |-> "REQUESTED", ok |-> TRUE]
        ELSE IF i \in positions THEN ReplayStep(events[i])[run[i - 1]] ELSE run[i - 1]
  IN run[Len(events)]

\* Lifecycle state known at a recorded-time cutoff; corrections do not amend it.
Reconstruct(journal, auth, cutoff) ==
  Replay(journal, {i \in DOMAIN journal : /\ journal[i].auth = auth
                                          /\ journal[i].recordedAt <= cutoff
                                          /\ ~IsCorrection(journal[i])})

InRecordedOrder(journal, e) ==
  journal # <<>> => Last(journal).recordedAt <= e.recordedAt

\* Append's condition: what it accepts is stored for ever.
Accepts(journal, e) ==
  /\ Canonical(e.effectiveAt) /\ Canonical(e.recordedAt)
  /\ InRecordedOrder(journal, e)
  /\ \A i \in DOMAIN journal : journal[i].id # e.id
  /\ IF IsCorrection(e)
     THEN \E i \in DOMAIN journal : /\ journal[i].id = e.corrects
                                    /\ journal[i].auth = e.auth
     ELSE LET known == Reconstruct(journal, e.auth, e.recordedAt)
          IN ReplayStep(e)[known].ok

\* Fault: the cutoff is not applied.
KnownAnyTime(journal, auth, cutoff) ==
  Pick(journal, {i \in DOMAIN journal : journal[i].auth = auth})

\* The events of an authorization up to the first one recorded past the cutoff.
KnownEvents(journal, auth, cutoff) ==
  LET late  == {i \in DOMAIN journal : journal[i].recordedAt > cutoff}
  IN Pick(journal, {i \in DOMAIN journal : journal[i].auth = auth /\ \A j \in late : i < j})

\* A correction must amend the effective time of a lifecycle event recorded
\* before it, which no earlier correction has amended.
CorrectionApplies(known, i) ==
  /\ known[i].field = "EffectiveAt"
  /\ \E k \in 1..(i - 1) : known[k].id = known[i].corrects /\ ~IsCorrection(known[k])
  /\ \A k \in 1..(i - 1) : known[k].corrects # known[i].corrects

Amended(known, e) ==
  LET amendments == {i \in DOMAIN known : known[i].corrects = e.id}
  IN IF amendments = {} THEN e
     ELSE [e EXCEPT !.effectiveAt = known[CHOOSE i \in amendments : TRUE].effectiveAt]

IntervalOpeners == {"ACTIVATE", "SUSPEND", "REINSTATE", "REVOKE"}

\* Effective times do not go back, and an interval an event opened has
\* positive length when the next event closes it.
EffectiveOrder(events) ==
  \A i \in 1..(Len(events) - 1) :
     /\ events[i].effectiveAt <= events[i + 1].effectiveAt
     /\ events[i].type \in IntervalOpeners =>
          events[i].effectiveAt < events[i + 1].effectiveAt

\* The lifecycle history in force at a recorded-time cutoff, corrections applied.
EffectiveEvents(journal, auth, cutoff) ==
  LET known     == KnownEvents(journal, auth, cutoff)
      originals == Pick(known, {i \in DOMAIN known : ~IsCorrection(known[i])})
      events    == [i \in DOMAIN originals |-> Amended(known, originals[i])]
  IN [ok |-> /\ Canonical(cutoff)
             /\ \A i \in DOMAIN known :
                   IsCorrection(known[i]) => CorrectionApplies(known, i)
             /\ EffectiveOrder(events)
             /\ Replay(events, DOMAIN events).ok,
      events |-> events]

=============================================================================
