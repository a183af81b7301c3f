------------------------ MODULE AuthorityJournal_proofs ------------------------
(***************************************************************************)
(* Theorems about AuthorityJournal.  Append makes JournalInv hold of the   *)
(* journal; what the registry derives from a journal is the work of three  *)
(* loops - picking events, replaying them, projecting grants - and every   *)
(* theorem is an induction along one of them.  Induction and Recursion     *)
(* serve all three: the first by descent to a least counterexample, the    *)
(* second to show that a function defined by recursion on 0..n exists.     *)
(***************************************************************************)
EXTENDS AuthorityJournal, FiniteSetTheorems, WellFoundedInduction, TLAPS

-----------------------------------------------------------------------------
(* Induction and recursion over positions, without an operator parameter    *)

\* A set with 0, and with the successor of each of its elements below n, has 0..n.
LEMMA Induction ==
  ASSUME NEW n \in Nat, NEW G, 0 \in G, \A i \in 0..(n - 1) : i \in G => i + 1 \in G
  PROVE  \A i \in 0..n : i \in G
<1> DEFINE T == {i \in 0..n : i \notin G}
<1> SUFFICES ASSUME T # {} PROVE FALSE
  OBVIOUS
<1>1. PICK x \in T : \A y \in T : ~(<<y, x>> \in OpToRel(<, Nat))
  <2>1. T \subseteq Nat
    OBVIOUS
  <2> HIDE DEF T
  <2> QED
    BY <2>1, NatLessThanWellFounded, WFMin
<1>2. x \in 0..n /\ x \notin G /\ x # 0
  OBVIOUS
<1>3. x - 1 \notin T
  <2>1. <<x - 1, x>> \in OpToRel(<, Nat)
    BY <1>2 DEF OpToRel
  <2> QED
    BY <1>1, <2>1
<1> QED
  BY <1>2, <1>3

Solves(f, n, start, step) == f[0] = start /\ \A i \in 1..n : f[i] = step[i][f[i - 1]]

Solvable(n, S, start, step) == \E f \in [0..n -> S] : Solves(f, n, start, step)

\* A function defined by recursion on its argument exists if its steps stay in a set.
LEMMA Recursion ==
  ASSUME NEW n \in Nat, NEW S, NEW start \in S, NEW step \in [1..n -> [S -> S]]
  PROVE  Solvable(n, S, start, step)
<1> DEFINE G == {k \in 0..n : \E f \in [0..k -> S] :
                    f[0] = start /\ \A i \in 1..k : f[i] = step[i][f[i - 1]]}
<1>1. 0 \in G
  <2> DEFINE f == [i \in 0..0 |-> start]
  <2>1. f \in [0..0 -> S] /\ f[0] = start
    OBVIOUS
  <2> HIDE DEF f
  <2> QED
    BY <2>1
<1>2. \A k \in 0..(n - 1) : k \in G => k + 1 \in G
  <2> SUFFICES ASSUME NEW k \in 0..(n - 1), k \in G PROVE k + 1 \in G
    OBVIOUS
  <2>1. PICK f \in [0..k -> S] : f[0] = start /\ \A i \in 1..k : f[i] = step[i][f[i - 1]]
    OBVIOUS
  <2> DEFINE g == [i \in 0..(k + 1) |-> IF i <= k THEN f[i] ELSE step[k + 1][f[k]]]
  <2>2. g \in [0..(k + 1) -> S]
    <3>1. step[k + 1] \in [S -> S] /\ f[k] \in S
      OBVIOUS
    <3> QED
      BY <3>1
  <2>3. g[0] = start
    BY <2>1
  <2>4. ASSUME NEW i \in 1..(k + 1) PROVE g[i] = step[i][g[i - 1]]
    <3>1. CASE i <= k
      BY <3>1, <2>1
    <3>2. CASE i = k + 1
      BY <3>2, <2>1
    <3> QED
      BY <3>1, <3>2
  <2>5. k + 1 \in 0..n
    OBVIOUS
  <2> HIDE DEF g
  <2> QED
    BY <2>2, <2>3, <2>4, <2>5
<1>3. \A i \in 0..n : i \in G
  <2> HIDE DEF G
  <2> QED
    BY <1>1, <1>2, Induction
<1> QED
  BY <1>3 DEF Solvable, Solves

-----------------------------------------------------------------------------
(* The elements at some positions                                           *)

\* The function the definition of Pick is written with.
Picks(f, s, positions) ==
  /\ f[0] = <<>>
  /\ \A i \in 1..Len(s) : f[i] = IF i \in positions THEN Append(f[i - 1], s[i]) ELSE f[i - 1]

PickStep(s, positions, S) ==
  [i \in 1..Len(s) |->
     [t \in S |-> IF i \in positions THEN Append(t, s[i]) ELSE t]]

SameChoice(s, t, I, J, m) == \A i \in 1..m : s[i] = t[i] /\ (i \in I <=> i \in J)
SameTo(f, g, m) == \A i \in 0..m : f[i] = g[i]

LEMMA PicksAgree ==
  ASSUME NEW s, NEW t, NEW I, NEW J, NEW f, NEW g, NEW m \in Nat,
         Len(s) \in Nat, Len(t) \in Nat, m <= Len(s), m <= Len(t),
         Picks(f, s, I), Picks(g, t, J), SameChoice(s, t, I, J, m)
  PROVE  SameTo(f, g, m)
<1> DEFINE G == {k \in 0..m : f[k] = g[k]}
<1>1. 0 \in G
  BY DEF Picks
<1>2. \A k \in 0..(m - 1) : k \in G => k + 1 \in G
  <2> SUFFICES ASSUME NEW k \in 0..(m - 1), k \in G PROVE k + 1 \in G
    OBVIOUS
  <2>1. k + 1 \in 1..Len(s) /\ k + 1 \in 1..Len(t) /\ k + 1 \in 1..m /\ (k + 1) - 1 = k
    OBVIOUS
  <2> QED
    BY <2>1 DEF Picks, SameChoice
<1>3. \A i \in 0..m : i \in G
  <2> HIDE DEF G
  <2> QED
    BY <1>1, <1>2, Induction
<1> QED
  BY <1>3 DEF SameTo

LEMMA PickRuns ==
  ASSUME NEW E, NEW s \in Seq(E), NEW positions
  PROVE  \E f \in [0..Len(s) -> Seq(E)] :
            Picks(f, s, positions) /\ Pick(s, positions) = f[Len(s)]
<1> DEFINE n == Len(s)
           S == Seq(E)
           start == <<>>
           step == PickStep(s, positions, S)
           Def(f) == [i \in 0..Len(s) |->
                        IF i = 0 THEN <<>>
                        ELSE IF i \in positions THEN Append(f[i - 1], s[i]) ELSE f[i - 1]]
           picked == CHOOSE f : f = Def(f)
<1>1. n \in Nat /\ start \in S
  OBVIOUS
<1>2. step \in [1..n -> [S -> S]]
  BY DEF PickStep
<1>3. Solvable(n, S, start, step)
  <2> HIDE DEF step, n, start, S
  <2> QED
    BY ONLY <1>1, <1>2, Recursion
<1>4. PICK f \in [0..n -> S] : Solves(f, n, start, step)
  BY <1>3 DEF Solvable
<1>5. Picks(f, s, positions)
  <2>1. \A i \in 1..n : i - 1 \in 0..n /\ f[i - 1] \in S
    BY <1>1
  <2>2. \A i \in 1..n : f[i] = IF i \in positions THEN Append(f[i - 1], s[i]) ELSE f[i - 1]
    BY <1>4, <2>1 DEF Solves, PickStep
  <2> QED
    BY <1>4, <2>2 DEF Solves, Picks
<1>6. f = Def(f)
  <2>1. \A i \in 0..n : f[i] = IF i = 0 THEN <<>>
                               ELSE IF i \in positions THEN Append(f[i - 1], s[i]) ELSE f[i - 1]
    <3> SUFFICES ASSUME NEW i \in 0..n
                 PROVE  f[i] = IF i = 0 THEN <<>>
                               ELSE IF i \in positions THEN Append(f[i - 1], s[i]) ELSE f[i - 1]
      OBVIOUS
    <3>1. i = 0 \/ i \in 1..n
      BY <1>1
    <3> QED
      BY <3>1, <1>5 DEF Picks
  <2>2. f = [i \in 0..n |-> f[i]]
    OBVIOUS
  <2> QED
    BY <2>1, <2>2
<1>7. picked = Def(picked)
  BY <1>6
<1>8. Picks(picked, s, positions)
  <2> HIDE DEF picked
  <2>1. \A i \in 0..n : picked[i] = Def(picked)[i]
    BY <1>7
  <2>2. \A i \in 1..n : i \in 0..n /\ i # 0
    BY <1>1
  <2> QED
    BY <2>1, <2>2, <1>1 DEF Picks
<1>9. Pick(s, positions) = picked[n]
  BY DEF Pick
<1>10. picked[n] = f[n]
  <2>1. SameChoice(s, s, positions, positions, n) /\ n <= Len(s) /\ Len(s) \in Nat
    BY DEF SameChoice
  <2> HIDE DEF picked, n
  <2>2. SameTo(picked, f, n)
    BY ONLY <1>1, <1>5, <1>8, <2>1, PicksAgree
  <2>3. n \in 0..n
    BY <1>1
  <2> QED
    BY <2>2, <2>3 DEF SameTo
<1> QED
  BY <1>5, <1>9, <1>10

LEMMA PickType ==
  ASSUME NEW E, NEW s \in Seq(E), NEW I
  PROVE  Pick(s, I) \in Seq(E)
<1>1. Len(s) \in 0..Len(s)
  OBVIOUS
<1> QED
  BY <1>1, PickRuns

\* Only the positions in the sequence count.
LEMMA PickSame ==
  ASSUME NEW E, NEW s \in Seq(E), NEW I, NEW J,
         \A i \in 1..Len(s) : i \in I <=> i \in J
  PROVE  Pick(s, I) = Pick(s, J)
<1>1. PICK f \in [0..Len(s) -> Seq(E)] : Picks(f, s, I) /\ Pick(s, I) = f[Len(s)]
  BY PickRuns
<1>2. PICK g \in [0..Len(s) -> Seq(E)] : Picks(g, s, J) /\ Pick(s, J) = g[Len(s)]
  BY PickRuns
<1> DEFINE n == Len(s)
<1>3. SameTo(f, g, n)
  <2>1. n \in Nat /\ n <= Len(s) /\ Len(s) \in Nat
    OBVIOUS
  <2>2. Picks(f, s, I) /\ Picks(g, s, J) /\ SameChoice(s, s, I, J, n)
    BY <1>1, <1>2 DEF SameChoice
  <2> HIDE DEF n
  <2> QED
    BY ONLY <2>1, <2>2, PicksAgree
<1>4. n \in 0..n
  OBVIOUS
<1> QED
  BY <1>1, <1>2, <1>3, <1>4 DEF SameTo

\* An element appended is picked or not, the others are picked as before.
LEMMA PickAppend ==
  ASSUME NEW E, NEW s \in Seq(E), NEW e \in E, NEW I
  PROVE  Pick(Append(s, e), I) = IF Len(s) + 1 \in I THEN Append(Pick(s, I), e)
                                 ELSE Pick(s, I)
<1> DEFINE t == Append(s, e)
<1>1. /\ t \in Seq(E) /\ Len(t) = Len(s) + 1 /\ t[Len(s) + 1] = e
      /\ \A i \in 1..Len(s) : t[i] = s[i]
      /\ Len(s) \in Nat /\ Len(t) \in Nat /\ Len(s) <= Len(t)
  OBVIOUS
<1> HIDE DEF t
<1>2. PICK f \in [0..Len(s) -> Seq(E)] : Picks(f, s, I) /\ Pick(s, I) = f[Len(s)]
  BY PickRuns
<1>3. PICK g \in [0..Len(t) -> Seq(E)] : Picks(g, t, I) /\ Pick(t, I) = g[Len(t)]
  BY <1>1, PickRuns
<1>4. \A i \in 0..Len(s) : f[i] = g[i]
  <2>1. \A i \in 1..Len(s) : s[i] = t[i] /\ (i \in I <=> i \in I)
    BY <1>1
  <2> DEFINE m == Len(s)
  <2>2. m \in Nat /\ m <= Len(s) /\ m <= Len(t) /\ Len(s) \in Nat /\ Len(t) \in Nat
    BY <1>1
  <2>3. SameChoice(s, t, I, I, m)
    BY <2>1 DEF SameChoice
  <2>4. Picks(f, s, I) /\ Picks(g, t, I)
    BY <1>2, <1>3
  <2> HIDE DEF m
  <2>5. SameTo(f, g, m)
    BY ONLY <2>2, <2>3, <2>4, PicksAgree
  <2> QED
    BY <2>5 DEF m, SameTo
<1>5. g[Len(t)] = IF Len(t) \in I THEN Append(g[Len(t) - 1], t[Len(t)]) ELSE g[Len(t) - 1]
  BY <1>1, <1>3 DEF Picks
<1> QED
  BY <1>1, <1>2, <1>3, <1>4, <1>5 DEF t

ComesFrom(t, s) == \A k \in 1..Len(t) : \E i \in 1..Len(s) : t[k] = s[i]

\* What is picked comes from the sequence.
LEMMA PickFrom ==
  ASSUME NEW E, NEW s \in Seq(E), NEW I
  PROVE  ComesFrom(Pick(s, I), s)
<1>1. PICK f \in [0..Len(s) -> Seq(E)] : Picks(f, s, I) /\ Pick(s, I) = f[Len(s)]
  BY PickRuns
<1> DEFINE n == Len(s)
           G == {m \in 0..n : \A k \in 1..Len(f[m]) : \E i \in 1..n : f[m][k] = s[i]}
<1>2. 0 \in G
  BY <1>1 DEF Picks
<1>3. \A m \in 0..(n - 1) : m \in G => m + 1 \in G
  <2> SUFFICES ASSUME NEW m \in 0..(n - 1), m \in G PROVE m + 1 \in G
    OBVIOUS
  <2>1. m + 1 \in 1..n /\ (m + 1) - 1 = m /\ m \in 0..n /\ m + 1 \in 0..n /\ f[m] \in Seq(E)
    OBVIOUS
  <2>2. f[m + 1] = IF m + 1 \in I THEN Append(f[m], s[m + 1]) ELSE f[m]
    BY <1>1, <2>1 DEF Picks
  <2>3. CASE m + 1 \in I
    <3> SUFFICES ASSUME NEW k \in 1..Len(f[m + 1])
                 PROVE  \E i \in 1..n : f[m + 1][k] = s[i]
      BY <2>1
    <3>1. CASE k <= Len(f[m])
      <4>1. k \in 1..Len(f[m]) /\ f[m + 1][k] = f[m][k]
        BY <2>1, <2>2, <2>3, <3>1
      <4> QED
        BY <4>1
    <3>2. CASE k = Len(f[m]) + 1
      <4>1. f[m + 1][k] = s[m + 1]
        BY <2>1, <2>2, <2>3, <3>2
      <4> QED
        BY <4>1, <2>1, <2>3
    <3>3. Len(f[m + 1]) = Len(f[m]) + 1 /\ Len(f[m]) \in Nat
      BY <2>1, <2>2, <2>3
    <3> QED
      BY <3>1, <3>2, <3>3
  <2>4. CASE m + 1 \notin I
    BY <2>1, <2>2, <2>4
  <2> QED
    BY <2>3, <2>4
<1>4. \A m \in 0..n : m \in G
  <2> HIDE DEF G
  <2>1. n \in Nat
    OBVIOUS
  <2> HIDE DEF n
  <2> QED
    BY <2>1, <1>2, <1>3, Induction
<1>5. n \in G
  BY <1>4
<1> QED
  BY <1>1, <1>5 DEF ComesFrom

LEMMA PickAll ==
  ASSUME NEW E, NEW s \in Seq(E), NEW I, \A i \in 1..Len(s) : i \in I
  PROVE  Pick(s, I) = s
<1>1. PICK f \in [0..Len(s) -> Seq(E)] : Picks(f, s, I) /\ Pick(s, I) = f[Len(s)]
  BY PickRuns
<1> DEFINE n == Len(s)
           G == {m \in 0..n : Len(f[m]) = m /\ \A k \in 1..m : f[m][k] = s[k]}
<1>2. 0 \in G
  BY <1>1 DEF Picks
<1>3. \A m \in 0..(n - 1) : m \in G => m + 1 \in G
  <2> SUFFICES ASSUME NEW m \in 0..(n - 1), m \in G PROVE m + 1 \in G
    OBVIOUS
  <2>1. m + 1 \in 1..n /\ (m + 1) - 1 = m /\ m \in 0..n /\ m + 1 \in 0..n /\ f[m] \in Seq(E)
    OBVIOUS
  <2>2. f[m + 1] = Append(f[m], s[m + 1])
    BY <1>1, <2>1 DEF Picks
  <2>3. s[m + 1] \in E
    BY <2>1
  <2>4. Len(f[m]) = m /\ \A k \in 1..m : f[m][k] = s[k]
    OBVIOUS
  <2>5. Len(f[m + 1]) = m + 1 /\ f[m + 1][m + 1] = s[m + 1]
    BY <2>1, <2>2, <2>3, <2>4
  <2>6. \A k \in 1..m : f[m + 1][k] = f[m][k]
    BY <2>1, <2>2, <2>3, <2>4
  <2>7. \A k \in 1..(m + 1) : k = m + 1 \/ k \in 1..m
    BY <2>1
  <2> QED
    BY <2>1, <2>4, <2>5, <2>6, <2>7
<1>4. \A m \in 0..n : m \in G
  <2> HIDE DEF G
  <2>1. n \in Nat
    OBVIOUS
  <2> HIDE DEF n
  <2> QED
    BY <2>1, <1>2, <1>3, Induction
<1>5. n \in G /\ f[n] \in Seq(E)
  BY <1>4
<1> QED
  BY <1>1, <1>5

-----------------------------------------------------------------------------
(* The journal                                                              *)

Events ==
  [id : Nat, auth : {Authorization.id}, type : LifecycleEvents,
   effectiveAt : EffectiveTimes, recordedAt : RecordedTimes,
   actor : Actors \cup {Adjudication.maker},
   evidenceRef : EvidenceRefs \cup {Adjudication.evidenceRef},
   satisfied : BOOLEAN, corrects : Nat \cup {NoEvent}, field : Fields \cup {"none"}]

\* Whatever Append accepted, one event at a time.
Recorded(events) ==
  /\ events \in Seq(Events)
  /\ \A i \in 1..Len(events) : Canonical(events[i].effectiveAt) /\ Canonical(events[i].recordedAt)
  /\ \A i \in 1..Len(events) : \A k \in 1..i : events[k].recordedAt <= events[i].recordedAt
  /\ \A i \in 1..Len(events) : \A k \in 1..(i - 1) : events[k].id # events[i].id
  /\ \A i \in 1..Len(events) :
        IsCorrection(events[i]) => \E k \in 1..(i - 1) : events[k].id = events[i].corrects

JournalInv == Recorded(journal)

LEMMA EventTypes ==
  ASSUME NEW e \in Events
  PROVE  /\ e.id \in Nat /\ e.auth = Authorization.id /\ e.type \in LifecycleEvents
         /\ e.effectiveAt \in EffectiveTimes /\ e.recordedAt \in RecordedTimes
         /\ e.effectiveAt \in Nat /\ e.recordedAt \in Nat
         /\ e.satisfied \in BOOLEAN /\ e.corrects \in Nat \cup {NoEvent}
BY JournalAssumption DEF Events

\* A step of the journal appends one event, which Append accepted.
LEMMA StepAppends ==
  ASSUME JournalInv, Next
  PROVE  \E e \in Events : Accepts(journal, e) /\ journal' = Append(journal, e)
<1>1. \A i \in 1..(Len(journal) + 1) : i \in Nat
  OBVIOUS
<1>2. \A type \in LifecycleEvents :
        /\ Signers(type) \subseteq Actors \cup {Adjudication.maker}
        /\ Cited(type) \subseteq EvidenceRefs \cup {Adjudication.evidenceRef}
  BY DEF Signers, Cited
<1>3. CASE RecordLifecycleEvent
  <2>1. PICK id \in OfferedIds, type \in LifecycleEvents,
             effectiveAt \in EffectiveTimes, recordedAt \in RecordedTimes :
             \E actor \in Signers(type), evidenceRef \in Cited(type), satisfied \in BOOLEAN :
               AppendEvent(LifecycleEvent(id, type, effectiveAt, recordedAt, actor,
                                          evidenceRef, satisfied))
    BY <1>3 DEF RecordLifecycleEvent
  <2>2. PICK actor \in Signers(type), evidenceRef \in Cited(type), satisfied \in BOOLEAN :
               AppendEvent(LifecycleEvent(id, type, effectiveAt, recordedAt, actor,
                                          evidenceRef, satisfied))
    BY <2>1
  <2>3. LifecycleEvent(id, type, effectiveAt, recordedAt, actor, evidenceRef, satisfied)
          \in Events
    BY <1>1, <1>2 DEF LifecycleEvent, Events, OfferedIds
  <2> QED
    BY <2>2, <2>3 DEF AppendEvent
<1>4. CASE RecordCorrection
  <2>1. PICK id \in OfferedIds, i \in DOMAIN journal,
             effectiveAt \in EffectiveTimes, recordedAt \in RecordedTimes, field \in Fields :
               AppendEvent(Correction(id, journal[i], effectiveAt, recordedAt, field))
    BY <1>4 DEF RecordCorrection
  <2>2. journal[i] \in Events
    BY DEF JournalInv, Recorded
  <2>3. journal[i].type \in LifecycleEvents /\ journal[i].id \in Nat
    BY <2>2 DEF Events
  <2>4. Correction(id, journal[i], effectiveAt, recordedAt, field) \in Events
    BY <1>1, <2>3 DEF LifecycleEvent, Correction, Events, OfferedIds
  <2> QED
    BY <2>1, <2>4 DEF AppendEvent
<1> QED
  BY <1>3, <1>4 DEF Next

LEMMA AppendRecorded ==
  ASSUME NEW events, Recorded(events), NEW e \in Events, Accepts(events, e)
  PROVE  Recorded(Append(events, e))
<1> DEFINE n == Len(events)
           longer == Append(events, e)
<1>1. /\ events \in Seq(Events) /\ n \in Nat
      /\ longer \in Seq(Events) /\ Len(longer) = n + 1 /\ longer[n + 1] = e
      /\ \A i \in 1..n : longer[i] = events[i] /\ events[i] \in Events
  BY DEF Recorded
<1>2. Canonical(e.effectiveAt) /\ Canonical(e.recordedAt)
  BY DEF Accepts
<1>3. \A k \in 1..n : events[k].recordedAt <= e.recordedAt
  <2> SUFFICES ASSUME NEW k \in 1..n PROVE events[k].recordedAt <= e.recordedAt
    OBVIOUS
  <2>1. events # <<>> /\ Last(events) = events[n] /\ n \in 1..n
    BY <1>1 DEF Last
  <2>2. events[n].recordedAt <= e.recordedAt
    BY <2>1 DEF Accepts, InRecordedOrder
  <2>3. events[k].recordedAt <= events[n].recordedAt
    BY <2>1 DEF Recorded
  <2>4. events[k].recordedAt \in Nat /\ events[n].recordedAt \in Nat /\ e.recordedAt \in Nat
    BY <1>1, <2>1, EventTypes
  <2> QED
    BY <2>2, <2>3, <2>4
<1>4. \A k \in 1..n : events[k].id # e.id
  BY <1>1 DEF Accepts
<1>5. IsCorrection(e) => \E k \in 1..n : events[k].id = e.corrects
  BY <1>1 DEF Accepts
<1>6. e.recordedAt <= e.recordedAt
  BY EventTypes
<1> HIDE DEF longer
<1>7. \A i \in 1..(n + 1) : i \in 1..n \/ i = n + 1
  BY <1>1
<1>8. \A i \in 1..(n + 1) : Canonical(longer[i].effectiveAt) /\ Canonical(longer[i].recordedAt)
  BY <1>1, <1>2, <1>7 DEF Recorded
<1>9. \A i \in 1..(n + 1) : \A k \in 1..i : longer[k].recordedAt <= longer[i].recordedAt
  <2> SUFFICES ASSUME NEW i \in 1..(n + 1), NEW k \in 1..i
               PROVE  longer[k].recordedAt <= longer[i].recordedAt
    OBVIOUS
  <2>1. CASE i \in 1..n
    BY <1>1, <2>1 DEF Recorded
  <2>2. CASE i = n + 1
    BY <1>1, <1>3, <1>6, <2>2
  <2> QED
    BY <1>7, <2>1, <2>2
<1>10. \A i \in 1..(n + 1) : \A k \in 1..(i - 1) : longer[k].id # longer[i].id
  <2> SUFFICES ASSUME NEW i \in 1..(n + 1), NEW k \in 1..(i - 1)
               PROVE  longer[k].id # longer[i].id
    OBVIOUS
  <2>1. CASE i \in 1..n
    BY <1>1, <2>1 DEF Recorded
  <2>2. CASE i = n + 1
    BY <1>1, <1>4, <2>2
  <2> QED
    BY <1>7, <2>1, <2>2
<1>11. \A i \in 1..(n + 1) :
         IsCorrection(longer[i]) => \E k \in 1..(i - 1) : longer[k].id = longer[i].corrects
  <2> SUFFICES ASSUME NEW i \in 1..(n + 1), IsCorrection(longer[i])
               PROVE  \E k \in 1..(i - 1) : longer[k].id = longer[i].corrects
    OBVIOUS
  <2>1. CASE i \in 1..n
    <3>1. PICK k \in 1..(i - 1) : events[k].id = events[i].corrects
      BY <1>1, <2>1 DEF Recorded
    <3> QED
      BY <1>1, <2>1, <3>1
  <2>2. CASE i = n + 1
    <3>1. PICK k \in 1..n : events[k].id = e.corrects
      BY <1>1, <1>5, <2>2
    <3> QED
      BY <1>1, <2>2, <3>1
  <2> QED
    BY <1>7, <2>1, <2>2
<1> QED
  BY <1>1, <1>8, <1>9, <1>10, <1>11 DEF Recorded, longer

\* The journal holds typed events with canonical times, in recorded order, under
\* identifiers used once, a correction after the event it corrects
\* (registry.go:45-84).
THEOREM JournalInvariant == Spec => []JournalInv
<1>1. Init => JournalInv
  BY DEF Init, JournalInv, Recorded
<1>2. JournalInv /\ [Next]_journal => JournalInv'
  <2> SUFFICES ASSUME JournalInv, [Next]_journal PROVE JournalInv'
    OBVIOUS
  <2>1. CASE Next
    <3>1. PICK e \in Events : Accepts(journal, e) /\ journal' = Append(journal, e)
      BY <2>1, StepAppends
    <3>2. Recorded(Append(journal, e))
      BY <3>1, AppendRecorded DEF JournalInv
    <3> QED
      BY <3>1, <3>2 DEF JournalInv
  <2>2. CASE UNCHANGED journal
    BY <2>2 DEF JournalInv
  <2> QED
    BY <2>1, <2>2
<1> QED
  BY <1>1, <1>2, PTL DEF Spec

-----------------------------------------------------------------------------
(* What was known at a cutoff stays known                                   *)

LEMMA KnownStable ==
  ASSUME NEW events \in Seq(Events), NEW e \in Events, NEW auth,
         NEW cutoff \in Nat, cutoff < e.recordedAt
  PROVE  KnownEvents(Append(events, e), auth, cutoff) = KnownEvents(events, auth, cutoff)
<1> DEFINE n == Len(events)
           longer == Append(events, e)
           late(s) == {i \in DOMAIN s : s[i].recordedAt > cutoff}
           known(s) == {i \in DOMAIN s : s[i].auth = auth /\ \A j \in late(s) : i < j}
<1>1. /\ n \in Nat /\ DOMAIN events = 1..n
      /\ DOMAIN longer = 1..(n + 1) /\ longer[n + 1] = e
      /\ \A i \in 1..n : longer[i] = events[i]
  OBVIOUS
<1>2. n + 1 \in late(longer)
  BY <1>1, EventTypes
<1>3. \A i \in 1..n : i \in late(longer) <=> i \in late(events)
  BY <1>1
<1>4. late(longer) = late(events) \cup {n + 1}
  BY <1>1, <1>2, <1>3
<1>5. n + 1 \notin known(longer)
  BY <1>1, <1>2
<1>6. \A i \in 1..n : i \in known(longer) <=> i \in known(events)
  BY <1>1, <1>4
<1>7. Pick(longer, known(longer)) = Pick(events, known(longer))
  <2> HIDE DEF known
  <2> QED
    BY <1>5, PickAppend
<1>8. Pick(events, known(longer)) = Pick(events, known(events))
  <2> HIDE DEF known
  <2> QED
    BY <1>6, PickSame
<1> QED
  BY <1>7, <1>8 DEF KnownEvents

\* Events and corrections recorded after a cutoff reach neither the history in
\* force at the cutoff nor the grants projected from it (registry.go:144-147).
THEOREM HistoryStable == Spec => HistoryAsKnownIsStable
<1> DEFINE Stable == \A cutoff \in RecordedTimes :
         cutoff < Last(journal').recordedAt =>
           /\ EffectiveEvents(journal', Authorization.id, cutoff)
                = EffectiveEvents(journal, Authorization.id, cutoff)
           /\ Projection(journal', cutoff) = Projection(journal, cutoff)
<1>1. ASSUME JournalInv, Next PROVE Stable
  <2>1. PICK e \in Events : Accepts(journal, e) /\ journal' = Append(journal, e)
    BY <1>1, StepAppends
  <2>2. journal \in Seq(Events)
    BY <1>1 DEF JournalInv, Recorded
  <2>3. Last(journal') = e
    BY <2>1, <2>2 DEF Last
  <2> SUFFICES ASSUME NEW cutoff \in RecordedTimes, cutoff < e.recordedAt
               PROVE  /\ EffectiveEvents(journal', Authorization.id, cutoff)
                           = EffectiveEvents(journal, Authorization.id, cutoff)
                      /\ Projection(journal', cutoff) = Projection(journal, cutoff)
    BY <2>3
  <2>4. cutoff \in Nat
    BY JournalAssumption
  <2>5. KnownEvents(journal', Authorization.id, cutoff)
          = KnownEvents(journal, Authorization.id, cutoff)
    BY <2>1, <2>2, <2>4, KnownStable
  <2>6. EffectiveEvents(journal', Authorization.id, cutoff)
          = EffectiveEvents(journal, Authorization.id, cutoff)
    BY <2>5 DEF EffectiveEvents
  <2> QED
    BY <2>6 DEF Projection, ProjectAuthorityGrants
<1>2. JournalInv /\ [Next]_journal => [Stable]_journal
  BY <1>1
<1> QED
  BY <1>2, JournalInvariant, PTL DEF Spec, HistoryAsKnownIsStable

-----------------------------------------------------------------------------
(* The replay loops                                                         *)

\* A permitted transition has one target.
LEMMA NextState ==
  ASSUME NEW current, NEW event, Permitted(current, event)
  PROVE  /\ NextAuthorizationState(current, event) \in LifecycleStates
         /\ <<current, event, NextAuthorizationState(current, event)>> \in PermittedTransitions
BY DEF Permitted, NextAuthorizationState

LEMMA ReplayStepValue ==
  ASSUME NEW e \in Events, NEW replay \in Replays
  PROVE  /\ ReplayStep(e)[replay] \in Replays
         /\ ReplayStep(e)[replay].ok =>
              /\ replay.ok /\ e.satisfied /\ Permitted(replay.state, e.type)
              /\ ReplayStep(e)[replay].state = NextAuthorizationState(replay.state, e.type)
              /\ <<replay.state, e.type, ReplayStep(e)[replay].state>> \in PermittedTransitions
<1> DEFINE t == Transition(e.type, e.satisfied)[replay.state]
           applied == Permitted(replay.state, e.type) /\ e.satisfied
           next == NextAuthorizationState(replay.state, e.type)
<1>1. replay.state \in LifecycleStates /\ replay.ok \in BOOLEAN
  BY DEF Replays
<1>2. t = [state |-> IF applied THEN next ELSE replay.state, applied |-> applied]
  BY <1>1 DEF Transition
<1>3. ReplayStep(e)[replay] = [state |-> t.state, ok |-> replay.ok /\ t.applied]
  BY DEF ReplayStep
<1>4. applied \in BOOLEAN
  BY EventTypes DEF Permitted
<1>5. applied => next \in LifecycleStates /\ <<replay.state, e.type, next>> \in PermittedTransitions
  BY NextState
<1> HIDE DEF applied, next
<1>6. t.state = (IF applied THEN next ELSE replay.state) /\ t.applied = applied
  BY <1>2
<1> HIDE DEF t
<1>7. t.state \in LifecycleStates /\ t.applied \in BOOLEAN
  BY <1>1, <1>4, <1>5, <1>6
<1>8. ReplayStep(e)[replay] \in Replays
  BY <1>1, <1>3, <1>7 DEF Replays
<1>9. ReplayStep(e)[replay].ok => replay.ok /\ applied /\ ReplayStep(e)[replay].state = next
  BY <1>1, <1>3, <1>6, <1>7
<1> QED
  BY <1>5, <1>8, <1>9 DEF applied, next

\* The function the definition of Replay is written with.
Runs(f, events, positions) ==
  /\ f[0] = [state |-> "REQUESTED", ok |-> TRUE]
  /\ \A i \in 1..Len(events) :
        f[i] = IF i \in positions THEN ReplayStep(events[i])[f[i - 1]] ELSE f[i - 1]

RunStep(events, positions) ==
  [i \in 1..Len(events) |->
     [replay \in Replays |->
        IF i \in positions THEN ReplayStep(events[i])[replay] ELSE replay]]

LEMMA RunsAgree ==
  ASSUME NEW s, NEW t, NEW I, NEW J, NEW f, NEW g, NEW m \in Nat,
         Len(s) \in Nat, Len(t) \in Nat, m <= Len(s), m <= Len(t),
         Runs(f, s, I), Runs(g, t, J),
         \A i \in 1..m : s[i] = t[i] /\ (i \in I <=> i \in J)
  PROVE  \A i \in 0..m : f[i] = g[i]
<1> DEFINE G == {k \in 0..m : f[k] = g[k]}
<1>1. 0 \in G
  BY DEF Runs
<1>2. \A k \in 0..(m - 1) : k \in G => k + 1 \in G
  <2> SUFFICES ASSUME NEW k \in 0..(m - 1), k \in G PROVE k + 1 \in G
    OBVIOUS
  <2>1. k + 1 \in 1..Len(s) /\ k + 1 \in 1..Len(t) /\ k + 1 \in 1..m /\ (k + 1) - 1 = k
    OBVIOUS
  <2> QED
    BY <2>1 DEF Runs
<1>3. \A i \in 0..m : i \in G
  <2> HIDE DEF G
  <2> QED
    BY <1>1, <1>2, Induction
<1> QED
  BY <1>3

LEMMA ReplayRuns ==
  ASSUME NEW s \in Seq(Events), NEW I
  PROVE  \E f \in [0..Len(s) -> Replays] : Runs(f, s, I) /\ Replay(s, I) = f[Len(s)]
<1> DEFINE n == Len(s)
           start == [state |-> "REQUESTED", ok |-> TRUE]
           step == RunStep(s, I)
           Def(f) == [i \in 0..Len(s) |->
                        IF i = 0 THEN [state |-> "REQUESTED", ok |-> TRUE]
                        ELSE IF i \in I THEN ReplayStep(s[i])[f[i - 1]] ELSE f[i - 1]]
           run == CHOOSE f : f = Def(f)
<1>1. n \in Nat /\ start \in Replays
  BY DEF Replays, LifecycleStates
<1>2. step \in [1..n -> [Replays -> Replays]]
  <2>1. \A i \in 1..n : \A replay \in Replays : ReplayStep(s[i])[replay] \in Replays
    <3> SUFFICES ASSUME NEW i \in 1..n, NEW replay \in Replays
                 PROVE  ReplayStep(s[i])[replay] \in Replays
      OBVIOUS
    <3>1. s[i] \in Events
      OBVIOUS
    <3> QED
      BY <3>1, ReplayStepValue
  <2> QED
    BY <2>1 DEF RunStep
<1>3. Solvable(n, Replays, start, step)
  <2> HIDE DEF step, n, start
  <2> QED
    BY ONLY <1>1, <1>2, Recursion
<1>4. PICK f \in [0..n -> Replays] : Solves(f, n, start, step)
  BY <1>3 DEF Solvable
<1>5. Runs(f, s, I)
  <2>1. \A i \in 1..n : i - 1 \in 0..n /\ f[i - 1] \in Replays
    BY <1>1
  <2>2. \A i \in 1..n : f[i] = IF i \in I THEN ReplayStep(s[i])[f[i - 1]] ELSE f[i - 1]
    BY <1>4, <2>1 DEF Solves, RunStep
  <2> QED
    BY <1>4, <2>2 DEF Solves, Runs
<1>6. f = Def(f)
  <2>1. \A i \in 0..n : f[i] = IF i = 0 THEN [state |-> "REQUESTED", ok |-> TRUE]
                               ELSE IF i \in I THEN ReplayStep(s[i])[f[i - 1]] ELSE f[i - 1]
    <3> SUFFICES ASSUME NEW i \in 0..n
                 PROVE  f[i] = IF i = 0 THEN [state |-> "REQUESTED", ok |-> TRUE]
                               ELSE IF i \in I THEN ReplayStep(s[i])[f[i - 1]] ELSE f[i - 1]
      OBVIOUS
    <3>1. i = 0 \/ i \in 1..n
      BY <1>1
    <3> QED
      BY <3>1, <1>5 DEF Runs
  <2>2. f = [i \in 0..n |-> f[i]]
    OBVIOUS
  <2> QED
    BY <2>1, <2>2
<1>7. run = Def(run)
  BY <1>6
<1>8. Runs(run, s, I)
  <2> HIDE DEF run
  <2>1. \A i \in 0..n : run[i] = Def(run)[i]
    BY <1>7
  <2>2. \A i \in 1..n : i \in 0..n /\ i # 0
    BY <1>1
  <2> QED
    BY <2>1, <2>2, <1>1 DEF Runs
<1>9. Replay(s, I) = run[n]
  BY DEF Replay
<1>10. run[n] = f[n]
  <2> HIDE DEF run
  <2> QED
    BY <1>1, <1>5, <1>8, RunsAgree
<1> QED
  BY <1>5, <1>9, <1>10

LEMMA ReplayType ==
  ASSUME NEW s \in Seq(Events), NEW I
  PROVE  Replay(s, I) \in Replays
<1>1. Len(s) \in 0..Len(s)
  OBVIOUS
<1> QED
  BY <1>1, ReplayRuns

-----------------------------------------------------------------------------
(* The horizon                                                              *)

LEMMA HorizonBound ==
  /\ Horizon \in Nat
  /\ \A time \in EffectiveTimes \cup RecordedTimes : time \in Nat /\ time < Horizon
<1> DEFINE S == EffectiveTimes \cup RecordedTimes
<1>1. Max(S) \in S /\ \A time \in S : time <= Max(S)
  <2>1. \E x \in S : \A y \in S : x >= y
    BY JournalAssumption
  <2> HIDE DEF S
  <2> QED
    BY <2>1 DEF Max
<1>2. S \subseteq Nat
  BY JournalAssumption
<1> HIDE DEF S
<1>3. Max(S) \in Nat /\ Microsecond \in Nat \ {0} /\ \A time \in S : time \in Nat
  BY <1>1, <1>2, MicrosecondAssumption
<1>4. Max(S) + Microsecond \in Nat /\ \A time \in S : time < Max(S) + Microsecond
  BY <1>1, <1>3
<1> QED
  BY <1>3, <1>4 DEF Horizon, S

-----------------------------------------------------------------------------
(* The effective history                                                    *)

LEMMA AmendedEvent ==
  ASSUME NEW known \in Seq(Events), NEW e \in Events
  PROVE  /\ Amended(known, e) \in Events
         /\ Amended(known, e).type = e.type /\ Amended(known, e).actor = e.actor
         /\ Amended(known, e).evidenceRef = e.evidenceRef
         /\ Amended(known, e).recordedAt = e.recordedAt /\ Amended(known, e).id = e.id
         /\ \/ Amended(known, e) = e
            \/ \E i \in 1..Len(known) : Amended(known, e).effectiveAt = known[i].effectiveAt
<1> DEFINE amendments == {i \in DOMAIN known : known[i].corrects = e.id}
           i == CHOOSE i \in amendments : TRUE
<1>1. CASE amendments = {}
  BY <1>1 DEF Amended
<1>2. CASE amendments # {}
  <2>1. i \in amendments
    BY <1>2
  <2>2. i \in 1..Len(known) /\ known[i] \in Events
    BY <2>1
  <2>3. Amended(known, e) = [e EXCEPT !.effectiveAt = known[i].effectiveAt]
    BY <1>2 DEF Amended
  <2> HIDE DEF i
  <2>4. known[i].effectiveAt \in EffectiveTimes
    BY <2>2, EventTypes
  <2> QED
    BY <2>2, <2>3, <2>4 DEF Events
<1> QED
  BY <1>1, <1>2

\* Every event of the history in force is a recorded one, at a recorded time.
LEMMA EffectiveFrom ==
  ASSUME NEW events, Recorded(events), NEW cutoff
  PROVE  LET effective == EffectiveEvents(events, Authorization.id, cutoff).events
         IN /\ effective \in Seq(Events)
            /\ \A i \in 1..Len(effective) :
                 /\ Canonical(effective[i].effectiveAt)
                 /\ \E k \in 1..Len(events) :
                      /\ effective[i].type = events[k].type
                      /\ effective[i].actor = events[k].actor
                      /\ effective[i].evidenceRef = events[k].evidenceRef
                      /\ effective[i].recordedAt = events[k].recordedAt
<1> DEFINE auth == Authorization.id
           known == KnownEvents(events, auth, cutoff)
           originals == Pick(known, {i \in DOMAIN known : ~IsCorrection(known[i])})
           effective == EffectiveEvents(events, auth, cutoff).events
<1>1. events \in Seq(Events)
  BY DEF Recorded
<1>2. /\ known \in Seq(Events)
      /\ \A i \in 1..Len(known) : \E k \in 1..Len(events) : known[i] = events[k]
  <2> DEFINE late == {i \in DOMAIN events : events[i].recordedAt > cutoff}
             I == {i \in DOMAIN events : events[i].auth = auth /\ \A j \in late : i < j}
  <2>1. known = Pick(events, I)
    BY DEF KnownEvents
  <2> HIDE DEF known, I
  <2>2. known \in Seq(Events) /\ ComesFrom(known, events)
    BY <1>1, <2>1, PickType, PickFrom
  <2> QED
    BY <2>2 DEF ComesFrom
<1> HIDE DEF known
<1>3. /\ originals \in Seq(Events)
      /\ \A i \in 1..Len(originals) : \E k \in 1..Len(known) : originals[i] = known[k]
  <2> DEFINE I == {i \in DOMAIN known : ~IsCorrection(known[i])}
  <2>1. originals = Pick(known, I)
    OBVIOUS
  <2> HIDE DEF originals, I
  <2>2. originals \in Seq(Events) /\ ComesFrom(originals, known)
    BY <1>2, <2>1, PickType, PickFrom
  <2> QED
    BY <2>2 DEF ComesFrom
<1>4. effective = [i \in DOMAIN originals |-> Amended(known, originals[i])]
  BY DEF EffectiveEvents, known
<1> HIDE DEF originals, effective
<1>5. /\ DOMAIN originals = 1..Len(originals) /\ Len(originals) \in Nat
      /\ \A i \in 1..Len(originals) : originals[i] \in Events
  BY <1>3
<1>6. effective \in Seq(Events) /\ Len(effective) = Len(originals)
  <2>1. \A i \in 1..Len(originals) : Amended(known, originals[i]) \in Events
    BY <1>2, <1>5, AmendedEvent
  <2>2. effective \in [1..Len(originals) -> Events]
    BY <1>4, <1>5, <2>1
  <2> QED
    BY <1>5, <2>2
<1>7. ASSUME NEW i \in 1..Len(effective)
      PROVE  /\ Canonical(effective[i].effectiveAt)
             /\ \E k \in 1..Len(events) :
                  /\ effective[i].type = events[k].type
                  /\ effective[i].actor = events[k].actor
                  /\ effective[i].evidenceRef = events[k].evidenceRef
                  /\ effective[i].recordedAt = events[k].recordedAt
  <2> DEFINE e == originals[i]
  <2>1. e \in Events /\ effective[i] = Amended(known, e)
    BY <1>4, <1>5, <1>6
  <2>2. PICK k \in 1..Len(events) : e = events[k]
    BY <1>2, <1>3, <1>6
  <2>3. Canonical(effective[i].effectiveAt)
    <3>1. CASE Amended(known, e) = e
      BY <2>1, <2>2, <3>1 DEF Recorded
    <3>2. ASSUME NEW j \in 1..Len(known), Amended(known, e).effectiveAt = known[j].effectiveAt
          PROVE  Canonical(effective[i].effectiveAt)
      BY <1>2, <2>1, <3>2 DEF Recorded
    <3> QED
      BY <1>2, <2>1, <3>1, <3>2, AmendedEvent
  <2>4. /\ effective[i].type = events[k].type
        /\ effective[i].actor = events[k].actor
        /\ effective[i].evidenceRef = events[k].evidenceRef
        /\ effective[i].recordedAt = events[k].recordedAt
    BY <1>2, <2>1, <2>2, AmendedEvent
  <2> QED
    BY <2>3, <2>4
<1> QED
  BY <1>6, <1>7 DEF effective

-----------------------------------------------------------------------------
(* The projection loop                                                      *)

IntervalStates == {"none", "active", "inactive"}

Grants ==
  [auth : {Authorization.id}, event : Nat \cup {NoEvent}, issuer : {Authorization.issuer},
   subject : {Authorization.subject}, claim : {Authorization.claim},
   from : Nat, until : Int, state : IntervalStates]

Projections ==
  [ok : BOOLEAN, approved : BOOLEAN, from : Nat, event : Nat \cup {NoEvent},
   state : IntervalStates, grants : Seq(Grants)]

Step(p, e) == ProjectEvent(Authorization, Adjudication, p, e)

LEMMA ProjectionTypes ==
  ASSUME NEW p \in Projections
  PROVE  /\ p.ok \in BOOLEAN /\ p.approved \in BOOLEAN /\ p.from \in Nat
         /\ p.event \in Nat \cup {NoEvent} /\ p.state \in IntervalStates
         /\ p.grants \in Seq(Grants)
BY DEF Projections

LEMMA RefuseType ==
  ASSUME NEW p \in Projections
  PROVE  Refuse(p) \in Projections /\ ~Refuse(p).ok
BY DEF Refuse, Projections

Opens(e, state, q) == q.from = e.effectiveAt /\ q.state = state

LEMMA OpenIntervalType ==
  ASSUME NEW p \in Projections, NEW e \in Events, NEW state \in IntervalStates
  PROVE  /\ OpenInterval(p, e, state) \in Projections
         /\ OpenInterval(p, e, state).ok =>
              /\ p.ok /\ p.from = NoStart
              /\ Opens(e, state, OpenInterval(p, e, state))
              /\ OpenInterval(p, e, state).grants = p.grants
              /\ OpenInterval(p, e, state).approved = p.approved
<1>1. e.effectiveAt \in Nat /\ e.id \in Nat
  BY EventTypes
<1>2. CASE p.from = NoStart
  BY <1>1, <1>2 DEF OpenInterval, Projections, Opens
<1>3. CASE p.from # NoStart
  BY <1>3, RefuseType DEF OpenInterval
<1> QED
  BY <1>2, <1>3

LEMMA OpenGrantType ==
  ASSUME NEW p \in Projections, NEW until \in Int
  PROVE  OpenGrant(Authorization, p, until) \in Grants
BY DEF OpenGrant, Grants, Projections

Closes(p, e, q) ==
  /\ p.from # NoStart /\ p.from < e.effectiveAt
  /\ q.grants = Append(p.grants, OpenGrant(Authorization, p, e.effectiveAt - Microsecond))

LEMMA CloseIntervalType ==
  ASSUME NEW p \in Projections, NEW e \in Events
  PROVE  LET q == CloseInterval(Authorization, p, e.effectiveAt)
         IN /\ q \in Projections
            /\ q.ok => /\ p.ok /\ Closes(p, e, q) /\ q.from = NoStart
                       /\ q.state = p.state /\ q.approved = p.approved
<1> DEFINE end == e.effectiveAt
           g == OpenGrant(Authorization, p, end - Microsecond)
           q == CloseInterval(Authorization, p, end)
<1>1. end \in Nat /\ end - Microsecond \in Int
  BY MicrosecondAssumption, EventTypes
<1>2. g \in Grants
  BY <1>1, OpenGrantType
<1>3. CASE p.from = NoStart \/ end <= p.from
  BY <1>3, RefuseType DEF CloseInterval
<1>4. CASE ~(p.from = NoStart \/ end <= p.from)
  <2>1. p.from < end
    BY <1>1, <1>4, ProjectionTypes
  <2>2. q = [p EXCEPT !.from = NoStart, !.event = NoEvent, !.grants = Append(p.grants, g)]
    BY <1>4 DEF CloseInterval, InclusiveEnd
  <2> HIDE DEF g, q
  <2>3. Append(p.grants, g) \in Seq(Grants)
    BY <1>2, ProjectionTypes
  <2>4. q \in Projections
    BY <2>2, <2>3 DEF Projections, NoStart
  <2>5. /\ q.ok = p.ok /\ q.grants = Append(p.grants, g) /\ q.from = NoStart
        /\ q.state = p.state /\ q.approved = p.approved
    BY <2>2 DEF Projections
  <2> QED
    BY <1>4, <2>1, <2>4, <2>5 DEF Closes, g, q
<1> QED
  BY <1>3, <1>4

LEMMA OpenAfterClose ==
  ASSUME NEW p \in Projections, NEW e \in Events, NEW state \in IntervalStates
  PROVE  LET q == OpenInterval(CloseInterval(Authorization, p, e.effectiveAt), e, state)
         IN /\ q \in Projections
            /\ q.ok => p.ok /\ Closes(p, e, q) /\ Opens(e, state, q) /\ q.approved = p.approved
<1> DEFINE c == CloseInterval(Authorization, p, e.effectiveAt)
           q == OpenInterval(c, e, state)
<1>1. /\ c \in Projections
      /\ c.ok => p.ok /\ Closes(p, e, c) /\ c.approved = p.approved
  BY CloseIntervalType
<1> HIDE DEF c
<1>2. /\ q \in Projections
      /\ q.ok => c.ok /\ Opens(e, state, q) /\ q.grants = c.grants /\ q.approved = c.approved
  BY <1>1, OpenIntervalType
<1> HIDE DEF q
<1> QED
  BY <1>1, <1>2 DEF Closes, q, c

Kept(p, q) == q.from = p.from /\ q.state = p.state /\ q.event = p.event /\ q.grants = p.grants

\* What an event that is not refused makes of the projection so far.
Effect(p, e, q) ==
  \/ e.type \in {"SUBMIT", "APPROVE", "REJECT"} /\ Kept(p, q)
  \/ e.type = "ACTIVATE" /\ p.from = NoStart /\ q.grants = p.grants /\ Opens(e, "active", q)
  \/ e.type = "SUSPEND" /\ Closes(p, e, q) /\ Opens(e, "inactive", q)
  \/ e.type = "REINSTATE" /\ Closes(p, e, q) /\ Opens(e, "active", q)
  \/ e.type = "EXPIRE" /\ \/ p.from = NoStart /\ Kept(p, q)
                          \/ Closes(p, e, q) /\ q.from = NoStart
  \/ e.type = "REVOKE" /\ Opens(e, "inactive", q)
                       /\ \/ p.from = NoStart /\ q.grants = p.grants
                          \/ Closes(p, e, q)

Approves(p, e, q) ==
  q.approved => p.approved \/ (e.type = "APPROVE" /\ ApprovalMatches(Adjudication, e))

LEMMA StepEffect ==
  ASSUME NEW p \in Projections, NEW e \in Events
  PROVE  /\ Step(p, e) \in Projections
         /\ Step(p, e).ok => p.ok /\ Effect(p, e, Step(p, e)) /\ Approves(p, e, Step(p, e))
<1> DEFINE q == Step(p, e)
           opened(state) == OpenInterval(p, e, state)
           reopened(state) == OpenInterval(CloseInterval(Authorization, p, e.effectiveAt), e, state)
           closed == CloseInterval(Authorization, p, e.effectiveAt)
<1>1. e.type \in LifecycleEvents
  BY EventTypes
<1>2. Refuse(p) \in Projections /\ ~Refuse(p).ok
  BY RefuseType
<1>3. \A state \in {"active", "inactive"} :
        /\ opened(state) \in Projections
        /\ opened(state).ok =>
             /\ p.ok /\ p.from = NoStart /\ Opens(e, state, opened(state))
             /\ opened(state).grants = p.grants /\ opened(state).approved = p.approved
  BY OpenIntervalType DEF IntervalStates
<1>4. \A state \in {"active", "inactive"} :
        /\ reopened(state) \in Projections
        /\ reopened(state).ok =>
             /\ p.ok /\ Closes(p, e, reopened(state)) /\ Opens(e, state, reopened(state))
             /\ reopened(state).approved = p.approved
  <2> SUFFICES ASSUME NEW state \in IntervalStates
               PROVE  /\ reopened(state) \in Projections
                      /\ reopened(state).ok =>
                           /\ p.ok /\ Closes(p, e, reopened(state))
                           /\ Opens(e, state, reopened(state))
                           /\ reopened(state).approved = p.approved
    BY DEF IntervalStates
  <2> QED
    BY OpenAfterClose
<1>5. /\ closed \in Projections
      /\ closed.ok => p.ok /\ Closes(p, e, closed) /\ closed.from = NoStart
                           /\ closed.approved = p.approved
  BY CloseIntervalType
<1>6. CASE e.type \in {"SUBMIT", "REJECT"}
  <2>1. q = p
    BY <1>6 DEF Step, ProjectEvent
  <2> QED
    BY <1>6, <2>1 DEF Effect, Kept, Approves
<1>7. CASE e.type = "APPROVE"
  <2>1. q = IF ApprovalMatches(Adjudication, e) THEN [p EXCEPT !.approved = TRUE] ELSE Refuse(p)
    BY <1>7 DEF Step, ProjectEvent
  <2> HIDE DEF q
  <2>2. CASE ApprovalMatches(Adjudication, e)
    <3>1. q = [p EXCEPT !.approved = TRUE]
      BY <2>1, <2>2
    <3>2. q \in Projections /\ q.ok = p.ok /\ Kept(p, q)
      BY <3>1 DEF Kept, Projections
    <3> QED
      BY <1>7, <2>2, <3>2 DEF Effect, Approves, q
  <2>3. CASE ~ApprovalMatches(Adjudication, e)
    BY <1>2, <2>1, <2>3 DEF q
  <2> QED
    BY <2>2, <2>3
<1> HIDE DEF opened, reopened, closed
<1>8. CASE e.type = "ACTIVATE"
  <2>1. q = IF p.approved THEN opened("active") ELSE Refuse(p)
    BY <1>8 DEF Step, ProjectEvent, opened
  <2> HIDE DEF q
  <2> QED
    BY <1>2, <1>3, <1>8, <2>1 DEF Effect, Approves, q
<1>9. CASE e.type = "SUSPEND"
  <2>1. q = IF p.state # "active" THEN Refuse(p) ELSE reopened("inactive")
    BY <1>9 DEF Step, ProjectEvent, reopened
  <2> HIDE DEF q
  <2> QED
    BY <1>2, <1>4, <1>9, <2>1 DEF Effect, Approves, q
<1>10. CASE e.type = "REINSTATE"
  <2>1. q = IF p.state # "inactive" THEN Refuse(p) ELSE reopened("active")
    BY <1>10 DEF Step, ProjectEvent, reopened
  <2> HIDE DEF q
  <2> QED
    BY <1>2, <1>4, <1>10, <2>1 DEF Effect, Approves, q
<1>11. CASE e.type = "EXPIRE"
  <2>1. q = IF p.from = NoStart THEN p ELSE closed
    BY <1>11 DEF Step, ProjectEvent, CloseIfOpen, closed
  <2> HIDE DEF q
  <2> QED
    BY <1>5, <1>11, <2>1 DEF Effect, Approves, Kept, q
<1>12. CASE e.type = "REVOKE"
  <2>1. q = IF p.from = NoStart THEN opened("inactive") ELSE reopened("inactive")
    BY <1>12 DEF Step, ProjectEvent, CloseIfOpen, opened, reopened
  <2> HIDE DEF q
  <2> QED
    BY <1>3, <1>4, <1>12, <2>1 DEF Effect, Approves, q
<1> QED
  BY <1>1, <1>6, <1>7, <1>8, <1>9, <1>10, <1>11, <1>12 DEF LifecycleEvents

\* The function the projection loop is written with.
Projects(f, events) ==
  /\ f[0] = NothingProjected
  /\ \A i \in 1..Len(events) : f[i] = Step(f[i - 1], events[i])

ProjectStep(events) == [i \in 1..Len(events) |-> [p \in Projections |-> Step(p, events[i])]]

LEMMA ProjectsAgree ==
  ASSUME NEW s, NEW t, NEW f, NEW g, NEW m \in Nat,
         Len(s) \in Nat, Len(t) \in Nat, m <= Len(s), m <= Len(t),
         Projects(f, s), Projects(g, t), \A i \in 1..m : s[i] = t[i]
  PROVE  \A i \in 0..m : f[i] = g[i]
<1> DEFINE G == {k \in 0..m : f[k] = g[k]}
<1>1. 0 \in G
  BY DEF Projects
<1>2. \A k \in 0..(m - 1) : k \in G => k + 1 \in G
  <2> SUFFICES ASSUME NEW k \in 0..(m - 1), k \in G PROVE k + 1 \in G
    OBVIOUS
  <2>1. k + 1 \in 1..Len(s) /\ k + 1 \in 1..Len(t) /\ k + 1 \in 1..m /\ (k + 1) - 1 = k
    OBVIOUS
  <2> QED
    BY <2>1 DEF Projects
<1>3. \A i \in 0..m : i \in G
  <2> HIDE DEF G
  <2> QED
    BY <1>1, <1>2, Induction
<1> QED
  BY <1>3

\* What the resolver is handed: the intervals closed, and the one still open.
Given(p) ==
  IF p.from = NoStart THEN p.grants ELSE Append(p.grants, OpenGrant(Authorization, p, NoEnd))

LEMMA ProjectionRuns ==
  ASSUME NEW events, NEW cutoff,
         EffectiveEvents(events, Authorization.id, cutoff).events \in Seq(Events)
  PROVE  LET s == EffectiveEvents(events, Authorization.id, cutoff).events
             n == Len(s)
         IN \E f \in [0..n -> Projections] :
              /\ Projects(f, s)
              /\ Projection(events, cutoff).grants = Given(f[n])
              /\ Projection(events, cutoff).ok =>
                   /\ EffectiveEvents(events, Authorization.id, cutoff).ok
                   /\ f[n].ok /\ f[n].approved
<1> DEFINE s == EffectiveEvents(events, Authorization.id, cutoff).events
           n == Len(s)
           step == ProjectStep(s)
           Def(f) == [i \in 0..Len(s) |->
                        IF i = 0 THEN NothingProjected
                        ELSE ProjectEvent(Authorization, Adjudication, f[i - 1], s[i])]
           after == CHOOSE f : f = Def(f)
<1>1. n \in Nat /\ NothingProjected \in Projections /\ \A i \in 1..n : s[i] \in Events
  BY DEF NothingProjected, Projections, IntervalStates, NoStart
<1>2. step \in [1..n -> [Projections -> Projections]]
  BY <1>1, StepEffect DEF ProjectStep
<1>3. Solvable(n, Projections, NothingProjected, step)
  <2> HIDE DEF step, n
  <2> QED
    BY ONLY <1>1, <1>2, Recursion
<1>4. PICK f \in [0..n -> Projections] : Solves(f, n, NothingProjected, step)
  BY <1>3 DEF Solvable
<1>5. Projects(f, s)
  <2>1. \A i \in 1..n : i - 1 \in 0..n /\ f[i - 1] \in Projections
    BY <1>1
  <2>2. \A i \in 1..n : f[i] = Step(f[i - 1], s[i])
    BY <1>4, <2>1 DEF Solves, ProjectStep
  <2> QED
    BY <1>4, <2>2 DEF Solves, Projects
<1>6. f = Def(f)
  <2>1. \A i \in 0..n : f[i] = IF i = 0 THEN NothingProjected
                               ELSE ProjectEvent(Authorization, Adjudication, f[i - 1], s[i])
    <3> SUFFICES ASSUME NEW i \in 0..n
                 PROVE  f[i] = IF i = 0 THEN NothingProjected
                               ELSE ProjectEvent(Authorization, Adjudication, f[i - 1], s[i])
      OBVIOUS
    <3>1. i = 0 \/ i \in 1..n
      BY <1>1
    <3> QED
      BY <3>1, <1>5 DEF Projects, Step
  <2>2. f = [i \in 0..n |-> f[i]]
    OBVIOUS
  <2> QED
    BY <2>1, <2>2
<1>7. after = Def(after)
  BY <1>6
<1>8. Projects(after, s)
  <2> HIDE DEF after
  <2>1. \A i \in 0..n : after[i] = Def(after)[i]
    BY <1>7
  <2>2. \A i \in 1..n : i \in 0..n /\ i # 0
    BY <1>1
  <2>3. \A i \in 1..n : after[i] = Step(after[i - 1], s[i])
    BY <2>1, <2>2 DEF Step
  <2>4. after[0] = NothingProjected
    <3>1. 0 \in 0..n
      BY <1>1
    <3>2. after[0] = Def(after)[0]
      BY ONLY <2>1, <3>1
    <3> QED
      BY ONLY <3>1, <3>2
  <2> QED
    BY <2>3, <2>4 DEF Projects
<1>9. after[n] = f[n]
  <2> HIDE DEF after
  <2> QED
    BY <1>1, <1>5, <1>8, ProjectsAgree
<1>10. /\ Projection(events, cutoff).grants = Given(after[n])
       /\ Projection(events, cutoff).ok =>
            /\ EffectiveEvents(events, Authorization.id, cutoff).ok
            /\ after[n].ok /\ after[n].approved
  BY DEF Projection, ProjectAuthorityGrants, ProjectEvents, Given
<1> HIDE DEF after
<1> QED
  BY <1>5, <1>9, <1>10

-----------------------------------------------------------------------------
(* Authority rests on an approval                                           *)

LEMMA ApprovalAmongEvents ==
  ASSUME NEW s \in Seq(Events), NEW f \in [0..Len(s) -> Projections], Projects(f, s)
  PROVE  f[Len(s)].ok /\ f[Len(s)].approved =>
           \E i \in 1..Len(s) : s[i].type = "APPROVE" /\ ApprovalMatches(Adjudication, s[i])
<1> DEFINE n == Len(s)
           found == \E i \in 1..n : s[i].type = "APPROVE" /\ ApprovalMatches(Adjudication, s[i])
           G == {k \in 0..n : f[k].ok /\ f[k].approved => found}
<1>1. n \in Nat
  OBVIOUS
<1>2. 0 \in G
  BY <1>1 DEF Projects, NothingProjected
<1>3. \A k \in 0..(n - 1) : k \in G => k + 1 \in G
  <2> SUFFICES ASSUME NEW k \in 0..(n - 1), k \in G, f[k + 1].ok, f[k + 1].approved PROVE found
    BY <1>1
  <2>1. k + 1 \in 1..n /\ (k + 1) - 1 = k /\ k \in 0..n
    BY <1>1
  <2>2. f[k] \in Projections /\ s[k + 1] \in Events /\ f[k + 1] = Step(f[k], s[k + 1])
    BY <2>1 DEF Projects
  <2>3. f[k].ok /\ Approves(f[k], s[k + 1], f[k + 1])
    BY <2>2, StepEffect
  <2> QED
    BY <2>1, <2>3 DEF Approves
<1>4. \A k \in 0..n : k \in G
  <2> HIDE DEF G, n
  <2> QED
    BY <1>1, <1>2, <1>3, Induction
<1>5. n \in G
  BY <1>1, <1>4
<1> QED
  BY <1>5

\* Instants are authorized only if the journal holds an approval signed by the
\* adjudication's own decision maker on the adjudication's evidence, recorded no
\* earlier than the adjudication (projection.go:115-123, 182-188).
THEOREM AuthorityRestsOnApproval == Spec => []AuthorizedOnlyWhenAdjudicated
<1>1. JournalInv => AuthorizedOnlyWhenAdjudicated
  <2> DEFINE effective == EffectiveEvents(journal, Authorization.id, Horizon)
             s == effective.events
  <2> SUFFICES ASSUME JournalInv, Projection(journal, Horizon).ok
               PROVE  \E k \in DOMAIN journal : /\ journal[k].type = "APPROVE"
                                                /\ journal[k].actor = Adjudication.maker
                                                /\ journal[k].evidenceRef = Adjudication.evidenceRef
                                                /\ journal[k].recordedAt >= Adjudication.recordedAt
    BY DEF AuthorizedOnlyWhenAdjudicated
  <2>1. /\ s \in Seq(Events)
        /\ \A i \in 1..Len(s) : \E k \in 1..Len(journal) :
             /\ s[i].type = journal[k].type /\ s[i].actor = journal[k].actor
             /\ s[i].evidenceRef = journal[k].evidenceRef
             /\ s[i].recordedAt = journal[k].recordedAt
    BY EffectiveFrom DEF JournalInv
  <2>2. PICK f \in [0..Len(s) -> Projections] :
               Projects(f, s) /\ f[Len(s)].ok /\ f[Len(s)].approved
    BY <2>1, ProjectionRuns
  <2> HIDE DEF s
  <2>3. PICK i \in 1..Len(s) : s[i].type = "APPROVE" /\ ApprovalMatches(Adjudication, s[i])
    BY <2>1, <2>2, ApprovalAmongEvents
  <2>4. PICK k \in 1..Len(journal) : /\ s[i].type = journal[k].type
                                     /\ s[i].actor = journal[k].actor
                                     /\ s[i].evidenceRef = journal[k].evidenceRef
                                     /\ s[i].recordedAt = journal[k].recordedAt
    BY <2>1
  <2>5. DOMAIN journal = 1..Len(journal) /\ journal[k] \in Events
    BY DEF JournalInv, Recorded
  <2> QED
    BY <2>3, <2>4, <2>5 DEF ApprovalMatches
<1> QED
  BY <1>1, JournalInvariant, PTL

-----------------------------------------------------------------------------
(* No instant under two grants                                              *)

\* Stored times are a microsecond apart.
LEMMA CanonicalGap ==
  ASSUME NEW a \in Nat, NEW b \in Nat, Canonical(a), Canonical(b), a < b
  PROVE  a + Microsecond <= b
<1> DEFINE M == Microsecond
           q == a \div M
           r == b \div M
<1>1. M \in Nat /\ M > 0
  BY MicrosecondAssumption
<1>2. /\ q \in Int /\ r \in Int /\ a = M * q /\ b = M * r
  <2>1. a % M = 0 /\ b % M = 0
    BY DEF Canonical
  <2> HIDE DEF M
  <2> QED
    BY <1>1, <2>1
<1> HIDE DEF M, q, r
<1>3. q < r
  BY <1>1, <1>2
<1>4. q + 1 <= r
  BY <1>2, <1>3
<1>5. M * (q + 1) <= M * r
  BY <1>1, <1>2, <1>4
<1>6. M * (q + 1) = M * q + M
  BY <1>1, <1>2
<1> QED
  BY <1>1, <1>2, <1>5, <1>6 DEF M

\* The intervals closed end one before the next begins, before a time, and
\* before the interval still open.
Closed(grants, time) ==
  /\ \A i \in 1..Len(grants) : 0 < grants[i].until /\ grants[i].until < time
  /\ \A i \in 1..Len(grants) : \A k \in 1..(i - 1) : grants[k].until < grants[i].from

Tidy(p, time) ==
  /\ p.from # NoStart => Canonical(p.from) /\ p.from <= time /\ Closed(p.grants, p.from)
  /\ Closed(p.grants, time)

LEMMA GrantTypes ==
  ASSUME NEW g \in Grants
  PROVE  g.from \in Nat /\ g.until \in Int /\ g.state \in IntervalStates
BY DEF Grants

LEMMA ClosedLater ==
  ASSUME NEW grants \in Seq(Grants), NEW time \in Nat, NEW later \in Nat,
         Closed(grants, time), time <= later
  PROVE  Closed(grants, later)
<1>1. \A i \in 1..Len(grants) : grants[i].until \in Int
  BY GrantTypes
<1> QED
  BY <1>1 DEF Closed

LEMMA ClosedAppend ==
  ASSUME NEW grants \in Seq(Grants), NEW from \in Nat, NEW g \in Grants, NEW time \in Nat,
         Closed(grants, from), g.from = from, 0 < g.until, from <= g.until, g.until < time
  PROVE  Closed(Append(grants, g), time)
<1> DEFINE n == Len(grants)
           longer == Append(grants, g)
<1>1. /\ n \in Nat /\ Len(longer) = n + 1 /\ longer[n + 1] = g
      /\ \A i \in 1..n : longer[i] = grants[i] /\ grants[i] \in Grants
      /\ \A i \in 1..(n + 1) : i \in 1..n \/ i = n + 1
  OBVIOUS
<1>2. \A i \in 1..n : grants[i].until \in Int /\ 0 < grants[i].until /\ grants[i].until < from
  BY <1>1, GrantTypes DEF Closed
<1> HIDE DEF longer
<1>3. g.until \in Int
  BY GrantTypes
<1>4. \A i \in 1..n : grants[i].until < time
  BY <1>2, <1>3
<1>5. \A i \in 1..(n + 1) : 0 < longer[i].until /\ longer[i].until < time
  BY <1>1, <1>2, <1>4
<1>6. \A i \in 1..(n + 1) : \A k \in 1..(i - 1) : longer[k].until < longer[i].from
  <2> SUFFICES ASSUME NEW i \in 1..(n + 1), NEW k \in 1..(i - 1)
               PROVE  longer[k].until < longer[i].from
    OBVIOUS
  <2>1. k \in 1..n
    BY <1>1
  <2>2. CASE i \in 1..n
    BY <1>1, <2>1, <2>2 DEF Closed
  <2>3. CASE i = n + 1
    BY <1>1, <1>2, <2>1, <2>3
  <2> QED
    BY <1>1, <2>2, <2>3
<1> QED
  BY <1>1, <1>5, <1>6 DEF Closed, longer

LEMMA ClosesTidily ==
  ASSUME NEW p \in Projections, NEW e \in Events, NEW q \in Projections, NEW time \in Nat,
         Tidy(p, time), Canonical(e.effectiveAt), Closes(p, e, q)
  PROVE  Closed(q.grants, e.effectiveAt)
<1> DEFINE end == e.effectiveAt
           g == OpenGrant(Authorization, p, end - Microsecond)
<1>1. /\ end \in Nat /\ Microsecond \in Nat /\ Microsecond > 0
      /\ p.from \in Nat /\ p.from > 0 /\ p.from < end
      /\ p.grants \in Seq(Grants) /\ q.grants = Append(p.grants, g)
  BY EventTypes, MicrosecondAssumption, ProjectionTypes DEF Closes, NoStart
<1>2. Canonical(p.from) /\ Closed(p.grants, p.from)
  BY <1>1 DEF Tidy, NoStart
<1>3. p.from + Microsecond <= end
  BY <1>1, <1>2, CanonicalGap
<1>4. g \in Grants
  BY <1>1, OpenGrantType
<1>5. g.from = p.from /\ g.until = end - Microsecond
  BY DEF OpenGrant
<1> HIDE DEF g
<1> QED
  BY <1>1, <1>2, <1>3, <1>4, <1>5, ClosedAppend

LEMMA StepTidy ==
  ASSUME NEW p \in Projections, NEW e \in Events, NEW time \in Nat,
         Tidy(p, time), Canonical(e.effectiveAt), time <= e.effectiveAt, Step(p, e).ok
  PROVE  Tidy(Step(p, e), e.effectiveAt)
<1> DEFINE q == Step(p, e)
           end == e.effectiveAt
<1>1. end \in Nat /\ p.from \in Nat /\ p.grants \in Seq(Grants)
  BY EventTypes, ProjectionTypes
<1>2. q \in Projections /\ Effect(p, e, q)
  BY StepEffect
<1> HIDE DEF q
<1> SUFFICES Tidy(q, end)
  BY DEF q
<1>3. Closed(p.grants, end)
  BY <1>1, ClosedLater DEF Tidy
<1>4. Closes(p, e, q) => Closed(q.grants, end)
  BY <1>2, ClosesTidily
<1>5. end <= end
  BY <1>1
<1>6. CASE Kept(p, q)
  <2>1. p.from # NoStart => p.from <= end
    BY <1>1 DEF Tidy
  <2> QED
    BY <1>3, <1>6, <2>1 DEF Kept, Tidy
<1>7. CASE q.from = end /\ (q.grants = p.grants \/ Closes(p, e, q))
  BY <1>3, <1>4, <1>5, <1>7 DEF Tidy
<1>8. CASE Closes(p, e, q) /\ q.from = NoStart
  BY <1>4, <1>8 DEF Tidy
<1> QED
  BY <1>2, <1>6, <1>7, <1>8 DEF Effect, Opens

\* The effective time of the last of the first k events.
TimeOf(s, k) == IF k = 0 THEN 0 ELSE s[k].effectiveAt

InOrder(s) ==
  /\ s \in Seq(Events)
  /\ \A i \in 1..Len(s) : Canonical(s[i].effectiveAt)
  /\ EffectiveOrder(s)

LEMMA TimeOrder ==
  ASSUME NEW s, InOrder(s), NEW k \in 0..(Len(s) - 1)
  PROVE  /\ k + 1 \in 1..Len(s) /\ (k + 1) - 1 = k /\ k \in 0..Len(s) /\ k + 1 \in 0..Len(s)
         /\ s[k + 1] \in Events /\ Canonical(s[k + 1].effectiveAt)
         /\ TimeOf(s, k) \in Nat /\ TimeOf(s, k + 1) = s[k + 1].effectiveAt
         /\ TimeOf(s, k) <= s[k + 1].effectiveAt
<1>1. s \in Seq(Events) /\ Len(s) \in Nat
  BY DEF InOrder
<1>2. k + 1 \in 1..Len(s) /\ (k + 1) - 1 = k /\ k \in 0..Len(s) /\ k + 1 \in 0..Len(s) /\ k + 1 # 0
  BY <1>1
<1>3. s[k + 1] \in Events /\ Canonical(s[k + 1].effectiveAt) /\ s[k + 1].effectiveAt \in Nat
  BY <1>1, <1>2, EventTypes DEF InOrder
<1>4. CASE k = 0
  BY <1>2, <1>3, <1>4 DEF TimeOf
<1>5. CASE k # 0
  <2>1. k \in 1..(Len(s) - 1) /\ k \in 1..Len(s)
    BY <1>1, <1>5
  <2>2. s[k].effectiveAt <= s[k + 1].effectiveAt
    BY <2>1 DEF InOrder, EffectiveOrder
  <2>3. s[k].effectiveAt \in Nat
    BY <1>1, <2>1, EventTypes
  <2> QED
    BY <1>2, <1>3, <1>5, <2>2, <2>3 DEF TimeOf
<1> QED
  BY <1>4, <1>5

LEMMA TidyThroughout ==
  ASSUME NEW s, InOrder(s), NEW f \in [0..Len(s) -> Projections], Projects(f, s)
  PROVE  \A k \in 0..Len(s) : f[k].ok => Tidy(f[k], TimeOf(s, k))
<1> DEFINE n == Len(s)
           G == {k \in 0..n : f[k].ok => Tidy(f[k], TimeOf(s, k))}
<1>1. n \in Nat
  BY DEF InOrder
<1>2. 0 \in G
  <2>1. f[0] = NothingProjected /\ 0 \in 0..n
    BY <1>1 DEF Projects
  <2>2. Tidy(NothingProjected, 0)
    BY DEF Tidy, NothingProjected, Closed
  <2> QED
    BY <2>1, <2>2 DEF TimeOf
<1>3. \A k \in 0..(n - 1) : k \in G => k + 1 \in G
  <2> SUFFICES ASSUME NEW k \in 0..(n - 1), k \in G, f[k + 1].ok
               PROVE  Tidy(f[k + 1], TimeOf(s, k + 1))
    BY TimeOrder
  <2> DEFINE e == s[k + 1]
  <2>1. /\ k + 1 \in 1..n /\ (k + 1) - 1 = k /\ k \in 0..n
        /\ e \in Events /\ Canonical(e.effectiveAt)
        /\ TimeOf(s, k) \in Nat /\ TimeOf(s, k + 1) = e.effectiveAt
        /\ TimeOf(s, k) <= e.effectiveAt
    BY TimeOrder
  <2>2. f[k] \in Projections /\ f[k + 1] = Step(f[k], e)
    BY <2>1 DEF Projects
  <2>3. Step(f[k], e).ok /\ f[k].ok
    BY <2>1, <2>2, StepEffect
  <2>4. Tidy(f[k], TimeOf(s, k))
    BY <2>3
  <2> HIDE DEF e
  <2>5. Tidy(Step(f[k], e), e.effectiveAt)
    BY <2>1, <2>2, <2>3, <2>4, StepTidy
  <2> QED
    BY <2>1, <2>2, <2>5
<1>4. \A k \in 0..n : k \in G
  <2> HIDE DEF G, n
  <2> QED
    BY <1>1, <1>2, <1>3, Induction
<1> QED
  BY <1>4

\* The effective history of a projection that succeeds.
LEMMA ProjectedInOrder ==
  ASSUME NEW events, Recorded(events), NEW cutoff,
         EffectiveEvents(events, Authorization.id, cutoff).ok
  PROVE  InOrder(EffectiveEvents(events, Authorization.id, cutoff).events)
<1> DEFINE effective == EffectiveEvents(events, Authorization.id, cutoff)
<1>1. EffectiveOrder(effective.events)
  BY DEF EffectiveEvents
<1>2. effective.events \in Seq(Events)
      /\ \A i \in 1..Len(effective.events) : Canonical(effective.events[i].effectiveAt)
  BY EffectiveFrom
<1> HIDE DEF effective
<1>3. InOrder(effective.events)
  BY <1>1, <1>2 DEF InOrder
<1> QED
  BY <1>3 DEF effective

LEMMA GivenTypes ==
  ASSUME NEW p \in Projections
  PROVE  /\ Given(p) \in Seq(Grants)
         /\ \A i \in 1..Len(Given(p)) : Given(p)[i] \in Grants
<1>1. p.grants \in Seq(Grants)
  BY ProjectionTypes
<1>2. OpenGrant(Authorization, p, NoEnd) \in Grants
  BY OpenGrantType DEF NoEnd
<1>3. Given(p) \in Seq(Grants)
  BY <1>1, <1>2 DEF Given
<1> QED
  BY <1>3

LEMMA GrantsListed ==
  ASSUME NEW events, Recorded(events), NEW cutoff
  PROVE  Projection(events, cutoff).grants \in Seq(Grants)
<1> DEFINE s == EffectiveEvents(events, Authorization.id, cutoff).events
<1>1. s \in Seq(Events)
  BY EffectiveFrom
<1>2. PICK f \in [0..Len(s) -> Projections] : Projection(events, cutoff).grants = Given(f[Len(s)])
  BY <1>1, ProjectionRuns
<1> HIDE DEF s
<1>3. f[Len(s)] \in Projections
  BY <1>1
<1> QED
  BY <1>2, <1>3, GivenTypes

LEMMA GrantsApart ==
  ASSUME NEW p \in Projections, NEW time \in Nat, Tidy(p, time), NEW now \in Nat,
         NEW i \in 1..Len(Given(p)), NEW k \in 1..(i - 1),
         GrantCurrent(Given(p)[i], now), GrantCurrent(Given(p)[k], now)
  PROVE  FALSE
<1> DEFINE n == Len(p.grants)
           g == OpenGrant(Authorization, p, NoEnd)
<1>1. p.grants \in Seq(Grants) /\ n \in Nat /\ p.from \in Nat /\ g \in Grants
  BY ProjectionTypes, OpenGrantType DEF NoEnd
<1>2. g.from = p.from
  BY DEF OpenGrant
<1>3. \A j \in 1..n : p.grants[j].until \in Int /\ p.grants[j].from \in Nat
  BY <1>1, GrantTypes
<1>4. \/ Given(p) = p.grants
      \/ p.from # NoStart /\ Given(p) = Append(p.grants, g)
  BY DEF Given
<1> HIDE DEF g
<1>5. /\ k \in 1..n /\ Given(p)[k] = p.grants[k]
      /\ \/ i \in 1..n /\ Given(p)[i] = p.grants[i]
         \/ p.from # NoStart /\ Given(p)[i] = g
  <2>1. CASE Given(p) = p.grants
    BY <1>1, <2>1
  <2>2. CASE p.from # NoStart /\ Given(p) = Append(p.grants, g)
    <3>1. /\ Len(Given(p)) = n + 1 /\ Given(p)[n + 1] = g
          /\ \A j \in 1..n : Given(p)[j] = p.grants[j]
      BY <1>1, <2>2
    <3>2. k \in 1..n /\ (i \in 1..n \/ i = n + 1)
      BY <1>1, <3>1
    <3> QED
      BY <2>2, <3>1, <3>2
  <2> QED
    BY <1>4, <2>1, <2>2
<1>6. 0 < p.grants[k].until /\ now <= p.grants[k].until
  BY <1>5 DEF Tidy, Closed, GrantCurrent, NoEnd
<1>7. CASE i \in 1..n /\ Given(p)[i] = p.grants[i]
  <2>1. p.grants[k].until < p.grants[i].from /\ p.grants[i].from <= now
    BY <1>7 DEF Tidy, Closed, GrantCurrent
  <2> QED
    BY <1>3, <1>5, <1>6, <1>7, <2>1
<1>8. CASE p.from # NoStart /\ Given(p)[i] = g
  <2>1. p.grants[k].until < p.from /\ p.from <= now
    BY <1>2, <1>5, <1>8 DEF Tidy, Closed, GrantCurrent
  <2> QED
    BY <1>1, <1>3, <1>5, <1>6, <2>1
<1> QED
  BY <1>5, <1>7, <1>8

\* No instant lies in two grants of the authorization, whatever suspensions and
\* reinstatements cut its validity into intervals (projection.go:134-168).
THEOREM GrantsDisjoint == Spec => []OneGrantAtATime
<1>1. JournalInv => OneGrantAtATime
  <2> SUFFICES ASSUME JournalInv, NEW cutoff \in RecordedTimes, Projection(journal, cutoff).ok,
                      NEW now \in Instants
               PROVE  Cardinality({i \in DOMAIN Projection(journal, cutoff).grants :
                         GrantCurrent(Projection(journal, cutoff).grants[i], now)}) <= 1
    BY DEF OneGrantAtATime
  <2> DEFINE effective == EffectiveEvents(journal, Authorization.id, cutoff)
             s == effective.events
             grants == Projection(journal, cutoff).grants
             current == {i \in DOMAIN grants : GrantCurrent(grants[i], now)}
  <2>1. s \in Seq(Events)
    BY EffectiveFrom DEF JournalInv
  <2>2. PICK f \in [0..Len(s) -> Projections] :
               Projects(f, s) /\ f[Len(s)].ok /\ grants = Given(f[Len(s)]) /\ effective.ok
    BY <2>1, ProjectionRuns
  <2>3. InOrder(s)
    BY <2>2, ProjectedInOrder DEF JournalInv
  <2> HIDE DEF effective, s, grants
  <2>4. Len(s) \in 0..Len(s)
    BY <2>1
  <2> DEFINE p == f[Len(s)]
             time == TimeOf(s, Len(s))
  <2>5. p \in Projections /\ Tidy(p, time)
    BY <2>2, <2>3, <2>4, TidyThroughout
  <2>6. time \in Nat
    BY <2>1, <2>4, EventTypes DEF TimeOf
  <2>7. now \in Nat
    BY HorizonBound DEF Instants
  <2>8. grants \in Seq(Grants) /\ DOMAIN grants = 1..Len(grants) /\ Len(grants) \in Nat
    BY <2>2, <2>5, GivenTypes
  <2> HIDE DEF p, time
  <2>9. \A i, k \in current : i = k
    <3> SUFFICES ASSUME NEW i \in current, NEW k \in current, k < i PROVE FALSE
      BY <2>8
    <3>1. i \in 1..Len(Given(p)) /\ k \in 1..(i - 1)
      BY <2>2, <2>8 DEF p
    <3>2. GrantCurrent(Given(p)[i], now) /\ GrantCurrent(Given(p)[k], now)
      BY <2>2 DEF p
    <3> QED
      BY <2>5, <2>6, <2>7, <3>1, <3>2, GrantsApart
  <2> HIDE DEF current
  <2>10. current = {} \/ \E i \in current : current = {i}
    BY <2>9
  <2>11. Cardinality(current) \in {0, 1}
    BY <2>10, FS_EmptySet, FS_Singleton
  <2> QED
    BY <2>11 DEF current, grants
<1> QED
  BY <1>1, JournalInvariant, PTL

-----------------------------------------------------------------------------
(* The evaluator's answer                                                   *)

\* A grant in a state is in force at an instant.
Covered(grants, now, state) ==
  \E i \in 1..Len(grants) : GrantCurrent(grants[i], now) /\ grants[i].state = state

LEMMA DecisionByCover ==
  ASSUME NEW projection, projection.grants \in Seq(Grants), NEW now
  PROVE  Decision(projection, now) =
           IF Covered(projection.grants, now, "active") THEN "AUTHORIZED"
           ELSE IF Covered(projection.grants, now, "inactive") THEN "UNAUTHORIZED"
           ELSE "REVIEW"
<1> DEFINE grants == projection.grants
           I == {i \in DOMAIN grants : /\ grants[i].issuer = Evidence.issuer
                                       /\ grants[i].claim = Evidence.claim}
<1>1. \A i \in 1..Len(grants) : /\ grants[i].issuer = Evidence.issuer
                                /\ grants[i].claim = Evidence.claim
                                /\ MatchesAuthorityScope(Evidence, grants[i])
  <2> SUFFICES ASSUME NEW i \in 1..Len(grants)
               PROVE  /\ grants[i].issuer = Evidence.issuer
                      /\ grants[i].claim = Evidence.claim
                      /\ MatchesAuthorityScope(Evidence, grants[i])
    OBVIOUS
  <2>1. grants[i] \in Grants
    OBVIOUS
  <2> QED
    BY <2>1 DEF Grants, Evidence, MatchesAuthorityScope
<1>2. DOMAIN grants = 1..Len(grants)
  OBVIOUS
<1>3. \A i \in 1..Len(grants) : i \in I
  BY <1>1, <1>2
<1>4. ResolveAuthorityGrants(grants, Evidence.issuer, Evidence.claim) = Pick(grants, I)
  BY DEF ResolveAuthorityGrants
<1> HIDE DEF I, grants
<1>5. Pick(grants, I) = grants
  BY <1>3, PickAll DEF grants
<1>6. Decision(projection, now) = Evaluate(Evidence, grants, now)
  BY <1>4, <1>5 DEF Decision, grants
<1>7. {i \in DOMAIN grants : MatchesAuthorityScope(Evidence, grants[i]) /\ GrantCurrent(grants[i], now)}
        = {i \in 1..Len(grants) : GrantCurrent(grants[i], now)}
  BY <1>1, <1>2
<1>8. Evaluate(Evidence, grants, now) =
           IF Covered(grants, now, "active") THEN "AUTHORIZED"
           ELSE IF Covered(grants, now, "inactive") THEN "UNAUTHORIZED"
           ELSE "REVIEW"
  BY <1>7 DEF Evaluate, Covered
<1> QED
  BY <1>6, <1>8 DEF grants

LEMMA CoveredAppend ==
  ASSUME NEW grants \in Seq(Grants), NEW g \in Grants, NEW now, NEW state
  PROVE  Covered(Append(grants, g), now, state)
           <=> Covered(grants, now, state) \/ (GrantCurrent(g, now) /\ g.state = state)
<1> DEFINE n == Len(grants)
           longer == Append(grants, g)
<1>1. /\ n \in Nat /\ Len(longer) = n + 1 /\ longer[n + 1] = g
      /\ \A i \in 1..n : longer[i] = grants[i] /\ i \in 1..(n + 1)
      /\ n + 1 \in 1..(n + 1)
      /\ \A i \in 1..(n + 1) : i \in 1..n \/ i = n + 1
  OBVIOUS
<1> HIDE DEF longer
<1>2. Covered(longer, now, state) => Covered(grants, now, state) \/ (GrantCurrent(g, now) /\ g.state = state)
  BY <1>1 DEF Covered
<1>3. Covered(grants, now, state) => Covered(longer, now, state)
  BY <1>1 DEF Covered
<1>4. GrantCurrent(g, now) /\ g.state = state => Covered(longer, now, state)
  BY <1>1 DEF Covered
<1> QED
  BY <1>2, <1>3, <1>4 DEF longer

\* The interval still open covers every instant from its start.
LEMMA CoveredGiven ==
  ASSUME NEW p \in Projections, NEW now \in Nat, NEW state
  PROVE  Covered(Given(p), now, state)
           <=> \/ Covered(p.grants, now, state)
               \/ p.from # NoStart /\ p.from <= now /\ p.state = state
<1> DEFINE g == OpenGrant(Authorization, p, NoEnd)
<1>1. p.grants \in Seq(Grants) /\ g \in Grants
  BY ProjectionTypes, OpenGrantType DEF NoEnd
<1>2. GrantCurrent(g, now) /\ g.state = state <=> p.from <= now /\ p.state = state
  BY DEF OpenGrant, GrantCurrent
<1> HIDE DEF g
<1>3. CASE p.from = NoStart
  BY <1>3 DEF Given
<1>4. CASE p.from # NoStart
  <2>1. Given(p) = Append(p.grants, g)
    BY <1>4 DEF Given, g
  <2> QED
    BY <1>1, <1>2, <1>4, <2>1, CoveredAppend
<1> QED
  BY <1>3, <1>4

\* Past the last event only the interval still open is in force.
LEMMA CoveredAfter ==
  ASSUME NEW p \in Projections, NEW time \in Nat, Tidy(p, time),
         NEW now \in Nat, time <= now, NEW state
  PROVE  Covered(Given(p), now, state) <=> p.from # NoStart /\ p.state = state
<1>1. p.grants \in Seq(Grants) /\ p.from \in Nat
  BY ProjectionTypes
<1>2. ~Covered(p.grants, now, state)
  <2> SUFFICES ASSUME NEW i \in 1..Len(p.grants), GrantCurrent(p.grants[i], now) PROVE FALSE
    BY DEF Covered
  <2>1. p.grants[i].until \in Int
    BY <1>1, GrantTypes
  <2>2. 0 < p.grants[i].until /\ p.grants[i].until < time
    BY DEF Tidy, Closed
  <2> QED
    BY <2>1, <2>2 DEF GrantCurrent, NoEnd
<1>3. p.from # NoStart => p.from <= now
  BY <1>1 DEF Tidy
<1> QED
  BY <1>2, <1>3, CoveredGiven

LEMMA ClosesCover ==
  ASSUME NEW p \in Projections, NEW e \in Events, NEW q, NEW time \in Nat,
         Tidy(p, time), Canonical(e.effectiveAt), Closes(p, e, q),
         NEW now \in Nat, now < e.effectiveAt, NEW state
  PROVE  /\ Covered(q.grants, now, state) => Covered(Given(p), now, state)
         /\ Canonical(now) => (Covered(Given(p), now, state) => Covered(q.grants, now, state))
<1> DEFINE end == e.effectiveAt
           g == OpenGrant(Authorization, p, end - Microsecond)
           current == GrantCurrent(g, now) /\ g.state = state
           open == p.from <= now /\ p.state = state
<1>1. /\ end \in Nat /\ Microsecond \in Nat /\ Microsecond > 0
      /\ p.from \in Nat /\ p.from > 0 /\ p.from < end /\ p.from # NoStart
      /\ p.grants \in Seq(Grants) /\ q.grants = Append(p.grants, g)
  BY EventTypes, MicrosecondAssumption, ProjectionTypes DEF Closes, NoStart
<1>2. g \in Grants
  BY <1>1, OpenGrantType
<1>3. g.from = p.from /\ g.until = end - Microsecond /\ g.state = p.state
  BY DEF OpenGrant
<1>4. p.from + Microsecond <= end
  BY <1>1, CanonicalGap DEF Tidy
<1>5. Canonical(now) => now + Microsecond <= end
  BY <1>1, CanonicalGap
<1>6. end - Microsecond # 0
  BY <1>1, <1>4
<1> HIDE DEF g
<1>7. current => open
  BY <1>3 DEF GrantCurrent
<1>8. Canonical(now) /\ open => current
  BY <1>1, <1>3, <1>5 DEF GrantCurrent
<1>9. Covered(q.grants, now, state) <=> Covered(p.grants, now, state) \/ current
  BY <1>1, <1>2, CoveredAppend
<1>10. Covered(Given(p), now, state) <=> Covered(p.grants, now, state) \/ open
  BY <1>1, CoveredGiven
<1> HIDE DEF current, open
<1> QED
  BY <1>7, <1>8, <1>9, <1>10

\* An event takes nothing from the instants before it, but for what lies inside
\* the last microsecond, and gives them nothing.
LEMMA StepKeepsEarlier ==
  ASSUME NEW p \in Projections, NEW e \in Events, NEW time \in Nat,
         Tidy(p, time), Canonical(e.effectiveAt), Step(p, e).ok,
         NEW now \in Nat, now < e.effectiveAt, NEW state
  PROVE  /\ Covered(Given(Step(p, e)), now, state) => Covered(Given(p), now, state)
         /\ Canonical(now) =>
              (Covered(Given(p), now, state) => Covered(Given(Step(p, e)), now, state))
<1> DEFINE q == Step(p, e)
           Keeps == /\ Covered(Given(q), now, state) => Covered(Given(p), now, state)
                    /\ Canonical(now) => (Covered(Given(p), now, state) => Covered(Given(q), now, state))
<1>1. q \in Projections /\ Effect(p, e, q)
  BY StepEffect
<1>2. e.effectiveAt \in Nat /\ e.effectiveAt > 0
  BY EventTypes DEF Canonical
<1> HIDE DEF q
<1> SUFFICES Keeps
  BY DEF q
<1>3. Covered(Given(q), now, state)
        <=> \/ Covered(q.grants, now, state)
            \/ q.from # NoStart /\ q.from <= now /\ q.state = state
  BY <1>1, CoveredGiven
<1>4. Covered(Given(p), now, state)
        <=> \/ Covered(p.grants, now, state)
            \/ p.from # NoStart /\ p.from <= now /\ p.state = state
  BY CoveredGiven
<1>5. CASE Kept(p, q)
  BY <1>3, <1>4, <1>5 DEF Kept
<1>6. CASE q.from = e.effectiveAt /\ p.from = NoStart /\ q.grants = p.grants
  <2>1. ~(q.from <= now)
    BY <1>2, <1>6
  <2> QED
    BY <1>3, <1>4, <1>6, <2>1
<1>7. CASE (q.from = e.effectiveAt \/ q.from = NoStart) /\ Closes(p, e, q)
  <2>1. q.from = NoStart \/ ~(q.from <= now)
    BY <1>2, <1>7
  <2>2. Covered(Given(q), now, state) <=> Covered(q.grants, now, state)
    BY <1>3, <2>1
  <2>3. /\ Covered(q.grants, now, state) => Covered(Given(p), now, state)
        /\ Canonical(now) => (Covered(Given(p), now, state) => Covered(q.grants, now, state))
    BY <1>7, ClosesCover
  <2> QED
    BY <2>2, <2>3
<1> QED
  BY <1>1, <1>5, <1>6, <1>7 DEF Effect, Opens

\* The interval a lifecycle state calls for.
Wanted(lifecycle, state) ==
  \/ lifecycle = "ACTIVE" /\ state = "active"
  \/ lifecycle \in {"SUSPENDED", "REVOKED"} /\ state = "inactive"

Agrees(p, lifecycle) ==
  \A state \in {"active", "inactive"} : Wanted(lifecycle, state) <=> p.from # NoStart /\ p.state = state

\* A permitted transition takes the open interval along.
LEMMA StepAgrees ==
  ASSUME NEW p \in Projections, NEW e \in Events, NEW q \in Projections, NEW from, NEW next,
         Agrees(p, from), Effect(p, e, q), Canonical(e.effectiveAt),
         <<from, e.type, next>> \in PermittedTransitions
  PROVE  Agrees(q, next)
<1>1. e.effectiveAt # NoStart
  BY EventTypes DEF Canonical, NoStart
<1>2. CASE e.type \in {"SUBMIT", "APPROVE", "REJECT"}
  <2>1. Kept(p, q) /\ \A state : ~Wanted(from, state) /\ ~Wanted(next, state)
    BY <1>2 DEF Effect, PermittedTransitions, Wanted
  <2> QED
    BY <2>1 DEF Agrees, Kept
<1>3. CASE e.type \in {"ACTIVATE", "REINSTATE"}
  <2>1. next = "ACTIVE" /\ Opens(e, "active", q)
    BY <1>3 DEF Effect, PermittedTransitions
  <2> QED
    BY <1>1, <2>1 DEF Agrees, Wanted, Opens
<1>4. CASE e.type \in {"SUSPEND", "REVOKE"}
  <2>1. next \in {"SUSPENDED", "REVOKED"} /\ Opens(e, "inactive", q)
    BY <1>4 DEF Effect, PermittedTransitions
  <2> QED
    BY <1>1, <2>1 DEF Agrees, Wanted, Opens
<1>5. CASE e.type = "EXPIRE"
  <2>1. next = "EXPIRED" /\ from \in {"ACTIVE", "SUSPENDED"}
    BY <1>5 DEF PermittedTransitions
  <2>2. p.from # NoStart
    BY <2>1 DEF Agrees, Wanted
  <2>3. q.from = NoStart
    BY <1>5, <2>2 DEF Effect
  <2> QED
    BY <2>1, <2>3 DEF Agrees, Wanted
<1> QED
  BY <1>2, <1>3, <1>4, <1>5, EventTypes DEF LifecycleEvents

\* What the grants say of an instant, against the lifecycle state in force there.
Says(p, now, lifecycle) ==
  \A state \in {"active", "inactive"} :
     /\ Covered(Given(p), now, state) => Wanted(lifecycle, state)
     /\ Canonical(now) => (Wanted(lifecycle, state) => Covered(Given(p), now, state))

\* After k events: the interval open is the one the lifecycle state calls for,
\* and the grants tell of an instant what replaying the events up to it does.
InStep(s, f, all, upTo, now, k) ==
  /\ Agrees(f[k], all[k].state)
  /\ TimeOf(s, k) <= now => upTo[k] = all[k]
  /\ Says(f[k], now, upTo[k].state)

LEMMA StepInStep ==
  ASSUME NEW s, InOrder(s),
         NEW f \in [0..Len(s) -> Projections], Projects(f, s),
         NEW all \in [0..Len(s) -> Replays], Runs(all, s, DOMAIN s),
         NEW now \in Nat,
         NEW upTo \in [0..Len(s) -> Replays],
         Runs(upTo, s, {i \in DOMAIN s : s[i].effectiveAt <= now}),
         NEW k \in 0..(Len(s) - 1), f[k + 1].ok, all[k + 1].ok,
         f[k].ok /\ all[k].ok => InStep(s, f, all, upTo, now, k)
  PROVE  InStep(s, f, all, upTo, now, k + 1)
<1> DEFINE e == s[k + 1]
           p == f[k]
           q == f[k + 1]
           past == {i \in DOMAIN s : s[i].effectiveAt <= now}
<1>1. /\ k + 1 \in 1..Len(s) /\ (k + 1) - 1 = k /\ k \in 0..Len(s) /\ k + 1 \in 0..Len(s)
      /\ e \in Events /\ Canonical(e.effectiveAt)
      /\ TimeOf(s, k) \in Nat /\ TimeOf(s, k + 1) = e.effectiveAt
      /\ TimeOf(s, k) <= e.effectiveAt
  BY TimeOrder
<1>2. DOMAIN s = 1..Len(s)
  BY DEF InOrder
<1>3. p \in Projections /\ q \in Projections /\ q = Step(p, e)
  BY <1>1 DEF Projects
<1>4. p.ok /\ Effect(p, e, q)
  BY <1>1, <1>3, StepEffect
<1>5. /\ all[k] \in Replays /\ upTo[k] \in Replays
      /\ all[k + 1] = ReplayStep(e)[all[k]]
      /\ upTo[k + 1] = IF e.effectiveAt <= now THEN ReplayStep(e)[upTo[k]] ELSE upTo[k]
  <2>1. k + 1 \in past <=> e.effectiveAt <= now
    BY <1>1, <1>2
  <2> QED
    BY <1>1, <1>2, <2>1 DEF Runs
<1>6. all[k].ok /\ <<all[k].state, e.type, all[k + 1].state>> \in PermittedTransitions
  BY <1>1, <1>5, ReplayStepValue
<1>7. InStep(s, f, all, upTo, now, k)
  BY <1>4, <1>6
<1>8. Agrees(p, all[k].state) /\ Says(p, now, upTo[k].state)
      /\ (TimeOf(s, k) <= now => upTo[k] = all[k])
  BY <1>7 DEF InStep
<1>9. Tidy(p, TimeOf(s, k)) /\ Tidy(q, e.effectiveAt)
  BY <1>1, <1>4, TidyThroughout
<1>10. e.effectiveAt \in Nat
  BY <1>1, EventTypes
<1> HIDE DEF e, p, q
<1>11. Agrees(q, all[k + 1].state)
  BY <1>1, <1>3, <1>4, <1>6, <1>8, StepAgrees
<1>12. CASE e.effectiveAt <= now
  <2>1. upTo[k + 1] = all[k + 1]
    BY <1>1, <1>5, <1>8, <1>10, <1>12
  <2>2. \A state : Covered(Given(q), now, state) <=> q.from # NoStart /\ q.state = state
    BY <1>3, <1>9, <1>10, <1>12, CoveredAfter
  <2>3. Says(q, now, upTo[k + 1].state)
    BY <1>11, <2>1, <2>2 DEF Says, Agrees
  <2> QED
    BY <1>11, <2>1, <2>3 DEF InStep, q
<1>13. CASE ~(e.effectiveAt <= now)
  <2>1. now < e.effectiveAt
    BY <1>10, <1>13
  <2>2. \A state : /\ Covered(Given(q), now, state) => Covered(Given(p), now, state)
                   /\ Canonical(now) =>
                        (Covered(Given(p), now, state) => Covered(Given(q), now, state))
    BY <1>1, <1>3, <1>9, <2>1, StepKeepsEarlier DEF q
  <2>3. Says(q, now, upTo[k + 1].state)
    BY <1>5, <1>8, <1>13, <2>2 DEF Says
  <2> QED
    BY <1>1, <1>11, <1>13, <2>3 DEF InStep, q
<1> QED
  BY <1>12, <1>13

LEMMA SaysThroughout ==
  ASSUME NEW s, InOrder(s), Replay(s, DOMAIN s).ok,
         NEW f \in [0..Len(s) -> Projections], Projects(f, s), f[Len(s)].ok,
         NEW now \in Nat
  PROVE  Says(f[Len(s)], now, Replay(s, {i \in DOMAIN s : s[i].effectiveAt <= now}).state)
<1> DEFINE n == Len(s)
           past == {i \in DOMAIN s : s[i].effectiveAt <= now}
<1>1. s \in Seq(Events) /\ n \in Nat
  BY DEF InOrder
<1>2. PICK all \in [0..n -> Replays] : Runs(all, s, DOMAIN s) /\ Replay(s, DOMAIN s) = all[n]
  BY <1>1, ReplayRuns
<1>3. PICK upTo \in [0..n -> Replays] : Runs(upTo, s, past) /\ Replay(s, past) = upTo[n]
  <2> HIDE DEF past
  <2> QED
    BY <1>1, ReplayRuns
<1> DEFINE G == {k \in 0..n : f[k].ok /\ all[k].ok => InStep(s, f, all, upTo, now, k)}
<1>4. 0 \in G
  <2>1. f[0] = NothingProjected /\ all[0] = [state |-> "REQUESTED", ok |-> TRUE] /\ upTo[0] = all[0]
    BY <1>2, <1>3 DEF Projects, Runs
  <2>2. all[0].state = "REQUESTED" /\ upTo[0].state = "REQUESTED"
    BY <2>1
  <2>3. NothingProjected.from = NoStart /\ NothingProjected.grants = <<>>
    BY DEF NothingProjected
  <2>4. \A state : ~Covered(Given(f[0]), now, state)
    BY <2>1, <2>3 DEF Given, Covered
  <2>5. \A state : ~Wanted("REQUESTED", state)
    BY DEF Wanted
  <2>6. Agrees(f[0], all[0].state)
    BY <2>1, <2>2, <2>3, <2>5 DEF Agrees
  <2>7. Says(f[0], now, upTo[0].state)
    BY <2>2, <2>4, <2>5 DEF Says
  <2>8. InStep(s, f, all, upTo, now, 0)
    BY <2>1, <2>6, <2>7 DEF InStep
  <2> QED
    BY <1>1, <2>8
<1>5. \A k \in 0..(n - 1) : k \in G => k + 1 \in G
  <2> SUFFICES ASSUME NEW k \in 0..(n - 1), k \in G, f[k + 1].ok, all[k + 1].ok
               PROVE  InStep(s, f, all, upTo, now, k + 1)
    BY <1>1
  <2>1. f[k].ok /\ all[k].ok => InStep(s, f, all, upTo, now, k)
    OBVIOUS
  <2> QED
    BY <1>2, <1>3, <2>1, StepInStep
<1>6. \A k \in 0..n : k \in G
  <2> HIDE DEF G, n
  <2> QED
    BY <1>1, <1>4, <1>5, Induction
<1>7. n \in G
  BY <1>1, <1>6
<1> QED
  BY <1>2, <1>3, <1>7 DEF InStep

\* Whenever grants can be projected, the evaluator says of every stored instant
\* what the lifecycle says that is in force there, and of an instant between two
\* stored ones that or REVIEW (projection.go:31, evaluator.go:87-100).
THEOREM DecisionsMatchTimeline == Spec => []DecisionMatchesTimeline
<1>1. JournalInv => DecisionMatchesTimeline
  <2> SUFFICES ASSUME JournalInv, NEW cutoff \in RecordedTimes, Projection(journal, cutoff).ok,
                      NEW now \in Instants
               PROVE  LET projection == Projection(journal, cutoff)
                          effective  == EffectiveEvents(journal, Authorization.id, cutoff)
                      IN \/ Decision(projection, now) = TimelineDecision(effective.events, now)
                         \/ ~Canonical(now) /\ Decision(projection, now) = "REVIEW"
    BY DEF DecisionMatchesTimeline
  <2> DEFINE projection == Projection(journal, cutoff)
             effective == EffectiveEvents(journal, Authorization.id, cutoff)
             s == effective.events
             lifecycle == Replay(s, {i \in DOMAIN s : s[i].effectiveAt <= now}).state
  <2>1. s \in Seq(Events)
    BY EffectiveFrom DEF JournalInv
  <2>2. PICK f \in [0..Len(s) -> Projections] :
               /\ Projects(f, s) /\ f[Len(s)].ok
               /\ projection.grants = Given(f[Len(s)]) /\ effective.ok
    BY <2>1, ProjectionRuns
  <2>3. InOrder(s) /\ Replay(s, DOMAIN s).ok
    BY <2>2, ProjectedInOrder DEF JournalInv, EffectiveEvents
  <2>4. now \in Nat
    BY HorizonBound DEF Instants
  <2>5. TimelineDecision(s, now) =
          CASE lifecycle = "ACTIVE"                   -> "AUTHORIZED"
            [] lifecycle \in {"SUSPENDED", "REVOKED"} -> "UNAUTHORIZED"
            [] OTHER                                  -> "REVIEW"
    BY DEF TimelineDecision
  <2> HIDE DEF effective, s, projection
  <2>6. Says(f[Len(s)], now, lifecycle)
    BY <2>2, <2>3, <2>4, SaysThroughout
  <2>7. f[Len(s)] \in Projections
    BY <2>1
  <2>8. Decision(projection, now) =
           IF Covered(projection.grants, now, "active") THEN "AUTHORIZED"
           ELSE IF Covered(projection.grants, now, "inactive") THEN "UNAUTHORIZED"
           ELSE "REVIEW"
    BY <2>2, <2>7, GivenTypes, DecisionByCover
  <2> HIDE DEF lifecycle
  <2>9. /\ Covered(projection.grants, now, "active") => lifecycle = "ACTIVE"
        /\ Covered(projection.grants, now, "inactive") => lifecycle \in {"SUSPENDED", "REVOKED"}
        /\ Canonical(now) /\ lifecycle = "ACTIVE" => Covered(projection.grants, now, "active")
        /\ Canonical(now) /\ lifecycle \in {"SUSPENDED", "REVOKED"} =>
             Covered(projection.grants, now, "inactive")
    BY <2>2, <2>6 DEF Says, Wanted
  <2> QED
    BY <2>5, <2>8, <2>9 DEF projection, s, effective
<1> QED
  BY <1>1, JournalInvariant, PTL

-----------------------------------------------------------------------------
(* Authority that has ended                                                 *)

Terminates(e) == e.type \in {"REVOKE", "EXPIRE"}
Final == {"REVOKED", "EXPIRED"}

\* Effective times do not go back, so the last event's is the latest.
LEMMA LastIsLatest ==
  ASSUME NEW s, InOrder(s)
  PROVE  \A i \in 1..Len(s) : /\ s[i].effectiveAt \in Nat
                              /\ s[i].effectiveAt <= s[Len(s)].effectiveAt
<1> DEFINE n == Len(s)
           G == {j \in 0..n : \A i \in 1..j : s[i].effectiveAt <= s[j].effectiveAt}
<1>1. s \in Seq(Events) /\ n \in Nat /\ \A i \in 1..n : s[i].effectiveAt \in Nat
  BY EventTypes DEF InOrder
<1>2. 0 \in G
  BY <1>1
<1>3. \A j \in 0..(n - 1) : j \in G => j + 1 \in G
  <2> SUFFICES ASSUME NEW j \in 0..(n - 1), j \in G, NEW i \in 1..(j + 1)
               PROVE  s[i].effectiveAt <= s[j + 1].effectiveAt
    BY <1>1
  <2>1. i = j + 1 \/ (i \in 1..j /\ j \in 1..(n - 1))
    BY <1>1
  <2>2. CASE i = j + 1
    BY <1>1, <2>2
  <2>3. CASE i \in 1..j /\ j \in 1..(n - 1)
    <3>1. s[i].effectiveAt <= s[j].effectiveAt
      BY <2>3
    <3>2. s[j].effectiveAt <= s[j + 1].effectiveAt
      BY <2>3 DEF InOrder, EffectiveOrder
    <3>3. /\ s[i].effectiveAt \in Nat /\ s[j].effectiveAt \in Nat
          /\ s[j + 1].effectiveAt \in Nat
      BY <1>1, <2>3
    <3> QED
      BY <3>1, <3>2, <3>3
  <2> QED
    BY <2>1, <2>2, <2>3
<1>4. \A j \in 0..n : j \in G
  <2> HIDE DEF G, n
  <2> QED
    BY <1>1, <1>2, <1>3, Induction
<1>5. n \in G
  BY <1>1, <1>4
<1> QED
  BY <1>1, <1>5

\* Nothing is accepted after a revocation or an expiry.
LEMMA TerminationIsLast ==
  ASSUME NEW s \in Seq(Events), Replay(s, DOMAIN s).ok,
         NEW k \in 1..Len(s), Terminates(s[k])
  PROVE  k = Len(s) /\ Replay(s, DOMAIN s).state \in {"REVOKED", "EXPIRED"}
<1> DEFINE n == Len(s)
<1>1. PICK all \in [0..n -> Replays] : Runs(all, s, DOMAIN s) /\ Replay(s, DOMAIN s) = all[n]
  BY ReplayRuns
<1> DEFINE G == {i \in 0..n : all[i].ok /\ k <= i => i = k /\ all[i].state \in Final}
<1>2. n \in Nat /\ DOMAIN s = 1..n
  OBVIOUS
<1>3. 0 \in G
  BY <1>2
<1>4. \A i \in 0..(n - 1) : i \in G => i + 1 \in G
  <2> SUFFICES ASSUME NEW i \in 0..(n - 1), i \in G, all[i + 1].ok, k <= i + 1
               PROVE  i + 1 = k /\ all[i + 1].state \in Final
    BY <1>2
  <2> DEFINE e == s[i + 1]
  <2>1. /\ i + 1 \in 1..n /\ (i + 1) - 1 = i /\ i \in 0..n /\ i + 1 \in DOMAIN s
        /\ e \in Events /\ all[i] \in Replays
    BY <1>2
  <2>2. all[i + 1] = ReplayStep(e)[all[i]]
    BY <1>1, <2>1 DEF Runs
  <2>3. all[i].ok /\ <<all[i].state, e.type, all[i + 1].state>> \in PermittedTransitions
    BY <2>1, <2>2, ReplayStepValue
  <2>4. all[i].state \notin Final
    BY <2>3 DEF PermittedTransitions, Final
  <2>5. ~(k <= i)
    BY <2>3, <2>4
  <2>6. k = i + 1
    BY <2>5
  <2>7. Terminates(e)
    BY <2>6
  <2>8. all[i + 1].state \in Final
    BY <2>3, <2>7 DEF PermittedTransitions, Final, Terminates
  <2> QED
    BY <2>6, <2>8
<1>5. \A i \in 0..n : i \in G
  <2> HIDE DEF G, n
  <2> QED
    BY <1>2, <1>3, <1>4, Induction
<1>6. n \in 0..n /\ k <= n
  BY <1>2
<1>7. n \in G
  BY <1>5, <1>6
<1> QED
  BY <1>1, <1>6, <1>7 DEF Final

\* Authority that a revocation or an expiry has ended never comes back, for journals
\* of any length and any corrections in them: the event is the last of the effective
\* history, so the timeline is in a final state from its time on.
THEOREM TerminationAlwaysFinal == Spec => []TerminationIsFinal
<1>1. JournalInv /\ DecisionMatchesTimeline => TerminationIsFinal
  <2> SUFFICES ASSUME JournalInv, DecisionMatchesTimeline, NEW cutoff \in RecordedTimes,
                      Projection(journal, cutoff).ok,
                      NEW k \in DOMAIN EffectiveEvents(journal, Authorization.id, cutoff).events,
                      Terminates(EffectiveEvents(journal, Authorization.id, cutoff).events[k]),
                      NEW now \in Instants,
                      EffectiveEvents(journal, Authorization.id, cutoff).events[k].effectiveAt <= now
               PROVE  Decision(Projection(journal, cutoff), now) # "AUTHORIZED"
    BY DEF TerminationIsFinal, Terminates
  <2> DEFINE projection == Projection(journal, cutoff)
             effective == EffectiveEvents(journal, Authorization.id, cutoff)
             s == effective.events
             past == {i \in DOMAIN s : s[i].effectiveAt <= now}
  <2>1. s \in Seq(Events)
    BY EffectiveFrom DEF JournalInv
  <2>2. effective.ok
    BY <2>1, ProjectionRuns
  <2>3. InOrder(s) /\ Replay(s, DOMAIN s).ok
    BY <2>2, ProjectedInOrder DEF JournalInv, EffectiveEvents
  <2>4. \/ Decision(projection, now) = TimelineDecision(s, now)
        \/ Decision(projection, now) = "REVIEW"
    BY DEF DecisionMatchesTimeline
  <2>5. k \in 1..Len(s) /\ Terminates(s[k]) /\ s[k].effectiveAt <= now
    BY <2>1
  <2>6. now \in Nat
    BY HorizonBound DEF Instants
  <2>7. TimelineDecision(s, now) =
          CASE Replay(s, past).state = "ACTIVE"                   -> "AUTHORIZED"
            [] Replay(s, past).state \in {"SUSPENDED", "REVOKED"} -> "UNAUTHORIZED"
            [] OTHER                                              -> "REVIEW"
    BY DEF TimelineDecision
  <2> HIDE DEF s, effective, projection
  <2>8. k = Len(s) /\ Replay(s, DOMAIN s).state \in {"REVOKED", "EXPIRED"}
    BY <2>1, <2>3, <2>5, TerminationIsLast
  <2>9. past = DOMAIN s
    <3>1. \A i \in 1..Len(s) : s[i].effectiveAt \in Nat /\ s[i].effectiveAt <= s[Len(s)].effectiveAt
      BY <2>3, LastIsLatest
    <3>2. DOMAIN s = 1..Len(s)
      BY <2>1
    <3>3. s[Len(s)].effectiveAt \in Nat /\ s[Len(s)].effectiveAt <= now
      BY <2>5, <2>8, <3>1
    <3>4. \A i \in DOMAIN s : s[i].effectiveAt <= now
      BY <2>6, <3>1, <3>2, <3>3
    <3> QED
      BY <3>4
  <2> HIDE DEF past
  <2>10. TimelineDecision(s, now) \in {"UNAUTHORIZED", "REVIEW"}
    BY <2>7, <2>8, <2>9
  <2> QED
    BY <2>4, <2>10 DEF projection
<1> QED
  BY <1>1, JournalInvariant, DecisionsMatchTimeline, PTL

-----------------------------------------------------------------------------
(* Later events                                                             *)

\* By the cutoff everything recorded up to it is known.
LEMMA KnownBy ==
  ASSUME NEW events \in Seq(Events), NEW cutoff \in Nat,
         \A i \in 1..Len(events) : events[i].recordedAt <= cutoff
  PROVE  KnownEvents(events, Authorization.id, cutoff) = events
<1> DEFINE late == {i \in DOMAIN events : events[i].recordedAt > cutoff}
           I == {i \in DOMAIN events : events[i].auth = Authorization.id /\ \A j \in late : i < j}
<1>1. DOMAIN events = 1..Len(events) /\ \A i \in 1..Len(events) : events[i] \in Events
  OBVIOUS
<1>2. late = {}
  <2> SUFFICES ASSUME NEW i \in 1..Len(events) PROVE ~(events[i].recordedAt > cutoff)
    BY <1>1
  <2>1. events[i].recordedAt \in Nat
    BY <1>1, EventTypes
  <2> QED
    BY <2>1
<1>3. \A i \in 1..Len(events) : i \in I
  BY <1>1, <1>2, EventTypes
<1>4. KnownEvents(events, Authorization.id, cutoff) = Pick(events, I)
  BY DEF KnownEvents
<1> HIDE DEF I
<1> QED
  BY <1>3, <1>4, PickAll

LEMMA KnownByHorizon ==
  ASSUME NEW events \in Seq(Events)
  PROVE  KnownEvents(events, Authorization.id, Horizon) = events
<1>1. \A i \in 1..Len(events) : events[i].recordedAt <= Horizon
  <2> SUFFICES ASSUME NEW i \in 1..Len(events) PROVE events[i].recordedAt <= Horizon
    OBVIOUS
  <2>1. events[i] \in Events
    OBVIOUS
  <2>2. events[i].recordedAt \in Nat /\ events[i].recordedAt < Horizon /\ Horizon \in Nat
    BY <2>1, EventTypes, HorizonBound
  <2> QED
    BY <2>2
<1> QED
  BY <1>1, KnownBy, HorizonBound

\* The events of the history before corrections.
Originals(events) == Pick(events, {i \in DOMAIN events : ~IsCorrection(events[i])})

LEMMA EffectiveByHorizon ==
  ASSUME NEW events \in Seq(Events)
  PROVE  /\ Originals(events) \in Seq(Events)
         /\ EffectiveEvents(events, Authorization.id, Horizon).events
              = [i \in 1..Len(Originals(events)) |-> Amended(events, Originals(events)[i])]
<1>1. Originals(events) \in Seq(Events)
  BY PickType DEF Originals
<1>2. DOMAIN Originals(events) = 1..Len(Originals(events))
  BY <1>1
<1>3. EffectiveEvents(events, Authorization.id, Horizon).events
        = [i \in DOMAIN Originals(events) |-> Amended(events, Originals(events)[i])]
  BY KnownByHorizon DEF EffectiveEvents, Originals
<1> QED
  BY <1>1, <1>2, <1>3

LEMMA OriginalsAppend ==
  ASSUME NEW events \in Seq(Events), NEW e \in Events, ~IsCorrection(e)
  PROVE  Originals(Append(events, e)) = Append(Originals(events), e)
<1> DEFINE n == Len(events)
           longer == Append(events, e)
           I == {i \in DOMAIN events : ~IsCorrection(events[i])}
           J == {i \in DOMAIN longer : ~IsCorrection(longer[i])}
<1>1. /\ n \in Nat /\ DOMAIN events = 1..n /\ DOMAIN longer = 1..(n + 1)
      /\ longer[n + 1] = e /\ \A i \in 1..n : longer[i] = events[i]
  OBVIOUS
<1>2. n + 1 \in J /\ \A i \in 1..n : i \in J <=> i \in I
  BY <1>1
<1>3. Originals(longer) = Pick(longer, J) /\ Originals(events) = Pick(events, I)
  BY DEF Originals
<1> HIDE DEF I, J
<1>4. Pick(longer, J) = Append(Pick(events, J), e)
  BY <1>2, PickAppend
<1>5. Pick(events, J) = Pick(events, I)
  BY <1>2, PickSame
<1> QED
  BY <1>3, <1>4, <1>5

\* A lifecycle event accepted amends nothing and is itself amended by nothing.
LEMMA AmendedAppend ==
  ASSUME NEW events, Recorded(events), NEW e \in Events, Accepts(events, e), ~IsCorrection(e)
  PROVE  /\ \A o \in Events : Amended(Append(events, e), o) = Amended(events, o)
         /\ Amended(Append(events, e), e) = e
<1> DEFINE n == Len(events)
           longer == Append(events, e)
<1>1. /\ events \in Seq(Events) /\ n \in Nat /\ DOMAIN events = 1..n
      /\ DOMAIN longer = 1..(n + 1) /\ Len(longer) = n + 1
      /\ longer[n + 1] = e /\ \A i \in 1..n : longer[i] = events[i]
      /\ longer \in Seq(Events)
  BY DEF Recorded
<1>2. Recorded(longer)
  BY AppendRecorded
<1> HIDE DEF longer
<1>3. ASSUME NEW o \in Events PROVE Amended(longer, o) = Amended(events, o)
  <2> DEFINE old == {i \in DOMAIN events : events[i].corrects = o.id}
             new == {i \in DOMAIN longer : longer[i].corrects = o.id}
  <2>1. o.id \in Nat /\ e.corrects = NoEvent /\ NoEvent \notin Nat
    BY JournalAssumption, EventTypes DEF IsCorrection
  <2>2. n + 1 \notin new /\ \A i \in 1..n : i \in new <=> i \in old
    BY <1>1, <2>1
  <2>3. new = old /\ old \subseteq 1..n
    BY <1>1, <2>2
  <2>4. CASE old = {}
    BY <2>3, <2>4 DEF Amended
  <2>5. CASE old # {}
    <3> DEFINE i == CHOOSE i \in old : TRUE
    <3>1. i \in 1..n
      BY <2>3, <2>5
    <3>2. Amended(events, o) = [o EXCEPT !.effectiveAt = events[i].effectiveAt]
      BY <2>5 DEF Amended
    <3>3. Amended(longer, o) = [o EXCEPT !.effectiveAt = longer[i].effectiveAt]
      BY <2>3, <2>5 DEF Amended
    <3> HIDE DEF i
    <3> QED
      BY <1>1, <3>1, <3>2, <3>3
  <2> QED
    BY <2>4, <2>5
<1>4. Amended(longer, e) = e
  <2>1. ASSUME NEW i \in 1..(n + 1), longer[i].corrects = e.id PROVE FALSE
    <3>1. e.id \in Nat /\ NoEvent \notin Nat
      BY JournalAssumption, EventTypes
    <3>2. IsCorrection(longer[i])
      BY <2>1, <3>1 DEF IsCorrection
    <3>3. PICK k \in 1..(i - 1) : longer[k].id = longer[i].corrects
      BY <1>1, <1>2, <3>2 DEF Recorded
    <3>4. k \in 1..((n + 1) - 1) /\ n + 1 \in 1..Len(longer)
      BY <1>1
    <3>5. longer[k].id # longer[n + 1].id
      BY <1>2, <3>4 DEF Recorded
    <3> QED
      BY <1>1, <2>1, <3>3, <3>5
  <2>2. {i \in DOMAIN longer : longer[i].corrects = e.id} = {}
    BY <1>1, <2>1
  <2> QED
    BY <2>2 DEF Amended
<1> QED
  BY <1>3, <1>4 DEF longer

LEMMA EffectiveAppend ==
  ASSUME NEW events, Recorded(events), NEW e \in Events, Accepts(events, e), ~IsCorrection(e)
  PROVE  EffectiveEvents(Append(events, e), Authorization.id, Horizon).events
           = Append(EffectiveEvents(events, Authorization.id, Horizon).events, e)
<1> DEFINE longer == Append(events, e)
           o == Originals(events)
           m == Len(o)
           s == EffectiveEvents(events, Authorization.id, Horizon).events
           t == EffectiveEvents(longer, Authorization.id, Horizon).events
<1>1. events \in Seq(Events) /\ longer \in Seq(Events)
  BY DEF Recorded
<1>2. /\ o \in Seq(Events) /\ s = [i \in 1..m |-> Amended(events, o[i])]
  BY <1>1, EffectiveByHorizon
<1>3. t = [i \in 1..Len(Originals(longer)) |-> Amended(longer, Originals(longer)[i])]
  BY <1>1, EffectiveByHorizon
<1>4. Originals(longer) = Append(o, e)
  BY <1>1, OriginalsAppend
<1>5. /\ \A x \in Events : Amended(longer, x) = Amended(events, x)
      /\ Amended(longer, e) = e
  BY AmendedAppend
<1> HIDE DEF longer, o, s, t
<1>6. /\ m \in Nat /\ Len(Append(o, e)) = m + 1 /\ Append(o, e)[m + 1] = e
      /\ \A i \in 1..m : Append(o, e)[i] = o[i] /\ o[i] \in Events
  BY <1>2
<1>7. t = [i \in 1..(m + 1) |-> Amended(longer, Append(o, e)[i])]
  BY <1>3, <1>4, <1>6
<1>8. t = [i \in 1..(m + 1) |-> IF i <= m THEN Amended(events, o[i]) ELSE e]
  <2>1. \A i \in 1..(m + 1) :
          Amended(longer, Append(o, e)[i]) = IF i <= m THEN Amended(events, o[i]) ELSE e
    <3> SUFFICES ASSUME NEW i \in 1..(m + 1)
                 PROVE  Amended(longer, Append(o, e)[i]) = IF i <= m THEN Amended(events, o[i]) ELSE e
      OBVIOUS
    <3>1. CASE i \in 1..m
      BY <1>5, <1>6, <3>1
    <3>2. CASE i = m + 1
      BY <1>5, <1>6, <3>2
    <3> QED
      BY <1>6, <3>1, <3>2
  <2> QED
    BY <1>7, <2>1
<1>9. \A i \in 1..m : Amended(events, o[i]) \in Events
  BY <1>1, <1>6, AmendedEvent
<1>10. s \in Seq(Events) /\ Len(s) = m
  BY <1>2, <1>6, <1>9
<1>11. t = Append(s, e)
  BY <1>2, <1>6, <1>8, <1>10
<1> QED
  BY <1>11 DEF longer, s, t

LEMMA ProjectsAppend ==
  ASSUME NEW s \in Seq(Events), NEW e \in Events,
         NEW f \in [0..Len(s) -> Projections], Projects(f, s),
         NEW g \in [0..Len(Append(s, e)) -> Projections], Projects(g, Append(s, e))
  PROVE  g[Len(Append(s, e))] = Step(f[Len(s)], e)
<1> DEFINE t == Append(s, e)
           m == Len(s)
<1>1. /\ m \in Nat /\ m <= Len(s) /\ m <= Len(t) /\ Len(s) \in Nat /\ Len(t) \in Nat
      /\ Len(t) = m + 1 /\ t[m + 1] = e
  OBVIOUS
<1>2. \A i \in 1..m : s[i] = t[i]
  OBVIOUS
<1>3. Projects(f, s) /\ Projects(g, t)
  OBVIOUS
<1> HIDE DEF t, m
<1>4. \A i \in 0..m : f[i] = g[i]
  BY ONLY <1>1, <1>2, <1>3, ProjectsAgree
<1>5. m + 1 \in 1..Len(t) /\ (m + 1) - 1 = m /\ m \in 0..m
  BY <1>1
<1>6. g[m + 1] = Step(g[m], t[m + 1])
  BY <1>3, <1>5 DEF Projects
<1>7. g[m + 1] = Step(f[m], e)
  BY <1>1, <1>4, <1>5, <1>6
<1> QED
  BY <1>1, <1>7 DEF t, m

\* A lifecycle event accepted leaves the evaluator's answer on every stored
\* instant before its effective time as it was (projection.go:124-126).
THEOREM EarlierAuthorityKept == Spec => LaterEventsKeepEarlierAuthority
<1> DEFINE Keeps ==
      LET e      == Last(journal')
          before == Projection(journal, Horizon)
          after  == Projection(journal', Horizon)
      IN (~IsCorrection(e) /\ before.ok /\ after.ok) =>
           \A now \in Instants : now < e.effectiveAt /\ Canonical(now) =>
              Decision(after, now) = Decision(before, now)
<1>1. ASSUME JournalInv, Next PROVE Keeps
  <2>1. PICK e \in Events : Accepts(journal, e) /\ journal' = Append(journal, e)
    BY <1>1, StepAppends
  <2>2. Recorded(journal) /\ journal \in Seq(Events)
    BY <1>1 DEF JournalInv, Recorded
  <2>3. Last(journal') = e
    BY <2>1, <2>2 DEF Last
  <2> DEFINE longer == Append(journal, e)
             before == Projection(journal, Horizon)
             after == Projection(longer, Horizon)
             s == EffectiveEvents(journal, Authorization.id, Horizon).events
             t == EffectiveEvents(longer, Authorization.id, Horizon).events
  <2> SUFFICES ASSUME ~IsCorrection(e), before.ok, after.ok,
                      NEW now \in Instants, now < e.effectiveAt, Canonical(now)
               PROVE  Decision(after, now) = Decision(before, now)
    BY <2>1, <2>3
  <2>4. Recorded(longer)
    BY <2>1, <2>2, AppendRecorded
  <2>5. s \in Seq(Events) /\ t \in Seq(Events)
    BY <2>2, <2>4, EffectiveFrom
  <2>6. t = Append(s, e)
    BY <2>1, <2>2, EffectiveAppend
  <2>7. PICK f \in [0..Len(s) -> Projections] :
               /\ Projects(f, s) /\ f[Len(s)].ok /\ before.grants = Given(f[Len(s)])
               /\ EffectiveEvents(journal, Authorization.id, Horizon).ok
    BY <2>5, ProjectionRuns
  <2>8. PICK g \in [0..Len(t) -> Projections] :
               Projects(g, t) /\ g[Len(t)].ok /\ after.grants = Given(g[Len(t)])
    BY <2>5, ProjectionRuns
  <2>9. InOrder(s)
    BY <2>2, <2>7, ProjectedInOrder
  <2> HIDE DEF s, t, before, after, longer
  <2>10. Len(s) \in 0..Len(s) /\ Len(t) \in 0..Len(t)
    BY <2>5
  <2> DEFINE p == f[Len(s)]
             time == TimeOf(s, Len(s))
  <2>11. p \in Projections /\ Tidy(p, time)
    BY <2>7, <2>9, <2>10, TidyThroughout
  <2>12. time \in Nat
    BY <2>5, <2>10, EventTypes DEF TimeOf
  <2>13. g[Len(t)] = Step(p, e) /\ g[Len(t)] \in Projections
    BY <2>5, <2>6, <2>7, <2>8, <2>10, ProjectsAppend
  <2>14. now \in Nat
    BY HorizonBound DEF Instants
  <2>15. Canonical(e.effectiveAt)
    BY <2>1 DEF Accepts
  <2> HIDE DEF p, time
  <2>16. \A state : Covered(Given(Step(p, e)), now, state) <=> Covered(Given(p), now, state)
    BY <2>8, <2>11, <2>12, <2>13, <2>14, <2>15, StepKeepsEarlier
  <2>17. \A state : Covered(after.grants, now, state) <=> Covered(before.grants, now, state)
    BY <2>7, <2>8, <2>13, <2>16 DEF p
  <2>18. before.grants \in Seq(Grants) /\ after.grants \in Seq(Grants)
    BY <2>7, <2>8, <2>11, <2>13, GivenTypes DEF p
  <2>19. /\ Decision(before, now) =
              IF Covered(before.grants, now, "active") THEN "AUTHORIZED"
              ELSE IF Covered(before.grants, now, "inactive") THEN "UNAUTHORIZED"
              ELSE "REVIEW"
         /\ Decision(after, now) =
              IF Covered(after.grants, now, "active") THEN "AUTHORIZED"
              ELSE IF Covered(after.grants, now, "inactive") THEN "UNAUTHORIZED"
              ELSE "REVIEW"
    BY <2>18, DecisionByCover
  <2> QED
    BY <2>17, <2>19
<1>2. JournalInv /\ [Next]_journal => [Keeps]_journal
  <2> HIDE DEF Keeps
  <2> QED
    BY <1>1
<1> QED
  BY <1>2, JournalInvariant, PTL DEF Spec, LaterEventsKeepEarlierAuthority

-----------------------------------------------------------------------------
(* A revocation                                                             *)

Among(x, s) == \E j \in 1..Len(s) : s[j] = x

\* What is to be picked is among what is picked.
LEMMA PickKeeps ==
  ASSUME NEW E, NEW s \in Seq(E), NEW I, NEW k \in 1..Len(s), k \in I
  PROVE  Among(s[k], Pick(s, I))
<1>1. PICK f \in [0..Len(s) -> Seq(E)] : Picks(f, s, I) /\ Pick(s, I) = f[Len(s)]
  BY PickRuns
<1> DEFINE n == Len(s)
           G == {m \in 0..n : k <= m => \E j \in 1..Len(f[m]) : f[m][j] = s[k]}
<1>2. 0 \in G
  OBVIOUS
<1>3. \A m \in 0..(n - 1) : m \in G => m + 1 \in G
  <2> SUFFICES ASSUME NEW m \in 0..(n - 1), m \in G, k <= m + 1
               PROVE  \E j \in 1..Len(f[m + 1]) : f[m + 1][j] = s[k]
    OBVIOUS
  <2>1. m + 1 \in 1..n /\ (m + 1) - 1 = m /\ m \in 0..n /\ f[m] \in Seq(E) /\ s[m + 1] \in E
    OBVIOUS
  <2>2. f[m + 1] = IF m + 1 \in I THEN Append(f[m], s[m + 1]) ELSE f[m]
    BY <1>1, <2>1 DEF Picks
  <2>3. CASE k = m + 1
    <3>1. f[m + 1] = Append(f[m], s[k])
      BY <2>2, <2>3
    <3>2. Len(f[m]) + 1 \in 1..Len(f[m + 1]) /\ f[m + 1][Len(f[m]) + 1] = s[k]
      BY <2>1, <2>3, <3>1
    <3> QED
      BY <3>2
  <2>4. CASE k # m + 1
    <3>0. k <= m
      BY <2>4
    <3>1. PICK j \in 1..Len(f[m]) : f[m][j] = s[k]
      BY <3>0
    <3>2. j \in 1..Len(f[m + 1]) /\ f[m + 1][j] = f[m][j]
      BY <2>1, <2>2, <3>1
    <3> QED
      BY <3>1, <3>2
  <2> QED
    BY <2>3, <2>4
<1>4. \A m \in 0..n : m \in G
  <2> HIDE DEF G
  <2>1. n \in Nat
    OBVIOUS
  <2> HIDE DEF n
  <2> QED
    BY <2>1, <1>2, <1>3, Induction
<1>5. n \in G
  BY <1>4
<1> QED
  BY <1>1, <1>5 DEF Among

\* A recorded event that is no correction and has none is in force as it was recorded.
LEMMA UncorrectedInForce ==
  ASSUME NEW events, Recorded(events), NEW cutoff \in Nat,
         \A i \in 1..Len(events) : events[i].recordedAt <= cutoff,
         NEW k \in 1..Len(events), ~IsCorrection(events[k]),
         \A i \in 1..Len(events) : events[i].corrects # events[k].id
  PROVE  LET effective == EffectiveEvents(events, Authorization.id, cutoff).events
         IN \E i \in 1..Len(effective) : effective[i] = events[k]
<1> DEFINE o == Originals(events)
           effective == EffectiveEvents(events, Authorization.id, cutoff).events
           I == {i \in DOMAIN events : ~IsCorrection(events[i])}
<1>1. events \in Seq(Events) /\ DOMAIN events = 1..Len(events)
  BY DEF Recorded
<1>2. KnownEvents(events, Authorization.id, cutoff) = events
  BY <1>1, KnownBy
<1>3. effective = [i \in DOMAIN o |-> Amended(events, o[i])]
  BY <1>2 DEF EffectiveEvents, Originals
<1>4. o = Pick(events, I) /\ k \in I
  BY <1>1 DEF Originals
<1> HIDE DEF o, I, effective
<1>5. o \in Seq(Events)
  BY <1>1, <1>4, PickType
<1>6. PICK j \in 1..Len(o) : o[j] = events[k]
  <2>1. Among(events[k], o)
    BY <1>1, <1>4, PickKeeps
  <2> QED
    BY <2>1 DEF Among
<1>7. Amended(events, events[k]) = events[k]
  <2>1. {i \in DOMAIN events : events[i].corrects = events[k].id} = {}
    BY <1>1
  <2> QED
    BY <2>1 DEF Amended
<1>8. DOMAIN o = 1..Len(o) /\ Len(o) \in Nat
  BY <1>5
<1>9. Len(effective) = Len(o) /\ effective[j] = events[k]
  BY <1>3, <1>6, <1>7, <1>8
<1> QED
  BY <1>6, <1>9 DEF effective

\* Events each of which Append accepts after those before it.
LEMMA AcceptedRecorded ==
  ASSUME NEW events \in Seq(Events),
         \A i \in 1..Len(events) : Accepts(SubSeq(events, 1, i - 1), events[i])
  PROVE  Recorded(events)
<1> DEFINE n == Len(events)
           upTo(i) == SubSeq(events, 1, i)
           G == {i \in 0..n : Recorded(upTo(i))}
<1>1. n \in Nat
  OBVIOUS
<1>2. 0 \in G
  <2>1. upTo(0) = <<>>
    OBVIOUS
  <2>2. Recorded(<<>>)
    BY DEF Recorded
  <2> HIDE DEF upTo, n
  <2> QED
    BY <1>1, <2>1, <2>2
<1>3. \A i \in 0..(n - 1) : i \in G => i + 1 \in G
  <2> SUFFICES ASSUME NEW i \in 0..(n - 1), Recorded(upTo(i)) PROVE Recorded(upTo(i + 1))
    BY <1>1
  <2>1. i + 1 \in 1..n /\ (i + 1) - 1 = i /\ events[i + 1] \in Events
    BY <1>1
  <2>2. upTo(i + 1) = Append(upTo(i), events[i + 1])
    OBVIOUS
  <2>3. Accepts(upTo(i), events[i + 1])
    BY <2>1
  <2> HIDE DEF upTo
  <2> QED
    BY <2>1, <2>2, <2>3, AppendRecorded
<1>4. \A i \in 0..n : i \in G
  <2> HIDE DEF G, n
  <2> QED
    BY <1>1, <1>2, <1>3, Induction
<1>5. n \in 0..n
  BY <1>1
<1>6. Recorded(upTo(n))
  BY <1>4, <1>5
<1>7. upTo(n) = events
  OBVIOUS
<1> QED
  BY <1>6, <1>7

\* From the instant a revocation takes effect on, the only grant in force withholds
\* the authority.
LEMMA RevocationEndsAuthority ==
  ASSUME NEW events, Recorded(events), NEW cutoff \in Nat, Projection(events, cutoff).ok,
         \A i \in 1..Len(events) : events[i].recordedAt <= cutoff,
         NEW k \in 1..Len(events), events[k].type = "REVOKE", ~IsCorrection(events[k]),
         \A i \in 1..Len(events) : events[i].corrects # events[k].id,
         NEW now \in Nat, events[k].effectiveAt <= now
  PROVE  LET grants == Projection(events, cutoff).grants
         IN \A i \in 1..Len(grants) : GrantCurrent(grants[i], now) => grants[i].state = "inactive"
<1> DEFINE effective == EffectiveEvents(events, Authorization.id, cutoff)
           s == effective.events
           n == Len(s)
<1>1. s \in Seq(Events)
  BY EffectiveFrom
<1>2. PICK f \in [0..n -> Projections] :
             /\ Projects(f, s) /\ f[n].ok
             /\ Projection(events, cutoff).grants = Given(f[n]) /\ effective.ok
  BY <1>1, ProjectionRuns
<1>3. InOrder(s) /\ Replay(s, DOMAIN s).ok
  BY <1>2, ProjectedInOrder DEF EffectiveEvents
<1>4. PICK m \in 1..n : s[m] = events[k]
  BY UncorrectedInForce
<1> HIDE DEF effective, s
<1>5. m = n
  BY <1>1, <1>3, <1>4, TerminationIsLast DEF Terminates
<1> DEFINE e == s[n]
           p == f[n]
           before == f[n - 1]
           g == OpenGrant(Authorization, p, NoEnd)
<1>6. /\ n \in 1..n /\ n - 1 \in 0..(n - 1) /\ n \in 0..n /\ n - 1 \in 0..n /\ n # 0
      /\ e \in Events /\ e.type = "REVOKE" /\ e.effectiveAt <= now /\ Canonical(e.effectiveAt)
  BY <1>1, <1>3, <1>4, <1>5 DEF InOrder
<1>7. p \in Projections /\ before \in Projections /\ p = Step(before, e)
  BY <1>2, <1>6 DEF Projects
<1>8. p.from = e.effectiveAt /\ p.state = "inactive"
  BY <1>2, <1>6, <1>7, StepEffect DEF Effect, Opens
<1>9. Closed(p.grants, e.effectiveAt)
  <2>1. Tidy(p, TimeOf(s, n))
    BY <1>2, <1>3, <1>6, TidyThroughout
  <2> QED
    BY <1>6, <2>1 DEF Tidy, TimeOf
<1>10. p.from # NoStart /\ e.effectiveAt \in Nat
  BY <1>6, <1>8, EventTypes DEF Canonical, NoStart
<1>11. p.grants \in Seq(Grants) /\ g.state = "inactive"
  BY <1>7, <1>8, ProjectionTypes DEF OpenGrant
<1>12. Projection(events, cutoff).grants = Append(p.grants, g)
  BY <1>2, <1>10 DEF Given
<1> HIDE DEF g, p, e
<1>13. ASSUME NEW i \in 1..Len(Append(p.grants, g)), GrantCurrent(Append(p.grants, g)[i], now)
       PROVE  Append(p.grants, g)[i].state = "inactive"
  <2>1. CASE i \in 1..Len(p.grants)
    <3>1. Append(p.grants, g)[i] = p.grants[i] /\ p.grants[i] \in Grants
      BY <1>11, <2>1
    <3>2. p.grants[i].until \in Int /\ 0 < p.grants[i].until /\ p.grants[i].until < e.effectiveAt
      BY <1>9, <2>1, <3>1, GrantTypes DEF Closed
    <3>3. p.grants[i].until # 0 /\ ~(now <= p.grants[i].until)
      BY <1>6, <1>10, <3>2
    <3>4. GrantCurrent(p.grants[i], now)
      BY <1>13, <3>1
    <3> QED
      BY ONLY <3>3, <3>4 DEF GrantCurrent, NoEnd
  <2>2. CASE i = Len(p.grants) + 1
    BY <1>11, <2>2
  <2>3. Len(Append(p.grants, g)) = Len(p.grants) + 1 /\ Len(p.grants) \in Nat
    BY <1>11
  <2> QED
    BY <2>1, <2>2, <2>3
<1> QED
  BY <1>12, <1>13

==============================================================================
