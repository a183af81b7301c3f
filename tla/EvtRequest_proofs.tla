--------------------------- MODULE EvtRequest_proofs ---------------------------
(***************************************************************************)
(* The life of employment verification requests, for any connections,      *)
(* requests and employers.  The inductive invariant has two halves: what a *)
(* committed row and its events say of each other (Consistent), and what a *)
(* transaction that has written relies on: the row it started from is      *)
(* still the committed one, because it holds its lock or because no row    *)
(* has its id yet (Locked, Pending, Apart).                                *)
(***************************************************************************)
EXTENDS EvtRequest, FiniteSetTheorems, TLAPS

EventTypes == {"DRAFT_CREATED", "DRAFT_UPDATED", "REQUEST_SUBMITTED",
               "ATTESTATION_DISPATCHED", "DISPATCH_GUARD_BLOCKED", "REQUEST_CANCELED",
               "HR_ATTESTED", "TRUST_EVALUATED", "TOKEN_CONSUMED", "REQUEST_CLOSED"}

Details == (1..MaxUpdates) \cup Reviewers \cup TrustResults \cup {Null}

Events == [type : EventTypes, from : Statuses \cup {Null}, to : Statuses, detail : Details]

-----------------------------------------------------------------------------
(* Rows and their events                                                    *)

\* Each event starts from the status the one before it reached.
Chained(log) == \A i \in 2..Len(log) : log[i].from = log[i - 1].to

\* Among the events exactly one, or none, has the type.
OneOf(log, type) == \E k \in 1..Len(log) : \A i \in 1..Len(log) : log[i].type = type <=> i = k
NoneOf(log, type) == \A i \in 1..Len(log) : log[i].type # type

Historic(row, log) ==
  /\ Len(log) > 0 /\ log[1].type = "DRAFT_CREATED"
  /\ log[Len(log)].to = row.status
  /\ Chained(log)

\* Updates directly follow the creation, each made against the version it names.
Drafted(row, log) ==
  /\ row.status = "DRAFT" =>
       row.version = Len(log) /\ \A i \in 2..Len(log) : log[i].type = "DRAFT_UPDATED"
  /\ \A i \in 1..Len(log) : log[i].type = "DRAFT_UPDATED" =>
       log[i].detail = i - 1 /\ \A j \in 2..i : log[j].type = "DRAFT_UPDATED"

Signed(row, log) == row.jws /\ row.response \in Matches /\ OneOf(log, "HR_ATTESTED")

\* What a status says of the answer and of the evaluation.
Judged(row, log) ==
  /\ row.status \in {"DRAFT", "SUBMITTED", "ATTESTATION_PENDING"} =>
       NoneOf(log, "HR_ATTESTED") /\ NoneOf(log, "TRUST_EVALUATED")
  /\ row.status = "REJECTED" => ~row.jws
  /\ row.status = "ATTESTED" => Signed(row, log) /\ NoneOf(log, "TRUST_EVALUATED")
  /\ row.status \in {"VERIFIED", "UNVERIFIED", "CONSUMED", "CLOSED"} =>
       /\ Signed(row, log) /\ OneOf(log, "TRUST_EVALUATED") /\ row.trust # Null
  /\ row.status = "VERIFIED" => row.trust \in {"VERIFIED", "VERIFIED_WITH_FLAGS"}
  /\ row.status = "UNVERIFIED" => row.trust = "UNVERIFIED"

Consistent(row, log) ==
  /\ row \in Rows /\ log \in Seq(Events)
  /\ Historic(row, log) /\ Drafted(row, log) /\ Judged(row, log)

\* What an operation makes of a row, and the events it adds.
Created(new, log) ==
  /\ new.status = "DRAFT" /\ new.version = 1
  /\ log = <<Event("DRAFT_CREATED", Null, "DRAFT", Null)>>

SameVerdict(old, new) ==
  new.jws = old.jws /\ new.response = old.response /\ new.trust = old.trust

Updated(old, new, log) ==
  /\ old.status = "DRAFT" /\ new.status = "DRAFT" /\ new.version = old.version + 1
  /\ log = <<Event("DRAFT_UPDATED", "DRAFT", "DRAFT", old.version)>>
  /\ SameVerdict(old, new)

Dispatched(old, new, log) ==
  /\ old.status = "DRAFT"
  /\ \E type \in {"ATTESTATION_DISPATCHED", "DISPATCH_GUARD_BLOCKED"} :
       log = <<Event("REQUEST_SUBMITTED", "DRAFT", "SUBMITTED", Null),
               Event(type, "SUBMITTED", new.status, Null)>>
  /\ new.status \in {"SUBMITTED", "ATTESTATION_PENDING"}
  /\ SameVerdict(old, new)

Passed(old, new, log) ==
  /\ <<old.status, new.status>> \in
       {<<"DRAFT", "CANCELED">>, <<"SUBMITTED", "CANCELED">>, <<"VERIFIED", "CONSUMED">>,
        <<"UNVERIFIED", "CONSUMED">>, <<"CONSUMED", "CLOSED">>}
  /\ \E type \in {"REQUEST_CANCELED", "TOKEN_CONSUMED", "REQUEST_CLOSED"} :
       log = <<Event(type, old.status, new.status, Null)>>
  /\ SameVerdict(old, new)

Attested(old, new, log) ==
  /\ old.status = "ATTESTATION_PENDING"
  /\ \/ new.status = "ATTESTED" /\ new.jws /\ new.response \in Matches
     \/ new.status = "REJECTED" /\ ~new.jws
  /\ \E author \in Reviewers :
       log = <<Event("HR_ATTESTED", old.status, new.status, author)>>

Evaluated(old, new, log) ==
  /\ old.status = "ATTESTED"
  /\ new.jws = old.jws /\ new.response = old.response
  /\ \/ new.status = "VERIFIED" /\ new.trust \in {"VERIFIED", "VERIFIED_WITH_FLAGS"}
     \/ new.status = "UNVERIFIED" /\ new.trust = "UNVERIFIED"
  /\ log = <<Event("TRUST_EVALUATED", old.status, new.status, new.trust)>>

Transition(old, new, log) ==
  /\ new.employer = old.employer
  /\ \/ Updated(old, new, log) \/ Dispatched(old, new, log) \/ Passed(old, new, log)
     \/ Attested(old, new, log) \/ Evaluated(old, new, log)
     \/ new = old /\ log = <<>>

-----------------------------------------------------------------------------
(* The inductive invariant                                                  *)

Calls == Attestations \cup CandidateCalls \cup OtherCalls

Types ==
  /\ phase = [c \in Connections |-> phase[c]]
  /\ work = [c \in Connections |-> work[c]]
  /\ call \in [Connections -> Calls \cup {Null}]
  /\ requests \in [Requests -> Rows \cup {Null}]
  /\ events = [r \in Requests |-> events[r]]
  /\ requestLock \in [Requests -> Connections \cup {Null}]

Calling == \A c \in Connections : phase[c] # "idle" =>
  /\ call[c] \in Calls
  /\ phase[c] = "request" => call[c].op \notin {"create", "update"}

Stored == \A r \in Requests :
  \/ requests[r] = Null /\ events[r] = <<>>
  \/ \E row \in Rows, log \in Seq(Events) :
       row = requests[r] /\ log = events[r] /\ Consistent(row, log)

\* A call that has found its request holds the row it found.
Locked == \A c \in Connections :
  phase[c] = "work" /\ call[c].op \notin {"create", "update"} =>
     /\ requests[call[c].request] # Null
     /\ requestLock[call[c].request] = c

\* What a transaction has written follows from the row that is committed still.
Pending == \A c \in Connections : work[c] # Null =>
  /\ phase[c] \in {"ready", "failed", "aborted"} /\ work[c].id \in Requests
  /\ \E old \in Rows \cup {Null}, row \in Rows, log \in Seq(Events) :
       /\ old = requests[work[c].id] /\ row = work[c].row /\ log = work[c].log
       /\ \/ old = Null /\ Created(row, log)
          \/ /\ old # Null /\ Transition(old, row, log)
             /\ requestLock[work[c].id] = c

\* Open transactions have written different requests.
Apart == \A c, d \in Connections :
  work[c] # Null /\ work[d] # Null /\ work[c].id = work[d].id => c = d

RequestInv == Types /\ Calling /\ Stored /\ Locked /\ Pending /\ Apart

-----------------------------------------------------------------------------
(* Lemmas about rows and events                                             *)

LEMMA Concatenated ==
  ASSUME NEW s \in Seq(Events), NEW t \in Seq(Events)
  PROVE  LET u == s \o t
         IN /\ u \in Seq(Events) /\ Len(u) = Len(s) + Len(t)
            /\ Len(s) \in Nat /\ Len(t) \in Nat
            /\ \A i \in 1..Len(s) : u[i] = s[i]
            /\ \A i \in 1..Len(t) : u[Len(s) + i] = t[i]
  OBVIOUS

LEMMA EventTyped ==
  /\ Event("DRAFT_CREATED", Null, "DRAFT", Null) \in Events
  /\ \A type \in EventTypes, from, to \in Statuses, detail \in Details :
       Event(type, from, to, detail) \in Events
  BY DEF Event, Events, EventTypes, Statuses, Details

LEMMA HistoryGrows ==
  ASSUME NEW old, NEW new, NEW log \in Seq(Events), NEW added \in Seq(Events),
         Historic(old, log), Chained(added), Len(added) > 0,
         added[1].from = old.status, added[Len(added)].to = new.status
  PROVE  Historic(new, log \o added)
<1> DEFINE u == log \o added
           n == Len(log)
           m == Len(added)
<1>1. /\ Len(u) = n + m /\ n \in Nat /\ m \in Nat /\ n > 0 /\ m > 0
      /\ \A i \in 1..n : u[i] = log[i]
      /\ \A i \in 1..m : u[n + i] = added[i]
  BY Concatenated DEF Historic
<1> HIDE DEF u, n, m
<1>2. Len(u) > 0 /\ u[1].type = "DRAFT_CREATED"
  BY <1>1 DEF Historic
<1>3. u[Len(u)].to = new.status
  BY <1>1 DEF m
<1>4. Chained(u)
  <2> SUFFICES ASSUME NEW i \in 2..(n + m) PROVE u[i].from = u[i - 1].to
    BY <1>1 DEF Chained
  <2>1. CASE i <= n
    <3>1. i \in 1..n /\ i - 1 \in 1..n /\ i \in 2..n
      BY <1>1, <2>1
    <3>2. log[i].from = log[i - 1].to
      BY <3>1 DEF Historic, Chained, n
    <3> QED
      BY <1>1, <3>1, <3>2
  <2>2. CASE i = n + 1
    <3>1. u[i] = added[1] /\ u[i - 1] = log[n]
      BY <1>1, <2>2
    <3> QED
      BY <3>1 DEF Historic, n
  <2>3. CASE i > n + 1
    <3> DEFINE k == i - n
    <3>1. k \in 2..m /\ k \in 1..m /\ k - 1 \in 1..m /\ i = n + k /\ i - 1 = n + (k - 1)
      BY <1>1, <2>3
    <3>2. added[k].from = added[k - 1].to
      BY <3>1 DEF Chained, m
    <3> QED
      BY <1>1, <3>1, <3>2
  <2> QED
    BY <1>1, <2>1, <2>2, <2>3
<1> QED
  BY <1>2, <1>3, <1>4 DEF Historic, u

LEMMA CountsGrow ==
  ASSUME NEW log \in Seq(Events), NEW added \in Seq(Events), NEW type
  PROVE  /\ NoneOf(log, type) /\ NoneOf(added, type) => NoneOf(log \o added, type)
         /\ NoneOf(log, type) /\ OneOf(added, type) => OneOf(log \o added, type)
         /\ OneOf(log, type) /\ NoneOf(added, type) => OneOf(log \o added, type)
<1> DEFINE u == log \o added
           n == Len(log)
           m == Len(added)
<1>1. /\ Len(u) = n + m /\ n \in Nat /\ m \in Nat
      /\ \A i \in 1..n : u[i] = log[i]
      /\ \A i \in 1..m : u[n + i] = added[i]
  BY Concatenated
<1>2. \A i \in 1..(n + m) : \/ i \in 1..n /\ u[i] = log[i]
                            \/ i \notin 1..n /\ i - n \in 1..m /\ u[i] = added[i - n]
  <2> SUFFICES ASSUME NEW i \in 1..(n + m), i \notin 1..n
               PROVE  i - n \in 1..m /\ u[i] = added[i - n]
    BY <1>1
  <2> DEFINE k == i - n
  <2>1. k \in 1..m /\ n + k = i
    BY <1>1
  <2> HIDE DEF u, k
  <2>2. u[n + k] = added[k]
    BY <1>1, <2>1
  <2> QED
    BY <2>1, <2>2 DEF k
<1> HIDE DEF u, n, m
<1>3. ASSUME NoneOf(log, type), NoneOf(added, type) PROVE NoneOf(u, type)
  <2>1. \A i \in 1..(n + m) : u[i].type # type
    BY <1>2, <1>3 DEF NoneOf, n, m
  <2> QED
    BY <1>1, <2>1 DEF NoneOf
<1>4. ASSUME NoneOf(log, type), OneOf(added, type) PROVE OneOf(u, type)
  <2>1. PICK k \in 1..m : \A i \in 1..m : added[i].type = type <=> i = k
    BY <1>4 DEF OneOf, m
  <2>2. n + k \in 1..(n + m)
    BY <1>1
  <2>3. \A i \in 1..(n + m) : u[i].type = type <=> i = n + k
    <3> SUFFICES ASSUME NEW i \in 1..(n + m) PROVE u[i].type = type <=> i = n + k
      OBVIOUS
    <3>1. CASE i \in 1..n
      BY <1>1, <1>4, <3>1 DEF NoneOf, n
    <3>2. CASE i \notin 1..n
      <4>1. i - n \in 1..m /\ u[i] = added[i - n]
        BY <1>2, <3>2
      <4>2. i - n = k <=> i = n + k
        BY <1>1
      <4> QED
        BY <2>1, <4>1, <4>2
    <3> QED
      BY <3>1, <3>2
  <2>4. \E q \in 1..Len(u) : \A i \in 1..Len(u) : u[i].type = type <=> i = q
    <3>1. Len(u) = n + m
      BY <1>1
    <3> QED
      BY <2>2, <2>3, <3>1
  <2> QED
    BY <2>4 DEF OneOf
<1>5. ASSUME OneOf(log, type), NoneOf(added, type) PROVE OneOf(u, type)
  <2>1. PICK k \in 1..n : \A i \in 1..n : log[i].type = type <=> i = k
    BY <1>5 DEF OneOf, n
  <2>2. k \in 1..(n + m)
    BY <1>1
  <2>3. \A i \in 1..(n + m) : u[i].type = type <=> i = k
    <3> SUFFICES ASSUME NEW i \in 1..(n + m) PROVE u[i].type = type <=> i = k
      OBVIOUS
    <3>1. CASE i \in 1..n
      BY <1>1, <2>1, <3>1
    <3>2. CASE i \notin 1..n
      BY <1>1, <1>2, <1>5, <3>2 DEF NoneOf, m
    <3> QED
      BY <3>1, <3>2
  <2>4. \E q \in 1..Len(u) : \A i \in 1..Len(u) : u[i].type = type <=> i = q
    <3>1. Len(u) = n + m
      BY <1>1
    <3> QED
      BY <2>2, <2>3, <3>1
  <2> QED
    BY <2>4 DEF OneOf
<1> QED
  BY <1>3, <1>4, <1>5 DEF u

LEMMA DraftsGrow ==
  ASSUME NEW old \in Rows, NEW new \in Rows,
         NEW log \in Seq(Events), NEW added \in Seq(Events),
         Historic(old, log), Drafted(old, log),
         \/ /\ old.status = "DRAFT" /\ new.status = "DRAFT"
            /\ new.version = old.version + 1 /\ Len(added) = 1
            /\ added[1].type = "DRAFT_UPDATED" /\ added[1].detail = old.version
         \/ new.status # "DRAFT" /\ NoneOf(added, "DRAFT_UPDATED")
  PROVE  Drafted(new, log \o added)
<1> DEFINE u == log \o added
           n == Len(log)
           m == Len(added)
<1>1. /\ Len(u) = n + m /\ n \in Nat /\ m \in Nat /\ n > 0
      /\ \A i \in 1..n : u[i] = log[i]
      /\ \A i \in 1..m : u[n + i] = added[i]
  BY Concatenated DEF Historic
<1>2. \A i \in 1..(n + m) : \/ i \in 1..n /\ u[i] = log[i]
                            \/ i \notin 1..n /\ i - n \in 1..m /\ u[i] = added[i - n]
  <2> SUFFICES ASSUME NEW i \in 1..(n + m), i \notin 1..n
               PROVE  i - n \in 1..m /\ u[i] = added[i - n]
    BY <1>1
  <2> DEFINE k == i - n
  <2>1. k \in 1..m /\ n + k = i
    BY <1>1
  <2> HIDE DEF u, k
  <2>2. u[n + k] = added[k]
    BY <1>1, <2>1
  <2> QED
    BY <2>1, <2>2 DEF k
<1>3. \A i \in 1..n : log[i].type = "DRAFT_UPDATED" =>
        log[i].detail = i - 1 /\ \A j \in 2..i : log[j].type = "DRAFT_UPDATED"
  BY DEF Drafted, n
<1>4. old.status = "DRAFT" =>
        old.version = n /\ \A i \in 2..n : log[i].type = "DRAFT_UPDATED"
  BY DEF Drafted, n
<1> HIDE DEF u, n, m
<1>5. \A i \in 1..n : u[i].type = "DRAFT_UPDATED" =>
        u[i].detail = i - 1 /\ \A j \in 2..i : u[j].type = "DRAFT_UPDATED"
  BY <1>1, <1>3
<1>6. CASE new.status = "DRAFT"
  <2>1. /\ m = 1 /\ new.version = n + 1 /\ u[n + 1] = added[1]
        /\ u[n + 1].type = "DRAFT_UPDATED" /\ u[n + 1].detail = n
        /\ \A i \in 2..n : u[i].type = "DRAFT_UPDATED"
    <3>1. /\ old.status = "DRAFT" /\ new.version = old.version + 1 /\ m = 1
          /\ added[1].type = "DRAFT_UPDATED" /\ added[1].detail = old.version
      BY <1>6 DEF m
    <3>2. old.version = n /\ \A i \in 2..n : log[i].type = "DRAFT_UPDATED"
      BY <1>4, <3>1
    <3>3. u[n + 1] = added[1]
      BY <1>1, <3>1
    <3>4. \A i \in 2..n : u[i].type = "DRAFT_UPDATED"
      BY <1>1, <3>2
    <3> QED
      BY <3>1, <3>2, <3>3, <3>4
  <2>2. \A i \in 2..(n + 1) : u[i].type = "DRAFT_UPDATED"
    BY <1>1, <2>1
  <2>3. Len(u) = n + 1 /\ new.version = Len(u)
    BY <1>1, <2>1
  <2>4. \A i \in 1..(n + 1) : u[i].type = "DRAFT_UPDATED" =>
          u[i].detail = i - 1 /\ \A j \in 2..i : u[j].type = "DRAFT_UPDATED"
    <3> SUFFICES ASSUME NEW i \in 1..(n + 1), u[i].type = "DRAFT_UPDATED"
                 PROVE  u[i].detail = i - 1 /\ \A j \in 2..i : u[j].type = "DRAFT_UPDATED"
      OBVIOUS
    <3>1. CASE i \in 1..n
      BY <1>5, <3>1
    <3>2. CASE i = n + 1
      BY <1>1, <2>1, <2>2, <3>2
    <3> QED
      BY <1>1, <3>1, <3>2
  <2> QED
    BY <2>2, <2>3, <2>4 DEF Drafted, u
<1>7. CASE new.status # "DRAFT"
  <2>1. \A i \in 1..m : added[i].type # "DRAFT_UPDATED"
    BY <1>7 DEF NoneOf, m
  <2>2. \A i \in 1..(n + m) : u[i].type = "DRAFT_UPDATED" => i \in 1..n
    BY <1>1, <1>2, <2>1
  <2> QED
    BY <1>1, <1>5, <1>7, <2>2 DEF Drafted, u
<1> QED
  BY <1>6, <1>7

LEMMA OneEvent ==
  ASSUME NEW added, Len(added) = 1
  PROVE  /\ Chained(added)
         /\ \A type : IF added[1].type = type THEN OneOf(added, type) ELSE NoneOf(added, type)
<1>1. Chained(added)
  BY DEF Chained
<1>2. \A type : added[1].type = type => OneOf(added, type)
  BY DEF OneOf
<1>3. \A type : added[1].type # type => NoneOf(added, type)
  BY DEF NoneOf
<1> QED
  BY <1>1, <1>2, <1>3

LEMMA TwoEvents ==
  ASSUME NEW type1, NEW from, NEW between, NEW type2, NEW to, NEW added,
         added = <<Event(type1, from, between, Null), Event(type2, between, to, Null)>>
  PROVE  /\ Len(added) = 2 /\ Chained(added)
         /\ added[1].from = from /\ added[2].to = to
         /\ \A other : other # type1 /\ other # type2 => NoneOf(added, other)
<1>1. /\ Len(added) = 2 /\ added[1].type = type1 /\ added[1].from = from
      /\ added[1].to = between /\ added[2].from = between
      /\ added[2].type = type2 /\ added[2].to = to
  BY DEF Event
<1>2. Chained(added)
  BY <1>1 DEF Chained
<1>3. \A other : other # type1 /\ other # type2 => NoneOf(added, other)
  BY <1>1 DEF NoneOf
<1> QED
  BY <1>1, <1>2, <1>3

LEMMA CreationConsistent ==
  ASSUME NEW new \in Rows, NEW log \in Seq(Events), Created(new, log)
  PROVE  Consistent(new, log)
<1>1. log = <<Event("DRAFT_CREATED", Null, "DRAFT", Null)>>
  BY DEF Created
<1>2. /\ Len(log) = 1 /\ Chained(log)
      /\ log[1].type = "DRAFT_CREATED" /\ log[1].to = "DRAFT"
      /\ NoneOf(log, "HR_ATTESTED") /\ NoneOf(log, "TRUST_EVALUATED")
  <2>1. /\ Len(log) = 1 /\ log[1].type = "DRAFT_CREATED" /\ log[1].to = "DRAFT"
    BY <1>1 DEF Event
  <2> QED
    BY <2>1, OneEvent
<1>3. Historic(new, log)
  BY <1>2 DEF Historic, Created
<1>4. Drafted(new, log)
  BY <1>2 DEF Drafted, Created
<1>5. Judged(new, log)
  BY <1>2 DEF Judged, Created
<1> QED
  BY <1>3, <1>4, <1>5 DEF Consistent

\* What an operation does to a row and its events keeps them consistent.
LEMMA TransitionConsistent ==
  ASSUME NEW old, NEW log, Consistent(old, log),
         NEW new \in Rows, NEW added \in Seq(Events), Transition(old, new, added)
  PROVE  Consistent(new, log \o added)
<1> DEFINE u == log \o added
<1>1. /\ old \in Rows /\ log \in Seq(Events) /\ u \in Seq(Events)
      /\ Historic(old, log) /\ Drafted(old, log) /\ Judged(old, log)
  BY Concatenated DEF Consistent
<1>2. \A type : /\ NoneOf(log, type) /\ NoneOf(added, type) => NoneOf(u, type)
                /\ NoneOf(log, type) /\ OneOf(added, type) => OneOf(u, type)
                /\ OneOf(log, type) /\ NoneOf(added, type) => OneOf(u, type)
  BY <1>1, CountsGrow
<1>3. ASSUME Chained(added), Len(added) > 0,
             added[1].from = old.status, added[Len(added)].to = new.status
      PROVE  Historic(new, u)
  BY <1>1, <1>3, HistoryGrows
<1>4. ASSUME new.status # "DRAFT", NoneOf(added, "DRAFT_UPDATED")
      PROVE  Drafted(new, u)
  BY <1>1, <1>4, DraftsGrow
<1> HIDE DEF u
<1>5. CASE Updated(old, new, added)
  <2>1. added = <<Event("DRAFT_UPDATED", "DRAFT", "DRAFT", old.version)>>
    BY <1>5 DEF Updated
  <2>2. /\ Len(added) = 1 /\ added[1].type = "DRAFT_UPDATED"
        /\ added[1].from = "DRAFT" /\ added[1].to = "DRAFT" /\ added[1].detail = old.version
    BY <2>1 DEF Event
  <2>3. Chained(added)
    BY <2>2, OneEvent
  <2>4. /\ NoneOf(added, "HR_ATTESTED") /\ NoneOf(added, "TRUST_EVALUATED")
    BY <2>2, OneEvent
  <2>5. Historic(new, u)
    BY <1>3, <1>5, <2>2, <2>3, <2>4 DEF Updated
  <2>6. Drafted(new, u)
    BY <1>1, <1>5, <2>2, <2>3, <2>4, DraftsGrow DEF Updated, u
  <2>7. Judged(new, u)
    BY <1>1, <1>2, <1>5, <2>2, <2>3, <2>4 DEF Updated, SameVerdict, Judged
  <2> QED
    BY <1>1, <2>5, <2>6, <2>7 DEF Consistent, u
<1>6. CASE Dispatched(old, new, added)
  <2>1. PICK type \in {"ATTESTATION_DISPATCHED", "DISPATCH_GUARD_BLOCKED"} :
          added = <<Event("REQUEST_SUBMITTED", "DRAFT", "SUBMITTED", Null),
                    Event(type, "SUBMITTED", new.status, Null)>>
    BY <1>6 DEF Dispatched
  <2>2. /\ Len(added) = 2 /\ Chained(added)
        /\ added[1].from = "DRAFT" /\ added[2].to = new.status
        /\ NoneOf(added, "HR_ATTESTED") /\ NoneOf(added, "TRUST_EVALUATED")
        /\ NoneOf(added, "DRAFT_UPDATED")
    BY <2>1, TwoEvents
  <2>3. Historic(new, u)
    BY <1>3, <1>6, <2>2 DEF Dispatched
  <2>4. Drafted(new, u)
    BY <1>4, <1>6, <2>2 DEF Dispatched
  <2>5. Judged(new, u)
    BY <1>1, <1>2, <1>6, <2>2 DEF Dispatched, SameVerdict, Judged
  <2> QED
    BY <1>1, <2>3, <2>4, <2>5 DEF Consistent, u
<1>7. CASE Passed(old, new, added)
  <2>1. PICK type \in {"REQUEST_CANCELED", "TOKEN_CONSUMED", "REQUEST_CLOSED"} :
          added = <<Event(type, old.status, new.status, Null)>>
    BY <1>7 DEF Passed
  <2>2. /\ Len(added) = 1 /\ added[1].type = type
        /\ added[1].from = old.status /\ added[1].to = new.status
    BY <2>1 DEF Event
  <2>3. Chained(added)
    BY <2>2, OneEvent
  <2>4. /\ NoneOf(added, "HR_ATTESTED") /\ NoneOf(added, "TRUST_EVALUATED")
        /\ NoneOf(added, "DRAFT_UPDATED")
    BY <2>2, OneEvent
  <2>5. Historic(new, u)
    BY <1>3, <2>2, <2>3, <2>4
  <2>6. Drafted(new, u)
    BY <1>4, <1>7, <2>2, <2>3, <2>4 DEF Passed
  <2>7. Judged(new, u)
    BY <1>1, <1>2, <1>7, <2>2, <2>3, <2>4, EvtAssumption DEF Passed, SameVerdict, Judged, Signed
  <2> QED
    BY <1>1, <2>5, <2>6, <2>7 DEF Consistent, u
<1>8. CASE Attested(old, new, added)
  <2>1. PICK author : added = <<Event("HR_ATTESTED", old.status, new.status, author)>>
    BY <1>8 DEF Attested
  <2>2. /\ Len(added) = 1 /\ added[1].type = "HR_ATTESTED"
        /\ added[1].from = old.status /\ added[1].to = new.status
    BY <2>1 DEF Event
  <2>3. Chained(added)
    BY <2>2, OneEvent
  <2>4. /\ OneOf(added, "HR_ATTESTED") /\ NoneOf(added, "TRUST_EVALUATED")
        /\ NoneOf(added, "DRAFT_UPDATED")
    BY <2>2, OneEvent
  <2>5. Historic(new, u)
    BY <1>3, <2>2, <2>3, <2>4
  <2>6. Drafted(new, u)
    BY <1>4, <1>8, <2>2, <2>3, <2>4 DEF Attested
  <2>7. Judged(new, u)
    BY <1>1, <1>2, <1>8, <2>2, <2>3, <2>4 DEF Attested, Judged, Signed
  <2> QED
    BY <1>1, <2>5, <2>6, <2>7 DEF Consistent, u
<1>9. CASE Evaluated(old, new, added)
  <2>1. added = <<Event("TRUST_EVALUATED", old.status, new.status, new.trust)>>
    BY <1>9 DEF Evaluated
  <2>2. /\ Len(added) = 1 /\ added[1].type = "TRUST_EVALUATED"
        /\ added[1].from = old.status /\ added[1].to = new.status
    BY <2>1 DEF Event
  <2>3. Chained(added)
    BY <2>2, OneEvent
  <2>4. /\ NoneOf(added, "HR_ATTESTED") /\ OneOf(added, "TRUST_EVALUATED")
        /\ NoneOf(added, "DRAFT_UPDATED")
    BY <2>2, OneEvent
  <2>5. Historic(new, u)
    BY <1>3, <2>2, <2>3, <2>4
  <2>6. Drafted(new, u)
    BY <1>4, <1>9, <2>2, <2>3, <2>4 DEF Evaluated
  <2>7. Judged(new, u)
    BY <1>1, <1>2, <1>9, <2>2, <2>3, <2>4, EvtAssumption
       DEF Evaluated, Judged, Signed, TrustResults
  <2> QED
    BY <1>1, <2>5, <2>6, <2>7 DEF Consistent, u
<1>10. CASE new = old /\ added = <<>>
  <2>1. u = log
    BY <1>1, <1>10 DEF u
  <2> QED
    BY <1>10, <2>1
<1> QED
  BY <1>5, <1>6, <1>7, <1>8, <1>9, <1>10 DEF Transition, u

-----------------------------------------------------------------------------
(* Lemmas about calls and steps                                             *)

LEMMA CallTyped ==
  ASSUME NEW k \in Calls
  PROVE  /\ k.op \in {"create", "update", "submit", "cancel", "attest", "verify", "consume",
                      "close"}
         /\ k.op # "create" => k.request \in Requests
         /\ k.op \in {"create", "update"} => k.claim \in Claims
         /\ k.op = "create" => k.principal \in Candidates /\ k.employer \in Employers
         /\ k.op = "update" => k.version \in 1..MaxUpdates
         /\ k.op = "attest" => k.principal \in Reviewers
<1>1. CASE k \in Attestations
  BY <1>1 DEF Attestations
<1>2. CASE k \in [op : {"create"}, employer : Employers, principal : Candidates,
                 claim : Claims]
  BY <1>2
<1>3. CASE k \in [op : {"update"}, principal : Candidates, request : Requests,
                 claim : Claims, version : 1..MaxUpdates]
  BY <1>3
<1>4. CASE k \in [op : {"submit", "cancel"}, principal : Candidates, request : Requests]
  BY <1>4
<1>5. CASE k \in [op : {"verify"}, request : Requests, verdict : TrustResults \cup {""}]
  BY <1>5
<1>6. CASE k \in [op : {"consume", "close"}, request : Requests]
  BY <1>6
<1> QED
  BY <1>1, <1>2, <1>3, <1>4, <1>5, <1>6 DEF Calls, CandidateCalls, OtherCalls

LEMMA RowUpdated ==
  ASSUME NEW row \in Rows, NEW status \in Statuses, NEW version \in Nat
  PROVE  LET new == [row EXCEPT !.status = status, !.version = version]
         IN /\ new \in Rows /\ new.status = status /\ new.version = version
            /\ new.employer = row.employer /\ SameVerdict(row, new)
<1> DEFINE new == [row EXCEPT !.status = status, !.version = version]
<1>1. new \in Rows
  BY DEF Rows
<1>2. new.status = status /\ new.version = version
  BY DEF Rows
<1>3. new.employer = row.employer /\ SameVerdict(row, new)
  BY DEF Rows, SameVerdict
<1> QED
  BY <1>1, <1>2, <1>3

LEMMA MovedRow ==
  \A row \in Rows, status \in Statuses, bumps \in {1, 2} :
     /\ Moved(row, status, bumps) \in Rows
     /\ Moved(row, status, bumps).status = status
     /\ Moved(row, status, bumps).version = row.version + bumps
     /\ Moved(row, status, bumps).employer = row.employer
     /\ SameVerdict(row, Moved(row, status, bumps))
<1> SUFFICES ASSUME NEW row \in Rows, NEW status \in Statuses, NEW bumps \in {1, 2}
             PROVE  LET new == Moved(row, status, bumps)
                    IN /\ new \in Rows /\ new.status = status
                       /\ new.version = row.version + bumps
                       /\ new.employer = row.employer /\ SameVerdict(row, new)
  OBVIOUS
<1> DEFINE version == row.version + bumps
           new == [row EXCEPT !.status = status, !.version = version]
<1>1. version \in Nat
  BY DEF Rows
<1>2. Moved(row, status, bumps) = new
  BY DEF Moved
<1> HIDE DEF version
<1>3. /\ new \in Rows /\ new.status = status /\ new.version = version
      /\ new.employer = row.employer /\ SameVerdict(row, new)
  BY <1>1, RowUpdated
<1> QED
  BY <1>2, <1>3 DEF version

LEMMA StatusesNamed ==
  /\ "CANCELED" \in Statuses /\ "CLOSED" \in Statuses /\ "CONSUMED" \in Statuses
  /\ "SUBMITTED" \in Statuses /\ "ATTESTATION_PENDING" \in Statuses
  /\ "ATTESTED" \in Statuses /\ "REJECTED" \in Statuses /\ "DRAFT" \in Statuses
  /\ "VERIFIED" \in Statuses /\ "UNVERIFIED" \in Statuses
  BY DEF Statuses

\* An operation writes what follows from a row it holds, or a row that is new.
LEMMA WriteKeeps ==
  ASSUME RequestInv, NEW c \in Connections, NEW w,
         phase[c] = "work", Goto(c, "ready"), work' = [work EXCEPT ![c] = w],
         UNCHANGED <<call, requests, events>>,
         requestLock' \in [Requests -> Connections \cup {Null}],
         \A r \in Requests : requestLock[r] # Null => requestLock'[r] = requestLock[r],
         w.id \in Requests, w.row \in Rows, w.log \in Seq(Events),
         \/ /\ requests[w.id] = Null /\ Created(w.row, w.log)
            /\ \A d \in Connections : work[d] # Null => work[d].id # w.id
         \/ /\ requests[w.id] # Null /\ Transition(requests[w.id], w.row, w.log)
            /\ requestLock[w.id] \in {c, Null} /\ requestLock'[w.id] = c
  PROVE  RequestInv'
<1>1. /\ phase'[c] = "ready" /\ work'[c] = w
      /\ \A d \in Connections \ {c} : phase'[d] = phase[d] /\ work'[d] = work[d]
      /\ phase' = [d \in Connections |-> phase'[d]]
      /\ work' = [d \in Connections |-> work'[d]]
  BY DEF RequestInv, Types, Goto
<1>2. \A d \in Connections : work[d] # Null => d # c /\ work[d].id # w.id
  <2> SUFFICES ASSUME NEW d \in Connections, work[d] # Null
               PROVE  d # c /\ work[d].id # w.id
    OBVIOUS
  <2>1. d # c
    BY DEF RequestInv, Pending
  <2>2. CASE requests[w.id] = Null
    BY <2>1, <2>2
  <2>3. CASE requests[w.id] # Null
    <3> SUFFICES ASSUME work[d].id = w.id PROVE FALSE
      BY <2>1
    <3>1. requestLock[w.id] = d
      BY <2>3 DEF RequestInv, Pending
    <3> QED
      BY <2>1, <2>3, <3>1, EvtAssumption
  <2> QED
    BY <2>2, <2>3
<1>3. Types'
  BY <1>1 DEF RequestInv, Types
<1>4. Calling'
  BY <1>1 DEF RequestInv, Calling
<1>5. Stored'
  BY DEF RequestInv, Stored
<1>6. Locked'
  <2> SUFFICES ASSUME NEW d \in Connections, phase'[d] = "work",
                      call[d].op \notin {"create", "update"}
               PROVE  /\ requests[call[d].request] # Null
                      /\ requestLock'[call[d].request] = d
    BY DEF Locked
  <2>1. phase[d] = "work"
    BY <1>1
  <2>2. requests[call[d].request] # Null /\ requestLock[call[d].request] = d
    BY <2>1 DEF RequestInv, Locked
  <2>3. call[d].request \in Requests
    BY <2>1, CallTyped DEF RequestInv, Calling
  <2> QED
    BY <2>2, <2>3, EvtAssumption
<1>7. Pending'
  <2> SUFFICES ASSUME NEW d \in Connections, work'[d] # Null
               PROVE  /\ phase'[d] \in {"ready", "failed", "aborted"}
                      /\ work'[d].id \in Requests
                      /\ \E old \in Rows \cup {Null}, row \in Rows, log \in Seq(Events) :
                           /\ old = requests[work'[d].id]
                           /\ row = work'[d].row /\ log = work'[d].log
                           /\ \/ old = Null /\ Created(row, log)
                              \/ /\ old # Null /\ Transition(old, row, log)
                                 /\ requestLock'[work'[d].id] = d
    BY DEF Pending
  <2>1. CASE d = c
    <3>1. requests[w.id] \in Rows \cup {Null}
      BY DEF RequestInv, Types
    <3> QED
      BY <1>1, <2>1, <3>1
  <2>2. CASE d # c
    BY <1>1, <2>2, EvtAssumption DEF RequestInv, Pending
  <2> QED
    BY <2>1, <2>2
<1>8. Apart'
  BY <1>1, <1>2 DEF RequestInv, Apart
<1> QED
  BY <1>3, <1>4, <1>5, <1>6, <1>7, <1>8 DEF RequestInv

\* A step that moves one connection to another statement and writes nothing.
LEMMA GotoKeeps ==
  ASSUME RequestInv, NEW c \in Connections, NEW where,
         phase[c] # "idle", where \in {"ready", "failed", "aborted"},
         Goto(c, where), UNCHANGED <<call, requests, events, work, requestLock>>
  PROVE  RequestInv'
<1>1. /\ phase'[c] = where
      /\ \A d \in Connections \ {c} : phase'[d] = phase[d]
      /\ phase' = [d \in Connections |-> phase'[d]]
  BY DEF RequestInv, Types, Goto
<1>2. Types' /\ Calling'
  BY <1>1 DEF RequestInv, Types, Calling
<1>3. Stored' /\ Apart'
  BY DEF RequestInv, Stored, Apart
<1>4. Locked'
  BY <1>1 DEF RequestInv, Locked
<1>5. Pending'
  BY <1>1 DEF RequestInv, Pending
<1> QED
  BY <1>2, <1>3, <1>4, <1>5 DEF RequestInv

-----------------------------------------------------------------------------
(* Each step keeps the invariant                                            *)

LEMMA InitRequestInv == Init => RequestInv
<1> SUFFICES ASSUME Init PROVE RequestInv
  OBVIOUS
<1>1. Types /\ Calling
  BY DEF Init, Types, Calling
<1>2. Stored
  BY DEF Init, Stored
<1>3. Locked /\ Pending /\ Apart
  BY DEF Init, Locked, Pending, Apart
<1> QED
  BY <1>1, <1>2, <1>3 DEF RequestInv

LEMMA BeginKeeps ==
  ASSUME RequestInv, NEW c \in Connections, BeginCall(c) \/ BeginAttest(c, "request")
  PROVE  RequestInv'
<1>1. PICK request \in Calls :
        Begin(c, IF request.op \in {"create", "update"} THEN "work" ELSE "request", request)
  <2>1. CASE BeginByCandidate(c)
    BY <2>1 DEF BeginByCandidate, Calls
  <2>2. CASE BeginOther(c)
    <3>1. PICK request \in OtherCalls : Begin(c, "request", request)
      BY <2>2 DEF BeginOther
    <3>2. request.op \notin {"create", "update"}
      BY DEF OtherCalls
    <3> QED
      BY <3>1, <3>2 DEF Calls
  <2>3. CASE BeginAttest(c, "request")
    <3>1. PICK request \in Attestations : Begin(c, "request", request)
      BY <2>3 DEF BeginAttest
    <3>2. request.op \notin {"create", "update"}
      BY DEF Attestations
    <3> QED
      BY <3>1, <3>2 DEF Calls
  <2> QED
    BY <2>1, <2>2, <2>3 DEF BeginCall
<1>2. /\ UNCHANGED <<requests, events, work, requestLock>>
      /\ phase[c] = "idle" /\ call'[c] = request
      /\ phase'[c] = IF request.op \in {"create", "update"} THEN "work" ELSE "request"
      /\ \A d \in Connections \ {c} : phase'[d] = phase[d] /\ call'[d] = call[d]
      /\ Types'
  BY <1>1 DEF RequestInv, Types, Begin, Goto, stored
<1>3. Calling'
  BY <1>1, <1>2 DEF RequestInv, Calling
<1>4. Stored' /\ Apart'
  BY <1>2 DEF RequestInv, Stored, Apart
<1>5. Locked'
  BY <1>2 DEF RequestInv, Locked
<1>6. Pending'
  BY <1>2 DEF RequestInv, Pending
<1> QED
  BY <1>2, <1>3, <1>4, <1>5, <1>6 DEF RequestInv

LEMMA LockRequestKeeps ==
  ASSUME RequestInv, NEW c \in Connections, LockRequest(c)
  PROVE  RequestInv'
<1> DEFINE r == call[c].request
<1>1. CASE Finds(c)
  <2>1. /\ UNCHANGED <<call, requests, events, work>>
        /\ phase[c] = "request" /\ phase'[c] = "work"
        /\ \A d \in Connections \ {c} : phase'[d] = phase[d]
        /\ phase' = [d \in Connections |-> phase'[d]]
    BY <1>1 DEF RequestInv, Types, LockRequest, Goto, stored
  <2>2. r \in Requests /\ requests[r] # Null
    <3>1. call[c].op # "create" /\ call[c] \in Calls
      BY <2>1 DEF RequestInv, Calling
    <3> QED
      BY <1>1, <3>1, CallTyped DEF Finds
  <2>3. /\ requestLock[r] = Null
        /\ requestLock' \in [Requests -> Connections \cup {Null}]
        /\ requestLock'[r] = c
        /\ \A q \in Requests \ {r} : requestLock'[q] = requestLock[q]
    BY <1>1, <2>2 DEF LockRequest, RequestInv, Types
  <2> HIDE DEF r
  <2>4. Types'
    BY <2>1, <2>3 DEF RequestInv, Types
  <2>5. Calling'
    BY <2>1 DEF RequestInv, Calling
  <2>6. Stored' /\ Apart'
    BY <2>1 DEF RequestInv, Stored, Apart
  <2>7. Locked'
    <3> SUFFICES ASSUME NEW d \in Connections, phase'[d] = "work",
                        call[d].op \notin {"create", "update"}
                 PROVE  /\ requests[call[d].request] # Null
                        /\ requestLock'[call[d].request] = d
      BY <2>1 DEF Locked
    <3>1. CASE d = c
      BY <2>2, <2>3, <3>1 DEF r
    <3>2. CASE d # c
      <4>1. phase[d] = "work"
        BY <2>1, <3>2
      <4>2. requests[call[d].request] # Null /\ requestLock[call[d].request] = d
        BY <4>1 DEF RequestInv, Locked
      <4>3. call[d].request \in Requests
        BY <4>1, CallTyped DEF RequestInv, Calling
      <4> QED
        BY <2>3, <4>2, <4>3, EvtAssumption
    <3> QED
      BY <3>1, <3>2
  <2>8. Pending'
    BY <2>1, <2>3, EvtAssumption DEF RequestInv, Pending
  <2> QED
    BY <2>4, <2>5, <2>6, <2>7, <2>8 DEF RequestInv
<1>2. CASE ~Finds(c)
  BY <1>2, GotoKeeps DEF LockRequest, stored
<1> QED
  BY <1>1, <1>2

LEMMA CreateKeeps ==
  ASSUME RequestInv, NEW c \in Connections, Create(c)
  PROVE  RequestInv'
<1> DEFINE row == [employer |-> call[c].employer, claim |-> call[c].claim, version |-> 1,
                   candidate |-> call[c].principal, status |-> "DRAFT",
                   response |-> Null, jws |-> FALSE, trust |-> Null]
           log == <<Event("DRAFT_CREATED", Null, "DRAFT", Null)>>
           config == IF dispatch[call[c].employer] = Null THEN call[c].employer ELSE Null
<1>1. PICK r \in Requests :
        /\ requests[r] = Null
        /\ \A d \in Connections : work[d] # Null => work[d].id # r
        /\ work' = [work EXCEPT ![c] = Staged(r, row, log, config, 0)]
  BY DEF Create
<1>2. /\ phase[c] = "work" /\ call[c].op = "create" /\ Goto(c, "ready")
      /\ UNCHANGED <<call, requests, events, requestLock>>
  BY DEF Create, Doing, stored
<1>3. row \in Rows /\ row.status = "DRAFT" /\ row.version = 1
  <2>1. /\ call[c].claim \in Claims /\ call[c].principal \in Candidates
        /\ call[c].employer \in Employers
    BY <1>2, CallTyped DEF RequestInv, Calling
  <2> QED
    BY <2>1 DEF Rows, Statuses
<1>4. log \in Seq(Events)
  BY EventTyped
<1>5. Created(row, log)
  BY <1>3 DEF Created
<1> DEFINE w == Staged(r, row, log, config, 0)
<1>6. w.id = r /\ w.row = row /\ w.log = log
  BY DEF Staged
<1>7. work' = [work EXCEPT ![c] = w]
  BY <1>1
<1> HIDE DEF w, row, log
<1> QED
  BY <1>1, <1>2, <1>3, <1>4, <1>5, <1>6, <1>7, WriteKeeps DEF RequestInv, Types

\* Writes of an operation that holds its row.
LEMMA HeldWriteKeeps ==
  ASSUME RequestInv, NEW c \in Connections, NEW w,
         phase[c] = "work", call[c].op \notin {"create", "update"},
         work' = [work EXCEPT ![c] = w], Goto(c, "ready"),
         UNCHANGED <<call, stored, requestLock>>,
         w.id = call[c].request, w.row \in Rows, w.log \in Seq(Events),
         Transition(requests[call[c].request], w.row, w.log)
  PROVE  RequestInv'
<1> DEFINE r == call[c].request
<1>1. /\ UNCHANGED <<call, requests, events>>
      /\ requestLock' \in [Requests -> Connections \cup {Null}]
  BY DEF RequestInv, Types, stored
<1>2. requests[r] # Null /\ requestLock[r] = c
  BY DEF RequestInv, Locked
<1>3. r \in Requests
  BY CallTyped DEF RequestInv, Calling
<1> HIDE DEF r
<1> QED
  BY <1>1, <1>2, <1>3, WriteKeeps DEF r

LEMMA SubmitKeeps ==
  ASSUME RequestInv, NEW c \in Connections, Submit(c)
  PROVE  RequestInv'
<1> DEFINE r == call[c].request
           old == requests[r]
           new == Submission(old, dispatch[old.employer])
<1>1. /\ Doing(c, "submit", "work") /\ old.status = "DRAFT" /\ Goto(c, "ready")
      /\ work' = [work EXCEPT ![c] = Staged(r, new.row, new.log, Null, 0)]
      /\ UNCHANGED <<call, stored, requestLock>>
  BY DEF Submit, Proceeds, Accepted, Writes
<1>2. old \in Rows
  BY <1>1, CallTyped DEF RequestInv, Types, Calling, Locked, Doing
<1>3. /\ new.row \in Rows /\ new.row.status \in {"SUBMITTED", "ATTESTATION_PENDING"}
      /\ new.row.employer = old.employer /\ SameVerdict(old, new.row)
  <2>1. \/ new.row = Moved(old, "ATTESTATION_PENDING", 2) \/ new.row = Moved(old, "SUBMITTED", 1)
    BY DEF Submission
  <2>2. "ATTESTATION_PENDING" \in Statuses /\ "SUBMITTED" \in Statuses
    BY StatusesNamed
  <2> HIDE DEF new, old
  <2>3. ASSUME NEW to \in Statuses, NEW bumps \in {1, 2}
        PROVE  LET row == Moved(old, to, bumps)
               IN /\ row \in Rows /\ row.status = to
                  /\ row.employer = old.employer /\ SameVerdict(old, row)
    BY <1>2, MovedRow
  <2> QED
    BY <2>1, <2>2, <2>3
<1>4. PICK type \in {"ATTESTATION_DISPATCHED", "DISPATCH_GUARD_BLOCKED"} :
        new.log = <<Event("REQUEST_SUBMITTED", "DRAFT", "SUBMITTED", Null),
                    Event(type, "SUBMITTED", new.row.status, Null)>>
  <2>1. /\ Moved(old, "ATTESTATION_PENDING", 2).status = "ATTESTATION_PENDING"
        /\ Moved(old, "SUBMITTED", 1).status = "SUBMITTED"
    BY <1>2, MovedRow, StatusesNamed
  <2>2. CASE dispatch[old.employer] = "AUTO"
    <3>1. /\ new.row = Moved(old, "ATTESTATION_PENDING", 2)
          /\ new.log = <<Event("REQUEST_SUBMITTED", "DRAFT", "SUBMITTED", Null),
                         Event("ATTESTATION_DISPATCHED", "SUBMITTED", "ATTESTATION_PENDING", Null)>>
      BY <2>2 DEF Submission
    <3> HIDE DEF new
    <3> QED
      BY <2>1, <3>1
  <2>3. CASE dispatch[old.employer] # "AUTO"
    <3>1. /\ new.row = Moved(old, "SUBMITTED", 1)
          /\ new.log = <<Event("REQUEST_SUBMITTED", "DRAFT", "SUBMITTED", Null),
                         Event("DISPATCH_GUARD_BLOCKED", "SUBMITTED", "SUBMITTED", Null)>>
      BY <2>3 DEF Submission
    <3> HIDE DEF new
    <3> QED
      BY <2>1, <3>1
  <2> QED
    BY <2>2, <2>3
<1>5. /\ Event("REQUEST_SUBMITTED", "DRAFT", "SUBMITTED", Null) \in Events
      /\ Event(type, "SUBMITTED", new.row.status, Null) \in Events
  <2> DEFINE reached == new.row.status
  <2>1. /\ "REQUEST_SUBMITTED" \in EventTypes /\ type \in EventTypes
        /\ "DRAFT" \in Statuses /\ "SUBMITTED" \in Statuses /\ Null \in Details
    BY DEF EventTypes, Statuses, Details
  <2>2. reached \in Statuses
    BY <1>3, StatusesNamed
  <2> HIDE DEF reached
  <2>3. /\ Event("REQUEST_SUBMITTED", "DRAFT", "SUBMITTED", Null) \in Events
        /\ Event(type, "SUBMITTED", reached, Null) \in Events
    BY <2>1, <2>2, EventTyped
  <2> QED
    BY <2>3 DEF reached
<1>6. new.log \in Seq(Events)
  <2> DEFINE first == Event("REQUEST_SUBMITTED", "DRAFT", "SUBMITTED", Null)
             second == Event(type, "SUBMITTED", new.row.status, Null)
  <2>1. new.log = <<first, second>> /\ first \in Events /\ second \in Events
    BY <1>4, <1>5
  <2> HIDE DEF first, second, new
  <2> QED
    BY <2>1
<1>7. Transition(old, new.row, new.log)
  BY <1>1, <1>3, <1>4 DEF Transition, Dispatched
<1> DEFINE w == Staged(r, new.row, new.log, Null, 0)
<1>8. w.id = r /\ w.row = new.row /\ w.log = new.log
  BY DEF Staged
<1>9. phase[c] = "work" /\ call[c].op = "submit" /\ work' = [work EXCEPT ![c] = w]
  BY <1>1 DEF Doing
<1> HIDE DEF new, w
<1> QED
  BY <1>1, <1>3, <1>6, <1>7, <1>8, <1>9, HeldWriteKeeps

LEMMA CancelKeeps ==
  ASSUME RequestInv, NEW c \in Connections, Cancel(c)
  PROVE  RequestInv'
<1> DEFINE r == call[c].request
           old == requests[r]
           row == Moved(old, "CANCELED", 1)
           log == <<Event("REQUEST_CANCELED", old.status, "CANCELED", Null)>>
<1>1. /\ Doing(c, "cancel", "work") /\ old.status \in {"DRAFT", "SUBMITTED"}
      /\ Goto(c, "ready") /\ work' = [work EXCEPT ![c] = Staged(r, row, log, Null, 0)]
      /\ UNCHANGED <<call, stored, requestLock>>
  BY DEF Cancel, Proceeds, Accepted, Writes
<1>2. old \in Rows
  BY <1>1, CallTyped DEF RequestInv, Types, Calling, Locked, Doing
<1>3. /\ row \in Rows /\ row.status = "CANCELED"
      /\ row.employer = old.employer /\ SameVerdict(old, row)
  BY <1>2, MovedRow, StatusesNamed
<1>4. Event("REQUEST_CANCELED", old.status, "CANCELED", Null) \in Events
  BY <1>1, EventTyped DEF EventTypes, Statuses, Details
<1>5. log \in Seq(Events)
  BY <1>4
<1>6. Transition(old, row, log)
  BY <1>1, <1>3 DEF Transition, Passed
<1> DEFINE w == Staged(r, row, log, Null, 0)
<1>7. w.id = r /\ w.row = row /\ w.log = log
  BY DEF Staged
<1>8. phase[c] = "work" /\ call[c].op = "cancel" /\ work' = [work EXCEPT ![c] = w]
  BY <1>1 DEF Doing
<1> HIDE DEF row, log, w
<1> QED
  BY <1>1, <1>3, <1>5, <1>6, <1>7, <1>8, HeldWriteKeeps

LEMMA CloseKeeps ==
  ASSUME RequestInv, NEW c \in Connections, Close(c)
  PROVE  RequestInv'
<1> DEFINE r == call[c].request
           old == requests[r]
           row == Moved(old, "CLOSED", 1)
           log == <<Event("REQUEST_CLOSED", "CONSUMED", "CLOSED", Null)>>
<1>1. /\ Doing(c, "close", "work") /\ old.status = "CONSUMED"
      /\ Goto(c, "ready") /\ work' = [work EXCEPT ![c] = Staged(r, row, log, Null, 0)]
      /\ UNCHANGED <<call, stored, requestLock>>
  BY DEF Close, Proceeds, Accepted, Writes
<1>2. old \in Rows
  BY <1>1, CallTyped DEF RequestInv, Types, Calling, Locked, Doing
<1>3. /\ row \in Rows /\ row.status = "CLOSED"
      /\ row.employer = old.employer /\ SameVerdict(old, row)
  BY <1>2, MovedRow, StatusesNamed
<1>4. Event("REQUEST_CLOSED", "CONSUMED", "CLOSED", Null) \in Events
  BY EventTyped DEF EventTypes, Statuses, Details
<1>5. log \in Seq(Events)
  BY <1>4
<1>6. Transition(old, row, log)
  BY <1>1, <1>3 DEF Transition, Passed
<1> DEFINE w == Staged(r, row, log, Null, 0)
<1>7. w.id = r /\ w.row = row /\ w.log = log
  BY DEF Staged
<1>8. phase[c] = "work" /\ call[c].op = "close" /\ work' = [work EXCEPT ![c] = w]
  BY <1>1 DEF Doing
<1> HIDE DEF row, log, w
<1> QED
  BY <1>1, <1>3, <1>5, <1>6, <1>7, <1>8, HeldWriteKeeps

LEMMA ConsumeKeeps ==
  ASSUME RequestInv, NEW c \in Connections, Consume(c)
  PROVE  RequestInv'
<1> DEFINE r == call[c].request
           old == requests[r]
           row == IF old.status # "CONSUMED" THEN Moved(old, "CONSUMED", 1) ELSE old
           log == IF old.status # "CONSUMED"
                  THEN <<Event("TOKEN_CONSUMED", old.status, "CONSUMED", Null)>> ELSE <<>>
<1>1. /\ Doing(c, "consume", "work")
      /\ old.status \in {"VERIFIED", "UNVERIFIED", "CONSUMED"}
      /\ Goto(c, "ready") /\ work' = [work EXCEPT ![c] = Staged(r, row, log, Null, 1)]
      /\ UNCHANGED <<call, stored, requestLock>>
  BY DEF Consume, Proceeds, Accepted
<1>2. old \in Rows
  BY <1>1, CallTyped DEF RequestInv, Types, Calling, Locked, Doing
<1>3. CASE old.status # "CONSUMED"
  <2>1. /\ row \in Rows /\ row.status = "CONSUMED"
        /\ row.employer = old.employer /\ SameVerdict(old, row)
    BY <1>2, <1>3, MovedRow, StatusesNamed
  <2>2. Event("TOKEN_CONSUMED", old.status, "CONSUMED", Null) \in Events
    BY <1>1, EventTyped DEF EventTypes, Statuses, Details
  <2>3. log \in Seq(Events)
    BY <1>3, <2>2
  <2>4. Transition(old, row, log)
    BY <1>1, <1>3, <2>1 DEF Transition, Passed
  <2> DEFINE w == Staged(r, row, log, Null, 1)
  <2>5. w.id = r /\ w.row = row /\ w.log = log
    BY DEF Staged
  <2>6. phase[c] = "work" /\ call[c].op = "consume" /\ work' = [work EXCEPT ![c] = w]
    BY <1>1 DEF Doing
  <2> HIDE DEF row, log, w
  <2> QED
    BY <1>1, <2>1, <2>3, <2>4, <2>5, <2>6, HeldWriteKeeps
<1>4. CASE old.status = "CONSUMED"
  <2>1. row \in Rows /\ log \in Seq(Events)
    BY <1>2, <1>4
  <2>2. Transition(old, row, log)
    BY <1>4 DEF Transition
  <2> DEFINE w == Staged(r, row, log, Null, 1)
  <2>3. w.id = r /\ w.row = row /\ w.log = log
    BY DEF Staged
  <2>4. phase[c] = "work" /\ call[c].op = "consume" /\ work' = [work EXCEPT ![c] = w]
    BY <1>1 DEF Doing
  <2> HIDE DEF row, log, w
  <2> QED
    BY <1>1, <2>1, <2>2, <2>3, <2>4, HeldWriteKeeps
<1> QED
  BY <1>3, <1>4

LEMMA RefusalKeeps ==
  ASSUME RequestInv, NEW c \in Connections, phase[c] = "work", Goto(c, "failed"),
         UNCHANGED <<call, stored, work, requestLock>>
  PROVE  RequestInv'
  BY GotoKeeps DEF stored

LEMMA AttestKeeps ==
  ASSUME RequestInv, NEW c \in Connections, Attest(c)
  PROVE  RequestInv'
<1> DEFINE r == call[c].request
           old == requests[r]
           verdict == call[c].verdict
           to == IF verdict \in Rejections THEN "REJECTED" ELSE "ATTESTED"
           moved == Moved(old, to, 1)
           row == [moved EXCEPT !.response = verdict, !.jws = to = "ATTESTED"]
           log == <<Event("HR_ATTESTED", old.status, to, call[c].principal)>>
<1>1. Doing(c, "attest", "work") /\ old.status = "ATTESTATION_PENDING"
  BY DEF Attest, Proceeds, Accepted
<1>2. CASE verdict \notin Matches \cup Rejections
  BY <1>1, <1>2, RefusalKeeps DEF Attest, Doing
<1>3. CASE verdict \in Matches \cup Rejections
  <2>1. /\ Goto(c, "ready") /\ work' = [work EXCEPT ![c] = Staged(r, row, log, Null, 0)]
        /\ UNCHANGED <<call, stored, requestLock>>
    BY <1>3 DEF Attest, Writes
  <2>2. old \in Rows /\ call[c].principal \in Reviewers
    BY <1>1, CallTyped DEF RequestInv, Types, Calling, Locked, Doing
  <2>3. moved \in Rows /\ moved.status = to /\ moved.employer = old.employer
    BY <2>2, MovedRow, StatusesNamed
  <2>4. /\ row \in Rows /\ row.status = to /\ row.employer = old.employer
        /\ row.response = verdict /\ row.jws = (to = "ATTESTED")
    <3> HIDE DEF moved, to
    <3> QED
      BY <1>3, <2>3 DEF Rows
  <2>5. Event("HR_ATTESTED", old.status, to, call[c].principal) \in Events
    <3> DEFINE author == call[c].principal
    <3>1. /\ "HR_ATTESTED" \in EventTypes /\ old.status \in Statuses
          /\ to \in Statuses /\ author \in Details
      BY <1>1, <2>2, StatusesNamed DEF EventTypes, Details
    <3> HIDE DEF to, old, author
    <3>2. Event("HR_ATTESTED", old.status, to, author) \in Events
      BY <3>1, EventTyped
    <3> QED
      BY <3>2 DEF author
  <2>6. log \in Seq(Events)
    BY <2>5
  <2>7. Attested(old, row, log)
    <3>1. \/ row.status = "ATTESTED" /\ row.jws /\ row.response \in Matches
          \/ row.status = "REJECTED" /\ ~row.jws
      BY <1>3, <2>4
    <3>2. log = <<Event("HR_ATTESTED", old.status, row.status, call[c].principal)>>
      BY <2>4
    <3> HIDE DEF row, log
    <3> QED
      BY <1>1, <2>2, <3>1, <3>2 DEF Attested
  <2>8. Transition(old, row, log)
    BY <2>4, <2>7 DEF Transition
  <2> DEFINE w == Staged(r, row, log, Null, 0)
  <2>9. w.id = r /\ w.row = row /\ w.log = log
    BY DEF Staged
  <2>10. phase[c] = "work" /\ call[c].op = "attest" /\ work' = [work EXCEPT ![c] = w]
    BY <1>1, <2>1 DEF Doing
  <2> HIDE DEF row, log, w
  <2> QED
    BY <1>1, <2>1, <2>4, <2>6, <2>8, <2>9, <2>10, HeldWriteKeeps
<1> QED
  BY <1>2, <1>3

LEMMA VerifyKeeps ==
  ASSUME RequestInv, NEW c \in Connections, Verify(c)
  PROVE  RequestInv'
<1> DEFINE r == call[c].request
           old == requests[r]
           verdict == call[c].verdict
           to == IF verdict = "UNVERIFIED" THEN "UNVERIFIED" ELSE "VERIFIED"
           moved == Moved(old, to, 1)
           row == [moved EXCEPT !.trust = verdict]
           log == <<Event("TRUST_EVALUATED", old.status, to, verdict)>>
<1>1. Doing(c, "verify", "work") /\ old.status = "ATTESTED"
  BY DEF Verify, Proceeds, Accepted
<1>2. CASE verdict \notin TrustResults
  BY <1>1, <1>2, RefusalKeeps DEF Verify, Doing
<1>3. CASE verdict \in TrustResults
  <2>1. /\ Goto(c, "ready") /\ work' = [work EXCEPT ![c] = Staged(r, row, log, Null, 0)]
        /\ UNCHANGED <<call, stored, requestLock>>
    BY <1>3 DEF Verify, Writes
  <2>2. old \in Rows
    BY <1>1, CallTyped DEF RequestInv, Types, Calling, Locked, Doing
  <2>3. /\ moved \in Rows /\ moved.status = to /\ moved.employer = old.employer
        /\ SameVerdict(old, moved)
    <3>1. to \in Statuses
      BY StatusesNamed
    <3> HIDE DEF to, old
    <3> QED
      BY <2>2, <3>1, MovedRow
  <2>4. /\ row \in Rows /\ row.status = to /\ row.employer = old.employer
        /\ row.trust = verdict /\ row.jws = old.jws /\ row.response = old.response
    <3> HIDE DEF moved, to
    <3> QED
      BY <1>3, <2>3 DEF Rows, SameVerdict
  <2>5. Event("TRUST_EVALUATED", old.status, to, verdict) \in Events
    <3>1. /\ "TRUST_EVALUATED" \in EventTypes /\ old.status \in Statuses
          /\ to \in Statuses /\ verdict \in Details
      BY <1>1, <1>3, StatusesNamed DEF EventTypes, Details
    <3> HIDE DEF to, verdict, old
    <3> QED
      BY <3>1, EventTyped
  <2>6. log \in Seq(Events)
    BY <2>5
  <2>7. Evaluated(old, row, log)
    <3>1. \/ row.status = "VERIFIED" /\ row.trust \in {"VERIFIED", "VERIFIED_WITH_FLAGS"}
          \/ row.status = "UNVERIFIED" /\ row.trust = "UNVERIFIED"
      BY <1>3, <2>4 DEF TrustResults
    <3>2. log = <<Event("TRUST_EVALUATED", old.status, row.status, row.trust)>>
      BY <2>4
    <3> HIDE DEF row, log
    <3> QED
      BY <1>1, <2>4, <3>1, <3>2 DEF Evaluated
  <2>8. Transition(old, row, log)
    BY <2>4, <2>7 DEF Transition
  <2> DEFINE w == Staged(r, row, log, Null, 0)
  <2>9. w.id = r /\ w.row = row /\ w.log = log
    BY DEF Staged
  <2>10. phase[c] = "work" /\ call[c].op = "verify" /\ work' = [work EXCEPT ![c] = w]
    BY <1>1, <2>1 DEF Doing
  <2> HIDE DEF row, log, w
  <2> QED
    BY <1>1, <2>1, <2>4, <2>6, <2>8, <2>9, <2>10, HeldWriteKeeps
<1> QED
  BY <1>2, <1>3

LEMMA UpdateDraftKeeps ==
  ASSUME RequestInv, NEW c \in Connections, UpdateDraft(c)
  PROVE  RequestInv'
<1> DEFINE r == call[c].request
           old == requests[r]
           claimed == [old EXCEPT !.claim = call[c].claim]
           row == Moved(claimed, "DRAFT", 1)
           log == <<Event("DRAFT_UPDATED", "DRAFT", "DRAFT", call[c].version)>>
           w == Staged(r, row, log, Null, 0)
<1>1. phase[c] = "work" /\ call[c].op = "update"
  BY DEF UpdateDraft, Doing
<1>2. CASE ~MatchesDraft(c, old)
  BY <1>1, <1>2, RefusalKeeps DEF UpdateDraft
<1>3. CASE MatchesDraft(c, old)
  <2>1. /\ requestLock[r] = Null /\ requestLock' = [requestLock EXCEPT ![r] = c]
        /\ work' = [work EXCEPT ![c] = w] /\ Goto(c, "ready")
        /\ UNCHANGED <<call, requests, events>>
    BY <1>3 DEF UpdateDraft, Writes, stored
  <2>2. /\ r \in Requests /\ call[c].claim \in Claims
        /\ call[c].version \in 1..MaxUpdates
    BY <1>1, CallTyped DEF RequestInv, Calling
  <2>3. /\ old # Null /\ old \in Rows /\ old.status = "DRAFT"
        /\ old.version = call[c].version
    BY <1>3, <2>2 DEF MatchesDraft, RequestInv, Types
  <2>4. /\ claimed \in Rows /\ claimed.version = old.version
        /\ claimed.employer = old.employer /\ SameVerdict(old, claimed)
    BY <2>2, <2>3 DEF Rows, SameVerdict
  <2>5. /\ row \in Rows /\ row.status = "DRAFT" /\ row.version = old.version + 1
        /\ row.employer = old.employer /\ SameVerdict(old, row)
    <3> HIDE DEF claimed
    <3>1. /\ row \in Rows /\ row.status = "DRAFT" /\ row.version = claimed.version + 1
          /\ row.employer = claimed.employer /\ SameVerdict(claimed, row)
      <4>1. "DRAFT" \in Statuses
        BY StatusesNamed
      <4> QED
        BY <2>4, <4>1, MovedRow
    <3> HIDE DEF row
    <3> QED
      BY <2>4, <3>1 DEF SameVerdict
  <2>6. log \in Seq(Events)
    <3>1. Event("DRAFT_UPDATED", "DRAFT", "DRAFT", call[c].version) \in Events
      BY <2>2, EventTyped, StatusesNamed DEF EventTypes, Details
    <3> QED
      BY <3>1
  <2>7. Transition(old, row, log)
    <3>1. log = <<Event("DRAFT_UPDATED", "DRAFT", "DRAFT", old.version)>>
      BY <2>3
    <3> HIDE DEF row, log
    <3> QED
      BY <2>3, <2>5, <3>1 DEF Transition, Updated
  <2>8. w.id = r /\ w.row = row /\ w.log = log
    BY DEF Staged
  <2>9. /\ requestLock' \in [Requests -> Connections \cup {Null}] /\ requestLock'[r] = c
        /\ \A q \in Requests : requestLock[q] # Null => requestLock'[q] = requestLock[q]
    BY <2>1, <2>2 DEF RequestInv, Types
  <2> HIDE DEF r, row, log, w, claimed
  <2> QED
    BY <1>1, <2>1, <2>2, <2>3, <2>5, <2>6, <2>7, <2>8, <2>9, WriteKeeps
<1> QED
  BY <1>2, <1>3

LEMMA EndKeeps ==
  ASSUME RequestInv, NEW c \in Connections, End(c), UNCHANGED <<requests, events>>
  PROVE  RequestInv'
<1>1. /\ phase'[c] = "idle" /\ work'[c] = Null
      /\ \A d \in Connections \ {c} :
           call'[d] = call[d] /\ phase'[d] = phase[d] /\ work'[d] = work[d]
      /\ \A q \in Requests :
           requestLock'[q] = IF requestLock[q] = c THEN Null ELSE requestLock[q]
      /\ Types'
  BY DEF RequestInv, Types, End, Goto
<1>2. Calling'
  BY <1>1 DEF RequestInv, Calling
<1>3. Stored'
  BY DEF RequestInv, Stored
<1>4. Locked'
  <2> SUFFICES ASSUME NEW d \in Connections \ {c}, phase[d] = "work",
                      call[d].op \notin {"create", "update"}
               PROVE  /\ requests[call[d].request] # Null
                      /\ requestLock'[call[d].request] = d
    BY <1>1 DEF Locked
  <2>1. call[d].request \in Requests
    BY CallTyped DEF RequestInv, Calling
  <2>2. requests[call[d].request] # Null /\ requestLock[call[d].request] = d
    BY DEF RequestInv, Locked
  <2> QED
    BY <1>1, <2>1, <2>2
<1>5. Pending'
  BY <1>1 DEF RequestInv, Pending
<1>6. Apart'
  BY <1>1 DEF RequestInv, Apart
<1> QED
  BY <1>1, <1>2, <1>3, <1>4, <1>5, <1>6 DEF RequestInv

\* What a commit publishes of one request: a creation, or a transition of the row that
\* is still the committed one.
LEMMA CommitPublishes ==
  ASSUME RequestInv, NEW c \in Connections, Commit(c), work[c] # Null
  PROVE  \E r \in Requests, old \in Rows \cup {Null}, new \in Rows, log \in Seq(Events) :
           /\ r = work[c].id /\ old = requests[r] /\ requests'[r] = new
           /\ events'[r] = events[r] \o log
           /\ \A q \in Requests \ {r} : requests'[q] = requests[q] /\ events'[q] = events[q]
           /\ requests' \in [Requests -> Rows \cup {Null}]
           /\ events' = [q \in Requests |-> events'[q]]
           /\ \/ old = Null /\ Created(new, log)
              \/ old # Null /\ Transition(old, new, log)
<1>1. /\ requests' = [requests EXCEPT ![work[c].id] = work[c].row]
      /\ events' = [events EXCEPT ![work[c].id] = events[work[c].id] \o work[c].log]
  BY DEF Commit, Publish
<1>2. work[c].id \in Requests
  BY DEF RequestInv, Pending
<1>3. PICK old \in Rows \cup {Null}, new \in Rows, log \in Seq(Events) :
        /\ old = requests[work[c].id] /\ new = work[c].row /\ log = work[c].log
        /\ \/ old = Null /\ Created(new, log)
           \/ old # Null /\ Transition(old, new, log)
  BY DEF RequestInv, Pending
<1> DEFINE r == work[c].id
<1>4. /\ requests'[r] = new /\ events'[r] = events[r] \o log
      /\ \A q \in Requests \ {r} : requests'[q] = requests[q] /\ events'[q] = events[q]
      /\ requests' \in [Requests -> Rows \cup {Null}]
      /\ events' = [q \in Requests |-> events'[q]]
  BY <1>1, <1>2, <1>3 DEF RequestInv, Types
<1> HIDE DEF r
<1> QED
  BY <1>2, <1>3, <1>4 DEF r

LEMMA CommitKeeps ==
  ASSUME RequestInv, NEW c \in Connections, Commit(c)
  PROVE  RequestInv'
<1>1. CASE work[c] = Null
  BY <1>1, EndKeeps DEF Commit, stored
<1>2. CASE work[c] # Null
  <2>1. PICK r \in Requests, old \in Rows \cup {Null}, new \in Rows, log \in Seq(Events) :
          /\ r = work[c].id /\ old = requests[r] /\ requests'[r] = new
          /\ events'[r] = events[r] \o log
          /\ \A q \in Requests \ {r} : requests'[q] = requests[q] /\ events'[q] = events[q]
          /\ requests' \in [Requests -> Rows \cup {Null}]
          /\ events' = [q \in Requests |-> events'[q]]
          /\ \/ old = Null /\ Created(new, log)
             \/ old # Null /\ Transition(old, new, log)
    BY <1>2, CommitPublishes
  <2>2. /\ phase'[c] = "idle" /\ work'[c] = Null
        /\ \A d \in Connections \ {c} :
             call'[d] = call[d] /\ phase'[d] = phase[d] /\ work'[d] = work[d]
        /\ \A q \in Requests :
             requestLock'[q] = IF requestLock[q] = c THEN Null ELSE requestLock[q]
        /\ phase' = [d \in Connections |-> phase'[d]]
        /\ work' = [d \in Connections |-> work'[d]]
        /\ call' \in [Connections -> Calls \cup {Null}]
        /\ requestLock' \in [Requests -> Connections \cup {Null}]
    BY DEF Commit, RequestInv, Types, End, Goto
  <2>3. new # Null
    BY EvtAssumption
  <2>4. Types'
    BY <2>1, <2>2 DEF Types
  <2>5. Calling'
    BY <2>2 DEF RequestInv, Calling
  <2>6. Stored'
    <3>1. ASSUME NEW q \in Requests \ {r}
          PROVE  \/ requests'[q] = Null /\ events'[q] = <<>>
                 \/ \E row \in Rows, log2 \in Seq(Events) :
                      row = requests'[q] /\ log2 = events'[q] /\ Consistent(row, log2)
      BY <2>1, <3>1 DEF RequestInv, Stored
    <3>2. CASE old = Null
      <4>1. Consistent(new, log)
        BY <2>1, <2>3, <3>2, CreationConsistent, EvtAssumption
      <4>2. events[r] = <<>>
        <5>1. requests[r] = Null /\ Null \notin Rows
          BY <2>1, <3>2, EvtAssumption
        <5> QED
          BY <5>1 DEF RequestInv, Stored
      <4>3. events'[r] = log
        BY <2>1, <4>2
      <4> QED
        BY <2>1, <3>1, <4>1, <4>3 DEF Stored
    <3>3. CASE old # Null
      <4>1. PICK log1 \in Seq(Events) : log1 = events[r] /\ Consistent(old, log1)
        BY <2>1, <3>3 DEF RequestInv, Stored
      <4>2. Consistent(new, log1 \o log)
        BY <2>1, <3>3, <4>1, TransitionConsistent
      <4>3. events'[r] = log1 \o log /\ log1 \o log \in Seq(Events)
        BY <2>1, <4>1
      <4> QED
        BY <2>1, <3>1, <4>2, <4>3 DEF Stored
    <3> QED
      BY <3>2, <3>3
  <2>7. ASSUME NEW d \in Connections \ {c}, work[d] # Null
        PROVE  work[d].id # r
    BY <1>2, <2>1, <2>7 DEF RequestInv, Apart
  <2>8. Locked'
    <3> SUFFICES ASSUME NEW d \in Connections \ {c}, phase[d] = "work",
                        call[d].op \notin {"create", "update"}
                 PROVE  /\ requests'[call[d].request] # Null
                        /\ requestLock'[call[d].request] = d
      BY <2>2 DEF Locked
    <3>1. call[d].request \in Requests
      BY CallTyped DEF RequestInv, Calling
    <3>2. requests[call[d].request] # Null /\ requestLock[call[d].request] = d
      BY DEF RequestInv, Locked
    <3> QED
      BY <2>1, <2>2, <2>3, <3>1, <3>2
  <2>9. Pending'
    BY <2>1, <2>2, <2>7 DEF RequestInv, Pending
  <2>10. Apart'
    BY <2>2 DEF RequestInv, Apart
  <2> QED
    BY <2>4, <2>5, <2>6, <2>8, <2>9, <2>10 DEF RequestInv
<1> QED
  BY <1>1, <1>2

LEMMA NextRequestInv == RequestInv /\ [Next]_vars => RequestInv'
<1> SUFFICES ASSUME RequestInv, [Next]_vars PROVE RequestInv'
  OBVIOUS
<1>1. ASSUME NEW c \in Connections, BeginCall(c) \/ BeginAttest(c, "request")
      PROVE  RequestInv'
  BY <1>1, BeginKeeps
<1>2. ASSUME NEW c \in Connections, RefuseStatus(c) PROVE RequestInv'
  BY <1>2, RefusalKeeps DEF RefuseStatus
<1>3. ASSUME NEW c \in Connections, Statement(c) PROVE RequestInv'
  BY <1>2, <1>3, LockRequestKeeps, CreateKeeps, UpdateDraftKeeps, SubmitKeeps, CancelKeeps,
     AttestKeeps, VerifyKeeps, ConsumeKeeps, CloseKeeps DEF Statement
<1>4. ASSUME NEW c \in Connections, FailEvent(c) PROVE RequestInv'
  <2>1. PICK where \in {"aborted", "failed"} : Goto(c, where)
    BY <1>4 DEF FailEvent
  <2> QED
    BY <1>4, <2>1, GotoKeeps DEF FailEvent, stored
<1>5. ASSUME NEW c \in Connections, Commit(c) PROVE RequestInv'
  BY <1>5, CommitKeeps
<1>6. ASSUME NEW c \in Connections, Rollback(c) \/ Lose(c) PROVE RequestInv'
  BY <1>6, EndKeeps DEF Rollback, Lose, stored
<1>7. CASE UNCHANGED <<call, phase, requests, events, work, requestLock>>
  BY <1>7 DEF RequestInv, Types, Calling, Stored, Locked, Pending, Apart
<1> QED
  BY <1>1, <1>3, <1>4, <1>5, <1>6, <1>7 DEF Next, SetDispatch, vars, stored

LEMMA RequestInvHolds == Spec => []RequestInv
<1> QED
  BY InitRequestInv, NextRequestInv, PTL DEF Spec

-----------------------------------------------------------------------------
(* What is proved of requests                                               *)

LEMMA StoredConsistent ==
  ASSUME RequestInv, NEW r \in Existing
  PROVE  \E row \in Rows, log \in Seq(Events) :
           row = requests[r] /\ log = events[r] /\ Consistent(row, log)
  BY DEF RequestInv, Stored, Existing

\* The events of a request are its history, whatever fails or runs at the same time.
THEOREM HistoryExplainsStatusAlways == Spec => []HistoryExplainsStatus
<1>1. RequestInv => HistoryExplainsStatus
  <2> SUFFICES ASSUME RequestInv, NEW r \in Requests
               PROVE  LET log == events[r]  n == Len(log)
                      IN /\ r \in Existing <=> n > 0
                         /\ n > 0 => /\ log[1].type = "DRAFT_CREATED"
                                     /\ log[n].to = requests[r].status
                         /\ \A i \in 2..n : log[i].from = log[i - 1].to
    BY DEF HistoryExplainsStatus
  <2>1. CASE requests[r] = Null
    <3>1. events[r] = <<>>
      BY <2>1, EvtAssumption DEF RequestInv, Stored
    <3>2. Len(events[r]) = 0
      BY <3>1
    <3> QED
      BY <2>1, <3>2 DEF Existing
  <2>2. CASE requests[r] # Null
    <3>1. PICK row \in Rows, log \in Seq(Events) :
            row = requests[r] /\ log = events[r] /\ Consistent(row, log)
      BY <2>2, StoredConsistent DEF Existing
    <3> QED
      BY <2>2, <3>1 DEF Existing, Consistent, Historic, Chained
  <2> QED
    BY <2>1, <2>2
<1> QED
  BY <1>1, RequestInvHolds, PTL

\* No draft update is lost: the n-th accepted one was made against version n.
THEOREM UpdatesBuildOnNewestAlways == Spec => []UpdatesBuildOnNewest
<1>1. RequestInv => UpdatesBuildOnNewest
  <2> SUFFICES ASSUME RequestInv, NEW r \in Existing, NEW i \in DOMAIN events[r],
                      events[r][i].type = "DRAFT_UPDATED"
               PROVE  events[r][i].detail =
                        Cardinality({j \in 1..i : events[r][j].type = "DRAFT_UPDATED"})
    BY DEF UpdatesBuildOnNewest
  <2>1. PICK row \in Rows, log \in Seq(Events) :
          row = requests[r] /\ log = events[r] /\ Consistent(row, log)
    BY StoredConsistent
  <2>2. i \in 1..Len(log) /\ log[1].type # "DRAFT_UPDATED"
    BY <2>1 DEF Consistent, Historic
  <2>3. log[i].detail = i - 1 /\ \A j \in 2..i : log[j].type = "DRAFT_UPDATED"
    BY <2>1, <2>2 DEF Consistent, Drafted
  <2>4. {j \in 1..i : log[j].type = "DRAFT_UPDATED"} = 2..i
    BY <2>2, <2>3
  <2>5. Cardinality(2..i) = i - 1
    <3>1. i \in Int /\ 2 \in Int /\ i >= 1
      BY <2>2
    <3>2. Cardinality(2..i) = IF 2 > i THEN 0 ELSE i - 2 + 1
      BY <3>1, FS_Interval
    <3> QED
      BY <3>1, <3>2
  <2> QED
    BY <2>1, <2>3, <2>4, <2>5
<1> QED
  BY <1>1, RequestInvHolds, PTL

LEMMA OneOfCounts ==
  ASSUME NEW log \in Seq(Events), NEW type, OneOf(log, type)
  PROVE  Cardinality({i \in DOMAIN log : log[i].type = type}) = 1
<1>1. PICK k \in 1..Len(log) : \A i \in 1..Len(log) : log[i].type = type <=> i = k
  BY DEF OneOf
<1>2. {i \in DOMAIN log : log[i].type = type} = {k}
  BY <1>1
<1> QED
  BY <1>2, FS_Singleton

\* What recruiters are shown, by status.
LEMMA VerdictShown ==
  ASSUME NEW row, NEW log, Consistent(row, log)
  PROVE  /\ row.status = "VERIFIED" => VerificationState(row) = "verified"
         /\ row.status \in {"UNVERIFIED", "REJECTED"} => VerificationState(row) = "unverified"
         /\ row.status \in {"DRAFT", "SUBMITTED", "ATTESTATION_PENDING", "ATTESTED"} =>
              VerificationState(row) = "pending"
         /\ row.status \in {"CONSUMED", "CLOSED"} =>
              VerificationState(row) = IF row.trust = "UNVERIFIED" THEN "unverified"
                                       ELSE "verified"
         /\ row.status = "CANCELED" => VerificationState(row) = "unknown"
<1>1. row.status \in {"CONSUMED", "CLOSED"} => row.trust \in TrustResults
  BY DEF Consistent, Judged, Rows
<1> QED
  BY <1>1 DEF VerificationState, TrustResults

\* A recruiter who is shown a verified employment is shown one signed answer of HR that
\* says so, and one evaluation of it.
THEOREM VerdictRestsOnAttestationAlways == Spec => []VerdictRestsOnAttestation
<1>1. RequestInv => VerdictRestsOnAttestation
  <2> SUFFICES ASSUME RequestInv, NEW r \in Existing
               PROVE  LET row   == requests[r]
                          Of(t) == {i \in DOMAIN events[r] : events[r][i].type = t}
                      IN /\ VerificationState(row) = "verified" =>
                              /\ SignatureStatus(row) = "verified" /\ row.response \in Matches
                              /\ Cardinality(Of("HR_ATTESTED")) = 1
                              /\ Cardinality(Of("TRUST_EVALUATED")) = 1
                         /\ row.status = "REJECTED" => SignatureStatus(row) # "verified"
                         /\ row.status # "CANCELED" => VerificationState(row) # "unknown"
    BY DEF VerdictRestsOnAttestation
  <2>1. PICK row \in Rows, log \in Seq(Events) :
          row = requests[r] /\ log = events[r] /\ Consistent(row, log)
    BY StoredConsistent
  <2>2. row.status \in Statuses
    BY DEF Rows
  <2>3. VerificationState(row) = "verified" => row.status \in {"VERIFIED", "CONSUMED", "CLOSED"}
    BY <2>1, <2>2, VerdictShown DEF Statuses
  <2>4. ASSUME VerificationState(row) = "verified"
        PROVE  /\ SignatureStatus(row) = "verified" /\ row.response \in Matches
               /\ Cardinality({i \in DOMAIN log : log[i].type = "HR_ATTESTED"}) = 1
               /\ Cardinality({i \in DOMAIN log : log[i].type = "TRUST_EVALUATED"}) = 1
    <3>1. Signed(row, log) /\ OneOf(log, "TRUST_EVALUATED")
      BY <2>1, <2>3, <2>4 DEF Consistent, Judged
    <3> QED
      BY <3>1, OneOfCounts DEF Signed, SignatureStatus
  <2>5. row.status = "REJECTED" => SignatureStatus(row) # "verified"
    BY <2>1 DEF Consistent, Judged, SignatureStatus
  <2>6. row.status # "CANCELED" => VerificationState(row) # "unknown"
    BY <2>1, <2>2, VerdictShown DEF Statuses
  <2> QED
    BY <2>1, <2>4, <2>5, <2>6
<1> QED
  BY <1>1, RequestInvHolds, PTL

\* A step publishes at most one request, as a creation or as a transition.
LEMMA StepPublishes ==
  ASSUME RequestInv, [Next]_vars
  PROVE  \/ UNCHANGED requests
         \/ \E r \in Requests, old \in Rows \cup {Null}, new \in Rows, log \in Seq(Events) :
              /\ old = requests[r] /\ requests'[r] = new
              /\ \A q \in Requests \ {r} : requests'[q] = requests[q]
              /\ \/ old = Null /\ Created(new, log)
                 \/ old # Null /\ Transition(old, new, log)
<1>1. UNCHANGED requests \/ \E c \in Connections : Commit(c) /\ work[c] # Null
  <2>1. ASSUME NEW c \in Connections, Statement(c) PROVE UNCHANGED requests
    BY <2>1 DEF Statement, LockRequest, Create, UpdateDraft, Submit, Cancel, Attest, Verify,
       Consume, Close, RefuseStatus, Writes, stored
  <2>2. ASSUME NEW c \in Connections, BeginCall(c) \/ BeginAttest(c, "request")
        PROVE  UNCHANGED requests
    BY <2>2 DEF BeginCall, BeginByCandidate, BeginOther, BeginAttest, Begin, stored
  <2>3. ASSUME NEW c \in Connections, Commit(c) PROVE UNCHANGED requests \/ work[c] # Null
    BY <2>3 DEF Commit, stored
  <2> QED
    BY <2>1, <2>2, <2>3 DEF Next, FailEvent, Rollback, Lose, SetDispatch, vars, stored
<1>2. ASSUME NEW c \in Connections, Commit(c), work[c] # Null
      PROVE  \E r \in Requests, old \in Rows \cup {Null}, new \in Rows, log \in Seq(Events) :
              /\ old = requests[r] /\ requests'[r] = new
              /\ \A q \in Requests \ {r} : requests'[q] = requests[q]
              /\ \/ old = Null /\ Created(new, log)
                 \/ old # Null /\ Transition(old, new, log)
  BY <1>2, CommitPublishes
<1> QED
  BY <1>1, <1>2

LEMMA VerdictKept ==
  ASSUME NEW old, NEW log, Consistent(old, log),
         NEW new \in Rows, NEW added \in Seq(Events), Transition(old, new, added),
         VerificationState(old) \in {"verified", "unverified"}
  PROVE  VerificationState(new) = VerificationState(old)
<1>1. Consistent(new, log \o added)
  BY TransitionConsistent
<1>2. old.status \in {"REJECTED", "VERIFIED", "UNVERIFIED", "CONSUMED", "CLOSED"}
  <2>1. old.status \in Statuses
    BY DEF Consistent, Rows
  <2> QED
    BY <2>1, VerdictShown DEF Statuses
<1>3. new = old \/ Passed(old, new, added)
  BY <1>2 DEF Transition, Updated, Dispatched, Attested, Evaluated
<1>4. CASE Passed(old, new, added)
  <2>1. /\ \/ old.status \in {"VERIFIED", "UNVERIFIED"} /\ new.status = "CONSUMED"
           \/ old.status = "CONSUMED" /\ new.status = "CLOSED"
        /\ new.trust = old.trust
    BY <1>2, <1>4 DEF Passed, SameVerdict
  <2>2. VerificationState(new) = IF new.trust = "UNVERIFIED" THEN "unverified" ELSE "verified"
    BY <1>1, <2>1, VerdictShown
  <2>3. CASE old.status = "VERIFIED"
    <3>1. old.trust # "UNVERIFIED"
      BY <2>3 DEF Consistent, Judged
    <3> QED
      BY <2>1, <2>2, <2>3, <3>1, VerdictShown
  <2>4. CASE old.status = "UNVERIFIED"
    <3>1. old.trust = "UNVERIFIED"
      BY <2>4 DEF Consistent, Judged
    <3> QED
      BY <2>1, <2>2, <2>4, <3>1, VerdictShown
  <2>5. CASE old.status = "CONSUMED"
    BY <2>1, <2>2, <2>5, VerdictShown
  <2> QED
    BY <2>1, <2>3, <2>4, <2>5
<1> QED
  BY <1>3, <1>4

\* A verdict shown to a recruiter stays the verdict, through consumption and closing.
THEOREM VerdictIsFinalAlways == Spec => VerdictIsFinal
<1>1. ASSUME RequestInv, [Next]_vars, NEW r \in Existing,
             VerificationState(requests[r]) \in {"verified", "unverified"}
      PROVE  VerificationState(requests'[r]) = VerificationState(requests[r])
  <2>1. PICK row \in Rows, log \in Seq(Events) :
          row = requests[r] /\ log = events[r] /\ Consistent(row, log)
    BY <1>1, StoredConsistent
  <2>2. CASE requests'[r] = requests[r]
    BY <2>2, <2>1
  <2>3. CASE requests'[r] # requests[r]
    <3>1. PICK q \in Requests, old \in Rows \cup {Null}, new \in Rows, added \in Seq(Events) :
            /\ old = requests[q] /\ requests'[q] = new
            /\ \A o \in Requests \ {q} : requests'[o] = requests[o]
            /\ \/ old = Null /\ Created(new, added)
               \/ old # Null /\ Transition(old, new, added)
      BY <1>1, <2>3, StepPublishes DEF Existing
    <3>2. requests'[r] = new /\ old = row /\ row # Null
      BY <2>1, <2>3, <3>1, EvtAssumption DEF Existing
    <3>3. VerificationState(row) \in {"verified", "unverified"}
      BY <1>1, <2>1
    <3>4. VerificationState(new) = VerificationState(row)
      BY <2>1, <3>1, <3>2, <3>3, VerdictKept
    <3> QED
      BY <2>1, <3>2, <3>4
  <2> QED
    BY <2>2, <2>3
<1>2. RequestInv /\ [Next]_vars =>
        [\A r \in Existing : VerificationState(requests[r]) \in {"verified", "unverified"} =>
           VerificationState(requests'[r]) = VerificationState(requests[r])]_vars
  BY <1>1
<1> QED
  BY <1>2, RequestInvHolds, PTL DEF Spec, VerdictIsFinal

\* The status of a row, NONE where there is none.
Status == [r \in Requests |-> IF requests[r] = Null THEN "NONE" ELSE requests[r].status]

LEMMA TransitionMoves ==
  ASSUME NEW old, NEW new, NEW log, Transition(old, new, log), new.status # old.status
  PROVE  <<old.status, new.status>> \in Lifecycle!Moves
<1>1. CASE Dispatched(old, new, log)
  BY <1>1 DEF Dispatched, Lifecycle!Moves
<1>2. CASE Passed(old, new, log)
  BY <1>2 DEF Passed, Lifecycle!Moves
<1>3. CASE Attested(old, new, log)
  BY <1>3 DEF Attested, Lifecycle!Moves
<1>4. CASE Evaluated(old, new, log)
  BY <1>4 DEF Evaluated, Lifecycle!Moves
<1> QED
  BY <1>1, <1>2, <1>3, <1>4 DEF Transition, Updated

\* Concurrent operations together move every request along its lifecycle: each step of
\* the system is a move of one request, or none.
THEOREM RequestsFollowLifecycle == Spec => LifecycleRefinement
<1>1. Init => Lifecycle!Init
  BY DEF Init, Lifecycle!Init
<1>2. RequestInv /\ [Next]_vars => [Lifecycle!Next]_Status
  <2> SUFFICES ASSUME RequestInv, [Next]_vars PROVE Lifecycle!Next \/ UNCHANGED Status
    OBVIOUS
  <2>1. CASE UNCHANGED requests
    BY <2>1 DEF Status
  <2>2. ASSUME NEW r \in Requests, NEW old \in Rows \cup {Null}, NEW new \in Rows,
               NEW log \in Seq(Events),
               old = requests[r], requests'[r] = new,
               \A q \in Requests \ {r} : requests'[q] = requests[q],
               \/ old = Null /\ Created(new, log)
               \/ old # Null /\ Transition(old, new, log)
        PROVE  Lifecycle!Next \/ UNCHANGED Status
    <3> DEFINE from == IF old = Null THEN "NONE" ELSE old.status
    <3>1. new # Null /\ new.status \in Statuses
      BY EvtAssumption DEF Rows
    <3>2. /\ Status[r] = from /\ Status'[r] = new.status
          /\ \A q \in Requests \ {r} : Status'[q] = Status[q]
      BY <2>2, <3>1 DEF Status
    <3>3. Status' = [Status EXCEPT ![r] = new.status]
      BY <3>2 DEF Status
    <3>4. CASE from = new.status
      BY <3>2, <3>3, <3>4 DEF Status
    <3>5. CASE from # new.status
      <4>1. <<from, new.status>> \in Lifecycle!Moves
        <5>1. CASE old = Null
          BY <2>2, <5>1, EvtAssumption DEF Created, Transition, Lifecycle!Moves
        <5>2. CASE old # Null
          BY <2>2, <3>5, <5>2, TransitionMoves
        <5> QED
          BY <5>1, <5>2
      <4>2. Lifecycle!Move(r)
        BY <3>1, <3>2, <3>3, <4>1 DEF Lifecycle!Move, Lifecycle!Statuses, Statuses, Status
      <4> QED
        BY <4>2 DEF Lifecycle!Next
    <3> QED
      BY <3>4, <3>5
  <2> QED
    BY <2>1, <2>2, StepPublishes
<1> QED
  BY <1>1, <1>2, RequestInvHolds, PTL DEF Spec, LifecycleRefinement, Lifecycle!Spec, Status

=============================================================================
