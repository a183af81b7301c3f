----------------------------- MODULE AuthorityLog -----------------------------
(***************************************************************************)
(* What authority recording promises: evidence is appended to one log, one *)
(* item at a time, and a reader takes a whole prefix of it.  Nothing is    *)
(* lost, reordered, recorded twice or seen half-written.                   *)
(***************************************************************************)
EXTENDS Sequences, Naturals

CONSTANTS Evidence,   \* what can be recorded
          Readers

VARIABLES log,        \* the recorded evidence, in recording order
          seen        \* what each reader last read

Nothing == <<>>

Init == log = <<>> /\ seen = [r \in Readers |-> Nothing]

Record(e) ==
  /\ \A i \in DOMAIN log : log[i] # e
  /\ log' = Append(log, e)
  /\ UNCHANGED seen

Read(r) == seen' = [seen EXCEPT ![r] = log] /\ UNCHANGED log

Next == (\E e \in Evidence : Record(e)) \/ (\E r \in Readers : Read(r))

Spec == Init /\ [][Next]_<<log, seen>>

=============================================================================
