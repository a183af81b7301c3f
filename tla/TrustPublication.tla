---------------------------- MODULE TrustPublication ----------------------------
(***************************************************************************)
(* The trust artifacts: scripts/publish.ts puts those of a commit on the   *)
(* object store, one object after the other, moves the pointer latest.json *)
(* and replaces the stable copies, one by one.  pkg/verification decides   *)
(* on a credential by the stable copies it finds (verify.ts:10); nothing   *)
(* reads the versioned objects or the pointer to decide.                   *)
(*                                                                         *)
(* The workflow runs on every push to main and by hand, so for two commits *)
(* at a time, may be cut short anywhere, and may be run again.             *)
(***************************************************************************)
EXTENDS Naturals, Sequences

CONSTANTS
  Releases,     \* commit -> its artifacts: keys, schema, allowed assurances, serials' status
  Credentials,  \* credentials a verifier may be given
  NoSha

Shas == DOMAIN Releases
Artifacts == {"jwks", "statuslist", "policy"}

VARIABLES
  runs,    \* how far the publication of each commit has got; 0 is not running
  put,     \* versioned objects
  latest,  \* commit in latest.json, or NoSha
  copies,  \* stable object -> the commit it is a copy of, or NoSha
  period,    \* history: the commits begun to be published since no publication was running
  completed  \* history: one of those publications has run to its end

trustVars == <<runs, put, latest, copies, period, completed>>

TrustInit ==
  /\ runs = [sha \in Shas |-> 0] /\ put = {} /\ latest = NoSha
  /\ copies = [a \in Artifacts |-> NoSha]
  /\ period = {} /\ completed = FALSE

-----------------------------------------------------------------------------
(* publish.ts                                                               *)

Versioned == <<"jwks", "policy", "statuslist">>

\* Fault: of the three specifications one is without stable: true.
StepsTwoStable ==
  [i \in 1..3 |-> [of |-> Versioned[i], op |-> "put"]] \o <<[op |-> "latest"]>>
  \o [i \in 1..3 |-> [of |-> Versioned[IF i = 2 THEN 3 ELSE i], op |-> "copy"]]

\* 2) versioned artifacts, 4) the pointer, 5) the stable copies.
Steps ==
  [i \in 1..3 |-> [of |-> Versioned[i], op |-> "put"]] \o <<[op |-> "latest"]>>
  \o [i \in 1..3 |-> [of |-> Versioned[i], op |-> "copy"]]

NoneRuns == \A sha \in Shas : runs[sha] = 0

StartPublication == \E sha \in Shas :
  /\ runs[sha] = 0 /\ runs' = [runs EXCEPT ![sha] = 1]
  /\ period' = IF NoneRuns THEN {sha} ELSE period \cup {sha}
  /\ completed' = (completed /\ ~NoneRuns)
  /\ UNCHANGED <<put, latest, copies>>

\* CopyObject takes what the versioned object is.
Perform(sha, step) ==
  /\ step.op = "copy" => <<sha, step.of>> \in put
  /\ put' = IF step.op = "put" THEN put \cup {<<sha, step.of>>} ELSE put
  /\ latest' = IF step.op = "latest" THEN sha ELSE latest
  /\ copies' = IF step.op = "copy" THEN [copies EXCEPT ![step.of] = sha] ELSE copies

\* The step takes place and the next one is up.
PublicationStep == \E sha \in Shas :
  /\ runs[sha] > 0 /\ Perform(sha, Steps[runs[sha]])
  /\ runs' = [runs EXCEPT ![sha] = IF @ = Len(Steps) THEN 0 ELSE @ + 1]
  /\ completed' = (completed \/ runs[sha] = Len(Steps))
  /\ UNCHANGED period

\* A request fails, or the job is killed.
PublicationStops == \E sha \in Shas :
  /\ runs[sha] > 0 /\ runs' = [runs EXCEPT ![sha] = 0]
  /\ UNCHANGED <<put, latest, copies, period, completed>>

TrustNext == StartPublication \/ PublicationStep \/ PublicationStops

TrustSpec == TrustInit /\ [][TrustNext]_trustVars

-----------------------------------------------------------------------------
(* verifyAttestationJws                                                     *)

\* The checks in their order, each with the code it refuses with.
Checks(c, jwks, statuslist, policy) == <<
  <<c.key \in jwks.keys, "BAD_SIGNATURE">>,
  <<c.kid, "HEADER_INVALID">>,
  <<c.schema = policy.schema, "SCHEMA_URI_INVALID">>,
  <<c.complete, "SCHEMA_INVALID">>,
  <<c.disclosure = "full", "DISCLOSURE_MODE_INVALID">>,
  <<c.hashed, "HASH_INVALID">>,
  <<c.time # "early", "NOT_YET_VALID">>,
  <<c.time # "late", "EXPIRED">>,
  <<statuslist.status[c.serial] # "revoked", "REVOKED">>,
  <<statuslist.status[c.serial] \in {"good", "not listed"}, "REVOCATION_STATUS_INVALID">>,
  <<c.assurance \in policy.assurances, "POLICY_ASSURANCE_INVALID">>,
  <<FALSE, "VALID">> >>

\* The first check that fails; the last one always does.  found says whose artifacts
\* fetchTrustArtifacts got, NoSha being a 404.
Verdict(c, found) ==
  IF \E a \in Artifacts : found[a] = NoSha THEN "NOT_FETCHED"
  ELSE LET checks == Checks(c, Releases[found["jwks"]], Releases[found["statuslist"]],
                            Releases[found["policy"]])
       IN SelectSeq(checks, LAMBDA check : ~check[1])[1][2]

-----------------------------------------------------------------------------
(* Properties                                                               *)

\* Whatever earlier publications left cut short or mixed, one that runs to its end makes
\* it good: from then on the pointer and every verdict are of the artifacts of commits
\* published in that period, so of one commit when no publications overlap
\* (publish.ts:101-114, verify.ts:10).  Those of a period may be mixed, as nothing keeps
\* publications apart.
VerdictsAreOfThePeriod ==
  completed =>
    /\ latest \in period
    /\ \A c \in Credentials : \E from \in [Artifacts -> period] :
         Verdict(c, copies) = Verdict(c, from)

=============================================================================
