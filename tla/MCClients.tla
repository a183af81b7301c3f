------------------------------- MODULE MCClients -------------------------------
EXTENDS Clients, TLC

CONSTANTS c1, c2

\* c2 adds a key, revokes s1 and admits a lower assurance.
MCReleases ==
  c1 :> [keys |-> {"k1"}, schema |-> "evt", assurances |-> {"high"},
         status |-> [s1 |-> "good", s2 |-> "good"]] @@
  c2 :> [keys |-> {"k1", "k2"}, schema |-> "evt", assurances |-> {"high", "low"},
         status |-> [s1 |-> "revoked", s2 |-> "good"]]

Sound == [schema |-> "evt", key |-> "k1", kid |-> TRUE, complete |-> TRUE,
          disclosure |-> "full", hashed |-> TRUE, time |-> "now", serial |-> "s1",
          assurance |-> "high"]

\* A sound credential, and those that differ from it in one or two respects.
MCCredentials ==
  {Sound, [Sound EXCEPT !.serial = "s2"], [Sound EXCEPT !.key = "k2"],
   [Sound EXCEPT !.serial = "s2", !.assurance = "low"], [Sound EXCEPT !.time = "late"]}
===============================================================================
