------------------------------- MODULE MCIngest -------------------------------
(***************************************************************************)
(* Small instances of Ingest.                                              *)
(***************************************************************************)
EXTENDS Ingest, TLC

Generic(key, source, severity) ==
  [endpoint |-> "generic", wellFormed |-> TRUE, success |-> FALSE, level |-> 0,
   severity |-> severity, key |-> key, source |-> source]
Wazuh(key, source, level) == [Generic(key, source, "P3") EXCEPT !.endpoint = "wazuh", !.level = level]
Forgejo(key, success) == [Generic(key, "forgejo", "P3") EXCEPT !.endpoint = "forgejo", !.success = success]

OneSource == {"disk"}
AllSources == {"disk", "wazuh", "forgejo"}
OneKey == {"k1"}
TwoKeys == {"k1", "k2"}

\* One alert that keeps being sent, another one, and an urgent one.
RepeatedTraffic == {Generic("k1", "disk", "P1"), Generic("k2", "disk", "P1"),
                    Generic("k2", "disk", "P0")}

\* Every path through the handlers.
EveryEndpoint == {Generic("k1", "disk", "P2"), Generic("k2", "disk", "P0"),
                  Wazuh("k2", "wazuh", 12), Forgejo("k1", FALSE),
                  Forgejo("k1", TRUE), [Wazuh("k2", "wazuh", 3) EXCEPT !.wellFormed = FALSE]}

SingleAlert == {Generic("k1", "disk", "P1")}

NoFaults == {}
NatsFaults == {"nats"}

Symmetry == Permutations(Requests)
=============================================================================
