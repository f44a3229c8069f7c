------------------------------- MODULE MCAgent -------------------------------
(* Small instances of Agent for TLC.                                       *)
EXTENDS Agent

AllAt(tag) == [n \in Names |-> IF n \in Services THEN tag ELSE None]

\* One node that runs everything.
Single == [services |-> {}, image |-> AllAt("v1"), mode |-> "single", role |-> None,
           gossip |-> FALSE]

\* The same in a mesh, and what is left when Postgres and Valkey move to
\* another node, with an upgrade of the app.
AllHere == [Single EXCEPT !.services = Services]
AppNode == [Single EXCEPT !.services = {"app"}, !.gossip = TRUE,
                          !.image = [AllAt("v1") EXCEPT !["app"] = "v2"]]

\* A database node, first as a secondary and then promoted.
Secondary == [Single EXCEPT !.services = {"postgres"}, !.gossip = TRUE,
                            !.mode = "cluster", !.role = "secondary"]
Primary   == [Secondary EXCEPT !.role = "primary"]

Mixed         == {AllHere, AppNode, Secondary, Primary}
JustSingle    == {Single}
JustSecondary == {Secondary}
==============================================================================
