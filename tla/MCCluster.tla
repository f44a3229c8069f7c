------------------------------ MODULE MCCluster ------------------------------
(* A small instance of Cluster for TLC.                                    *)
EXTENDS Cluster

\* All nodes name each other; the key of d does not decode.
Everyone == [n \in Nodes |-> Nodes \ {n}]
OneAlone == [n \in Nodes |-> IF n = "d" THEN None ELSE "key"]

Member(S, r) == [services |-> S, role |-> r, cluster |-> TRUE]

Some == {Member({"app"}, None), Member({"postgres"}, "primary"),
         [services |-> {}, role |-> "secondary", cluster |-> FALSE]}
==============================================================================
