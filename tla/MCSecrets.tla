------------------------------ MODULE MCSecrets ------------------------------
(* Small instances of Secrets for TLC.                                     *)
EXTENDS Secrets

\* A complete file, one of a version that had the cluster key but neither the
\* database nor the key of the app, and one somebody wrote without a password.
Complete   == [f \in Fields |-> Given]
Older      == [f \in Fields |-> IF f \in {Password, "cluster_key"} THEN Given ELSE Empty]
NoPassword == [f \in Fields |-> IF f = Password THEN Empty ELSE Given]

OldFiles == {Complete, Older, NoPassword}
==============================================================================
