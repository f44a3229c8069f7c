------------------------------ MODULE MCTraefik ------------------------------
(* A small instance of Traefik for TLC.                                    *)
EXTENDS Traefik
==============================================================================
