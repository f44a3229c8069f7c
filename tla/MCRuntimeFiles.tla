---------------------------- MODULE MCRuntimeFiles ----------------------------
(* Small instances of RuntimeFiles for TLC.                                *)
EXTENDS RuntimeFiles

\* A clock so coarse that two writes may have the same time.
CoarseClock == {0, 1}
Forward     == {1}

\* A user of its own, and a spec that does not parse.
SomeSpecs == {101, Invalid}
JustRoot  == {Root}
==============================================================================
