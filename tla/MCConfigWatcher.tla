--------------------------- MODULE MCConfigWatcher ---------------------------
(* Small instances of ConfigWatcher for TLC.                               *)
EXTENDS ConfigWatcher

AnyClock     == {-1, 0, 1}   \* rollbacks and writes within one clock tick
ForwardClock == {1}
==============================================================================
