------------------------------ MODULE HotReload ------------------------------
(***************************************************************************)
(* What hot reloading promises (README.md:18), with no word of files,      *)
(* polling or channels: an operator offers configurations, version after   *)
(* version, and the agent has one in force.                                *)
(*   - Only a version that was offered as a whole comes into force.        *)
(*   - The agent never goes back from a version to an older one, not even  *)
(*     after a restart.                                                    *)
(*   - Only a start may fall back to the bundle of the command line, or to *)
(*     no configuration.                                                   *)
(* Nothing is promised of WHEN a version comes into force: ConfigWatcher   *)
(* says which versions never do.                                           *)
(***************************************************************************)
EXTENDS Integers

Nil    == -1   \* a.Config = nil
Bundle == 0    \* the configuration of --auth; versions of the file are 1, 2, ...

VARIABLES
  offered,  \* the versions that were offered
  config,   \* what is in force
  newest,   \* the newest version that ever was in force, 0 if none
  up        \* the agent is running and has chosen its first configuration

vars == <<offered, config, newest, up>>

TypeOK ==
  /\ offered \subseteq Nat \ {0}
  /\ config \in {Nil, Bundle} \cup offered
  /\ newest \in {0} \cup offered
  /\ up \in BOOLEAN

Init == offered \in {{}, {1}} /\ config = Nil /\ newest = 0 /\ up = FALSE

Offer ==
  /\ offered \subseteq offered' /\ offered' \subseteq Nat \ {0}
  /\ \A v \in offered' \ offered, w \in offered : w < v
  /\ UNCHANGED <<config, newest, up>>

Take(v) == v >= newest /\ config' = v /\ newest' = v

Start ==
  /\ ~up /\ up'
  /\ \/ \E v \in offered : Take(v)
     \/ config' \in {Nil, Bundle} /\ UNCHANGED newest
  /\ UNCHANGED offered

Adopt == up /\ (\E v \in offered : Take(v)) /\ UNCHANGED <<offered, up>>

Stop == up /\ ~up' /\ config' = Nil /\ UNCHANGED <<offered, newest>>

Next == Offer \/ Start \/ Adopt \/ Stop

Spec == Init /\ [][Next]_vars
==============================================================================
