---------------------------- MODULE ContainerCalls ----------------------------
(***************************************************************************)
(* ContainerClient with two history variables that follow one call of      *)
(* RunContainer from its begin to its return, and the outcomes that Agent  *)
(* and Traefik take it to have, each of them in a single step.             *)
(***************************************************************************)
EXTENDS ContainerClient, Outcome

VARIABLES
  before,  \* what the name held when the call began
  since    \* what went wrong since: "nothing", a "failure", or the work of
           \* "others" on the container

hvars == <<containers, images, pc, opts, target, result, faults, before, since>>

\* What the name holds.
Holds == {[what |-> c.actual, runs |-> c.status = "running"] : c \in containers}

HInit == Init /\ before = Holds /\ since = "nothing"

Worse == IF since = "others" THEN since ELSE "failure"

\* A call begins; also for an agent that died in one.
Begins ==
  /\ (\E o \in Wanted : Call(o)) \/ HealthCheck \/ Kill
  /\ before' = Holds /\ since' = "nothing"

GoesOn ==
  /\ RunContainer \/ StopContainer
  /\ since' = IF faults' = faults THEN since ELSE Worse
  /\ UNCHANGED before

\* Who takes the image away makes the call fail, no more.
Pruned == ImagePrune /\ since' = Worse /\ UNCHANGED before

Disturbed ==
  /\ Exit \/ PolicyRestart \/ OperatorRemove
  /\ since' = "others" /\ UNCHANGED before

HNext == Begins \/ GoesOn \/ Pruned \/ Disturbed

HSpec == HInit /\ [][HNext]_hvars

HFairSpec == HSpec /\ Fairness

-----------------------------------------------------------------------------
Fits == \E c \in before : compareConfig(c.what, opts)
New  == Created(opts, ImageID)

\* At any point of a call, so that the agent may also die there, the container
\* is one of five; only one that does not fit is ever stopped or removed; a
\* call in which nothing went wrong returns nil for a container that fits or
\* was made anew; and whoever else was at work, no third container comes of it
\* (client.go:99-249).
CallOutcome ==
  /\ since # "others" => Holds \in Outcomes(before, Fits, New)
  /\ since = "nothing" /\ pc = "idle" => result = "ok" /\ Holds = Served(before, Fits, New)
  /\ Holds \in Amidst(before, New)
================================================================================
