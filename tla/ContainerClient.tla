---------------------------- MODULE ContainerClient ----------------------------
(***************************************************************************)
(* Client.RunContainer and Client.StopContainer of                         *)
(* internal/container/client.go, call by call, against a container engine  *)
(* that other people use too.  RunContainer is how every service reaches   *)
(* its configured state; it is a sequence of engine calls, any of which    *)
(* may fail, and between two of them the container may die, be removed by  *)
(* hand, or the agent itself may be killed.                                *)
(*                                                                         *)
(* One container name is modelled: RunContainer reads and writes nothing   *)
(* but the container of its name and the local images, and the agent's     *)
(* single goroutine runs one call at a time.                               *)
(***************************************************************************)
EXTENDS ContainerConfig, FiniteSets

CONSTANTS
  Options,    \* RunOptions some version of the agent may have used
  Wanted,     \* RunOptions the running agent asks for
  Ids,        \* container ids (unique per container)
  ImageID,    \* what inspect.Image holds: an id, never a reference
  MaxFaults   \* bound on failed calls, kills and outside interference

ASSUME ClientAssumption ==
  /\ Wanted \subseteq Options
  /\ \A o \in Options : o.mounts \in Seq(Bind)
  /\ MaxFaults \in Nat

VARIABLES
  \* The engine
  containers,  \* the containers of this name: at most one
  images,      \* image references present locally
  \* The call
  pc,          \* the next engine call, "idle" outside RunContainer
  opts,        \* its argument
  target,      \* id the next call names: inspect.ID, containerID or resp.ID
  result,      \* what the last finished call returned
  faults       \* counts failures, up to MaxFaults

engine == <<containers, images>>
vars   == <<containers, images, pc, opts, target, result, faults>>

Images == {o.image : o \in Options}
Steps  == {"idle", "image", "pull", "inspect", "list", "stop", "remove",
           "create", "start"}

\* status is the engine's State: a container runs only after ContainerStart.
Container == [id: Ids, actual: {Created(o, ImageID) : o \in Options},
              status: {"created", "running", "exited"}]

Converged(c, o) == c.status = "running" /\ compareConfig(c.actual, o)

TypeOK ==
  /\ containers \in SUBSET Container
  /\ images \in SUBSET Images
  /\ pc \in Steps
  /\ opts \in Options
  /\ target \in Ids
  /\ result \in {"none", "ok", "err"}
  /\ faults \in 0..MaxFaults

\* The agent boots on a host where an earlier version may have left a
\* container, with any of the images present, and applies its configuration.
Init ==
  /\ containers \in {{}} \cup {{c} : c \in Container}
  /\ images \in SUBSET Images
  /\ pc = "image"
  /\ opts \in Wanted
  /\ target \in Ids
  /\ result = "none"
  /\ faults = 0

-----------------------------------------------------------------------------
(* Control flow.                                                           *)

Goto(step) == pc' = step /\ UNCHANGED <<opts, result>>

Return(r) == pc' = "idle" /\ result' = r /\ UNCHANGED <<opts, target>>

\* One more failure, while the bound allows it.
Fault == faults < MaxFaults /\ faults' = faults + 1

\* An engine call reports an error and had no effect.
CallFails == Fault /\ Return("err") /\ UNCHANGED engine

\* An engine call took effect.  Either the agent sees that and goes on, or the
\* reply is lost and RunContainer returns an error all the same.
Done(step) == \/ Goto(step) /\ UNCHANGED faults
              \/ Fault /\ Return("err")

\* The container an id names, as a set of at most one element.
Named(id) == {c \in containers : c.id = id}

WithStatus(S, s) == {[c EXCEPT !.status = s] : c \in S}

-----------------------------------------------------------------------------
(* Who calls RunContainer.                                                 *)

\* applyConfig or a watched file changed: any configuration, at any time.
Call(o) ==
  /\ pc = "idle"
  /\ pc' = "image" /\ opts' = o /\ result' = "none"
  /\ UNCHANGED <<engine, target, faults>>

\* Mutant: IsRunning reports a missing container as an error, not as FALSE.
HealthCheckMissingIsError ==
  /\ \E c \in containers : c.status # "running"
  /\ Call(opts)

\* runHealthChecks, for xavi-app and xavi-traefik: only when the container
\* is missing or not running.
HealthCheck ==
  /\ \A c \in containers : c.status # "running"
  /\ Call(opts)

\* The agent dies in the middle of a call.  systemd starts it again and it
\* applies the configuration it then finds.
Kill ==
  /\ pc # "idle"
  /\ Fault
  /\ pc' = "image" /\ opts' \in Wanted /\ result' = "none"
  /\ UNCHANGED <<engine, target>>

-----------------------------------------------------------------------------
(* RunContainer.                                                           *)

ImageInspect ==
  /\ pc = "image"
  /\ \/ /\ Goto(IF opts.image \in images THEN "inspect" ELSE "pull")
        /\ UNCHANGED <<engine, target, faults>>
     \/ CallFails

\* Mutant: the pulled image is looked up under its expanded name later on.
ImagePullExpanded ==
  /\ pc = "pull"
  /\ images' = images \cup {normalizeImageName(opts.image)}
  /\ Goto("inspect")
  /\ UNCHANGED <<containers, target, faults>>

\* io.Copy's error is thrown away: a stream that breaks off looks like a pull.
ImagePull ==
  /\ pc = "pull"
  /\ \/ /\ images' = images \cup {opts.image}
        /\ Goto("inspect")
        /\ UNCHANGED <<containers, target, faults>>
     \/ Fault /\ Goto("inspect") /\ UNCHANGED <<engine, target>>
     \/ CallFails

\* Mutants: a stopped container is recreated although it matches; or it is
\* taken for running.
AfterInspectRecreates(c) == IF Converged(c, opts) THEN "idle" ELSE "list"
AfterInspectIgnoresState(c) == IF compareConfig(c.actual, opts) THEN "idle" ELSE "list"

\* What an existing container calls for: nothing, a start, or a replacement.
AfterInspect(c) ==
  CASE Converged(c, opts)               -> "idle"
    [] ~compareConfig(c.actual, opts)   -> "list"
    [] OTHER                            -> "start"

ContainerInspect ==
  /\ pc = "inspect"
  /\ \/ containers = {} /\ Goto("create") /\ UNCHANGED <<engine, target, faults>>
     \/ \E c \in containers :
          /\ AfterInspect(c) = "idle"
          /\ Return("ok")
          /\ UNCHANGED <<engine, faults>>
     \/ \E c \in containers :
          /\ AfterInspect(c) # "idle"
          /\ Goto(AfterInspect(c))
          /\ target' = c.id
          /\ UNCHANGED <<engine, faults>>
     \/ CallFails

ContainerCreate ==
  /\ pc = "create"
  /\ \/ /\ containers = {} /\ opts.image \in images
        /\ \E id \in Ids \ {target} :
             /\ containers' = {[id |-> id, actual |-> Created(opts, ImageID),
                                status |-> "created"]}
             /\ \/ target' = id /\ Goto("start") /\ UNCHANGED faults
                \/ Fault /\ Return("err")
        /\ UNCHANGED images
     \/ /\ containers # {} \/ opts.image \notin images
        /\ Return("err")
        /\ UNCHANGED <<engine, faults>>
     \/ CallFails

ContainerStart ==
  /\ pc = "start"
  /\ \/ /\ Named(target) # {}
        /\ containers' = WithStatus(containers, "running")
        /\ \/ Return("ok") /\ UNCHANGED faults
           \/ Fault /\ Return("err")
        /\ UNCHANGED images
     \/ Named(target) = {} /\ Return("err") /\ UNCHANGED <<engine, faults>>
     \/ CallFails

-----------------------------------------------------------------------------
(* StopContainer: looks the name up again, then stops and removes by id.   *)

ContainerList ==
  /\ pc = "list"
  /\ \/ containers = {} /\ Goto("create") /\ UNCHANGED <<engine, target, faults>>
     \/ \E c \in containers :
          /\ target' = c.id
          /\ Goto("stop")
          /\ UNCHANGED <<engine, faults>>
     \/ CallFails

ContainerStop ==
  /\ pc = "stop"
  /\ \/ /\ Named(target) # {}
        /\ containers' = WithStatus(containers, "exited")
        /\ Done("remove")
        /\ UNCHANGED <<images, target>>
     \/ Named(target) = {} /\ Return("err") /\ UNCHANGED <<engine, faults>>
     \/ CallFails

\* Mutant: the error of a refused removal is not looked at.
ContainerRemoveUnchecked ==
  /\ pc = "remove"
  /\ containers' = {c \in containers : c.id # target \/ c.status = "running"}
  /\ Done("create")
  /\ UNCHANGED <<images, target>>

\* RemoveOptions{} does not force: a container that runs again is refused.
ContainerRemove ==
  /\ pc = "remove"
  /\ \/ /\ \E c \in Named(target) : c.status # "running"
        /\ containers' = containers \ Named(target)
        /\ Done("create")
        /\ UNCHANGED <<images, target>>
     \/ /\ \A c \in Named(target) : c.status = "running"
        /\ Return("err")
        /\ UNCHANGED <<engine, faults>>
     \/ CallFails

-----------------------------------------------------------------------------
(* The engine and its other users (external).                              *)

\* The container stops for good: docker stop by hand, or out of memory with
\* the engine down.
Exit ==
  /\ Fault
  /\ \E c \in containers : c.status = "running"
  /\ containers' = WithStatus(containers, "exited")
  /\ UNCHANGED <<images, pc, opts, target, result>>

\* The engine restarts; RestartPolicyAlways brings back what has run before.
PolicyRestart ==
  /\ \E c \in containers : c.status = "exited"
  /\ containers' = WithStatus(containers, "running")
  /\ UNCHANGED <<images, pc, opts, target, result, faults>>

\* docker rm -f by hand.
OperatorRemove ==
  /\ Fault
  /\ containers # {} /\ containers' = {}
  /\ UNCHANGED <<images, pc, opts, target, result>>

\* docker image prune: an image no container uses disappears.
ImagePrune ==
  /\ Fault
  /\ \E i \in {j \in images : \A c \in containers : c.actual.image # j} :
       images' = images \ {i}
  /\ UNCHANGED <<containers, pc, opts, target, result>>

-----------------------------------------------------------------------------
RunContainer == \/ ImageInspect    \/ ImagePull     \/ ContainerInspect
                \/ ContainerCreate \/ ContainerStart
StopContainer == ContainerList \/ ContainerStop \/ ContainerRemove
Outside == Exit \/ PolicyRestart \/ OperatorRemove \/ ImagePrune

Next == \/ \E o \in Wanted : Call(o)
        \/ HealthCheck
        \/ Kill
        \/ RunContainer
        \/ StopContainer
        \/ Outside

Spec == Init /\ [][Next]_vars

\* A call in progress goes on, and the health ticker fires every minute.
\* Configuration changes, failures and other users are never fair.
Fairness == WF_vars(RunContainer \/ StopContainer) /\ WF_vars(HealthCheck)

FairSpec == Spec /\ Fairness

-----------------------------------------------------------------------------
(* Safety properties.                                                      *)

\* A container of the name is never in the way when RunContainer comes to
\* create one: whatever path leads to ContainerCreate (client.go:191), the old
\* container was seen to be gone or was removed first.
CreateNeverConflicts == pc = "create" => containers = {}

\* Only a container that differs from what is asked for is stopped or removed
\* (client.go:173-186), although StopContainer looks the name up again and the
\* container may have been restarted or removed since it was compared.
OnlyDivergentReplaced ==
  pc \in {"list", "stop", "remove"} =>
    \A c \in containers : ~compareConfig(c.actual, opts)

\* When RunContainer returns nil, the container runs and passes the
\* convergence check, on each of the three paths that return nil
\* (client.go:177, 180, 213), whatever happened to it since it was inspected.
OkMeansConverged ==
  [][(pc # "idle" /\ result' = "ok") => \E c \in containers' : Converged(c, opts)]_vars

\* RunContainer keeps the promise that Agent and Traefik build on: it returns
\* nil for nothing less than what is wanted, though compareSlices lets binds
\* pass that nobody asked for (client.go:441), and it never takes down what it
\* would only make again.
Promise ==
  INSTANCE Reconcile WITH
    have    <- {[actual |-> c.actual, status |-> c.status] : c \in containers},
    want    <- opts,
    calling <- pc # "idle"

ImplementsReconcile == Promise!Spec

(* Liveness, under FairSpec.                                               *)

\* xavi-app and xavi-traefik always come back: after any failed call, lost
\* reply, kill or removal by hand, at any point of RunContainer, the health
\* check (agent.go:1081) brings a container of the name up again.
AlwaysComesBack == []<>(\E c \in containers : c.status = "running")

-----------------------------------------------------------------------------
(* What the documentation says and the code does not do.                   *)

\* README.md:8 "Enforces CPU and Memory limits on managed services": when
\* RunContainer returns nil the container has the limits it was asked to have.
LimitsEnforced ==
  [][(pc # "idle" /\ result' = "ok") =>
       \E c \in containers' : c.actual.memory = opts.memory]_vars
==============================================================================
