------------------------------- MODULE Reconcile -------------------------------
(***************************************************************************)
(* What RunContainer promises of one container name, however it goes about *)
(* it.  This is all that Agent and Traefik assume of a service.            *)
(*                                                                         *)
(* compareConfig is not part of the promise: it may be anything between    *)
(* Delivers, which a container must meet to be taken for the one wanted,   *)
(* and being just what create would make, which must never be replaced.    *)
(***************************************************************************)
EXTENDS ContainerConfig

CONSTANTS
  Options,  \* RunOptions that may be asked for
  ImageID   \* what inspect.Image holds

VARIABLES
  have,     \* the container, if there is one: what was reported of it, its status
  want,     \* the options last asked for
  calling,  \* RunContainer is in progress
  result    \* what it returned

rvars == <<have, want, calling, result>>

\* All that was asked for is there, each bind with its mode.
Delivers(inspect, o) ==
  /\ imagesMatch(o.image, inspect.image) \/ imagesMatch(o.image, inspect.imageID)
  /\ o.cmd # <<>> => inspect.cmd = o.cmd
  /\ \A e \in o.env : e \in inspect.env
  /\ \A i \in DOMAIN o.mounts : \E j \in DOMAIN inspect.mounts :
       normalizeMountBind(inspect.mounts[j]) = normalizeMountBind(o.mounts[i])
  /\ o.hostNetwork => inspect.hostNetwork
  /\ \A p \in DOMAIN o.ports : p \in DOMAIN inspect.ports /\ inspect.ports[p] = o.ports[p]

Serves(h) == h.status = "running" /\ Delivers(h.actual, want)

Init ==
  /\ have \in {{}} \cup {{[actual |-> Created(o, ImageID), status |-> s]} :
                          o \in Options, s \in {"created", "running", "exited"}}
  /\ want \in Options
  /\ calling = TRUE /\ result = "none"

\* The container stays what it is, in another status.
Turns(status) ==
  \E h \in have : have' = {[actual |-> h.actual, status |-> status]}

\* Somebody asks, or the agent dies in a call and asks again.
Ask ==
  /\ want' \in Options /\ calling' = TRUE /\ result' = "none"
  /\ UNCHANGED have

\* A call touches a container only to start one that delivers, or to make way
\* for another, and makes nothing but what is wanted.
Touches ==
  \/ UNCHANGED have
  \/ (\A h \in have : Delivers(h.actual, want)) /\ Turns("running")
  \/ (\A h \in have : h.actual # Created(want, ImageID)) /\ (Turns("exited") \/ have' = {})
  \/ have = {} /\ have' = {[actual |-> Created(want, ImageID), status |-> "created"]}

\* It goes on, or fails, or returns nil for a container that serves.
Work ==
  /\ calling /\ Touches /\ UNCHANGED want
  /\ \/ UNCHANGED <<calling, result>>
     \/ calling' = FALSE /\ result' = "err"
     \/ calling' = FALSE /\ result' = "ok" /\ \E h \in have' : Serves(h)

\* The engine and its other users.
Outside ==
  /\ Turns("exited") \/ Turns("running") \/ have' = {}
  /\ UNCHANGED <<want, calling, result>>

Next == Ask \/ Work \/ Outside

Spec == Init /\ [][Next]_rvars
==============================================================================
