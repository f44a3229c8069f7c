------------------------ MODULE ContainerClient_proofs ------------------------
(***************************************************************************)
(* What ContainerClient promises for every set of options, of containers   *)
(* ids and of failures.  The inductive invariant says what each program    *)
(* point of RunContainer knows of the engine although other people use it  *)
(* between two calls: the name never has two containers, a container on    *)
(* its way out differs from what is wanted, and a container about to be    *)
(* started is the one that was compared or created.  With the history of   *)
(* a call, in ContainerCalls, it says what the name holds at each of them. *)
(***************************************************************************)
EXTENDS ContainerCalls, SequenceTheorems, TLAPS

AtMostOne == \A c, d \in containers : c = d

\* ContainerStart is given the id of a container that passes the check.
StartsTheRightOne ==
  pc = "start" => \A c \in Named(target) : compareConfig(c.actual, opts)

\* A call that has not returned has no result.
NoResultYet == pc # "idle" => result = "none"

IInv == /\ TypeOK
        /\ NoResultYet
        /\ AtMostOne
        /\ CreateNeverConflicts
        /\ OnlyDivergentReplaced
        /\ StartsTheRightOne

-----------------------------------------------------------------------------
(* The convergence check and the engine's report.                          *)

(* A bind reads the same whatever flags the engine has appended to it:     *)
(* normalizeMountBind undoes the rewriting client.go:323 speaks of.        *)
LEMMA BindReported ==
  ASSUME NEW b \in Bind
  PROVE  normalizeMountBind([b EXCEPT !.mode =
           (IF @ = <<>> THEN <<"rw">> ELSE @) \o EngineFlags]) = normalizeMountBind(b)
<1> DEFINE shown == (IF b.mode = <<>> THEN <<"rw">> ELSE b.mode) \o EngineFlags
<1>1. b.mode \in Seq(STRING) /\ EngineFlags \in Seq(STRING)
  BY EngineFlagsAssumption DEF Bind
<1>2. CASE b.mode = <<>>
  <2>1. shown # <<>> /\ Head(shown) = "rw"
    BY <1>1, <1>2
  <2>2. QED
    BY <1>2, <2>1 DEF normalizeMountBind, Bind
<1>3. CASE b.mode # <<>>
  <2>1. shown # <<>> /\ Head(shown) = Head(b.mode)
    BY <1>1, <1>3
  <2>2. QED
    BY <1>3, <2>1 DEF normalizeMountBind, Bind
<1>4. QED
  BY <1>2, <1>3

(* A container just created from some options passes compareConfig for     *)
(* those options, so RunContainer does not replace what it has just made.  *)
THEOREM CreatedConverges ==
  ASSUME NEW o, o.mounts \in Seq(Bind)
  PROVE  compareConfig(Created(o, ImageID), o)
<1> DEFINE reported == Created(o, ImageID)
<1>1. \A i \in DOMAIN o.mounts : o.mounts[i] \in Bind
  OBVIOUS
<1>2. NormalizedMounts(reported.mounts) = NormalizedMounts(o.mounts)
  BY <1>1, BindReported DEF NormalizedMounts, Created
<1>3. compareSlices(NormalizedMounts(reported.mounts), NormalizedMounts(o.mounts))
  BY <1>2 DEF compareSlices
<1>4. imagesMatch(o.image, reported.image)
  BY DEF imagesMatch, Created
<1>5. compareEnv(reported.env, o.env)
  BY DEF compareEnv, Created
<1>6. QED
  BY <1>3, <1>4, <1>5 DEF compareConfig, Created
-----------------------------------------------------------------------------
(* Lemmas about the engine's containers.                                   *)

\* A change of status keeps the ids, the options and the types.
LEMMA StatusOnly ==
  ASSUME NEW S \in SUBSET Container, NEW s \in {"created", "running", "exited"}
  PROVE  /\ WithStatus(S, s) \in SUBSET Container
         /\ \A c \in WithStatus(S, s) :
              c.status = s /\ \E d \in S : c.id = d.id /\ c.actual = d.actual
         /\ (\A c, d \in S : c = d) => \A c, d \in WithStatus(S, s) : c = d
  BY DEF WithStatus, Container

\* What ContainerCreate makes is a container that passes the check.
LEMMA NewContainer ==
  ASSUME NEW id \in Ids, NEW o \in Options
  PROVE  LET c == [id |-> id, actual |-> Created(o, ImageID), status |-> "created"]
         IN  c \in Container /\ compareConfig(c.actual, o)
  BY CreatedConverges, ClientAssumption DEF Container

\* The bound on failures is respected.
LEMMA FaultBounded == faults \in 0..MaxFaults /\ Fault => faults' \in 0..MaxFaults
  BY ClientAssumption DEF Fault

(* An idle RunContainer claims nothing of the engine, so returning keeps   *)
(* the invariant if the engine stays as it is.                             *)
LEMMA FailedCall ==
  IInv /\ (CallFails \/ (Return("err") /\ UNCHANGED <<engine, faults>>)) => IInv'
<1> SUFFICES ASSUME IInv, CallFails \/ (Return("err") /\ UNCHANGED <<engine, faults>>)
             PROVE  IInv'
  OBVIOUS
<1>1. pc' = "idle" /\ result' = "err" /\ UNCHANGED <<opts, target, containers, images>>
  BY DEF CallFails, Return, engine
<1>2. faults' \in 0..MaxFaults
  BY FaultBounded DEF CallFails, IInv, TypeOK
<1>3. QED
  BY <1>1, <1>2 DEF IInv, TypeOK, AtMostOne, CreateNeverConflicts,
                    OnlyDivergentReplaced, StartsTheRightOne, NoResultYet, Steps

LEMMA InitIInv == Init => IInv
<1> SUFFICES ASSUME Init PROVE IInv
  OBVIOUS
<1>1. TypeOK
  BY ClientAssumption DEF Init, TypeOK, Steps
<1>2. AtMostOne
  BY DEF Init, AtMostOne
<1>3. QED
  BY <1>1, <1>2 DEF Init, IInv, CreateNeverConflicts, OnlyDivergentReplaced,
                    StartsTheRightOne, NoResultYet

(***************************************************************************)
(* The invariant is inductive: one lemma for each of the three groups of   *)
(* actions, one step for each action.                                      *)
(***************************************************************************)
LEMMA RunContainerStep == IInv /\ RunContainer => IInv'
<1> SUFFICES ASSUME IInv, RunContainer PROVE IInv'
  OBVIOUS
<1>0. result = "none"
  BY DEF IInv, NoResultYet, RunContainer, ImageInspect, ImagePull, ContainerInspect,
         ContainerCreate, ContainerStart
<1> USE DEF IInv, TypeOK, AtMostOne, CreateNeverConflicts, OnlyDivergentReplaced,
            StartsTheRightOne, NoResultYet, Steps
<1>1. CASE ImageInspect
  BY <1>1, FailedCall DEF ImageInspect, Goto, engine, Named
<1>2. CASE ImagePull
  BY <1>2, FailedCall, FaultBounded DEF ImagePull, Goto, engine, Named, Images
<1>3. CASE ContainerInspect
  <2>1. CASE containers = {} /\ Goto("create") /\ UNCHANGED <<engine, target, faults>>
    BY <1>0, <2>1 DEF Goto, engine, Named
  <2>2. CASE \E c \in containers : Return("ok") /\ UNCHANGED <<engine, faults>>
    BY <2>2 DEF Return, engine, Named
  <2>3. ASSUME NEW c \in containers, AfterInspect(c) # "idle",
               Goto(AfterInspect(c)), target' = c.id, UNCHANGED <<engine, faults>>
        PROVE  IInv'
    <3>1. c.id \in Ids
      BY DEF Container
    <3>2. CASE compareConfig(c.actual, opts)
      <4>1. pc' = "start"
        BY <2>3, <3>2 DEF AfterInspect, Goto
      <4>2. QED
        BY <1>0, <2>3, <3>1, <3>2, <4>1 DEF Goto, engine, Named
    <3>3. CASE ~compareConfig(c.actual, opts)
      <4>1. pc' = "list"
        BY <2>3, <3>3 DEF AfterInspect, Goto, Converged
      <4>2. QED
        BY <1>0, <2>3, <3>1, <3>3, <4>1 DEF Goto, engine, Named
    <3>4. QED
      BY <3>2, <3>3
  <2>4. QED
    BY <1>3, <2>1, <2>2, <2>3, FailedCall DEF ContainerInspect
<1>4. CASE ContainerCreate
  <2>1. ASSUME NEW id \in Ids,
               containers' = {[id |-> id, actual |-> Created(opts, ImageID),
                               status |-> "created"]},
               \/ target' = id /\ Goto("start") /\ UNCHANGED faults
               \/ Fault /\ Return("err"),
               UNCHANGED images
        PROVE  IInv'
    <3>1. \A c \in containers' : c \in Container /\ compareConfig(c.actual, opts)
      BY <2>1, NewContainer
    <3>2. AtMostOne'
      BY <2>1
    <3>3. QED
      BY <1>0, <2>1, <3>1, <3>2, FaultBounded DEF Goto, Return, Named
  <2>2. QED
    BY <1>4, <2>1, FailedCall DEF ContainerCreate
<1>5. CASE ContainerStart
  <2>1. CASE /\ containers' = WithStatus(containers, "running")
             /\ \/ Return("ok") /\ UNCHANGED faults
                \/ Fault /\ Return("err")
             /\ UNCHANGED images
    BY <2>1, StatusOnly, FaultBounded DEF Return, Named
  <2>2. QED
    BY <1>5, <2>1, FailedCall DEF ContainerStart
<1>6. QED
  BY <1>1, <1>2, <1>3, <1>4, <1>5 DEF RunContainer

LEMMA StopContainerStep == IInv /\ StopContainer => IInv'
<1> SUFFICES ASSUME IInv, StopContainer PROVE IInv'
  OBVIOUS
<1>0. result = "none"
  BY DEF IInv, NoResultYet, StopContainer, ContainerList, ContainerStop, ContainerRemove
<1> USE DEF IInv, TypeOK, AtMostOne, CreateNeverConflicts, OnlyDivergentReplaced,
            StartsTheRightOne, NoResultYet, Steps
<1>1. CASE ContainerList
  BY <1>1, FailedCall DEF ContainerList, Goto, engine, Named, Container
<1>2. CASE ContainerStop
  <2>1. CASE /\ pc = "stop"
             /\ containers' = WithStatus(containers, "exited")
             /\ Done("remove")
             /\ UNCHANGED <<images, target>>
    BY <2>1, StatusOnly, FaultBounded DEF Done, Goto, Return, Named
  <2>2. QED
    BY <1>2, <2>1, FailedCall DEF ContainerStop
<1>3. CASE ContainerRemove
  <2>1. CASE /\ \E c \in Named(target) : c.status # "running"
             /\ containers' = containers \ Named(target)
             /\ Done("create")
             /\ UNCHANGED <<images, target>>
    <3>1. containers' = {}
      BY <2>1 DEF Named
    <3>2. QED
      BY <1>0, <2>1, <3>1, FaultBounded DEF Done, Goto, Return, Named
  <2>2. QED
    BY <1>3, <2>1, FailedCall DEF ContainerRemove
<1>4. QED
  BY <1>1, <1>2, <1>3 DEF StopContainer

\* Callers, other users of the engine, kills, and stuttering.
LEMMA OtherStep ==
  IInv /\ ((\E o \in Wanted : Call(o)) \/ HealthCheck \/ Kill \/ Outside \/ UNCHANGED vars)
    => IInv'
<1> SUFFICES ASSUME IInv,
                    (\E o \in Wanted : Call(o)) \/ HealthCheck \/ Kill \/ Outside
                      \/ UNCHANGED vars
             PROVE  IInv'
  OBVIOUS
<1> USE DEF IInv, TypeOK, AtMostOne, CreateNeverConflicts, OnlyDivergentReplaced,
            StartsTheRightOne, NoResultYet, Steps
<1>1. ASSUME NEW o \in Wanted, Call(o) PROVE IInv'
  BY <1>1, ClientAssumption DEF Call, engine, Named
<1>2. CASE HealthCheck
  BY <1>2 DEF HealthCheck, Call, engine, Named
<1>3. CASE Kill
  BY <1>3, ClientAssumption, FaultBounded DEF Kill, engine, Named
<1>4. CASE Exit
  BY <1>4, StatusOnly, FaultBounded DEF Exit, Named
<1>5. CASE PolicyRestart
  BY <1>5, StatusOnly DEF PolicyRestart, Named
<1>6. CASE OperatorRemove
  BY <1>6, FaultBounded DEF OperatorRemove, Named
<1>7. CASE ImagePrune
  BY <1>7, FaultBounded DEF ImagePrune, Named
<1>8. CASE UNCHANGED vars
  BY <1>8 DEF vars, Named
<1>9. QED
  BY <1>1, <1>2, <1>3, <1>4, <1>5, <1>6, <1>7, <1>8 DEF Outside

LEMMA NextIInv == IInv /\ [Next]_vars => IInv'
  BY RunContainerStep, StopContainerStep, OtherStep DEF Next

-----------------------------------------------------------------------------
(* The theorems.                                                           *)

\* The inductive invariant holds of every behaviour.
THEOREM Invariant == Spec => []IInv
  BY InitIInv, NextIInv, PTL DEF Spec

\* Every variable stays in its type: client.go:96-221 keeps the program counter,
\* the options and the id it works on in range.
THEOREM TypeCorrect == Spec => []TypeOK
<1>1. IInv => TypeOK
  BY DEF IInv
<1>2. QED
  BY <1>1, Invariant, PTL

\* RunContainer replaces a container only if it differs (client.go:173-186), and
\* never tries to create one whose name is taken (client.go:191).
THEOREM ReplacementSafe == Spec => [](CreateNeverConflicts /\ OnlyDivergentReplaced)
<1>1. IInv => CreateNeverConflicts /\ OnlyDivergentReplaced
  BY DEF IInv
<1>2. QED
  BY <1>1, Invariant, PTL

(* When RunContainer returns nil (client.go:177, 180, 213) the container   *)
(* runs and passes the convergence check.                                  *)
THEOREM OkConverged == Spec => OkMeansConverged
<1> DEFINE OK == (pc # "idle" /\ result' = "ok") => \E c \in containers' : Converged(c, opts)
<1>1. IInv /\ [Next]_vars => [OK]_vars
  <2> SUFFICES ASSUME IInv, Next, pc # "idle", result' = "ok"
               PROVE  \E c \in containers' : Converged(c, opts)
    OBVIOUS
  <2>1. result = "none"
    BY DEF IInv, NoResultYet
  <2>2. CASE ContainerInspect
    <3>1. PICK c \in containers : AfterInspect(c) = "idle" /\ UNCHANGED containers
      BY <2>1, <2>2 DEF ContainerInspect, Goto, Return, CallFails, engine
    <3>2. Converged(c, opts)
      BY <3>1 DEF AfterInspect, Converged
    <3>3. QED
      BY <3>1, <3>2
  <2>3. CASE ContainerStart
    <3>1. /\ pc = "start"
          /\ Named(target) # {}
          /\ containers' = WithStatus(containers, "running")
      BY <2>1, <2>3 DEF ContainerStart, Return, CallFails
    <3>2. PICK c \in containers : compareConfig(c.actual, opts)
      BY <3>1 DEF IInv, StartsTheRightOne, Named
    <3>3. c \in Container /\ [c EXCEPT !.status = "running"] \in containers'
      BY <3>1, <3>2 DEF IInv, TypeOK, WithStatus
    <3>4. Converged([c EXCEPT !.status = "running"], opts)
      BY <3>2, <3>3 DEF Converged, Container
    <3>5. QED
      BY <3>3, <3>4
  <2>4. CASE ~(ContainerInspect \/ ContainerStart)
    BY <2>1, <2>4 DEF Next, RunContainer, StopContainer, Outside, Call, HealthCheck, Kill,
      ImageInspect, ImagePull, ContainerCreate, ContainerList, ContainerStop,
      ContainerRemove, Exit, PolicyRestart, OperatorRemove, ImagePrune, CallFails,
      Done, Goto, Return
  <2>5. QED
    BY <2>2, <2>3, <2>4
<1>2. QED
  BY <1>1, Invariant, PTL DEF Spec, OkMeansConverged

-----------------------------------------------------------------------------
(* The refinement.                                                         *)

\* The promise speaks of the same engine and the same images and binds.
LEMMA SameData ==
  /\ \A o, id : Promise!Created(o, id) = Created(o, id)
  /\ \A a, b : Promise!imagesMatch(a, b) <=> imagesMatch(a, b)
  /\ \A b : Promise!normalizeMountBind(b) = normalizeMountBind(b)
<1>1. \A o, id : Promise!Created(o, id) = Created(o, id)
  BY DEF Promise!Created, Created
<1>2. \A a : Promise!normalizeImageName(a) = normalizeImageName(a)
  BY DEF Promise!normalizeImageName, normalizeImageName, Promise!CountedParts, CountedParts,
         Promise!Prefixed, Prefixed
<1>3. \A b : Promise!normalizeMountBind(b) = normalizeMountBind(b)
  BY DEF Promise!normalizeMountBind, normalizeMountBind
<1>4. QED
  BY <1>1, <1>2, <1>3 DEF Promise!imagesMatch, imagesMatch

\* What the convergence check lets pass delivers what was asked for.
LEMMA CheckedDelivers ==
  ASSUME NEW inspect, NEW o, compareConfig(inspect, o)
  PROVE  Promise!Delivers(inspect, o)
<1>1. \A i \in DOMAIN o.mounts : \E j \in DOMAIN inspect.mounts :
        normalizeMountBind(inspect.mounts[j]) = normalizeMountBind(o.mounts[i])
  BY SlicesCovered DEF compareConfig, NormalizedMounts
<1>2. QED
  BY <1>1, SameData DEF compareConfig, compareEnv, Promise!Delivers

Have == {[actual |-> c.actual, status |-> c.status] : c \in containers}

\* With at most one container, a change of status is one of the promise's.
LEMMA TurnsAll ==
  ASSUME IInv, NEW s, containers # {}, containers' = WithStatus(containers, s)
  PROVE  Promise!Turns(s)
<1>1. PICK c \in containers : containers = {c}
  BY DEF IInv, AtMostOne
<1>2. c \in Container
  BY DEF IInv, TypeOK
<1>3. containers' = {[c EXCEPT !.status = s]}
  BY <1>1 DEF WithStatus
<1>4. Have = {[actual |-> c.actual, status |-> c.status]}
  BY <1>1 DEF Have
<1>5. Have' = {[actual |-> c.actual, status |-> s]}
  BY <1>2, <1>3 DEF Have, Container
<1>6. QED
  BY <1>4, <1>5 DEF Have, Promise!Turns

LEMMA InitRefines == Init => Promise!Init
<1> SUFFICES ASSUME Init PROVE Promise!Init
  OBVIOUS
<1>1. Have \in {{}} \cup {{[actual |-> Created(o, ImageID), status |-> s]} :
                           o \in Options, s \in {"created", "running", "exited"}}
  <2>1. CASE containers = {}
    BY <2>1 DEF Have
  <2>2. ASSUME NEW c \in Container, containers = {c}
        PROVE  Have \in {{[actual |-> Created(o, ImageID), status |-> s]} :
                           o \in Options, s \in {"created", "running", "exited"}}
    BY <2>2 DEF Have, Container
  <2>3. QED
    BY <2>1, <2>2 DEF Init
<1>2. QED
  BY <1>1, ClientAssumption, SameData DEF Init, Have, Promise!Init

\* A call that leaves the engine's container alone goes on, or fails.
LEMMA KeepsRefines ==
  ASSUME IInv, pc # "idle", UNCHANGED <<containers, opts>>,
         \/ pc' # "idle" /\ UNCHANGED result
         \/ pc' = "idle" /\ result' = "err"
  PROVE  Promise!Work
  BY DEF Promise!Work, Promise!Touches

LEMMA RunContainerRefines == IInv /\ RunContainer => Promise!Work
<1> SUFFICES ASSUME IInv, RunContainer PROVE Promise!Work
  OBVIOUS
<1>1. CASE ImageInspect
  BY <1>1, KeepsRefines DEF ImageInspect, Goto, CallFails, Return, engine
<1>2. CASE ImagePull
  BY <1>2, KeepsRefines DEF ImagePull, Goto, CallFails, Return, engine
<1>3. CASE ContainerInspect
  <2>1. CASE \E c \in containers :
               AfterInspect(c) = "idle" /\ Return("ok") /\ UNCHANGED <<engine, faults>>
    <3>1. PICK c \in containers : AfterInspect(c) = "idle"
      BY <2>1
    <3>2. Converged(c, opts)
      BY <3>1 DEF AfterInspect
    <3>3. Promise!Delivers(c.actual, opts) /\ c.status = "running"
      BY <3>2, CheckedDelivers DEF Converged
    <3>4. pc = "inspect" /\ pc' = "idle" /\ result' = "ok" /\ UNCHANGED <<containers, opts>>
      BY <1>3, <2>1 DEF ContainerInspect, Return, engine
    <3>5. \E h \in Have' : Promise!Serves(h)
      <4>1. [actual |-> c.actual, status |-> c.status] \in Have'
        BY <3>4 DEF Have
      <4>2. QED
        BY <3>3, <4>1 DEF Promise!Serves
    <3>6. QED
      BY <3>4, <3>5 DEF Have, Promise!Work, Promise!Touches
  <2>2. CASE ~(\E c \in containers :
                 AfterInspect(c) = "idle" /\ Return("ok") /\ UNCHANGED <<engine, faults>>)
    BY <1>3, <2>2, KeepsRefines DEF ContainerInspect, Goto, CallFails, Return, engine
  <2>3. QED
    BY <2>1, <2>2
<1>4. CASE ContainerCreate
  <2>1. CASE containers = {} /\ \E id \in Ids :
               containers' = {[id |-> id, actual |-> Created(opts, ImageID),
                               status |-> "created"]}
    <3>1. Have = {} /\ Have' = {[actual |-> Created(opts, ImageID), status |-> "created"]}
      BY <2>1 DEF Have
    <3>2. /\ pc = "create" /\ opts' = opts
          /\ \/ pc' = "start" /\ result' = result
             \/ pc' = "idle" /\ result' = "err"
      BY <1>4 DEF ContainerCreate, Goto, CallFails, Return
    <3>3. QED
      BY <3>1, <3>2, SameData DEF Have, Promise!Work, Promise!Touches
  <2>2. CASE ~(containers = {} /\ \E id \in Ids :
                 containers' = {[id |-> id, actual |-> Created(opts, ImageID),
                                 status |-> "created"]})
    BY <1>4, <2>2, KeepsRefines DEF ContainerCreate, CallFails, Return, engine
  <2>3. QED
    BY <2>1, <2>2
<1>5. CASE ContainerStart
  <2>1. CASE Named(target) # {} /\ containers' = WithStatus(containers, "running")
    <3>1. PICK c \in containers : containers = {c} /\ compareConfig(c.actual, opts)
      BY <1>5, <2>1 DEF ContainerStart, IInv, AtMostOne, StartsTheRightOne, Named
    <3>2. Promise!Delivers(c.actual, opts)
      BY <3>1, CheckedDelivers
    <3>3. Promise!Turns("running")
      BY <2>1, <3>1, TurnsAll
    <3>4. \A h \in Have : Promise!Delivers(h.actual, opts)
      BY <3>1, <3>2 DEF Have
    <3>5. /\ pc = "start" /\ pc' = "idle" /\ opts' = opts
          /\ result' \in {"ok", "err"}
      BY <1>5 DEF ContainerStart, CallFails, Return
    <3>6. \E h \in Have' : Promise!Serves(h)
      <4>1. c \in Container /\ [c EXCEPT !.status = "running"] \in containers'
        BY <2>1, <3>1 DEF WithStatus, IInv, TypeOK
      <4>2. [actual |-> c.actual, status |-> "running"] \in Have'
        BY <4>1 DEF Have, Container
      <4>3. QED
        BY <3>2, <4>2 DEF Promise!Serves
    <3>7. QED
      BY <3>3, <3>4, <3>5, <3>6 DEF Have, Promise!Work, Promise!Touches
  <2>2. CASE ~(Named(target) # {} /\ containers' = WithStatus(containers, "running"))
    BY <1>5, <2>2, KeepsRefines DEF ContainerStart, CallFails, Return, engine
  <2>3. QED
    BY <2>1, <2>2
<1>6. QED
  BY <1>1, <1>2, <1>3, <1>4, <1>5 DEF RunContainer

\* Nothing that would only be made again is stopped or removed.
LEMMA StopContainerRefines == IInv /\ StopContainer => Promise!Work
<1> SUFFICES ASSUME IInv, StopContainer PROVE Promise!Work
  OBVIOUS
<1>0. /\ pc \in {"list", "stop", "remove"} /\ opts' = opts
      /\ \/ pc' # "idle" /\ UNCHANGED result
         \/ pc' = "idle" /\ result' = "err"
  BY DEF StopContainer, ContainerList, ContainerStop, ContainerRemove, Done, Goto,
         CallFails, Return
<1>1. \A h \in Have : h.actual # Created(opts, ImageID)
  <2>1. opts.mounts \in Seq(Bind)
    BY ClientAssumption DEF IInv, TypeOK
  <2>2. \A c \in containers : ~compareConfig(c.actual, opts)
    BY <1>0 DEF IInv, OnlyDivergentReplaced
  <2>3. QED
    BY <2>1, <2>2, CreatedConverges DEF Have
<1>2. CASE UNCHANGED containers
  BY <1>0, <1>2, KeepsRefines
<1>3. CASE ContainerStop /\ containers' # containers
  <2>1. containers # {} /\ containers' = WithStatus(containers, "exited")
    BY <1>3 DEF ContainerStop, CallFails, engine, Named
  <2>2. Promise!Turns("exited")
    BY <2>1, TurnsAll
  <2>3. QED
    BY <1>0, <1>1, <2>2, SameData DEF Have, Promise!Work, Promise!Touches
<1>4. CASE ContainerRemove /\ containers' # containers
  <2>1. containers' = {}
    BY <1>4 DEF ContainerRemove, CallFails, engine, Named, IInv, AtMostOne
  <2>2. Have' = {}
    BY <2>1 DEF Have
  <2>3. QED
    BY <1>0, <1>1, <2>2, SameData DEF Have, Promise!Work, Promise!Touches
<1>5. CASE ContainerList
  BY <1>0, <1>5, KeepsRefines DEF ContainerList, CallFails, engine
<1>6. QED
  BY <1>2, <1>3, <1>4, <1>5 DEF StopContainer

\* Callers, kills and the other users of the engine.
LEMMA OtherRefines ==
  IInv /\ ((\E o \in Wanted : Call(o)) \/ HealthCheck \/ Kill \/ Outside)
    => [Promise!Ask \/ Promise!Outside]_(Promise!rvars)
<1> SUFFICES ASSUME IInv, (\E o \in Wanted : Call(o)) \/ HealthCheck \/ Kill \/ Outside
             PROVE  [Promise!Ask \/ Promise!Outside]_(Promise!rvars)
  OBVIOUS
<1>1. CASE (\E o \in Wanted : Call(o)) \/ HealthCheck \/ Kill
  <2>1. /\ opts' \in Options /\ pc' # "idle" /\ result' = "none"
        /\ containers' = containers
    BY <1>1, ClientAssumption DEF Call, HealthCheck, Kill, engine, IInv, TypeOK
  <2>2. QED
    BY <2>1 DEF Promise!Ask
<1>2. ASSUME NEW s \in {"exited", "running"}, containers # {},
             containers' = WithStatus(containers, s), UNCHANGED <<opts, pc, result>>
      PROVE  Promise!Outside
  BY <1>2, TurnsAll DEF Promise!Outside
<1>3. CASE Exit
  BY <1>2, <1>3 DEF Exit
<1>4. CASE PolicyRestart
  BY <1>2, <1>4 DEF PolicyRestart
<1>5. CASE OperatorRemove
  <2>1. containers' = {} /\ UNCHANGED <<opts, pc, result>>
    BY <1>5 DEF OperatorRemove
  <2>2. QED
    BY <2>1 DEF Promise!Outside
<1>6. CASE ImagePrune
  BY <1>6 DEF ImagePrune, Promise!rvars
<1>7. QED
  BY <1>1, <1>3, <1>4, <1>5, <1>6 DEF Outside

\* RunContainer, call by call, keeps what Agent and Traefik take from it
\* (client.go:99-249): nil means that everything asked for is there, and what
\* is already as wanted is never taken down.
THEOREM Implements == Spec => ImplementsReconcile
<1>1. IInv /\ [Next]_vars => [Promise!Next]_(Promise!rvars)
  <2>1. UNCHANGED vars => UNCHANGED Promise!rvars
    BY DEF vars, Promise!rvars
  <2>2. QED
    BY <2>1, RunContainerRefines, StopContainerRefines, OtherRefines DEF Next, Promise!Next
<1>2. QED
  BY <1>1, InitRefines, Invariant, PTL DEF Spec, ImplementsReconcile, Promise!Spec

-----------------------------------------------------------------------------
(***************************************************************************)
(* The whole call.  While nobody else touches the container, the program   *)
(* counter says what has become of what the call found.                    *)
(***************************************************************************)
Followed ==
  since # "others" =>
    /\ pc \in {"image", "pull", "inspect", "list", "stop"} => Holds = before
    /\ pc \in {"list", "stop", "remove", "create"} => ~Fits
    /\ pc = "remove" => Holds = Stopped(before)
    /\ pc = "create" => Holds = {}
    /\ pc = "start" => Holds = IF Fits THEN before ELSE Made(New, FALSE)
    /\ pc = "idle" => Holds \in Outcomes(before, Fits, New)

\* A call in which nothing went wrong finds what it goes by.
Smooth ==
  since = "nothing" =>
    /\ pc \in {"stop", "remove", "start"} => Named(target) # {}
    /\ pc \in {"inspect", "list", "stop", "remove", "create"} => opts.image \in images
    /\ pc = "idle" => result = "ok" /\ Holds = Served(before, Fits, New)

HTypeOK ==
  /\ since \in {"nothing", "failure", "others"}
  /\ before \in SUBSET [what : {Created(o, ImageID) : o \in Options}, runs : BOOLEAN]
  /\ \A b, c \in before : b = c

HInv == /\ HTypeOK
        /\ Followed
        /\ Smooth
        /\ Holds \in Amidst(before, New)

\* Without touching the container nothing of what the name holds changes.
LEMMA HoldsKept == UNCHANGED containers => Holds' = Holds
  BY DEF Holds

\* A change of status is Running or Stopped of what the name held.
LEMMA HoldsTurned ==
  ASSUME IInv
  PROVE  /\ containers' = WithStatus(containers, "running") => Holds' = Running(Holds)
         /\ containers' = WithStatus(containers, "exited") => Holds' = Stopped(Holds)
<1>1. CASE containers = {}
  <2>1. Holds = {}
    BY <1>1 DEF Holds
  <2>2. \A s : WithStatus(containers, s) = {}
    BY <1>1 DEF WithStatus
  <2>3. containers' = {} => Holds' = {}
    BY DEF Holds
  <2>4. QED
    BY <2>1, <2>2, <2>3 DEF Running, Stopped
<1>2. ASSUME NEW c \in containers 
      PROVE  /\ containers' = WithStatus(containers, "running") => Holds' = Running(Holds)
             /\ containers' = WithStatus(containers, "exited") => Holds' = Stopped(Holds)
  <2>1. containers = {c} /\ c \in Container
    BY <1>2 DEF IInv, AtMostOne, TypeOK
  <2>2. Holds = {[what |-> c.actual, runs |-> c.status = "running"]}
    BY <2>1 DEF Holds
  <2>3. Running(Holds) = {[what |-> c.actual, runs |-> TRUE]}
        /\ Stopped(Holds) = {[what |-> c.actual, runs |-> FALSE]}
    BY <2>2 DEF Running, Stopped
  <2>4. \A s : WithStatus(containers, s) = {[c EXCEPT !.status = s]}
    BY <2>1 DEF WithStatus
  <2>5. \A s : /\ [c EXCEPT !.status = s].actual = c.actual
               /\ [c EXCEPT !.status = s].status = s
    BY <2>1 DEF Container
  <2>6. ASSUME NEW d, containers' = {d}, d.actual = c.actual
        PROVE  /\ d.status = "running" => Holds' = {[what |-> c.actual, runs |-> TRUE]}
               /\ d.status = "exited" => Holds' = {[what |-> c.actual, runs |-> FALSE]}
    <3>1. Holds' = {[what |-> c.actual, runs |-> d.status = "running"]}
      BY <2>6 DEF Holds
    <3>2. d.status = "exited" => (d.status = "running") = FALSE
      OBVIOUS
    <3>3. d.status = "running" => (d.status = "running") = TRUE
      OBVIOUS
    <3>4. QED
      BY <3>1, <3>2, <3>3
  <2>7. QED
    BY <2>3, <2>4, <2>5, <2>6
<1>3. QED
  BY <1>1, <1>2

\* The name holds one container, or none.
LEMMA HoldsTyped ==
  ASSUME IInv
  PROVE  /\ Holds \in SUBSET [what : {Created(o, ImageID) : o \in Options}, runs : BOOLEAN]
         /\ \A b, c \in Holds : b = c
         /\ Holds = {} <=> containers = {}
<1>1. \A c \in containers : c \in Container
  BY DEF IInv, TypeOK
<1>2. \A c \in containers : (c.status = "running") \in BOOLEAN
  OBVIOUS
<1>3. \A c \in containers : [what |-> c.actual, runs |-> c.status = "running"]
         \in [what : {Created(o, ImageID) : o \in Options}, runs : BOOLEAN]
  BY <1>1, <1>2 DEF Container
<1>4. Holds \in SUBSET [what : {Created(o, ImageID) : o \in Options}, runs : BOOLEAN]
  BY <1>3 DEF Holds
<1>5. \A b, c \in Holds : b = c
  BY DEF Holds, IInv, AtMostOne
<1>6. Holds = {} <=> containers = {}
  BY DEF Holds
<1>7. QED
  BY <1>4, <1>5, <1>6

\* Starting, stopping, removing and creating make no third container.
LEMMA AmidstKept ==
  ASSUME HInv, UNCHANGED <<before, opts>>,
         Holds' \in {Holds, {}, Running(Holds), Stopped(Holds), Made(New, FALSE)}
  PROVE  (Holds \in Amidst(before, New))'
<1> DEFINE Either == [what : {New} \cup {c.what : c \in before}, runs : BOOLEAN]
<1>1. New' = New
  BY DEF New
<1>2. Holds \in SUBSET Either /\ \A c, d \in Holds : c = d
  BY DEF HInv, Amidst
<1>3. ASSUME NEW r \in BOOLEAN
      PROVE  LET turned == {[what |-> c.what, runs |-> r] : c \in Holds}
             IN  turned \in SUBSET Either /\ \A c, d \in turned : c = d
  <2>1. \A c \in Holds : c.what \in {New} \cup {b.what : b \in before}
    BY <1>2
  <2>2. \A w \in {New} \cup {c.what : c \in before} : [what |-> w, runs |-> r] \in Either
    OBVIOUS
  <2>3. QED
    BY <1>2, <2>1, <2>2
<1>4. /\ Running(Holds) \in SUBSET Either /\ \A c, d \in Running(Holds) : c = d
      /\ Stopped(Holds) \in SUBSET Either /\ \A c, d \in Stopped(Holds) : c = d
  BY <1>3 DEF Running, Stopped
<1>5. Made(New, FALSE) \in SUBSET Either /\ \A c, d \in Made(New, FALSE) : c = d
  BY DEF Made
<1>6. Holds' \in SUBSET Either /\ \A c, d \in Holds' : c = d
  BY <1>2, <1>4, <1>5
<1>7. Holds' \in Amidst(before, New)
  BY <1>6 DEF Amidst
<1>8. QED
  BY <1>1, <1>7

\* At every step of a call one of the five is there.
LEMMA OutcomeAnywhere ==
  IInv /\ HInv => CallOutcome
<1> SUFFICES ASSUME IInv, HInv PROVE CallOutcome
  OBVIOUS
<1>1. pc \in Steps
  BY DEF IInv, TypeOK
<1>2. ASSUME since # "others" PROVE Holds \in Outcomes(before, Fits, New)
  <2>1. CASE pc \in {"image", "pull", "inspect", "list", "stop"}
    BY <1>2, <2>1 DEF HInv, Followed, Outcomes
  <2>2. CASE pc \in {"remove", "create", "start"}
    BY <1>2, <2>2 DEF HInv, Followed, Outcomes
  <2>3. CASE pc = "idle"
    BY <1>2, <2>3 DEF HInv, Followed
  <2>4. QED
    BY <1>1, <2>1, <2>2, <2>3 DEF Steps
<1>3. QED
  BY <1>2 DEF CallOutcome, HInv, Smooth

\* What a call that goes on does to the history.
LEMMA History ==
  ASSUME IInv, HInv, GoesOn
  PROVE  /\ before' = before /\ opts' = opts /\ Fits' = Fits /\ New' = New
         /\ HTypeOK'
         /\ since' # "others" => since # "others"
         /\ since' = "nothing" => since = "nothing" /\ ~Fault
<1>1. before' = before
  BY DEF GoesOn
<1>2. opts' = opts
  BY DEF GoesOn, RunContainer, StopContainer, ImageInspect, ImagePull, ContainerInspect,
         ContainerCreate, ContainerStart, ContainerList, ContainerStop, ContainerRemove,
         Goto, Return, CallFails, Done
<1>3. Fits' = Fits /\ New' = New
  BY <1>1, <1>2 DEF Fits, New
<1>4. Fault => faults' # faults
  BY ClientAssumption DEF IInv, TypeOK, Fault
<1>5. HTypeOK'
  BY <1>1 DEF HInv, HTypeOK, GoesOn, Worse
<1>6. QED
  BY <1>1, <1>2, <1>3, <1>4, <1>5 DEF GoesOn, Worse

\* A call that returns an error has had its failure and leaves one of the five.
LEMMA Returned ==
  ASSUME IInv, HInv, GoesOn, Return("err"),
         Fault \/ since # "nothing",
         since # "others" => Holds' \in Outcomes(before, Fits, New),
         Holds' \in {Holds, {}, Running(Holds), Stopped(Holds), Made(New, FALSE)}
  PROVE  HInv'
<1>1. pc' = "idle" /\ UNCHANGED <<before, opts>>
  BY History DEF Return
<1>2. (Holds \in Amidst(before, New))'
  BY <1>1, AmidstKept
<1>3. Followed'
  BY <1>1, History DEF Followed
<1>4. Smooth'
  BY History DEF Smooth
<1>5. QED
  BY <1>2, <1>3, <1>4, History DEF HInv

LEMMA FailedHInv ==
  ASSUME IInv, HInv, GoesOn, Return("err"), UNCHANGED containers,
         Fault \/ since # "nothing"
  PROVE  HInv'
<1>1. since # "others" => Holds \in Outcomes(before, Fits, New)
  BY OutcomeAnywhere DEF CallOutcome
<1>2. QED
  BY <1>1, HoldsKept, Returned

\* A call that goes on keeps the rest of what it knows.
LEMMA WentOn ==
  ASSUME IInv, HInv, GoesOn, Followed', Smooth',
         Holds' \in {Holds, {}, Running(Holds), Stopped(Holds), Made(New, FALSE)}
  PROVE  HInv'
<1>1. UNCHANGED <<before, opts>>
  BY History
<1>2. (Holds \in Amidst(before, New))'
  BY <1>1, AmidstKept
<1>3. QED
  BY <1>2, History DEF HInv

\* The convergence check of the container is that of what was there before.
LEMMA FitsIfCompared ==
  ASSUME IInv, NEW c \in containers, before = Holds
  PROVE  Fits <=> compareConfig(c.actual, opts)
<1>1. containers = {c}
  BY DEF IInv, AtMostOne
<1>2. before = {[what |-> c.actual, runs |-> c.status = "running"]}
  BY <1>1 DEF Holds
<1>3. QED
  BY <1>2 DEF Fits

LEMMA RunContainerHInv ==
  ASSUME IInv, HInv, GoesOn, RunContainer
  PROVE  HInv'
<1>1. CASE ImageInspect
  <2>1. CASE Goto(IF opts.image \in images THEN "inspect" ELSE "pull")
             /\ UNCHANGED <<engine, target, faults>>
    <3>1. Holds' = Holds /\ UNCHANGED images
      BY <2>1, HoldsKept DEF engine
    <3>2. Followed'
      BY <1>1, <2>1, <3>1, History DEF ImageInspect, Goto, HInv, Followed
    <3>3. Smooth'
      BY <1>1, <2>1, <3>1, History DEF ImageInspect, Goto, HInv, Smooth
    <3>4. QED
      BY <3>1, <3>2, <3>3, WentOn
  <2>2. QED
    BY <1>1, <2>1, FailedHInv DEF ImageInspect, CallFails, engine
<1>2. CASE ImagePull
  <2>1. CASE /\ pc = "pull" /\ Goto("inspect") /\ UNCHANGED containers
             /\ \/ images' = images \cup {opts.image}
                \/ Fault
    <3>1. Holds' = Holds
      BY <2>1, HoldsKept
    <3>2. Followed'
      BY <2>1, <3>1, History DEF Goto, HInv, Followed
    <3>3. Smooth'
      BY <2>1, <3>1, History DEF Goto, HInv, Smooth
    <3>4. QED
      BY <3>1, <3>2, <3>3, WentOn
  <2>2. QED
    BY <1>2, <2>1, FailedHInv DEF ImagePull, CallFails, engine
<1>3. CASE ContainerInspect
  <2>1. CASE containers = {} /\ Goto("create") /\ UNCHANGED <<engine, target, faults>>
    <3>1. Holds' = Holds /\ Holds = {} /\ UNCHANGED images
      BY <2>1, HoldsKept, HoldsTyped DEF engine
    <3>2. since # "others" => ~Fits
      BY <1>3, <3>1 DEF ContainerInspect, HInv, Followed, Fits
    <3>3. Followed'
      BY <2>1, <3>1, <3>2, History DEF Goto, Followed
    <3>4. Smooth'
      BY <1>3, <2>1, <3>1, History DEF ContainerInspect, Goto, HInv, Smooth
    <3>5. QED
      BY <3>1, <3>3, <3>4, WentOn
  <2>2. ASSUME NEW c \in containers, AfterInspect(c) = "idle", Return("ok"),
               UNCHANGED <<engine, faults>>
        PROVE  HInv'
    <3>1. Holds' = Holds
      BY <2>2, HoldsKept DEF engine
    <3>2. Converged(c, opts)
      BY <2>2 DEF AfterInspect
    <3>3. Running(Holds) = Holds
      <4>1. containers = {c} /\ c.status = "running"
        BY <2>2, <3>2 DEF IInv, AtMostOne, Converged
      <4>2. Holds = {[what |-> c.actual, runs |-> TRUE]}
        BY <4>1 DEF Holds
      <4>3. QED
        BY <4>2 DEF Running
    <3>4. since # "others" => Fits /\ Holds = Served(before, Fits, New)
      BY <1>3, <2>2, <3>2, <3>3, FitsIfCompared
         DEF ContainerInspect, HInv, Followed, Converged, Served
    <3>5. Followed'
      BY <2>2, <3>1, <3>4, History DEF Return, Followed, Outcomes
    <3>6. Smooth'
      BY <2>2, <3>1, <3>4, History DEF Return, Smooth
    <3>7. QED
      BY <3>1, <3>5, <3>6, WentOn
  <2>3. ASSUME NEW c \in containers, AfterInspect(c) # "idle", Goto(AfterInspect(c)),
               target' = c.id, UNCHANGED <<engine, faults>>
        PROVE  HInv'
    <3>1. Holds' = Holds /\ UNCHANGED <<containers, images>>
      BY <2>3, HoldsKept DEF engine
    <3>2. since # "others" => before = Holds /\ (Fits <=> compareConfig(c.actual, opts))
      BY <1>3, <2>3, FitsIfCompared DEF ContainerInspect, HInv, Followed
    <3>3. pc' = IF compareConfig(c.actual, opts) THEN "start" ELSE "list"
      BY <2>3 DEF AfterInspect, Goto, Converged
    <3>4. Followed'
      BY <3>1, <3>2, <3>3, History DEF Followed
    <3>5. Smooth'
      BY <1>3, <2>3, <3>1, <3>3, History DEF ContainerInspect, HInv, Smooth, Named
    <3>6. QED
      BY <3>1, <3>4, <3>5, WentOn
  <2>4. QED
    BY <1>3, <2>1, <2>2, <2>3, FailedHInv DEF ContainerInspect, CallFails, engine
<1>4. CASE ContainerCreate
  <2>1. ASSUME NEW id \in Ids,
               containers' = {[id |-> id, actual |-> Created(opts, ImageID),
                               status |-> "created"]},
               \/ target' = id /\ Goto("start") /\ UNCHANGED faults
               \/ Fault /\ Return("err")
        PROVE  HInv'
    <3>1. Holds' = Made(New, FALSE)
      <4>1. Holds' = {[what |-> Created(opts, ImageID), runs |-> "created" = "running"]}
        BY <2>1 DEF Holds
      <4>2. ("created" = "running") = FALSE
        OBVIOUS
      <4>3. QED
        BY <4>1, <4>2 DEF Made, New
    <3>2. since # "others" => ~Fits
      BY <1>4 DEF ContainerCreate, HInv, Followed
    <3>3. CASE target' = id /\ Goto("start")
      <4>1. Followed'
        BY <3>1, <3>2, <3>3, History DEF Goto, Followed
      <4>2. Named(target)' # {}
        <5>1. [id |-> id, actual |-> Created(opts, ImageID), status |-> "created"]
                \in containers'
          BY <2>1
        <5>2. QED
          BY <3>3, <5>1 DEF Named
      <4>3. Smooth'
        BY <3>3, <4>2, History DEF Goto, Smooth
      <4>4. QED
        BY <3>1, <4>1, <4>3, WentOn
    <3>4. CASE Fault /\ Return("err")
      BY <3>1, <3>2, <3>4, Returned DEF Outcomes
    <3>5. QED
      BY <2>1, <3>3, <3>4
  <2>2. CASE /\ containers # {} \/ opts.image \notin images
             /\ Return("err") /\ UNCHANGED <<engine, faults>>
    <3>1. since # "nothing"
      BY <1>4, <2>2, HoldsTyped DEF ContainerCreate, HInv, Followed, Smooth
    <3>2. QED
      BY <2>2, <3>1, FailedHInv DEF engine
  <2>3. QED
    BY <1>4, <2>1, <2>2, FailedHInv DEF ContainerCreate, CallFails, engine
<1>5. CASE ContainerStart
  <2>1. CASE /\ containers' = WithStatus(containers, "running")
             /\ Return("ok") \/ (Fault /\ Return("err"))
    <3>1. Holds' = Running(Holds)
      BY <2>1, HoldsTurned
    <3>2. Running(Made(New, FALSE)) = Made(New, TRUE)
      BY DEF Running, Made
    <3>3. since # "others" => Holds' = Served(before, Fits, New)
      BY <1>5, <3>1, <3>2 DEF ContainerStart, HInv, Followed, Served
    <3>4. CASE Return("ok")
      <4>1. Followed'
        BY <3>3, <3>4, History DEF Return, Followed, Outcomes
      <4>2. Smooth'
        BY <3>3, <3>4, History DEF Return, Smooth
      <4>3. QED
        BY <3>1, <4>1, <4>2, WentOn
    <3>5. CASE Fault /\ Return("err")
      BY <3>1, <3>3, <3>5, Returned DEF Outcomes
    <3>6. QED
      BY <2>1, <3>4, <3>5
  <2>2. CASE Named(target) = {} /\ Return("err") /\ UNCHANGED <<engine, faults>>
    BY <1>5, <2>2, FailedHInv DEF ContainerStart, HInv, Smooth, engine
  <2>3. QED
    BY <1>5, <2>1, <2>2, FailedHInv DEF ContainerStart, CallFails, engine
<1>6. QED
  BY <1>1, <1>2, <1>3, <1>4, <1>5 DEF RunContainer

LEMMA StopContainerHInv ==
  ASSUME IInv, HInv, GoesOn, StopContainer
  PROVE  HInv'
<1>1. CASE ContainerList
  <2>1. CASE containers = {} /\ Goto("create") /\ UNCHANGED <<engine, target, faults>>
    <3>1. Holds' = Holds /\ Holds = {} /\ UNCHANGED images
      BY <2>1, HoldsKept, HoldsTyped DEF engine
    <3>2. Followed'
      BY <1>1, <2>1, <3>1, History DEF ContainerList, Goto, HInv, Followed
    <3>3. Smooth'
      BY <1>1, <2>1, <3>1, History DEF ContainerList, Goto, HInv, Smooth
    <3>4. QED
      BY <3>1, <3>2, <3>3, WentOn
  <2>2. ASSUME NEW c \in containers, target' = c.id, Goto("stop"),
               UNCHANGED <<engine, faults>>
        PROVE  HInv'
    <3>1. Holds' = Holds /\ UNCHANGED <<containers, images>>
      BY <2>2, HoldsKept DEF engine
    <3>2. Followed'
      BY <1>1, <2>2, <3>1, History DEF ContainerList, Goto, HInv, Followed
    <3>3. Smooth'
      BY <1>1, <2>2, <3>1, History DEF ContainerList, Goto, HInv, Smooth, Named
    <3>4. QED
      BY <3>1, <3>2, <3>3, WentOn
  <2>3. QED
    BY <1>1, <2>1, <2>2, FailedHInv DEF ContainerList, CallFails, engine
<1>2. CASE ContainerStop
  <2>1. CASE /\ Named(target) # {}
             /\ containers' = WithStatus(containers, "exited")
             /\ Done("remove")
             /\ UNCHANGED <<images, target>>
    <3>1. Holds' = Stopped(Holds)
      BY <2>1, HoldsTurned
    <3>2. since # "others" => Holds' = Stopped(before) /\ ~Fits
      BY <1>2, <3>1 DEF ContainerStop, HInv, Followed
    <3>3. CASE Goto("remove")
      <4>1. Followed'
        BY <3>2, <3>3, History DEF Goto, Followed
      <4>2. Named(target)' # {}
        <5>1. PICK c \in containers : c.id = target /\ c \in Container
          BY <2>1 DEF Named, IInv, TypeOK
        <5>2. [c EXCEPT !.status = "exited"] \in containers'
          BY <2>1, <5>1 DEF WithStatus
        <5>3. [c EXCEPT !.status = "exited"].id = target'
          BY <2>1, <5>1 DEF Container
        <5>4. QED
          BY <5>2, <5>3 DEF Named
      <4>3. Smooth'
        BY <1>2, <2>1, <3>3, <4>2, History DEF ContainerStop, Goto, HInv, Smooth
      <4>4. QED
        BY <3>1, <4>1, <4>3, WentOn
    <3>4. CASE Fault /\ Return("err")
      BY <3>1, <3>2, <3>4, Returned DEF Outcomes
    <3>5. QED
      BY <2>1, <3>3, <3>4 DEF Done
  <2>2. CASE Named(target) = {} /\ Return("err") /\ UNCHANGED <<engine, faults>>
    BY <1>2, <2>2, FailedHInv DEF ContainerStop, HInv, Smooth, engine
  <2>3. QED
    BY <1>2, <2>1, <2>2, FailedHInv DEF ContainerStop, CallFails, engine
<1>3. CASE ContainerRemove
  <2>1. CASE /\ \E c \in Named(target) : c.status # "running"
             /\ containers' = containers \ Named(target)
             /\ Done("create")
             /\ UNCHANGED <<images, target>>
    <3>1. Holds' = {}
      <4>1. containers' = {}
        BY <2>1 DEF Named, IInv, AtMostOne
      <4>2. QED
        BY <4>1 DEF Holds
    <3>2. since # "others" => ~Fits
      BY <1>3 DEF ContainerRemove, HInv, Followed
    <3>3. CASE Goto("create")
      <4>1. Followed'
        BY <3>1, <3>2, <3>3, History DEF Goto, Followed
      <4>2. Smooth'
        BY <1>3, <2>1, <3>3, History DEF ContainerRemove, Goto, HInv, Smooth
      <4>3. QED
        BY <3>1, <4>1, <4>2, WentOn
    <3>4. CASE Fault /\ Return("err")
      BY <3>1, <3>2, <3>4, Returned DEF Outcomes
    <3>5. QED
      BY <2>1, <3>3, <3>4 DEF Done
  <2>2. CASE /\ \A c \in Named(target) : c.status = "running"
             /\ Return("err") /\ UNCHANGED <<engine, faults>>
    <3>1. SUFFICES ASSUME since = "nothing" PROVE FALSE
      BY <2>2, FailedHInv DEF engine
    <3>2. Holds = Stopped(before) /\ Named(target) # {}
      BY <1>3, <3>1 DEF ContainerRemove, HInv, Followed, Smooth
    <3>3. PICK c \in containers : c.status = "running"
      BY <2>2, <3>2 DEF Named
    <3>4. (c.status = "running") = TRUE
      BY <3>3
    <3>5. [what |-> c.actual, runs |-> TRUE] \in Holds
      BY <3>3, <3>4 DEF Holds
    <3>6. \A h \in Stopped(before) : h.runs = FALSE
      BY DEF Stopped
    <3>7. QED
      BY <3>2, <3>5, <3>6
  <2>3. QED
    BY <1>3, <2>1, <2>2, FailedHInv DEF ContainerRemove, CallFails, engine
<1>4. QED
  BY <1>1, <1>2, <1>3 DEF StopContainer

\* A call begins where the last one, or the engine's other users, left things.
LEMMA BeginsHInv == ASSUME IInv, HInv, Begins PROVE HInv'
<1>1. /\ pc' = "image" /\ since' = "nothing" /\ before' = Holds
      /\ UNCHANGED containers
  BY DEF Begins, HealthCheck, Call, Kill, engine
<1>2. Holds' = Holds
  BY <1>1, HoldsKept
<1>3. HTypeOK'
  BY <1>1, HoldsTyped DEF HTypeOK
<1>4. (Holds \in Amidst(before, New))'
  <2>1. Holds \in SUBSET [what : {New'} \cup {c.what : c \in Holds}, runs : BOOLEAN]
    BY HoldsTyped
  <2>2. QED
    BY <1>1, <1>2, <2>1, HoldsTyped DEF Amidst
<1>5. QED
  BY <1>1, <1>2, <1>3, <1>4 DEF HInv, Followed, Smooth

\* Others at work: their fault is on record, and they make no third container.
LEMMA OthersHInv == ASSUME IInv, HInv, Pruned \/ Disturbed PROVE HInv'
<1>1. UNCHANGED <<pc, opts, target, result, before>> /\ since' \in {"failure", "others"}
  BY DEF Pruned, Disturbed, ImagePrune, Exit, PolicyRestart, OperatorRemove, HInv, HTypeOK,
         Worse
<1>2. since' # "others" => since # "others" /\ UNCHANGED containers
  BY DEF Pruned, Disturbed, ImagePrune, Worse
<1>3. Holds' \in {Holds, {}, Running(Holds), Stopped(Holds), Made(New, FALSE)}
  <2>1. CASE Exit \/ PolicyRestart
    BY <2>1, HoldsTurned DEF Exit, PolicyRestart
  <2>2. CASE OperatorRemove
    BY <2>2 DEF OperatorRemove, Holds
  <2>3. CASE ImagePrune
    BY <2>3, HoldsKept DEF ImagePrune
  <2>4. QED
    BY <2>1, <2>2, <2>3 DEF Pruned, Disturbed
<1>4. (Holds \in Amidst(before, New))'
  BY <1>1, <1>3, AmidstKept
<1>5. HTypeOK'
  BY <1>1 DEF HInv, HTypeOK
<1>6. Followed'
  BY <1>1, <1>2, HoldsKept DEF HInv, Followed, Fits, New
<1>7. Smooth'
  BY <1>1 DEF Smooth
<1>8. QED
  BY <1>4, <1>5, <1>6, <1>7 DEF HInv

LEMMA InitHInv == HInit => HInv
<1> SUFFICES ASSUME HInit PROVE HInv
  OBVIOUS
<1>1. IInv
  BY InitIInv DEF HInit
<1>2. Holds \in SUBSET [what : {New} \cup {c.what : c \in Holds}, runs : BOOLEAN]
  BY <1>1, HoldsTyped
<1>3. Holds \in Amidst(before, New)
  BY <1>1, <1>2, HoldsTyped DEF HInit, Amidst
<1>4. HTypeOK
  BY <1>1, HoldsTyped DEF HInit, HTypeOK
<1>5. QED
  BY <1>3, <1>4 DEF HInit, Init, HInv, Followed, Smooth

LEMMA NextHInv == IInv /\ HInv /\ [HNext]_hvars => HInv'
<1> SUFFICES ASSUME IInv, HInv, [HNext]_hvars PROVE HInv'
  OBVIOUS
<1>1. CASE GoesOn
  BY <1>1, RunContainerHInv, StopContainerHInv DEF GoesOn
<1>2. CASE UNCHANGED hvars
  <2>1. Holds' = Holds /\ Fits' = Fits /\ New' = New
    BY <1>2 DEF hvars, Holds, Fits, New
  <2>2. HTypeOK' /\ Followed' /\ (Holds \in Amidst(before, New))'
    BY <1>2, <2>1 DEF hvars, HInv, HTypeOK, Followed
  <2>3. Smooth'
    BY <1>2, <2>1 DEF hvars, HInv, Smooth, Named
  <2>4. QED
    BY <2>2, <2>3 DEF HInv
<1>3. QED
  BY <1>1, <1>2, BeginsHInv, OthersHInv DEF HNext

\* The history only watches: without it a call is what it was.
LEMMA OnlyWatches ==
  /\ HInit => Init
  /\ [HNext]_hvars => [Next]_vars
<1>1. HInit => Init
  BY DEF HInit
<1>2. HNext => Next
  BY DEF HNext, Begins, GoesOn, Pruned, Disturbed, Next, Outside
<1>3. UNCHANGED hvars => UNCHANGED vars
  BY DEF hvars, vars
<1>4. QED
  BY <1>1, <1>2, <1>3

\* HSpec implements Spec, so that every theorem above holds with the history too.
THEOREM HistoryIsOne == HSpec => Spec
  BY OnlyWatches, PTL DEF HSpec, Spec

\* Whatever fails in between, and wherever the agent dies, a call of
\* RunContainer (client.go:99-249) leaves one of the outcomes that Agent and
\* Traefik reckon with, and that of success when nothing went wrong.
THEOREM CallsEndAsPromised == HSpec => []CallOutcome
<1>1. HSpec => []IInv
  BY HistoryIsOne, Invariant, PTL
<1>2. HSpec => []HInv
  BY <1>1, InitHInv, NextHInv, PTL DEF HSpec
<1>3. QED
  BY <1>1, <1>2, OutcomeAnywhere, PTL

\* The name is free whenever RunContainer comes to create a container
\* (client.go:191): whoever restarts, removes or prunes between its calls, it
\* never fails because its own container is in the way.
THEOREM CreateFindsNameFree == Spec => []CreateNeverConflicts
<1>1. IInv => CreateNeverConflicts
  BY DEF IInv
<1>2. QED
  BY <1>1, Invariant, PTL
==============================================================================
