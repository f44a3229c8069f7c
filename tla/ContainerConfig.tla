--------------------------- MODULE ContainerConfig ---------------------------
(***************************************************************************)
(* The convergence check of internal/container/client.go: when does a      *)
(* container that already exists count as "what we want"?  Everything here *)
(* is a pure operator; ContainerClient and Agent use them as guards.       *)
(*                                                                         *)
(* A RunOptions value (client.go:63) is a record                           *)
(*   image        an image reference (see below)                           *)
(*   cmd          sequence of arguments, <<>> = the image's default        *)
(*   env          set of NAME=value settings                               *)
(*   mounts       sequence of binds [bind, mode], mode a sequence of flags *)
(*   ports        function from container port to host port                *)
(*   hostNetwork  BOOLEAN                                                  *)
(*   memory, nanoCPUs   resource limits, 0 = unlimited                     *)
(* What the engine reports of a container (types.ContainerJSON) is the     *)
(* same record with one more field, imageID.                               *)
(*                                                                         *)
(* An image reference is [parts, port, tag]: the components between        *)
(* slashes, the index of the component that carries a ":port" (0 if none), *)
(* and the tag or digest.                                                  *)
(***************************************************************************)
EXTENDS Integers, Sequences

LOCAL INSTANCE SequencesExt
LOCAL INSTANCE Functions

CONSTANTS
  DottedNames,  \* image components that contain a dot, i.e. registry hosts
  DefaultEnv,   \* environment the engine and the image add on their own
  DefaultCmd,   \* command an image runs when none is given
  EngineFlags   \* bind flags the engine appends: <<>> for Docker,
                \* <<"rprivate", "rbind">> for Podman (client.go:323)

ASSUME EngineFlagsAssumption == EngineFlags \in Seq(STRING)

\* A bind of RunOptions.Mounts, "source:dest[:flag,...]".
Bind == [bind: STRING, mode: Seq(STRING)]

-----------------------------------------------------------------------------
(* Image references.                                                       *)

\* The text "prefix/" put in front of an image reference.
Prefixed(prefix, image) ==
  [image EXCEPT !.parts = prefix \o @,
                !.port  = IF @ = 0 THEN 0 ELSE @ + Len(prefix)]

\* client.go cuts the reference at its FIRST colon before it counts the
\* components, so a registry port hides every component after it.
CountedParts(image) ==
  IF image.port = 0 THEN image.parts ELSE SubSeq(image.parts, 1, image.port)

normalizeImageName(image) ==
  LET parts == CountedParts(image) IN
  CASE Len(parts) = 1 -> Prefixed(<<"docker.io", "library">>, image)
    [] Len(parts) = 2 /\ parts[1] \notin DottedNames
                      -> Prefixed(<<"docker.io">>, image)
    [] OTHER          -> image

imagesMatch(a, b) == normalizeImageName(a) = normalizeImageName(b)

-----------------------------------------------------------------------------
(* Environment, binds and ports.                                           *)

\* Every desired setting is present; what else the container has is ignored.
compareEnv(actual, desired) == desired \subseteq actual

\* Of the flags after source:dest only a leading "ro" survives.
normalizeMountBind(b) ==
  [b EXCEPT !.mode = IF @ # <<>> /\ Head(@) = "ro" THEN <<"ro">> ELSE <<>>]

NormalizedMounts(mounts) ==
  [i \in DOMAIN mounts |-> normalizeMountBind(mounts[i])]

\* Mutant: the lax check the other way round.
compareSlicesReversed(a, b) ==
  IF Len(a) = Len(b) THEN ToBag(a) = ToBag(b) ELSE Range(a) \subseteq Range(b)

\* Equal lengths: the same elements with the same multiplicities (the code
\* sorts and compares).  Otherwise: every element of b occurs in a.
compareSlices(a, b) ==
  IF Len(a) = Len(b) THEN ToBag(a) = ToBag(b) ELSE Range(b) \subseteq Range(a)

\* Whichever branch is taken, every bind of b is one of a (client.go:440-475).
LEMMA SlicesCovered ==
  ASSUME NEW a, NEW b, compareSlices(a, b)
  PROVE  \A i \in DOMAIN b : \E j \in DOMAIN a : a[j] = b[i]
<1>1. Range(b) \subseteq Range(a)
  BY DEF compareSlices, ToBag
<1>2. QED
  BY <1>1 DEF Range

\* The checks of compareConfig in the order of the code.  memory and nanoCPUs
\* are not among them.
compareConfig(inspect, opts) ==
  /\ imagesMatch(opts.image, inspect.image) \/ imagesMatch(opts.image, inspect.imageID)
  /\ opts.cmd # <<>> => inspect.cmd = opts.cmd
  /\ compareEnv(inspect.env, opts.env)
  /\ compareSlices(NormalizedMounts(inspect.mounts), NormalizedMounts(opts.mounts))
  /\ opts.hostNetwork => inspect.hostNetwork
  /\ inspect.ports = opts.ports

-----------------------------------------------------------------------------
(* The engine (external): what it reports of a container created from opts *)
(* (client.go:191).  The image reference is reported as it was given, and  *)
(* a bind without flags is reported as rw.                                 *)

Created(opts, imageID) ==
  [ image       |-> opts.image,
    imageID     |-> imageID,
    cmd         |-> IF opts.cmd = <<>> THEN DefaultCmd ELSE opts.cmd,
    env         |-> opts.env \cup DefaultEnv,
    mounts      |-> [i \in DOMAIN opts.mounts |->
                       [opts.mounts[i] EXCEPT
                          !.mode = (IF @ = <<>> THEN <<"rw">> ELSE @) \o EngineFlags]],
    ports       |-> opts.ports,
    hostNetwork |-> opts.hostNetwork,
    memory      |-> opts.memory,
    nanoCPUs    |-> opts.nanoCPUs ]
==============================================================================
