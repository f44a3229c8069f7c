# A TLA+ verification of xavi

xavi is an agent that keeps the containers of one edge node (Postgres, Valkey,
the application, Traefik and BackupBot) in the state a configuration file asks
for, and joins other nodes in a gossip mesh to find services they run. This
directory holds TLA+ modules translated from its source, the TLC runs that
check them on small instances, and TLAPS proofs of results that hold for every
instance. `PROJECT.json` lists every run, theorem, finding and hazard, and the
source lines each definition translates.

## The system

| Part | State it keeps | Operations | Talks to |
|------|----------------|------------|----------|
| `cmd/xavi/main.go` | flags, a context cancelled by a signal | start, stop | Agent |
| `internal/agent/agent.go`, `Agent.Run` | `a.Config`, `a.node` | boot, apply a configuration, rebuild App or BackupBot when their file changed, health check | everything below |
| the `ensure*` functions of the Agent | files under `/var/lib/xavi/runtime` that are mounted into the containers | one per service, each ends in `RunContainer` | container client, cluster |
| `internal/config`, `Watcher` | `lastModTime`, the channel `Updates` (capacity 1) | poll `xavi.json`, load, send without blocking | file system, Agent |
| `internal/config`, `FileWatcher` | `lastModTime`, the channel `Changed` (capacity 1) | poll `pulse.json` or `backup.json`, signal | file system, Agent |
| `internal/container/client.go` | registry credentials | `RunContainer`, `StopContainer`, `IsRunning`, `ContainerIP`, `EnsureNetwork`, `Login` | the Docker or Podman engine |
| `internal/cluster/cluster.go` | the services and role of this node at its start | `New`, `FindServiceAddr`, `FindPrimary` | memberlist |
| `internal/secrets/secrets.go` | the file `xavi.secrets` | `LoadOrGenerate`, once per start | file system, and the operator who copies the file |
| the files the Agent generates | the app's and BackupBot's configuration, Traefik's static and dynamic one, `acme.json` | written in place by the `ensure*` functions, read by the containers | file system, engine |

The agent runs its main loop and three watchers, which talk to it through
channels of capacity one. Everything that changes a container runs in the main
loop, one call at a time. What makes the behaviour hard is outside of it: the
engine restarts containers on its own, people stop, remove and prune, files
change while they are read, nodes join and leave, any engine call may fail or
lose its reply, and the agent may die between any two of them and is started
again by systemd.

What makes each part correct:

- *Container client*: `RunContainer` returns nil only when the container runs
  and passes the convergence check; it replaces only what differs, never runs
  into the old container, and what it has just created converges.
- *Hot reload*: only whole files come into force, never an older one after a
  newer one, and the last version written is not lost.
- *Agent loop*: after a pass of `applyConfig` every service that belongs on the
  node runs as configured; the watched containers come back after any fault;
  generated files agree with what the containers use.
- *Cluster*: a service is looked for where it is, and a primary is one.
- *Secrets*: a secret that was handed to a container never changes, is on file
  before it is handed out, and is the same on every node a generated file was
  copied to.
- *Generated files*: they follow their source and their configuration, no failed
  write leaves the app over a path that cannot be used, and neither the app nor
  Traefik is started by the agent over half a configuration. (BackupBot is: a
  failed write of its file is logged, and its container made, agent.go:294-315.)

## The modules

    HotReload          what the hot reload promises (abstract)
      ^ implemented by
    ConfigWatcher      watcher goroutine, channel, boot path, crashes

    ContainerConfig    the convergence check as operators
      ^ extended by
    Reconcile          what RunContainer promises (abstract)
      ^ implemented by
    ContainerClient    RunContainer and StopContainer, engine call by call
      ^ extended by
    ContainerCalls     the same with the history of one call as a whole
      | related by
    Outcome            what one call makes of the container
      | to
    Agent, Traefik     where a call is one step

    Agent              the main loop, one ensure call per action
    RuntimeFiles       FileWatcher, and the files of app and BackupBot
    Traefik            ensureTraefik, write by write
    Secrets            LoadOrGenerate on several nodes
    Cluster            the mesh of several agents

`MC<Module>` gives the constants of a module small values, `<Module>_proofs`
holds its theorems. No module has a RECURSIVE operator.

The machines meet at these interfaces.

- `ConfigWatcher` says which version of the configuration comes into force and
  when; in the other modules it is any member of `Configs`, `Settings` or
  `Specs`, at any time the loop selects.
- `ContainerClient` says what one call of `RunContainer` does between its engine
  calls, and is shown to implement `Reconcile`. In `Agent` and `Traefik` a call
  is one action, which reaches its goal or leaves the container untouched,
  stopped, removed, or replaced and not started. `Outcome` states these outcomes
  once, and they are proved from both sides: `CallsEndAsPromised` says that the
  sequence of engine calls has no others, failures and the death of the agent
  included, and the theorems `RunsAsPromised` that the steps of `Agent` and
  `Traefik` are just these. What others do to the container during a call is in
  those two an event before or after it; `ContainerClient` has it in between,
  where all that remains is that no third container comes of it (`Amidst`).
- `RuntimeFiles` and `Traefik` open up the `ensure*` calls of `Agent`. `Agent`
  asks whom the files name, and has `config.json` opened and written in two
  steps, because the engine may start the app in between; Traefik's address it
  has as written in one. The two have what is in the files as versions, and ask
  whether they are written at all.
- `Cluster` is the mesh from everywhere. `Agent` has one node's view of it, a
  peer that offers services and a role or does not.

### ContainerConfig and ContainerClient

`compareConfig`, `imagesMatch`, `normalizeImageName`, `normalizeMountBind`,
`compareEnv` and `compareSlices` are operators of the same names. An image
reference is a record of its path components, its port colon and its tag; the
engine's rewriting of binds (`Created`) is external. `containers` is the set of
containers with the name (at most one is a property, not the type), `pc` the
next engine call. Each call may fail without effect, or take effect and lose its
reply. `Call` is any caller, `HealthCheck` the caller that asks `IsRunning`
first, `Kill` the death of the agent in the middle. The engine's restart policy,
removal by hand and image pruning happen between any two calls.

### Outcome and ContainerCalls

`Outcome` says what a call makes of the set of containers that have its name:
`Served` if nothing goes wrong, one of five `Outcomes` if something does.
`ContainerCalls` adds two history variables to `ContainerClient`: `before`, what
the name held when the call began, and `since`, the worst that has happened since
then, which is nothing, a failure, or the work of others on the container. The
runs of MCContainerClient have the history; `HistoryIsOne` says that it changes
nothing.

### Reconcile

One container name: `have` what is there, `want` what was last asked for. A call
may start a container that has everything that was asked for (`Delivers`), may
stop or remove one that is not exactly what `create` would make, and may create
what is wanted where there is nothing; it returns nil only for a running
container that delivers. The convergence check is not part of the promise, it
has to fit in between: weaker than `Delivers` and nil would be a lie, stronger
than "just created" and `RunContainer` would tear down what it has just made,
for ever. `Delivers` says nothing of limits: see MCLimitsEnforced. That binds the
configuration has dropped may stay is part of `Delivers`, because `compareSlices`
accepts a superset; that no new one is missing is proved.

### HotReload and ConfigWatcher

A configuration is its version number. `file` is what is on disk, with its
modification time and whether it is whole; an operator replaces it, rewrites it
in place in two steps, or deletes it. `Poll`, `Load` and `Send` are the three
places where the watcher goroutine can be overtaken. `missed` is a history
variable that names the way an update was lost. The refinement mapping takes the
version in force and the versions written whole.

### Agent

`todo` holds the calls left of the case the loop is in: six for a pass of
`ensureInfrastructure`, two for `runHealthChecks`, one for a changed file. Each
`ensure*` function is an action with the guards and early returns of the code.
`Config`, `Node`, `Enabled`, `FindServiceAddr`, `FindPrimary` and
`BackupBotHere` translate the decisions the code takes; `Wanted` stands for the
RunOptions, reduced to what can differ: the image, and the replication flags of
a primary. `appFile` is the merged configuration of the app as what it was
merged from (pulse.json and the two hosts), or `Torn` from when `os.WriteFile`
has emptied it; `writing` is what the call in progress, which has it open
(`OpenAppFile`), will write. A write that fails and an agent that dies leave it
torn. `appRead` is what the running app read when it started, `backend` the address in Traefik's dynamic configuration,
`appIP` the address the app has. `None` stands for nil and for the empty string.
The mesh is one peer that offers services and a role, or does not. `calm` is a
history variable: nothing has happened from outside since the last `applyConfig`
began; `checked` says the same of the last health check.

### RuntimeFiles

One of two files, by `kind`: the app's, made from `pulse.json`, or BackupBot's,
made from `backup.json`. `source` is what the operator has written, in versions;
`Documents` are the forms `json.Unmarshal` and `parseBackupConfig` tell apart.
`gen` is the generated file, `wpc`, `lastMod` and `changed` the FileWatcher
goroutine and its channel, `apc` the ensure call: `Read` (the merge), `Truncate`
and `Write` (the two halves of `os.WriteFile`), `Own` (`setRuntimeDirOwnership`
and `parseUID`), `Run` (the engine makes a directory of a missing bind source).
The difference between the two callers is one operator, `WriteFailed`: `ensureApp`
returns the error, `ensureBackupBot` logs it and goes on. `ensures` says whether
the ensure call of the configuration gets to the merge at all: always, or never
(the service is not of this node), or, for an app whose Postgres is elsewhere,
when the mesh shows that just then. A call that returns before it has spent its
signal, and `missed` says "waiting". A boot with the source
in place and one without are both initial. `missed` names why the file will not
follow its source.

### Traefik

`static` and `dynamic` are the two configurations on disk, `read` what the
running Traefik started with, `routes` what it has loaded since; a file that was
opened and not written yet is `Empty`. `acme` is a file, a directory, or absent.
Each write of `ensureTraefik` may fail, the agent may die between any two, and
the engine may restart Traefik at each of these points. `unmade` and `failed`
are history variables.

### Secrets

A set of secrets is a function from its fields to the draw each comes from, so
that two draws are never the same by accident. The fields are the password, which
is generated only with the whole file, the random ones, which are added when
missing, and one that stands for the constant defaults. `LoadNothing`,
`LoadComplete`, `LoadIncomplete`, `Truncate` and `Write` are `LoadOrGenerate`;
`HandOut` is a pass of `applyConfig`, which uses the result. `dirty` is
what the disk does not have yet: nothing is synced. `Copy` and `Remove` are the
operator. `handed` and `touched` are history: each secret as it came into use, what
was added to an older file included, and whether anybody but `LoadOrGenerate`, or
a loss of power, has replaced the file since.

### Cluster

`config` is what each agent runs, `self` the configuration its cluster node was
made from, once, at the first configuration that calls for one. `group` is the
memberlist a node belongs to and `view` what it has heard of the others, both
external: a join unites groups, members learn each other's broadcasts, who is
gone is forgotten, a network splits. `failed` is the set of pairs of which a join
failed or that were separated. No node ever shuts its memberlist down in an
orderly way, so a death is a silence.

## What is checked

| Run | Instance | Shows |
|-----|----------|-------|
| MCContainerClient | six versions of a service that differ in image, settings, limits and binds, two ids, four faults | RunContainer keeps its promise (`ImplementsReconcile`), a create never meets a name in use, only a divergent container is replaced, a call as a whole has one of five outcomes (`CallOutcome`), and the health check brings a container up again |
| MCConfigWatcher | four writes, any clock, one crash, every kind of bundle | refinement of HotReload, and that an update is lost in exactly three ways |
| MCAgent | four configurations, a peer that comes to have Postgres, Valkey or the primary role, two addresses, two events | convergence after a pass, the agent starts the app only on a whole file, one health check is enough for the watched containers, what is settled is left alone, recovery in the end |
| MCRuntimeFiles | both files, three versions of the source as an object, `null` or half-written, a clock that may stand still, two users, one fault | a file is stale only if a version was missed in a named way; the app's file is never a directory; only `null` keeps the agent from its loop |
| MCTraefik | two domains, two ACME addresses and none, two images, four events | the agent starts Traefik only on what is configured, whatever fails or dies in between; Traefik comes back, and a new domain is routed without a restart |
| MCSecrets | two nodes, two random fields, a complete file, an older one and one without a password, three events | what is in use stays, is on file first, is never at risk once it is complete, and is shared by whoever has a generated file |
| MCCluster | four nodes that name each other, one key that does not decode, three configurations, two events | one mesh in whatever order they start, at most one primary, a service is found, and in the end nobody is sent to where it is not |

Why these bounds are enough. The deepest interleaving of `RunContainer` needs
three faults: one that leaves a half-finished replacement, one while that is
being repaired, one after; a fourth was affordable. Two ids are enough because
only the current container and the one before it are ever named. Four writes let
an update be lost in each way and be followed by one that is not; of a generated
file, where signals carry no content, three do. In `Agent` an event is a fault, a
change outside, a further reload or a crash; two of them put one before and one
inside every pass, or one in each of two passes. A second address is what tells
a current address from an old one. Of `pulse.json` the run has one version, which
may be missing: its versions are `RuntimeFiles`'s. In `Traefik` a reload, a failed write in its
pass, a restart by the engine and a death are four events, and two addresses tell
a resolver of the wrong address from none. In `Secrets` three events are a death
in a write, a copy onto the node, and a death of the other one. In `Cluster`
three nodes are the least in which a node can be in a mesh with one it did not
reach itself, and the fourth never can be. The proofs below do not depend on any
bound.

Fairness. In `ContainerClient` a call in progress goes on and the health ticker
fires (agent.go:156, 185). In `ConfigWatcher` the goroutines go on and systemd
restarts the agent (`Restart=always` in install.sh). In `Agent` calls in progress
end, systemd restarts, and the health tick is strongly fair: the ticker's
channel keeps its tick until the select takes it, and a select chooses at random
among the channels that are ready, so signals of the file watchers cannot keep
it out for ever. In `RuntimeFiles` the same holds of the file watcher's signal.
In `Traefik` the health check is only weakly fair, and Traefik watches its file;
in `Secrets` a start goes on until it returns; in `Cluster` gossip and failure
detection go on, while contact with a lost member, which memberlist tries at
random, is owed to nobody. Reloads, edits, failures, restarts by the engine and
other users are never fair. That engine calls return at all is an assumption: the
code gives them no timeout.

Deadlock is checked except in MCConfigWatcher, MCSecrets, MCCluster and
MCTraefik, where the system may come to rest: an agent that ends because its
bundle does not parse, a secrets file that does not parse once the bound on
events is reached, a mesh in which all is said, a Traefik that runs as
configured.

### Where the code does not do what is said of it

These runs are expected to fail; each finding quotes the line it contradicts.

| Run | Finding |
|-----|---------|
| MCLimitsEnforced | a changed memory or CPU limit alone does not recreate the container |
| MCPulseRebuilds | a changed pulse.json is merged, and the app neither rebuilt nor restarted |
| MCTraefikFindsApp | Traefik keeps the app's old address, or a name it cannot resolve |
| MCSecondaryStarts | a secondary that waits for its primary is never started |
| MCBackupFormats | the array form of backup.json is never accepted, and the object form loses its keys |

### Limits the properties state

What holds, holds with these exceptions, each of them a clause of a property.

- *Hot reload* (`LostOnlyWhenMissed`, `missed`): an update is lost if it is
  written between the boot's load and the watcher's first look, if it comes
  while an earlier one still waits in the channel, or if its modification time
  is not later than the last.
- *Replacement* (`AlwaysComesBack`): a container of the name comes back. That it
  is the new one does not follow: a replacement that failed before it removed the
  old container is not retried while the old one runs.
- *Services* (`ConvergedAfterApply`, `WatchedRecover`): nothing stops a service
  taken out of the list; only app and Traefik are watched, so a failed Valkey,
  Postgres or BackupBot waits for the next configuration; and the health check
  never makes xavi-net.
- *The app's configuration* (`AppStartsConfigured`): the engine's restart may fall
  into the middle of a write of `config.json`, or come after one that failed or
  was cut short there, and the app then reads an empty file. The agent writes the
  file again when it next ensures the app, but lets an app that runs run on.
- *Mesh* (`MeshedUnlessFailed`, `OnePrimaryFound`, `FoundInTheEnd`,
  `TrueInTheEnd`): peers are joined once; a node broadcasts what it was made
  with until it is restarted, so after a promotion by hot reload there are two
  primaries or none, and a service that was taken off the list is still looked
  for, at 127.0.0.1 on the node itself; a node without a list runs everything
  and broadcasts nothing.
- *Generated files* (`StaleOnlyWhenMissed`, `AppFileIsNoDirectory`,
  `RunsUnlessNull`): an edit during the boot, to a time that is not later, or a
  deletion is not noticed; a signal that comes while the mesh shows no Postgres is
  spent before the merge, and while the app runs nothing repeats it
  (agent.go:166-170, 567); a failed write is not tried again; BackupBot's file,
  if it could not be written before its container was made, becomes a directory;
  and `pulse.json` with `null` in it makes the agent panic at every start.
- *Traefik* (`AcmeIsFileUnlessUnmade`, `StartedOnWhatIsConfigured`,
  `DomainRouted`): acme.json that could not be written when it was first needed
  becomes a directory for good; a restart by the engine may fall into the middle
  of a write; a changed ACME address takes effect at the next start of Traefik
  only, although the dynamic file names or drops the resolver at once; a failed
  write is not tried again while Traefik runs.
- *Secrets* (`HandedOutStays`, `CompleteNeverRewritten`, `GeneratedAgree`,
  `StartsUnlessTorn`): a file that a death leaves half-written has to be removed
  by hand before the agent starts, and its secrets with it if they were in use,
  which takes a death just while an older file is completed;
  a loss of power soon after the first start may take the file with it when its
  secrets are in use; an older file that was copied is completed on each node by
  itself, with different keys.

## What is proved

For every value of the constants, under the assumptions named in the modules
(each module states its own; TLC evaluates them).

*ContainerClient_proofs.* `CreatedConverges`: a container made from some options
passes the convergence check for them, whatever the engine adds to its report.
`Invariant`: the inductive invariant says what each program point knows although
others use the engine between two calls: at most one container, a container on
its way out differs from what is wanted, and the id given to ContainerStart is
that of a container that matches. `CreateNeverConflicts` and
`OnlyDivergentReplaced` are not inductive by themselves, because a start is
sound only for the id that was compared. From it follow `TypeCorrect`,
`ReplacementSafe` and the action property `OkConverged`. `Implements`:
ContainerClient implements Reconcile, step by step under the mapping that
forgets ids and program points. The two sides of the check are lemmas:
`CheckedDelivers`, that what passes has everything that was asked for (through
`SlicesCovered`: a superset check on two lists misses no new bind), and
`CreatedConverges`. `CallsEndAsPromised`: with the history of a call, what the
name holds is at every point of the call one of the outcomes of `Outcome`. That
is not inductive: `Followed` says what the name holds at each engine call (before
stop what it held at first, before create nothing), and `Smooth` that a call in
which nothing went wrong finds the image and the container it goes by, so that it
can only return nil. `HistoryIsOne` takes the theorems about `Spec` over to the
specification with the history. `CreateFindsNameFree` states the first conjunct
of `ReplacementSafe` by itself.

*ConfigWatcher_proofs.* `LossCharacterized`: an update is lost in exactly three
ways. `Implements`: ConfigWatcher implements HotReload, from an invariant that
orders the versions in force, in the channel, in the watcher's hands and on disk.

*Agent_proofs.* `Converges`: after a pass that nothing disturbed, every service
that belongs on the node runs as configured and Traefik routes to the app.
Stated for the end of a pass alone this is not inductive; the invariant
`Progress` says it of every point of a pass: whatever call is no longer in
`todo` has left its service `Settled`. It needs `Shape` (which tails of calls
`todo` can be, so that the network comes before all and the app before Traefik)
and is proved with one lemma per call: it settles its own service (`CalmRun`)
and keeps the others (`Kept`, `KeepsOthers`). `EnsureApp` is the one call that
can unsettle another service, since a replaced app has a new address: the proof
uses that Traefik is still to come, or that the app is already settled and is
left alone. `AppNeverBlind`, an action property: whoever starts the app starts it
over a whole file in which Postgres has a host, or, if it is the engine, over one
that a write has left empty; from the invariant `FileFirst`, that there is a file
before there is a container, and that it is torn or names Postgres, and
`Halfway`, that what is being written does. `OneCheckHeals`: a health check that
nothing disturbs leaves both watched containers running, from `Checks`, which
says so of each point of the check and of the rebuilds after it. `NothingFlaps`,
an action property: on a node where a pass has settled everything and nothing has
happened since, rebuilds and health checks touch no container, and write
`config.json` with what it held; it follows from `Progress`, since a call for a
service that is settled changes nothing else. `RunsAsPromised`: the ways `Reaches` and `Fails` let a call end are
exactly the `Outcomes` of `ContainerClient`, in both directions, and without a
fault that of success for every container that can start (one whose network is
missing cannot, which `Agent` says of the engine). Its hypotheses, `TypeOK` and
that only a container that exists has options, hold always (`PromisedAlways`).

*RuntimeFiles_proofs.* `StaleCharacterized`: with nothing on its way the file is
current, or its kind of loss is one of five, the return before the merge among
them. Inductively, what each point of an ensure call has done counts only while
nothing newer is `Pending`; `Progress` says what
is done, `Followed` that the merge was of the version that is there, and that a
signal that was dropped had one waiting before it closes the argument.
`AppFileGuarded`: whatever writes fail, the app's file never becomes a directory.

*Traefik_proofs.* `StartedRight`, `FilesWritten` and `AcmeIsFile`, from `Progress`
(what each point of `ensureTraefik` has behind it) and `AcmeUsable`.
`RunsAsPromised` and `RunsAllPromised`: `Run` has the outcomes of a call of
`ContainerClient`, all of them and no others but one, a Traefik that was started
and exits at once because `acme.json` is not a file.

*Secrets_proofs.* `StaysInUse`, `SavedFirst`, `CompleteStays` and `CopiesAgree`. That a secret in
use stays is not inductive: between two starts only the file has it, and during
a write only memory. `Kept` says of both what they have; `Original`, that a set
whose password xavi drew is just as it was generated, is what makes a copy onto
a node that is generating its own harmless. `CompleteStays`: once what is in use
is complete, no start and no death of the agent puts its file at risk; `Safe`
adds that no start is then on its way to a write.

*Cluster_proofs.* `Meshed`: nodes that name each other are in one mesh unless a
join between them failed, in whatever order they start; the invariant is the
property, that groups are a partition, and that the operator configures one
primary at a time. `PrimaryIsTrue` follows from it, and `ServicesFound`, the
safety half of `FoundInTheEnd`: a service that is listed by a node of the same
mesh is missed only while gossip is behind.

Only model-checked, because it is out of reach of the prover: liveness, which is
`AlwaysComesBack`, `ReloadsUnlessMissed`, `WatchedRecover`, `FollowsUnlessMissed`,
`RunsUnlessNull`, `ComesBack`, `DomainRouted`, `StartsUnlessTorn`,
`FoundInTheEnd` and `TrueInTheEnd`. Every other property of the passing runs is a theorem.

## What is not modelled

- Registry login, which sets the credentials of a pull (a failed pull is a
  fault), `Logs`, which nothing calls, and `Close`.
- `parseMemory`, `parseCPU` and `UIDSpec.UnmarshalJSON`: arithmetic on text. A
  limit that does not parse counts as none, and the log alone says so. What
  becomes of a limit is in `ContainerClient`; of a uid, in `RuntimeFiles`.
- The layout of generated YAML and JSON: a file is what it says.
- The inside of memberlist, of the engine and of Traefik: they are external and
  do what the code relies on, in any order.
- Engine calls that never return: the code has no timeout, and a hung engine
  stops the agent's only loop.
- Flags, Sentry, the installer.

## Plan

1. Done: ContainerConfig, Reconcile, ContainerClient; HotReload, ConfigWatcher;
   Agent; RuntimeFiles; Traefik; Secrets; Cluster; their runs and the proofs
   above.
2. Done: the interface between ContainerClient and the modules that take a call
   as one step, proved from both sides through Outcome; a settled node is left
   alone, and one health check heals.
3. The safety halves of the other liveness properties as theorems: which state
   each fair step leaves behind, for `ComesBack` and `FollowsUnlessMissed`.
4. The parsers of settings as operators on numbers and units, against reference
   definitions, without TLAPS.
