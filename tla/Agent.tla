-------------------------------- MODULE Agent --------------------------------
(***************************************************************************)
(* The main loop of internal/agent/agent.go: applyConfig and the ensure*   *)
(* functions it calls service after service, the rebuild of the app when   *)
(* pulse.json changes, and the health check; with the cluster node of      *)
(* internal/cluster/cluster.go that tells it where other services run.     *)
(* Between two ensure* calls the world goes on: containers exit and come   *)
(* back with another address, nodes join and leave, the agent dies.        *)
(*                                                                         *)
(* One action is one ensure* call, but for the app's, which a death may    *)
(* cut in two: os.WriteFile empties config.json before it writes, and the  *)
(* engine may restart the app in between.  Traefik's and BackupBot's files *)
(* are written the same way; Traefik and RuntimeFiles have those steps.    *)
(* RunContainer is its outcome: by                                         *)
(* ContainerClient, either the container runs and passes the convergence   *)
(* check, or a fault left the replacement at any point.  Which             *)
(* configuration is applied, and when, is ConfigWatcher's.                 *)
(***************************************************************************)
EXTENDS Naturals, Sequences

CONSTANTS
  Images,     \* images a configuration may name
  Configs,    \* configurations: [services, image, mode, role, gossip]
  Offers,     \* what another node may offer: "postgres", "valkey", "primary"
  Addresses,  \* addresses the app's container may get on xavi-net
  Remote,     \* address of the other node
  Pulses,     \* contents of pulse.json that parse
  MaxEvents   \* bound on faults, outside changes, reloads and restarts

Services == {"valkey", "postgres", "app"}
Names    == Services \cup {"traefik", "backupbot"}
None     == "none"  \* nil, or an empty string
Roles    == {None, "primary", "secondary"}

ASSUME AgentAssumption ==
  /\ Configs \subseteq [ services: SUBSET Services,  \* {} = all of them
                         image:    [Names -> Images \cup {None}],
                         mode:     {"single", "cluster"},
                         role:     Roles,
                         gossip:   BOOLEAN ]         \* peers or bind_port given
  /\ Offers \subseteq {"postgres", "valkey", "primary"}
  /\ Remote # None
  /\ None \notin Pulses
  /\ MaxEvents \in Nat

VARIABLES
  \* The agent
  config,    \* a.Config, {} for nil, else {c}
  node,      \* a.node: {} for nil, else {[services, role]}
  todo,      \* calls still to come before the loop selects again
  writing,   \* what goes into config.json, which is open: {} or {[pulse, pg, valkey]}
  up,        \* the process runs
  \* Files the agent writes and containers read
  appFile,   \* the merged config.json: {} if absent, else {[pulse, pg, valkey]}
  backend,   \* app address in Traefik's dynamic.yml (Traefik watches the file)
  \* The engine
  network,   \* xavi-net exists
  status,    \* of each container
  opts,      \* what each container was created with
  appRead,   \* appFile as the app read it when it started
  appIP,     \* the app's address on xavi-net while it runs
  \* Outside
  pulse,     \* pulse.json, None if missing or malformed
  elsewhere, \* what the other node offers: "postgres", "valkey", "primary"
  events,    \* counts what happened from outside, up to MaxEvents
  calm,      \* history: nothing did since the last applyConfig began
  checked    \* history: nothing did, nor was anything applied, since the last
             \* health check began

agent   == <<config, node, up>>
call    == <<todo, writing>>
files   == <<appFile, backend>>
engine  == <<network, status, opts, appRead, appIP>>
outside == <<pulse, elsewhere>>
vars    == <<config, node, todo, writing, up, appFile, backend, network, status, opts, appRead,
             appIP, pulse, elsewhere, events, calm, checked>>

Hosts   == {"xavi-postgres", "xavi-valkey", "localhost", "127.0.0.1", Remote, None}
AppFile == [pulse: Pulses \cup {None}, pg: Hosts, valkey: Hosts]

\* config.json empty, or cut short: no JSON.
Torn == [pulse |-> None, pg |-> None, valkey |-> None]

\* Mutant: Traefik is ensured before the app it routes to.
InfrastructureTraefikFirst == <<"network", "valkey", "postgres", "traefik", "app", "backupbot">>

Infrastructure == <<"network", "valkey", "postgres", "app", "traefik", "backupbot">>
HealthChecks   == <<"check-app", "check-traefik">>
Steps == {"network", "valkey", "postgres", "app", "traefik", "backupbot", "check-app",
          "check-traefik", "rebuild-app", "rebuild-backupbot"}

TypeOK ==
  /\ config \in {{}} \cup {{c} : c \in Configs}
  /\ node \in {{}} \cup {{n} : n \in [services: SUBSET Services, role: Roles]}
  /\ todo \in Seq(Steps)
  /\ up \in BOOLEAN /\ network \in BOOLEAN /\ calm \in BOOLEAN /\ checked \in BOOLEAN
  /\ writing \in SUBSET AppFile
  /\ appFile \in SUBSET AppFile /\ appRead \in SUBSET AppFile
  /\ backend \in Addresses \cup {None, "xavi-app"}
  /\ status \in [Names -> {"absent", "exited", "running"}]
  /\ opts \in [Names -> (Images \cup {"default", None}) \X {"plain", "replica", None}]
  /\ appIP \in Addresses
  /\ pulse \in Pulses \cup {None}
  /\ elsewhere \subseteq Offers
  /\ events \in 0..MaxEvents

\* A host without a container of xavi's.
Init ==
  /\ config = {} /\ node = {} /\ todo = <<>> /\ writing = {} /\ up = FALSE
  /\ appFile = {} /\ backend = None
  /\ network = FALSE
  /\ status = [n \in Names |-> "absent"] /\ opts = [n \in Names |-> <<None, None>>]
  /\ appRead = {} /\ appIP \in Addresses
  /\ pulse \in Pulses \cup {None}
  /\ elsewhere \in SUBSET Offers
  /\ events = 0 /\ calm = FALSE /\ checked = FALSE

-----------------------------------------------------------------------------
(* Reading the configuration.                                              *)

Config == CHOOSE c \in config : TRUE
Node   == CHOOSE n \in node : TRUE

Enabled(s) == Config.services = {} \/ s \in Config.services

\* Traefik and BackupBot have a default image.
ServiceImage(n) ==
  IF n \notin Services /\ Config.image[n] = None THEN "default" ELSE Config.image[n]

\* What compareConfig can tell apart of a service's RunOptions.
Wanted(n) ==
  <<ServiceImage(n), IF n = "postgres" /\ Config.mode = "cluster" /\ Config.role = "primary"
                     THEN "replica" ELSE "plain">>

\* FindServiceAddr, None if nobody offers the service.
FindServiceAddr(s) ==
  IF s \in Node.services THEN "127.0.0.1" ELSE IF s \in elsewhere THEN Remote ELSE None

\* FindPrimary.
FindPrimary ==
  IF Node.role = "primary" THEN "127.0.0.1" ELSE IF "primary" \in elsewhere THEN Remote ELSE None

\* Where the app will look for Postgres, None if that has to be waited for ...
PgHost == CASE Enabled("postgres")                -> "xavi-postgres"
            [] ~Enabled("postgres") /\ node # {}  -> FindServiceAddr("postgres")
            [] OTHER                              -> "localhost"

\* ... and for Valkey, which is not waited for.
ValkeyHost ==
  CASE Enabled("valkey") -> "xavi-valkey"
    [] ~Enabled("valkey") /\ node # {} /\ FindServiceAddr("valkey") # None -> FindServiceAddr("valkey")
    [] OTHER -> "localhost"

IsSecondary == Config.mode = "cluster" /\ Config.role = "secondary"

\* A secondary waits for a primary it can see.
PrimaryMissing == IsSecondary /\ (node = {} \/ FindPrimary = None)

BackupBotHere == Enabled("postgres") /\ (Config.mode = "cluster" => IsSecondary)

-----------------------------------------------------------------------------
(* Containers.                                                             *)

Event == events < MaxEvents /\ events' = events + 1 /\ calm' = FALSE /\ checked' = FALSE
Quiet == UNCHANGED <<events, calm, checked>>

Differs(n)   == opts[n] # Wanted(n)
Converged(n) == status[n] = "running" /\ ~Differs(n)

\* Container n gets status s and options o.  An app that is started reads its
\* configuration file then, and gets an address.
Becomes(n, s, o) ==
  /\ status' = [status EXCEPT ![n] = s]
  /\ opts' = [opts EXCEPT ![n] = o]
  /\ \/ n = "app" /\ s = "running" /\ appRead' = appFile' /\ appIP' \in Addresses
     \/ ~(n = "app" /\ s = "running") /\ UNCHANGED <<appRead, appIP>>

Gone(n)   == Becomes(n, "absent", <<None, None>>)
Untouched == UNCHANGED <<status, opts, appRead, appIP>>

\* Only Traefik, on the host's network, starts without xavi-net.
Startable(n) == network \/ n = "traefik"

\* Mutants: a container with the right options is left alone though it stopped;
\* or recreated though it runs.
ReachesIgnoresState(n) ==
  \/ (~Differs(n) \/ ~Startable(n)) /\ Untouched
  \/ Differs(n) /\ Startable(n) /\ Becomes(n, "running", Wanted(n))
ReachesRecreates(n) ==
  \/ Startable(n) /\ Becomes(n, "running", Wanted(n))
  \/ ~Startable(n) /\ Untouched

\* RunContainer without a fault.  Without xavi-net an engine refuses to create
\* the container (Podman) or to start it (Docker).
Reaches(n) ==
  \/ Converged(n) /\ Untouched
  \/ ~Converged(n) /\ Startable(n) /\ Becomes(n, "running", Wanted(n))
  \/ /\ ~Converged(n) /\ ~Startable(n)
     /\ \/ ~Differs(n) /\ Untouched
        \/ Differs(n) /\ (Gone(n) \/ Becomes(n, "exited", Wanted(n)))

\* A fault stopped it: before the first effect, or with the old container
\* stopped, removed, or replaced by one that was not started.
Fails(n) ==
  \/ Untouched
  \/ /\ Differs(n)
     /\ \/ status[n] # "absent" /\ Becomes(n, "exited", opts[n])
        \/ Gone(n)
        \/ Becomes(n, "exited", Wanted(n))

\* Callers only log the error, so a lost reply is no different from success.
RunContainer(n) ==
  /\ \/ Reaches(n) /\ Quiet
     \/ Fails(n) /\ Event
  /\ UNCHANGED network

Nothing == Untouched /\ UNCHANGED <<network, files>>
Skip    == Nothing /\ Quiet
Refused == Nothing /\ Event  \* a call or a write before RunContainer failed

-----------------------------------------------------------------------------
(* The ensure functions.                                                   *)

EnsureNetwork ==
  /\ network' = TRUE
  /\ Untouched /\ UNCHANGED files /\ Quiet

ValkeyHere == Enabled("valkey") /\ ServiceImage("valkey") # None

EnsureValkey ==
  \/ ValkeyHere /\ RunContainer("valkey") /\ UNCHANGED files
  \/ ~ValkeyHere /\ Skip

PostgresHere == Enabled("postgres") /\ ServiceImage("postgres") # None /\ ~PrimaryMissing

EnsurePostgres ==
  \/ PostgresHere /\ RunContainer("postgres") /\ UNCHANGED files
  \/ ~PostgresHere /\ Skip

\* The app's container is ensured once Postgres is known and pulse.json reads.
AppHere == Enabled("app") /\ ServiceImage("app") # None /\ PgHost # None /\ pulse # None

\* mergeAppConfig.
Merged == [pulse |-> pulse, pg |-> PgHost, valkey |-> ValkeyHost]

\* config.json once the call in progress has written it.
Written == IF writing = {} THEN appFile ELSE writing

\* Mutant: a merge that fails is only logged, as ensureBackupBot does.
EnsureAppLogged ==
  \/ writing # {} /\ appFile' = writing /\ RunContainer("app") /\ UNCHANGED backend
  \/ writing # {} /\ UNCHANGED files /\ RunContainer("app")
  \/ AppHere /\ writing = {} /\ Refused
  \/ ~AppHere /\ writing = {} /\ Skip

\* ensureApp from the write on; or an error before that or in the middle, which
\* leaves a file that was opened as it is; or nothing to do.
EnsureApp ==
  \/ writing # {} /\ appFile' = writing /\ RunContainer("app") /\ UNCHANGED backend
  \/ (writing # {} \/ AppHere) /\ Refused
  \/ writing = {} /\ ~AppHere /\ Skip

\* Mutant: an app that has no address is looked for on the host.
AppHostOnHost == IF status["app"] = "running" THEN appIP ELSE "localhost"

\* ContainerIP, with the name as the fallback.
AppHost == IF status["app"] = "running" THEN appIP ELSE "xavi-app"

EnsureTraefik ==
  \/ Enabled("app") /\ backend' = AppHost /\ RunContainer("traefik") /\ UNCHANGED appFile
  \/ /\ Enabled("app")  \* ContainerIP could not inspect the app
     /\ Event
     /\ backend' = "xavi-app"
     /\ \/ Reaches("traefik")
        \/ Fails("traefik")
     /\ UNCHANGED <<network, appFile>>
  \/ Enabled("app") /\ Refused
  \/ ~Enabled("app") /\ Skip

EnsureBackupBot ==
  \/ BackupBotHere /\ RunContainer("backupbot") /\ UNCHANGED files
  \/ ~BackupBotHere /\ Skip

\* Mutant: IsRunning reports a missing container as an error.
NeedsRecoveryIfExited(n) == Enabled("app") /\ status[n] = "exited"

\* A check of runHealthChecks finds its container missing or stopped.
NeedsRecovery(n) == Enabled("app") /\ status[n] # "running"

CheckApp ==
  \/ (writing # {} \/ NeedsRecovery("app")) /\ EnsureApp
  \/ writing = {} /\ ~NeedsRecovery("app") /\ Skip
  \/ writing = {} /\ Refused

CheckTraefik ==
  \/ NeedsRecovery("traefik") /\ EnsureTraefik
  \/ ~NeedsRecovery("traefik") /\ Skip
  \/ Refused

-----------------------------------------------------------------------------
(* The loop.                                                               *)

WantsCluster(c) == c.gossip \/ c.services # {}

\* applyConfig: a cluster node that was made is never changed; one that could
\* not be made is tried again with the next configuration.
Apply(c) ==
  /\ config' = {c}
  /\ \/ node = {} /\ WantsCluster(c) /\ node' = {[services |-> c.services, role |-> c.role]}
     \/ UNCHANGED node
  /\ todo' = Infrastructure
  /\ calm' = TRUE /\ checked' = FALSE
  /\ UNCHANGED <<writing, files, engine, outside>>

Boot(c) == ~up /\ up' = TRUE /\ Apply(c) /\ UNCHANGED events

\* No file and no bundle: the agent waits for a configuration.
BootUnconfigured ==
  /\ ~up /\ up' = TRUE
  /\ UNCHANGED <<config, node, call, files, engine, outside, events, calm, checked>>

\* One case of the select, one at a time.  MaxEvents bounds reloads after the
\* first.
Reload(c) ==
  /\ up /\ todo = <<>> /\ config # {c}
  /\ Apply(c)
  /\ \/ config = {} /\ UNCHANGED events
     \/ config # {} /\ events < MaxEvents /\ events' = events + 1
  /\ UNCHANGED up

Case(steps) ==
  /\ up /\ todo = <<>> /\ config # {}
  /\ todo' = steps
  /\ UNCHANGED <<agent, writing, files, engine, outside, events, calm>>

\* A signal of a FileWatcher, rightly or wrongly.
AppConfigChanged    == Case(<<"rebuild-app">>) /\ UNCHANGED checked
BackupConfigChanged == Case(<<"rebuild-backupbot">>) /\ UNCHANGED checked
HealthTick          == Case(HealthChecks) /\ checked' = TRUE

\* The call in progress ensures the app.
ForApp == /\ todo # <<>>
          /\ \/ Head(todo) \in {"app", "rebuild-app"}
             \/ Head(todo) = "check-app" /\ NeedsRecovery("app")

\* ensureApp up to where mergeAppConfig has opened config.json, which is empty
\* then: what goes into it has been read.
OpenAppFile ==
  /\ ForApp /\ writing = {} /\ AppHere
  /\ writing' = {Merged} /\ appFile' = {Torn}
  /\ Quiet
  /\ UNCHANGED <<agent, todo, backend, engine, outside>>

\* A call that returns leaves no file open.
Step(step, Ensure) ==
  /\ todo # <<>> /\ Head(todo) = step
  /\ Ensure
  /\ todo' = Tail(todo) /\ writing' = {}
  /\ UNCHANGED <<agent, outside>>

Ensure == \/ Step("network", EnsureNetwork)
          \/ Step("valkey", EnsureValkey)
          \/ Step("postgres", EnsurePostgres)
          \/ Step("app", EnsureApp)
          \/ Step("rebuild-app", EnsureApp)
          \/ Step("check-app", CheckApp)
          \/ Step("traefik", EnsureTraefik)
          \/ Step("check-traefik", CheckTraefik)
          \/ Step("backupbot", EnsureBackupBot)
          \/ Step("rebuild-backupbot", EnsureBackupBot)

\* Without its network ensureInfrastructure ensures nothing.
NetworkFails ==
  /\ todo # <<>> /\ Head(todo) = "network"
  /\ Event
  /\ todo' = <<>>
  /\ network' \in {network, TRUE}
  /\ Untouched /\ UNCHANGED <<agent, writing, files, outside>>

\* Also how a signal ends the agent.  A file it had open stays as it is.
Crash ==
  /\ up /\ Event
  /\ up' = FALSE /\ config' = {} /\ node' = {} /\ todo' = <<>> /\ writing' = {}
  /\ UNCHANGED <<files, engine, outside>>

-----------------------------------------------------------------------------
(* Outside.                                                                *)

Exit(n) ==
  /\ Event
  /\ status[n] = "running"
  /\ Becomes(n, "exited", opts[n])
  /\ UNCHANGED <<agent, call, files, network, outside>>

Remove(n) ==
  /\ Event
  /\ status[n] # "absent"
  /\ Gone(n)
  /\ UNCHANGED <<agent, call, files, network, outside>>

\* RestartPolicyAlways: a container that exited, or that died just now.
PolicyRestart(n) ==
  /\ Event
  /\ status[n] # "absent" /\ Startable(n)
  /\ UNCHANGED files
  /\ Becomes(n, "running", opts[n])
  /\ UNCHANGED <<agent, call, network, outside>>

\* A network in use cannot be removed.
RemoveNetwork ==
  /\ Event
  /\ network /\ \A n \in Names \ {"traefik"} : status[n] # "running"
  /\ network' = FALSE
  /\ Untouched /\ UNCHANGED <<agent, call, files, outside>>

EditPulse ==
  /\ Event
  /\ pulse' \in (Pulses \cup {None}) \ {pulse}
  /\ UNCHANGED <<agent, call, files, engine, elsewhere>>

\* The other node starts or stops to offer something.
ClusterChange ==
  /\ Event
  /\ \E s \in Offers :
       elsewhere' = IF s \in elsewhere THEN elsewhere \ {s} ELSE elsewhere \cup {s}
  /\ UNCHANGED <<agent, call, files, engine, pulse>>

Outside == \/ \E n \in Names : Exit(n) \/ Remove(n) \/ PolicyRestart(n)
           \/ RemoveNetwork \/ EditPulse \/ ClusterChange

Next == \/ \E c \in Configs : Boot(c) \/ Reload(c)
        \/ BootUnconfigured
        \/ AppConfigChanged \/ BackupConfigChanged \/ HealthTick
        \/ OpenAppFile \/ Ensure \/ NetworkFails
        \/ Crash
        \/ Outside

Spec == Init /\ [][Next]_vars

\* systemd starts the agent again; a call in progress ends; the ticker of the
\* health checks holds its tick until select, which chooses at random among
\* the channels that are ready, takes it.
Fairness == /\ WF_vars(\E c \in Configs : Boot(c))
            /\ WF_vars(OpenAppFile \/ Ensure)
            /\ SF_vars(HealthTick)

FairSpec == Spec /\ Fairness

-----------------------------------------------------------------------------
(* Safety properties.                                                      *)

\* What one pass of ensureInfrastructure owes each of its calls.
Settled(step) ==
  CASE step = "network"   -> network
    [] step = "valkey"    -> ValkeyHere => Converged("valkey")
    [] step = "postgres"  -> PostgresHere => Converged("postgres")
    [] step = "app"       -> AppHere => Converged("app") /\ Written = {Merged}
    [] step = "traefik"   -> Enabled("app") => Converged("traefik") /\ backend = AppHost
    [] step = "backupbot" -> BackupBotHere => Converged("backupbot")

\* When applyConfig has run and nothing happened from outside since it began,
\* the whole node is as configured (agent.go:246-276): every service that
\* belongs here runs with its options, the app's file is up to date, and
\* Traefik routes to the address the app has now, even if the app was replaced
\* in the same pass.  Rebuilds and health checks in between keep it so.
ConvergedAfterApply ==
  calm /\ up /\ config # {} /\ todo = <<>> =>
    /\ writing = {}
    /\ \A i \in 1..6 : Settled(Infrastructure[i])

\* Whatever failed and wherever the agent died before, the agent starts the app
\* over a whole config.json in which Postgres has a host (agent.go:556-570,
\* 582, 764).  Only the engine's own restart can find it half-written, and even
\* that never finds none, for which the engine would make a directory.
AppStartsConfigured ==
  [][ /\ status'["app"] = "running"
      /\ \/ status["app"] # "running"
         \/ <<opts'["app"], appRead', appIP'>> # <<opts["app"], appRead, appIP>>
      => \E f \in appRead' : f.pg # None \/ (f = Torn /\ todo' = todo) ]_vars

\* One health check is enough (agent.go:1086-1108): once it has run and nothing
\* happened from outside since it began, both watched containers run, the app
\* unless it has to wait for Postgres, and the rebuilds that came in between
\* took neither down.
HealedByCheck ==
  checked /\ todo = <<>> =>
    /\ AppHere /\ network => status["app"] = "running"
    /\ Enabled("app") => status["traefik"] = "running"

\* After a pass that nothing disturbed a rebuild or a health check touches no
\* container, and writes config.json again with what it held, however often it
\* is triggered and whether rightly or not (agent.go:166-188): nothing flaps.
QuietOnceSettled ==
  [][ calm /\ calm' /\ (todo = <<>> \/ Head(todo) \notin {Infrastructure[i] : i \in 1..6})
        => UNCHANGED <<backend, engine, Written>> ]_vars

(* Liveness, under FairSpec.                                               *)

\* Both watched containers come back after any fault (agent.go:1086-1089), the
\* app also when it first had to wait for Postgres (agent.go:567 "Retry
\* later"), as long as it is wanted and xavi-net exists.
WatchedRecover ==
  /\ <>[](config # {} /\ AppHere /\ network) => []<>(status["app"] = "running")
  /\ <>[](config # {} /\ Enabled("app")) => []<>(status["traefik"] = "running")

-----------------------------------------------------------------------------
(* What a comment or the documentation says and the code does not do.      *)

\* agent.go:167 "App config (pulse.json) changed, rebuilding app container...":
\* after that case, without a fault and unless the engine restarted the app in
\* the middle of it, a running app has read the new file.
PulseRebuilds ==
  [][ todo = <<"rebuild-app">> /\ todo' = <<>> /\ events' = events /\ AppHere /\ appRead # {Torn}
      /\ status'["app"] = "running" => appRead' = appFile' ]_vars

\* agent.go:783 "resolve the app container's IP on xavi-net directly": while
\* app and Traefik stay up, the address Traefik routes to becomes the app's.
TraefikFindsApp ==
  <>[](config # {} /\ Enabled("app") /\ status["app"] = "running" /\ status["traefik"] = "running")
    => <>(backend = appIP)

\* agent.go:481 "Waiting for Primary Postgres to appear in cluster...": a
\* secondary that came to this point starts once the primary stays in sight.
SecondaryStarts ==
  <>(todo # <<>> /\ Head(todo) = "postgres" /\ network /\ PrimaryMissing) =>
    (<>[](config # {} /\ PostgresHere /\ network) => <>(status["postgres"] = "running"))
==============================================================================
