----------------------------- MODULE Agent_proofs -----------------------------
(***************************************************************************)
(* What Agent promises for every set of configurations, whatever the mesh  *)
(* offers and however many faults occur.  The inductive invariant follows  *)
(* one pass of applyConfig: the calls that are no longer in todo have left *)
(* their service settled, and no later call of a calm pass disturbs it.    *)
(***************************************************************************)
EXTENDS Agent, Outcome, SequenceTheorems, TLAPS

Passes == { <<"network", "valkey", "postgres", "app", "traefik", "backupbot">>,
            <<"valkey", "postgres", "app", "traefik", "backupbot">>,
            <<"postgres", "app", "traefik", "backupbot">>,
            <<"app", "traefik", "backupbot">>,
            <<"traefik", "backupbot">>,
            <<"backupbot">>,
            <<>>,
            <<"check-app", "check-traefik">>,
            <<"check-traefik">>,
            <<"rebuild-app">>,
            <<"rebuild-backupbot">> }

Phases == {"network", "valkey", "postgres", "app", "traefik", "backupbot"}

\* A call is still to come.
Pending(step) == \E i \in 1..Len(todo) : todo[i] = step

\* The loop does nothing without a process and a configuration.
Shape ==
  /\ todo \in Passes
  /\ config = {} => todo = <<>>
  /\ ~up => config = {}

\* What is behind the loop stays settled until something happens from outside.
Progress ==
  calm /\ config # {} => \A step \in Phases : ~Pending(step) => Settled(step)

\* The merged file names a host unless it is half-written, and is there before
\* its container.
FileFirst ==
  /\ \A f \in appFile : f.pg # None \/ f = Torn
  /\ status["app"] # "absent" => appFile # {}

\* The app's file is open only in a call that ensures the app, and what goes
\* into it names a host, and is up to date as long as nothing happens.
Halfway ==
  writing # {} =>
    /\ todo # <<>> /\ Head(todo) \in {"app", "rebuild-app", "check-app"}
    /\ \A f \in writing : f.pg # None
    /\ calm => AppHere /\ writing = {Merged}

IInv == TypeOK /\ Shape /\ Progress /\ FileFirst /\ Halfway

-----------------------------------------------------------------------------
(* Sequences of calls.                                                     *)

(* What the first call leaves to come.                                     *)
LEMMA PendingTail ==
  ASSUME todo \in Passes, todo # <<>>, todo' = Tail(todo)
  PROVE  /\ todo' \in Passes
         /\ \A step \in Phases : Pending(step)' <=> Pending(step) /\ step # Head(todo)
         /\ Head(todo) \in Steps
<1>1. CASE todo = <<"network", "valkey", "postgres", "app", "traefik", "backupbot">>
  <2>1. todo' = <<"valkey", "postgres", "app", "traefik", "backupbot">>
    BY <1>1
  <2>2. QED
    BY <1>1, <2>1 DEF Pending, Phases, Passes, Steps
<1>2. CASE todo = <<"valkey", "postgres", "app", "traefik", "backupbot">>
  <2>1. todo' = <<"postgres", "app", "traefik", "backupbot">>
    BY <1>2
  <2>2. QED
    BY <1>2, <2>1 DEF Pending, Phases, Passes, Steps
<1>3. CASE todo = <<"postgres", "app", "traefik", "backupbot">>
  <2>1. todo' = <<"app", "traefik", "backupbot">>
    BY <1>3
  <2>2. QED
    BY <1>3, <2>1 DEF Pending, Phases, Passes, Steps
<1>4. CASE todo = <<"app", "traefik", "backupbot">>
  <2>1. todo' = <<"traefik", "backupbot">>
    BY <1>4
  <2>2. QED
    BY <1>4, <2>1 DEF Pending, Phases, Passes, Steps
<1>5. CASE todo = <<"traefik", "backupbot">>
  <2>1. todo' = <<"backupbot">>
    BY <1>5
  <2>2. QED
    BY <1>5, <2>1 DEF Pending, Phases, Passes, Steps
<1>6. CASE todo = <<"check-app", "check-traefik">>
  <2>1. todo' = <<"check-traefik">>
    BY <1>6
  <2>2. QED
    BY <1>6, <2>1 DEF Pending, Phases, Passes, Steps
<1>7. CASE todo = <<"backupbot">>
  <2>1. todo' = <<>>
    BY <1>7
  <2>2. QED
    BY <1>7, <2>1 DEF Pending, Phases, Passes, Steps
<1>8. CASE todo = <<"check-traefik">>
  <2>1. todo' = <<>>
    BY <1>8
  <2>2. QED
    BY <1>8, <2>1 DEF Pending, Phases, Passes, Steps
<1>9. CASE todo = <<"rebuild-app">>
  <2>1. todo' = <<>>
    BY <1>9
  <2>2. QED
    BY <1>9, <2>1 DEF Pending, Phases, Passes, Steps
<1>10. CASE todo = <<"rebuild-backupbot">>
  <2>1. todo' = <<>>
    BY <1>10
  <2>2. QED
    BY <1>10, <2>1 DEF Pending, Phases, Passes, Steps
<1>11. QED
  BY <1>1, <1>2, <1>3, <1>4, <1>5, <1>6, <1>7, <1>8, <1>9, <1>10, Zenon DEF Passes

(* The calls of a pass come in the order ensureInfrastructure has.         *)
LEMMA Order ==
  ASSUME todo \in Passes, todo # <<>>
  PROVE  /\ Head(todo) = "network" => \A step \in Phases : Pending(step)
         /\ Head(todo) \in Phases \ {"network"} => ~Pending("network")
         /\ Head(todo) = "app" => Pending("traefik")
         /\ Head(todo) \notin Phases => \A step \in Phases : ~Pending(step)
<1>1. CASE todo = <<"network", "valkey", "postgres", "app", "traefik", "backupbot">>
  BY <1>1 DEF Pending, Phases
<1>2. CASE todo = <<"valkey", "postgres", "app", "traefik", "backupbot">>
  BY <1>2 DEF Pending, Phases
<1>3. CASE todo = <<"postgres", "app", "traefik", "backupbot">>
  BY <1>3 DEF Pending, Phases
<1>4. CASE todo = <<"app", "traefik", "backupbot">>
  BY <1>4 DEF Pending, Phases
<1>5. CASE todo = <<"traefik", "backupbot">>
  BY <1>5 DEF Pending, Phases
<1>6. CASE todo = <<"check-app", "check-traefik">>
  BY <1>6 DEF Pending, Phases
<1>7. CASE todo = <<"backupbot">>
  BY <1>7 DEF Pending, Phases
<1>8. CASE todo = <<"check-traefik">>
  BY <1>8 DEF Pending, Phases
<1>9. CASE todo = <<"rebuild-app">>
  BY <1>9 DEF Pending, Phases
<1>10. CASE todo = <<"rebuild-backupbot">>
  BY <1>10 DEF Pending, Phases
<1>11. QED
  BY <1>1, <1>2, <1>3, <1>4, <1>5, <1>6, <1>7, <1>8, <1>9, <1>10, Zenon DEF Passes

-----------------------------------------------------------------------------
(* What the configuration asks for.                                        *)

(* The derived settings have their types.                                  *)
LEMMA ConfigTypes ==
  ASSUME TypeOK, config # {}
  PROVE  /\ Config \in Configs
         /\ \A n \in Names : Wanted(n) \in (Images \cup {"default", None}) \X {"plain", "replica"}
         /\ PgHost \in Hosts /\ ValkeyHost \in Hosts
         /\ AppHere => Merged \in AppFile
<1>1. Config \in Configs
  BY DEF TypeOK, Config
<1>2. Config.image \in [Names -> Images \cup {None}]
  BY <1>1, AgentAssumption
<1>3. \A n \in Names : ServiceImage(n) \in Images \cup {"default", None}
  BY <1>2 DEF ServiceImage
<1>4. \A n \in Names : Wanted(n) \in (Images \cup {"default", None}) \X {"plain", "replica"}
  BY <1>3 DEF Wanted
<1>5. \A s : FindServiceAddr(s) \in Hosts
  BY DEF FindServiceAddr, Hosts
<1>6. PgHost \in Hosts /\ ValkeyHost \in Hosts
  BY <1>5 DEF PgHost, ValkeyHost, Hosts
<1>7. AppHere => Merged \in AppFile
  BY <1>6 DEF AppHere, Merged, AppFile, TypeOK
<1>8. QED
  BY <1>1, <1>4, <1>6, <1>7

(* They depend on the configuration, the mesh and pulse.json alone.        *)
LEMMA SameSettings ==
  ASSUME config' = config, node' = node, elsewhere' = elsewhere, pulse' = pulse
  PROVE  /\ \A s : Enabled(s)' <=> Enabled(s)
         /\ \A n : Wanted(n)' = Wanted(n)
         /\ ValkeyHere' <=> ValkeyHere
         /\ PostgresHere' <=> PostgresHere
         /\ AppHere' <=> AppHere
         /\ BackupBotHere' <=> BackupBotHere
         /\ Merged' = Merged
<1>1. Config' = Config /\ Node' = Node
  BY DEF Config, Node
<1>2. \A s : Enabled(s)' <=> Enabled(s)
  BY <1>1 DEF Enabled
<1>3. \A n : ServiceImage(n)' = ServiceImage(n)
  BY <1>1 DEF ServiceImage
<1>4. \A n : Wanted(n)' = Wanted(n)
  BY <1>1, <1>3 DEF Wanted
<1>5. \A s : FindServiceAddr(s)' = FindServiceAddr(s)
  BY <1>1 DEF FindServiceAddr
<1>6. PgHost' = PgHost /\ ValkeyHost' = ValkeyHost
  BY <1>2, <1>5 DEF PgHost, ValkeyHost
<1>7. PrimaryMissing' <=> PrimaryMissing
  BY <1>1 DEF PrimaryMissing, IsSecondary, FindPrimary
<1>8. (ValkeyHere' <=> ValkeyHere) /\ (PostgresHere' <=> PostgresHere)
  BY <1>2, <1>3, <1>7 DEF ValkeyHere, PostgresHere
<1>9. (AppHere' <=> AppHere) /\ Merged' = Merged
  BY <1>2, <1>3, <1>6 DEF AppHere, Merged
<1>10. BackupBotHere' <=> BackupBotHere
  BY <1>1, <1>2 DEF BackupBotHere, IsSecondary
<1>11. QED
  BY <1>2, <1>4, <1>8, <1>9, <1>10

-----------------------------------------------------------------------------
(* Containers.                                                             *)

Statuses == {"absent", "exited", "running"}
OptSet   == (Images \cup {"default", None}) \X {"plain", "replica", None}

EngineOK == /\ status \in [Names -> Statuses]
            /\ opts \in [Names -> OptSet]
            /\ appRead \in SUBSET AppFile
            /\ appIP \in Addresses

\* No container but n is touched, and an app that runs has read its file.
Touches(n) ==
  /\ EngineOK'
  /\ \A m \in Names \ {n} : status'[m] = status[m] /\ opts'[m] = opts[m]
  /\ n # "app" => appRead' = appRead /\ appIP' = appIP
  /\ status'["app"] = "running" =>
       \/ n = "app" /\ appRead' = appFile'
       \/ status["app"] = "running" /\ appRead' = appRead

(* One container changes its state.                                        *)
LEMMA BecomesTouches ==
  ASSUME TypeOK, NEW n \in Names, NEW s \in Statuses, NEW o \in OptSet,
         appFile' \in SUBSET AppFile, Becomes(n, s, o)
  PROVE  Touches(n) /\ status'[n] = s /\ opts'[n] = o
<1>1. status \in [Names -> Statuses] /\ opts \in [Names -> OptSet]
  BY DEF TypeOK, Statuses, OptSet
<1>2. status' = [status EXCEPT ![n] = s] /\ opts' = [opts EXCEPT ![n] = o]
  BY DEF Becomes
<1>3. /\ status' \in [Names -> Statuses] /\ opts' \in [Names -> OptSet]
      /\ \A m \in Names \ {n} : status'[m] = status[m] /\ opts'[m] = opts[m]
      /\ status'[n] = s /\ opts'[n] = o
  BY <1>1, <1>2
<1>4. appRead' \in SUBSET AppFile /\ appIP' \in Addresses
  BY DEF Becomes, TypeOK
<1>5. n # "app" => appRead' = appRead /\ appIP' = appIP
  BY DEF Becomes
<1>6. "app" \in Names
  BY DEF Names, Services
<1>7. status'["app"] = "running" =>
        \/ n = "app" /\ appRead' = appFile'
        \/ status["app"] = "running" /\ appRead' = appRead
  BY <1>3, <1>5, <1>6 DEF Becomes
<1>8. QED
  BY <1>3, <1>4, <1>5, <1>7 DEF Touches, EngineOK

(* Nothing changes its state.                                              *)
LEMMA UntouchedTouches ==
  ASSUME TypeOK, NEW n \in Names, Untouched
  PROVE  Touches(n)
BY DEF TypeOK, Untouched, Touches, EngineOK, Statuses, OptSet

(* A call of RunContainer touches its container only.                      *)
LEMMA RunTouches ==
  ASSUME TypeOK, config # {}, NEW n \in Names, appFile' \in SUBSET AppFile,
         Reaches(n) \/ Fails(n)
  PROVE  Touches(n)
<1>1. Wanted(n) \in OptSet /\ opts[n] \in OptSet /\ <<None, None>> \in OptSet
  <2>1. Wanted(n) \in (Images \cup {"default", None}) \X {"plain", "replica"}
    BY ConfigTypes
  <2>2. QED
    BY <2>1 DEF TypeOK, OptSet
<1>2. CASE Untouched
  BY <1>2, UntouchedTouches
<1>3. CASE Becomes(n, "running", Wanted(n))
  BY <1>1, <1>3, BecomesTouches DEF Statuses
<1>4. CASE Becomes(n, "exited", Wanted(n))
  BY <1>1, <1>4, BecomesTouches DEF Statuses
<1>5. CASE Becomes(n, "exited", opts[n])
  BY <1>1, <1>5, BecomesTouches DEF Statuses
<1>6. CASE Gone(n)
  BY <1>1, <1>6, BecomesTouches DEF Statuses, Gone
<1>7. QED
  BY <1>2, <1>3, <1>4, <1>5, <1>6 DEF Reaches, Fails

(* Without a fault it leaves a container that can start as it should be.   *)
LEMMA RunConverges ==
  ASSUME TypeOK, config # {}, NEW n \in Names, appFile' \in SUBSET AppFile,
         Reaches(n), Startable(n), Wanted(n)' = Wanted(n)
  PROVE  Converged(n)'
<1>1. CASE Converged(n) /\ Untouched
  BY <1>1 DEF Converged, Differs, Untouched
<1>2. CASE Becomes(n, "running", Wanted(n))
  <2>1. Wanted(n) \in OptSet
    <3>1. Wanted(n) \in (Images \cup {"default", None}) \X {"plain", "replica"}
      BY ConfigTypes
    <3>2. QED
      BY <3>1 DEF OptSet
  <2>2. status'[n] = "running" /\ opts'[n] = Wanted(n)
    BY <1>2, <2>1, BecomesTouches DEF Statuses
  <2>3. QED
    BY <2>2 DEF Converged, Differs
<1>3. QED
  BY <1>1, <1>2 DEF Reaches

-----------------------------------------------------------------------------
(* The part of the invariant that holds through faults, step by step.      *)

Safe == TypeOK /\ FileFirst /\ Halfway

(* A container's file stays in its place.                                  *)
LEMMA TouchesSafe ==
  ASSUME Safe, NEW n \in Names, Touches(n),
         \A f \in appFile' : f.pg # None \/ f = Torn,
         n = "app" \/ appFile # {} => appFile' # {}
  PROVE  EngineOK' /\ FileFirst'
<1>1. "app" \in Names
  BY DEF Names, Services
<1>2. status'["app"] # "absent" => appFile' # {}
  BY <1>1 DEF Safe, Touches, FileFirst
<1>3. QED
  BY <1>2 DEF FileFirst, Touches

\* What is counted and remembered of the outside.
Tally == /\ events' \in 0..MaxEvents
         /\ calm' \in BOOLEAN /\ (calm' => calm /\ Quiet)
         /\ checked' \in BOOLEAN /\ (checked' => checked /\ Quiet)

\* What every call of the loop keeps.
Result ==
  /\ EngineOK' /\ FileFirst'
  /\ appFile' \in SUBSET AppFile
  /\ backend' \in Addresses \cup {None, "xavi-app"}
  /\ network' \in BOOLEAN
  /\ Tally

(* Counting what happens from outside.                                     *)
LEMMA Counted ==
  ASSUME TypeOK, Quiet \/ Event
  PROVE  Tally
<1>1. events \in 0..MaxEvents /\ calm \in BOOLEAN /\ checked \in BOOLEAN
  BY DEF TypeOK
<1>2. MaxEvents \in Nat
  BY AgentAssumption
<1>3. CASE Quiet
  BY <1>1, <1>3 DEF Quiet, Tally
<1>4. CASE Event
  <2>1. events' \in 0..MaxEvents
    BY <1>1, <1>2, <1>4 DEF Event
  <2>2. calm' = FALSE /\ checked' = FALSE
    BY <1>4 DEF Event
  <2>3. QED
    BY <2>1, <2>2 DEF Tally
<1>5. QED
  BY <1>3, <1>4

(* Nothing is done, for one reason or another.                             *)
LEMMA NothingResult ==
  ASSUME Safe, Skip \/ Refused
  PROVE  Result
<1>1. Tally
  BY Counted DEF Safe, Skip, Refused
<1>2. Untouched /\ network' = network /\ appFile' = appFile /\ backend' = backend
  BY DEF Skip, Refused, Nothing, files
<1>3. EngineOK' /\ FileFirst'
  BY <1>2 DEF Safe, TypeOK, FileFirst, EngineOK, Untouched, Statuses, OptSet
<1>4. QED
  BY <1>1, <1>2, <1>3 DEF Result, Safe, TypeOK

(* A container that mounts no file of the agent's is ensured.              *)
LEMMA RunResult ==
  ASSUME Safe, config # {}, NEW n \in Names \ {"app"}, RunContainer(n), appFile' = appFile,
         backend' \in Addresses \cup {None, "xavi-app"}
  PROVE  Result
<1>1. Touches(n)
  BY RunTouches DEF RunContainer, Safe, TypeOK
<1>2. EngineOK' /\ FileFirst'
  BY <1>1, TouchesSafe DEF Safe, FileFirst
<1>3. Tally
  BY Counted DEF Safe, RunContainer
<1>4. QED
  BY <1>2, <1>3 DEF Result, RunContainer, Safe, TypeOK

(* The calls that ensure a service.                                        *)
LEMMA EnsureResult ==
  ASSUME Safe, config # {},
         \/ EnsureNetwork \/ EnsureValkey \/ EnsurePostgres \/ EnsureApp
         \/ EnsureTraefik \/ EnsureBackupBot \/ CheckApp \/ CheckTraefik
  PROVE  Result
<1> {"valkey", "postgres", "traefik", "backupbot"} \subseteq Names \ {"app"}
  BY DEF Names, Services
<1>1. CASE EnsureNetwork
  <2>1. Untouched /\ appFile' = appFile /\ backend' = backend /\ network' = TRUE /\ Quiet
    BY <1>1 DEF EnsureNetwork, files
  <2>2. Tally
    BY <2>1, Counted DEF Safe
  <2>3. EngineOK' /\ FileFirst'
    BY <2>1 DEF Safe, TypeOK, FileFirst, EngineOK, Untouched, Statuses, OptSet
  <2>4. QED
    BY <2>1, <2>2, <2>3 DEF Result, Safe, TypeOK
<1>2. CASE EnsureValkey
  BY <1>2, RunResult, NothingResult DEF EnsureValkey, files, Safe, TypeOK
<1>3. CASE EnsurePostgres
  BY <1>3, RunResult, NothingResult DEF EnsurePostgres, files, Safe, TypeOK
<1>4. CASE EnsureBackupBot
  BY <1>4, RunResult, NothingResult DEF EnsureBackupBot, files, Safe, TypeOK
<1>5. EnsureApp => Result
  <2> SUFFICES ASSUME writing # {}, appFile' = writing, RunContainer("app"), UNCHANGED backend
               PROVE  Result
    BY NothingResult DEF EnsureApp
  <2>1. writing \in SUBSET AppFile /\ \A f \in writing : f.pg # None
    BY DEF Safe, TypeOK, Halfway
  <2>2. Touches("app")
    BY <2>1, RunTouches DEF RunContainer, Safe, Names, Services
  <2>3. EngineOK' /\ FileFirst'
    BY <2>1, <2>2, TouchesSafe DEF Names, Services
  <2>4. Tally
    BY Counted DEF Safe, RunContainer
  <2>5. QED
    BY <2>1, <2>3, <2>4 DEF Result, RunContainer, Safe, TypeOK
<1>6. EnsureTraefik => Result
  <2>1. AppHost \in Addresses \cup {None, "xavi-app"}
    BY DEF AppHost, Safe, TypeOK
  <2>2. ASSUME backend' = AppHost, RunContainer("traefik"), UNCHANGED appFile
        PROVE  Result
    BY <2>1, <2>2, RunResult
  <2>3. ASSUME Event, backend' = "xavi-app", Reaches("traefik") \/ Fails("traefik"),
               UNCHANGED <<network, appFile>>
        PROVE  Result
    <3>1. Touches("traefik")
      BY <2>3, RunTouches DEF Safe, TypeOK
    <3>2. EngineOK' /\ FileFirst'
      BY <2>3, <3>1, TouchesSafe DEF Safe, FileFirst
    <3>3. Tally
      BY <2>3, Counted DEF Safe
    <3>4. QED
      BY <2>3, <3>2, <3>3 DEF Result, Safe, TypeOK
  <2>4. QED
    BY <2>2, <2>3, NothingResult DEF EnsureTraefik
<1>7. CheckApp \/ CheckTraefik => Result
  BY <1>5, <1>6, NothingResult DEF CheckApp, CheckTraefik
<1>8. QED
  BY <1>1, <1>2, <1>3, <1>4, <1>5, <1>6, <1>7

-----------------------------------------------------------------------------
(* A calm pass.                                                            *)

(* What is settled stays so while its own state and settings stay.         *)
LEMMA Kept ==
  ASSUME config' = config, node' = node, elsewhere' = elsewhere, pulse' = pulse,
         NEW step \in Phases, Settled(step), network' = network,
         step \in Names => status'[step] = status[step] /\ opts'[step] = opts[step],
         step = "app" => Written' = Written,
         step = "traefik" => /\ backend' = backend /\ appIP' = appIP
                             /\ status'["app"] = status["app"]
  PROVE  Settled(step)'
<1>1. /\ Enabled("app")' <=> Enabled("app")
      /\ Wanted(step)' = Wanted(step)
      /\ ValkeyHere' <=> ValkeyHere
      /\ PostgresHere' <=> PostgresHere
      /\ AppHere' <=> AppHere
      /\ BackupBotHere' <=> BackupBotHere
      /\ Merged' = Merged
  BY SameSettings
<1>2. step \in Names => (Converged(step)' <=> Converged(step))
  BY <1>1 DEF Converged, Differs
<1>3. CASE step = "network"
  BY <1>3 DEF Settled
<1>4. CASE step = "valkey"
  BY <1>1, <1>2, <1>4 DEF Settled, Names, Services
<1>5. CASE step = "postgres"
  BY <1>1, <1>2, <1>5 DEF Settled, Names, Services
<1>6. CASE step = "app"
  BY <1>1, <1>2, <1>6 DEF Settled, Names, Services
<1>7. CASE step = "traefik"
  <2>1. AppHost' = AppHost
    BY <1>7 DEF AppHost
  <2>2. QED
    BY <1>1, <1>2, <1>7, <2>1 DEF Settled, Names, Services
<1>8. CASE step = "backupbot"
  BY <1>1, <1>2, <1>8 DEF Settled, Names, Services
<1>9. QED
  BY <1>3, <1>4, <1>5, <1>6, <1>7, <1>8 DEF Phases

\* The next call of the loop, and what it leaves alone.
Turn(step) == /\ todo # <<>> /\ Head(todo) = step /\ todo' = Tail(todo) /\ writing' = {}
              /\ UNCHANGED <<agent, outside>>

(* A call that settles its own service and keeps the others makes progress. *)
LEMMA Advance ==
  ASSUME IInv, config # {}, calm, NEW step, Turn(step),
         step \in Phases => Settled(step)',
         \A p \in Phases \ {step} : ~Pending(p) /\ Settled(p) => Settled(p)'
  PROVE  Progress'
<1> SUFFICES ASSUME NEW p \in Phases, ~Pending(p)'
             PROVE  Settled(p)'
  BY DEF Progress
<1>1. CASE p = step
  BY <1>1
<1>2. CASE p # step
  <2>1. ~Pending(p)
    BY <1>2, PendingTail DEF Turn, IInv, Shape
  <2>2. Settled(p)
    BY <2>1 DEF IInv, Progress
  <2>3. QED
    BY <1>2, <2>1, <2>2
<1>3. QED
  BY <1>1, <1>2

(* A call for n keeps every other service settled.                         *)
LEMMA KeepsOthers ==
  ASSUME NEW n \in Names \ {"app"}, NEW step, Turn(step), writing = {}, Touches(n),
         UNCHANGED <<network, appFile>>, n = "traefik" \/ backend' = backend, NEW p \in Phases \ {n}, Settled(p)
  PROVE  Settled(p)'
<1>1. config' = config /\ node' = node /\ elsewhere' = elsewhere /\ pulse' = pulse
  BY DEF Turn, agent, outside
<1>2. p \in Names => status'[p] = status[p] /\ opts'[p] = opts[p]
  BY DEF Touches
<1>3. status'["app"] = status["app"] /\ appIP' = appIP
  BY DEF Touches, Names, Services
<1>4. Written' = Written
  BY DEF Written, Turn
<1>5. QED
  BY <1>1, <1>2, <1>3, <1>4, Kept

(* So does a call that only writes the app's file once more.               *)
LEMMA UntouchedKeeps ==
  ASSUME NEW step, Turn(step), Untouched, UNCHANGED <<network, backend, Written>>,
         NEW p \in Phases, Settled(p)
  PROVE  Settled(p)'
<1>1. config' = config /\ node' = node /\ elsewhere' = elsewhere /\ pulse' = pulse
  BY DEF Turn, agent, outside
<1>2. /\ status' = status /\ opts' = opts /\ appIP' = appIP
      /\ network' = network /\ Written' = Written /\ backend' = backend
  BY DEF Untouched
<1>3. QED
  BY <1>1, <1>2, Kept

(* Nothing done keeps every service settled.                               *)
LEMMA SkipKeeps ==
  ASSUME NEW step, Turn(step), writing = {}, Nothing, NEW p \in Phases, Settled(p)
  PROVE  Settled(p)'
<1>1. Untouched /\ UNCHANGED <<network, backend, appFile>>
  BY DEF Nothing, files
<1>2. Written' = Written
  BY <1>1 DEF Written, Turn
<1>3. QED
  BY <1>1, <1>2, UntouchedKeeps

(* Only a call that ensures the app has its file open.                     *)
LEMMA NothingOpen ==
  ASSUME Halfway, NEW step, Turn(step), step \notin {"app", "rebuild-app", "check-app"}
  PROVE  writing = {}
BY DEF Halfway, Turn

(* The settings a call finds are those it leaves.                          *)
LEMMA TurnSettings ==
  ASSUME NEW step, Turn(step)
  PROVE  /\ \A s : Enabled(s)' <=> Enabled(s)
         /\ \A n : Wanted(n)' = Wanted(n)
         /\ ValkeyHere' <=> ValkeyHere
         /\ PostgresHere' <=> PostgresHere
         /\ AppHere' <=> AppHere
         /\ BackupBotHere' <=> BackupBotHere
         /\ Merged' = Merged
<1>1. config' = config /\ node' = node /\ elsewhere' = elsewhere /\ pulse' = pulse
  BY DEF Turn, agent, outside
<1>2. QED
  BY <1>1, SameSettings

(* A call of RunContainer without a fault, once xavi-net is there.         *)
LEMMA CalmRun ==
  ASSUME IInv, config # {}, calm' \/ checked', NEW n \in Names, NEW step, Turn(step),
         appFile' \in SUBSET AppFile, RunContainer(n), Startable(n)
  PROVE  Touches(n) /\ Converged(n)' /\ UNCHANGED network
<1>1. Reaches(n) /\ UNCHANGED network
  BY DEF RunContainer, Event
<1>2. Wanted(n)' = Wanted(n)
  BY TurnSettings
<1>3. QED
  BY <1>1, <1>2, RunTouches, RunConverges DEF IInv

(* EnsureValkey settles its service in a calm pass.                       *)
LEMMA CalmEnsureValkey ==
  ASSUME IInv, config # {}, calm, calm', NEW step, Turn(step), EnsureValkey,
         step = "valkey", network
  PROVE  Progress'
<1>1. writing = {}
  BY NothingOpen DEF IInv
<1>2. /\ ValkeyHere' <=> ValkeyHere
      /\ Wanted("valkey")' = Wanted("valkey")
  BY TurnSettings
<1>3. CASE ValkeyHere /\ RunContainer("valkey") /\ UNCHANGED files
  <2>1. appFile' = appFile /\ backend' = backend
    BY <1>3 DEF files
  <2>2. "valkey" \in Names \ {"app"} /\ Startable("valkey")
    BY DEF Names, Services, Startable
  <2>3. Touches("valkey") /\ Converged("valkey")' /\ UNCHANGED network
    BY <1>3, <2>1, <2>2, CalmRun DEF IInv, TypeOK
  <2>4. Settled("valkey")'
    BY <2>3 DEF Settled
  <2>5. \A p \in Phases \ {"valkey"} : Settled(p) => Settled(p)'
    BY <1>1, <2>1, <2>2, <2>3, KeepsOthers
  <2>6. QED
    BY <2>4, <2>5, Advance DEF Phases
<1>4. CASE ~ValkeyHere /\ Skip
  <2>1. Settled("valkey")'
    BY <1>2, <1>4 DEF Settled
  <2>2. \A p \in Phases : Settled(p) => Settled(p)'
    BY <1>4, <1>1, SkipKeeps DEF Skip
  <2>3. QED
    BY <2>1, <2>2, Advance DEF Phases
<1>5. QED
  BY <1>3, <1>4 DEF EnsureValkey

(* EnsurePostgres settles its service in a calm pass.                     *)
LEMMA CalmEnsurePostgres ==
  ASSUME IInv, config # {}, calm, calm', NEW step, Turn(step), EnsurePostgres,
         step = "postgres", network
  PROVE  Progress'
<1>1. writing = {}
  BY NothingOpen DEF IInv
<1>2. /\ PostgresHere' <=> PostgresHere
      /\ Wanted("postgres")' = Wanted("postgres")
  BY TurnSettings
<1>3. CASE PostgresHere /\ RunContainer("postgres") /\ UNCHANGED files
  <2>1. appFile' = appFile /\ backend' = backend
    BY <1>3 DEF files
  <2>2. "postgres" \in Names \ {"app"} /\ Startable("postgres")
    BY DEF Names, Services, Startable
  <2>3. Touches("postgres") /\ Converged("postgres")' /\ UNCHANGED network
    BY <1>3, <2>1, <2>2, CalmRun DEF IInv, TypeOK
  <2>4. Settled("postgres")'
    BY <2>3 DEF Settled
  <2>5. \A p \in Phases \ {"postgres"} : Settled(p) => Settled(p)'
    BY <1>1, <2>1, <2>2, <2>3, KeepsOthers
  <2>6. QED
    BY <2>4, <2>5, Advance DEF Phases
<1>4. CASE ~PostgresHere /\ Skip
  <2>1. Settled("postgres")'
    BY <1>2, <1>4 DEF Settled
  <2>2. \A p \in Phases : Settled(p) => Settled(p)'
    BY <1>4, <1>1, SkipKeeps DEF Skip
  <2>3. QED
    BY <2>1, <2>2, Advance DEF Phases
<1>5. QED
  BY <1>3, <1>4 DEF EnsurePostgres

(* EnsureBackupBot settles its service in a calm pass.                    *)
LEMMA CalmEnsureBackupBot ==
  ASSUME IInv, config # {}, calm, calm', NEW step, Turn(step), EnsureBackupBot,
         step \in {"backupbot", "rebuild-backupbot"}, network
  PROVE  Progress'
<1>1. writing = {}
  BY NothingOpen DEF IInv
<1>2. /\ BackupBotHere' <=> BackupBotHere
      /\ Wanted("backupbot")' = Wanted("backupbot")
  BY TurnSettings
<1>3. CASE BackupBotHere /\ RunContainer("backupbot") /\ UNCHANGED files
  <2>1. appFile' = appFile /\ backend' = backend
    BY <1>3 DEF files
  <2>2. "backupbot" \in Names \ {"app"} /\ Startable("backupbot")
    BY DEF Names, Services, Startable
  <2>3. Touches("backupbot") /\ Converged("backupbot")' /\ UNCHANGED network
    BY <1>3, <2>1, <2>2, CalmRun DEF IInv, TypeOK
  <2>4. Settled("backupbot")'
    BY <2>3 DEF Settled
  <2>5. \A p \in Phases \ {"backupbot"} : Settled(p) => Settled(p)'
    BY <1>1, <2>1, <2>2, <2>3, KeepsOthers
  <2>6. QED
    BY <2>4, <2>5, Advance DEF Phases
<1>4. CASE ~BackupBotHere /\ Skip
  <2>1. Settled("backupbot")'
    BY <1>2, <1>4 DEF Settled
  <2>2. \A p \in Phases : Settled(p) => Settled(p)'
    BY <1>4, <1>1, SkipKeeps DEF Skip
  <2>3. QED
    BY <2>1, <2>2, Advance DEF Phases
<1>5. QED
  BY <1>3, <1>4 DEF EnsureBackupBot

(* EnsureApp settles the app, or finds it settled and leaves it alone.     *)
LEMMA CalmEnsureApp ==
  ASSUME IInv, config # {}, calm, calm', NEW step, Turn(step), EnsureApp, network,
         \/ step = "app" /\ Pending("traefik")
         \/ step \in {"rebuild-app", "check-app"} /\ Settled("app")
  PROVE  Progress'
<1>1. (AppHere' <=> AppHere) /\ Merged' = Merged /\ Wanted("app")' = Wanted("app")
  BY TurnSettings
<1>2. CASE writing = {} /\ ~AppHere /\ Skip
  <2>1. Settled("app")'
    BY <1>1, <1>2 DEF Settled
  <2>2. \A p \in Phases : Settled(p) => Settled(p)'
    BY <1>2, SkipKeeps DEF Skip
  <2>3. QED
    BY <2>1, <2>2, Advance DEF Phases
<1>3. CASE writing # {} /\ appFile' = writing /\ RunContainer("app") /\ UNCHANGED backend
  <2>1. AppHere /\ writing = {Merged}
    BY <1>3 DEF IInv, Halfway
  <2>2. Written = writing /\ Written' = writing
    BY <1>3 DEF Written, Turn
  <2>3. appFile' \in SUBSET AppFile
    BY <1>3 DEF IInv, TypeOK
  <2>4. "app" \in Names /\ Startable("app")
    BY DEF Names, Services, Startable
  <2>5. Touches("app") /\ Converged("app")' /\ UNCHANGED network
    BY <1>3, <2>3, <2>4, CalmRun
  <2>6. Settled("app")'
    BY <1>1, <2>5, <2>1, <2>2 DEF Settled
  <2>7. config' = config /\ node' = node /\ elsewhere' = elsewhere /\ pulse' = pulse
    BY DEF Turn, agent, outside
  <2>8. \A p \in Phases \ {"app", "traefik"} : Settled(p) => Settled(p)'
    <3> SUFFICES ASSUME NEW p \in Phases \ {"app", "traefik"}, Settled(p)
                 PROVE  Settled(p)'
      OBVIOUS
    <3>1. p \in Names => status'[p] = status[p] /\ opts'[p] = opts[p]
      BY <2>5 DEF Touches
    <3>2. QED
      BY <2>5, <2>7, <3>1, Kept
  <2>9. CASE step = "app" /\ Pending("traefik")
    BY <2>6, <2>8, <2>9, Advance DEF Phases
  <2>10. CASE step \in {"rebuild-app", "check-app"} /\ Settled("app")
    <3>1. Converged("app")
      BY <2>10, <2>1 DEF Settled
    <3>2. Untouched
      BY <1>3, <3>1 DEF RunContainer, Reaches, Event
    <3>3. UNCHANGED <<network, backend, Written>>
      BY <1>3, <2>5, <2>2
    <3>4. \A p \in Phases : Settled(p) => Settled(p)'
      BY <3>2, <3>3, UntouchedKeeps
    <3>5. QED
      BY <2>10, <3>4, Advance DEF Phases
  <2>11. QED
    BY <2>9, <2>10
<1>4. QED
  BY <1>2, <1>3 DEF EnsureApp, Refused, Event

(* EnsureTraefik settles Traefik with the app's address.                   *)
LEMMA CalmEnsureTraefik ==
  ASSUME IInv, config # {}, calm, calm', Turn("traefik"), EnsureTraefik
  PROVE  Progress'
<1>1. writing = {}
  BY NothingOpen DEF IInv
<1>2. (Enabled("app")' <=> Enabled("app")) /\ Wanted("traefik")' = Wanted("traefik")
  BY TurnSettings
<1>3. CASE ~Enabled("app") /\ Skip
  <2>1. Settled("traefik")'
    BY <1>2, <1>3 DEF Settled
  <2>2. \A p \in Phases : Settled(p) => Settled(p)'
    BY <1>3, <1>1, SkipKeeps DEF Skip
  <2>3. QED
    BY <2>1, <2>2, Advance
<1>4. CASE Enabled("app") /\ backend' = AppHost /\ RunContainer("traefik") /\ UNCHANGED appFile
  <2>1. "traefik" \in Names \ {"app"} /\ "app" \in Names \ {"traefik"} /\ Startable("traefik")
    BY DEF Names, Services, Startable
  <2>2. Touches("traefik") /\ Converged("traefik")' /\ UNCHANGED network
    BY <1>4, <2>1, CalmRun DEF IInv, TypeOK
  <2>3. status'["app"] = status["app"] /\ appIP' = appIP
    BY <2>1, <2>2 DEF Touches
  <2>4. AppHost' = AppHost
    BY <2>3 DEF AppHost
  <2>5. Settled("traefik")'
    BY <1>4, <2>2, <2>4 DEF Settled
  <2>6. \A p \in Phases \ {"traefik"} : Settled(p) => Settled(p)'
    BY <1>4, <1>1, <2>1, <2>2, KeepsOthers
  <2>7. QED
    BY <2>5, <2>6, Advance
<1>5. QED
  BY <1>3, <1>4 DEF EnsureTraefik, Refused, Event

(* The health check finds what it watches settled, and does nothing.       *)
LEMMA CalmCheck ==
  ASSUME IInv, config # {}, calm, calm', NEW step \in {"check-app", "check-traefik"}, Turn(step),
         \A p \in Phases : Settled(p),
         step = "check-app" => CheckApp, step = "check-traefik" => CheckTraefik
  PROVE  Progress'
<1> network
  BY DEF Settled, Phases
<1>1. CASE step = "check-app" /\ EnsureApp
  BY <1>1, CalmEnsureApp DEF Phases
<1>2. CASE writing = {} /\ Skip
  <2>1. \A p \in Phases : Settled(p) => Settled(p)'
    BY <1>2, SkipKeeps DEF Skip
  <2>2. QED
    BY <2>1, Advance DEF Phases
<1>3. ~(step = "check-traefik" /\ NeedsRecovery("traefik"))
  BY DEF NeedsRecovery, Settled, Phases, Converged
<1>4. step = "check-traefik" => writing = {}
  BY NothingOpen DEF IInv
<1>5. QED
  BY <1>1, <1>2, <1>3, <1>4 DEF CheckApp, CheckTraefik, Refused, Event

-----------------------------------------------------------------------------
(* The invariant.                                                          *)

LEMMA PassesTyped == Passes \subseteq Seq(Steps)
BY DEF Passes, Steps

(* Every call of the loop keeps the invariant.                             *)
LEMMA EnsureInv == IInv /\ Ensure => IInv'
<1> SUFFICES ASSUME IInv, Ensure
             PROVE  IInv'
  OBVIOUS
<1>1. PICK step \in Steps :
        /\ Turn(step)
        /\ step = "network" => EnsureNetwork
        /\ step = "valkey" => EnsureValkey
        /\ step = "postgres" => EnsurePostgres
        /\ step \in {"app", "rebuild-app"} => EnsureApp
        /\ step = "check-app" => CheckApp
        /\ step = "traefik" => EnsureTraefik
        /\ step = "check-traefik" => CheckTraefik
        /\ step \in {"backupbot", "rebuild-backupbot"} => EnsureBackupBot
  BY DEF Ensure, Step, Turn, Steps
<1>2. config # {}
  BY <1>1 DEF Turn, IInv, Shape
<1>3. Result
  BY <1>1, <1>2, EnsureResult DEF Steps, IInv, Safe
<1>4. Shape'
  BY <1>1, <1>2, PendingTail DEF Turn, IInv, Shape, agent
<1>5. TypeOK'
  <2>1. todo' \in Seq(Steps)
    BY <1>4, PassesTyped DEF Shape
  <2>2. config' = config /\ node' = node /\ up' = up /\ pulse' = pulse /\ elsewhere' = elsewhere
        /\ writing' = {}
    BY <1>1 DEF Turn, agent, outside
  <2>3. QED
    BY <1>3, <2>1, <2>2 DEF Result, Tally, IInv, TypeOK, EngineOK, Statuses, OptSet
<1>6. Progress'
  <2> SUFFICES ASSUME calm'
               PROVE  Progress'
    BY DEF Progress
  <2>1. calm
    BY <1>3 DEF Result, Tally
  <2>2. \A p \in Phases : ~Pending(p) => Settled(p)
    BY <1>2, <2>1 DEF IInv, Progress
  <2>3. step = Head(todo) /\ todo \in Passes /\ todo # <<>>
    BY <1>1 DEF Turn, IInv, Shape
  <2>4. step \in Phases \ {"network"} => Settled("network")
    BY <2>2, <2>3, Order DEF Phases
  <2>5. step \notin Phases => \A p \in Phases : Settled(p)
    BY <2>2, <2>3, Order
  <2>6. step # "network" => network
    BY <2>4, <2>5 DEF Settled, Phases, Steps
  <2>7. CASE step = "network"
    <3>1. Settled("network")'
      BY <1>1, <2>7 DEF EnsureNetwork, Settled
    <3>2. \A p \in Phases : Pending(p)
      BY <2>3, <2>7, Order
    <3>3. QED
      BY <1>1, <1>2, <2>1, <2>7, <3>1, <3>2, Advance
  <2>8. CASE step = "valkey"
    BY <1>1, <1>2, <2>1, <2>6, <2>8, CalmEnsureValkey
  <2>9. CASE step = "postgres"
    BY <1>1, <1>2, <2>1, <2>6, <2>9, CalmEnsurePostgres
  <2>10. CASE step = "app"
    <3>1. Pending("traefik")
      BY <2>3, <2>10, Order
    <3>2. QED
      BY <1>1, <1>2, <2>1, <2>6, <2>10, <3>1, CalmEnsureApp
  <2>11. CASE step = "rebuild-app"
    BY <1>1, <1>2, <2>1, <2>5, <2>6, <2>11, CalmEnsureApp DEF Phases
  <2>12. CASE step = "traefik"
    BY <1>1, <1>2, <2>1, <2>12, CalmEnsureTraefik
  <2>13. CASE step \in {"check-app", "check-traefik"}
    BY <1>1, <1>2, <2>1, <2>5, <2>13, CalmCheck DEF Phases
  <2>14. CASE step \in {"backupbot", "rebuild-backupbot"}
    BY <1>1, <1>2, <2>1, <2>6, <2>14, CalmEnsureBackupBot
  <2>15. QED
    BY <2>7, <2>8, <2>9, <2>10, <2>11, <2>12, <2>13, <2>14 DEF Steps
<1>7. Halfway'
  BY <1>1 DEF Turn, Halfway
<1>8. QED
  BY <1>3, <1>4, <1>5, <1>6, <1>7 DEF IInv, Result

(* So does the opening of the app's file, which is going to be merged.     *)
LEMMA OpenInv == IInv /\ OpenAppFile => IInv'
<1> SUFFICES ASSUME IInv, OpenAppFile
             PROVE  IInv'
  OBVIOUS
<1>1. /\ UNCHANGED <<config, node, up, todo, backend, network, status, opts, appRead, appIP,
                      pulse, elsewhere, events, calm, checked>>
      /\ writing = {} /\ writing' = {Merged} /\ appFile' = {Torn} /\ AppHere
  BY DEF OpenAppFile, Quiet, agent, engine, outside
<1>2. todo # <<>> /\ Head(todo) \in {"app", "rebuild-app", "check-app"} /\ config # {}
  BY DEF OpenAppFile, ForApp, IInv, Shape
<1>3. Merged \in AppFile /\ Merged.pg # None
  BY <1>1, <1>2, ConfigTypes DEF IInv, AppHere, Merged
<1>4. Torn \in AppFile
  BY DEF Torn, AppFile, Hosts
<1>5. TypeOK'
  BY <1>1, <1>3, <1>4 DEF IInv, TypeOK
<1>6. Merged' = Merged /\ (AppHere' <=> AppHere)
  BY <1>1, SameSettings
<1>7. Halfway'
  BY <1>1, <1>2, <1>3, <1>6 DEF Halfway
<1>8. Progress'
  <2> SUFFICES ASSUME calm, NEW p \in Phases, ~Pending(p)'
               PROVE  Settled(p)'
    BY <1>1 DEF Progress
  <2>1. ~Pending(p)
    BY <1>1 DEF Pending
  <2>2. Settled(p)
    BY <1>2, <2>1 DEF IInv, Progress
  <2>3. p = "app" => Written' = Written
    BY <1>1, <2>2 DEF Settled, Written
  <2>4. QED
    BY <1>1, <2>2, <2>3, Kept
<1>9. FileFirst' /\ Shape'
  BY <1>1 DEF IInv, FileFirst, Shape
<1>10. QED
  BY <1>5, <1>7, <1>8, <1>9 DEF IInv

(* So does a step that changes a container from outside.                   *)
LEMMA EngineEventInv ==
  ASSUME IInv, Event, NEW n \in Names, Exit(n) \/ Remove(n) \/ PolicyRestart(n)
  PROVE  IInv'
<1>1. UNCHANGED <<agent, todo, writing, files, network, outside>>
  BY DEF call, Exit, Remove, PolicyRestart
<1>2. appFile' = appFile /\ opts[n] \in OptSet /\ <<None, None>> \in OptSet
  BY <1>1 DEF files, IInv, TypeOK, OptSet
<1>3. Touches(n)
  BY <1>2, BecomesTouches DEF Exit, Remove, PolicyRestart, Gone, IInv, TypeOK, Statuses
<1>4. n = "app" => status[n] # "absent"
  BY DEF Exit, Remove, PolicyRestart
<1>5. EngineOK' /\ FileFirst'
  BY <1>2, <1>3, <1>4, TouchesSafe DEF IInv, Safe, FileFirst
<1>6. events' \in 0..MaxEvents /\ calm' = FALSE /\ checked' = FALSE
  BY Counted DEF IInv, Event, Tally
<1>7. TypeOK'
  BY <1>1, <1>5, <1>6 DEF IInv, TypeOK, EngineOK, Statuses, OptSet, agent, files, outside
<1>8. Shape' /\ Progress' /\ Halfway'
  BY <1>1, <1>6 DEF IInv, Shape, Progress, Halfway, agent
<1>9. QED
  BY <1>5, <1>7, <1>8 DEF IInv

(* So does applyConfig.                                                    *)
LEMMA ApplyInv ==
  ASSUME IInv, todo = <<>>, NEW c \in Configs, Apply(c), up' = TRUE, events' \in 0..MaxEvents
  PROVE  IInv'
<1>1. todo' = <<"network", "valkey", "postgres", "app", "traefik", "backupbot">>
  BY DEF Apply, Infrastructure
<1>2. Shape'
  BY <1>1 DEF Shape, Passes, Apply
<1>3. c \in [services: SUBSET Services, image: [Names -> Images \cup {None}],
              mode: {"single", "cluster"}, role: Roles, gossip: BOOLEAN]
  BY AgentAssumption
<1>4. node' \in {{}} \cup {{n} : n \in [services: SUBSET Services, role: Roles]}
  BY <1>3 DEF Apply, IInv, TypeOK
<1>5. UNCHANGED <<writing, appFile, backend, network, status, opts, appRead, appIP, pulse, elsewhere>>
  BY DEF Apply, files, engine, outside
<1>6. todo' \in Seq(Steps)
  BY <1>2, PassesTyped DEF Shape
<1>7. config' = {c} /\ calm' = TRUE /\ checked' = FALSE
  BY DEF Apply
<1>8. TypeOK'
  BY <1>4, <1>5, <1>6, <1>7 DEF IInv, TypeOK
<1>9. \A p \in Phases : Pending(p)'
  BY <1>1 DEF Pending, Phases
<1>10. Halfway'
  BY DEF IInv, Halfway, Apply
<1>11. QED
  BY <1>2, <1>5, <1>8, <1>9, <1>10 DEF IInv, Progress, FileFirst

LEMMA InitInv == Init => IInv
<1> SUFFICES ASSUME Init
             PROVE  IInv
  OBVIOUS
<1>1. <<>> \in Seq(Steps) /\ 0 \in 0..MaxEvents
  BY AgentAssumption
<1>2. /\ status \in [Names -> {"absent", "exited", "running"}]
      /\ opts \in [Names -> (Images \cup {"default", None}) \X {"plain", "replica", None}]
  BY DEF Init
<1>3. TypeOK
  BY <1>1, <1>2 DEF Init, TypeOK
<1>4. status["app"] = "absent"
  BY DEF Init, Names, Services
<1>5. QED
  BY <1>3, <1>4 DEF Init, IInv, Shape, Passes, Progress, FileFirst, Halfway

(* Every step keeps the invariant, one case per action.                    *)
LEMMA StepInv == IInv /\ [Next]_vars => IInv'
<1> SUFFICES ASSUME IInv, [Next]_vars
             PROVE  IInv'
  OBVIOUS
<1>1. ASSUME NEW c \in Configs, Boot(c) \/ Reload(c)
      PROVE  IInv'
  <2>1. Apply(c) /\ up' = TRUE /\ todo = <<>>
    BY <1>1 DEF Boot, Shape, Reload, IInv, TypeOK
  <2>2. events \in 0..MaxEvents /\ MaxEvents \in Nat
    BY AgentAssumption DEF IInv, TypeOK
  <2>3. events' \in 0..MaxEvents
    BY <1>1, <2>2 DEF Boot, Reload
  <2>4. QED
    BY <2>1, <2>3, ApplyInv
<1>2. CASE BootUnconfigured
  <2>1. UNCHANGED <<config, node, todo, writing, appFile, backend, network, status, opts, appRead,
                    appIP, pulse, elsewhere, events, calm, checked>> /\ up' = TRUE
    BY <1>2 DEF BootUnconfigured, call, files, engine, outside
  <2>2. config = {} /\ todo = <<>>
    BY <1>2 DEF BootUnconfigured, IInv, Shape
  <2>3. QED
    BY <2>1, <2>2 DEF IInv, TypeOK, Shape, Progress, FileFirst, Halfway
<1>3. ASSUME NEW steps \in {<<"rebuild-app">>, <<"rebuild-backupbot">>, HealthChecks},
             Case(steps), checked' \in {checked, TRUE}
      PROVE  IInv'
  <2>1. UNCHANGED <<config, node, up, writing, appFile, backend, network, status, opts, appRead,
                    appIP, pulse, elsewhere, events, calm>> /\ todo' = steps
    BY <1>3 DEF Case, agent, files, engine, outside
  <2>2. Shape'
    BY <1>3, <2>1 DEF Case, IInv, Shape, Passes, HealthChecks
  <2>3. todo' \in Seq(Steps)
    BY <2>2, PassesTyped DEF Shape
  <2>4. TypeOK'
    BY <1>3, <2>1, <2>3 DEF IInv, TypeOK
  <2>5. \A p \in Phases : ~Pending(p)
    BY <1>3 DEF Case, Pending
  <2>6. Written' = Written
    BY <2>1 DEF Written
  <2>7. ASSUME NEW p \in Phases, Settled(p)
        PROVE  Settled(p)'
    BY <2>1, <2>6, <2>7, Kept
  <2>8. Progress'
    BY <2>1, <2>5, <2>7 DEF IInv, Progress
  <2>9. Halfway'
    BY <1>3, <2>1 DEF Case, IInv, Halfway
  <2>10. QED
    BY <2>1, <2>2, <2>4, <2>8, <2>9 DEF IInv, FileFirst
<1>4. CASE OpenAppFile \/ Ensure
  BY <1>4, OpenInv, EnsureInv
<1>5. CASE NetworkFails
  <2>1. UNCHANGED <<config, node, up, appFile, backend, status, opts, appRead, appIP,
                    pulse, elsewhere, writing>> /\ todo' = <<>> /\ network' \in {network, TRUE}
    BY <1>5 DEF NetworkFails, Untouched, agent, files, outside
  <2>2. events' \in 0..MaxEvents /\ calm' = FALSE /\ checked' = FALSE
    BY <1>5, Counted DEF NetworkFails, IInv, Event, Tally
  <2>3. <<>> \in Seq(Steps)
    OBVIOUS
  <2>4. TypeOK'
    BY <2>1, <2>2, <2>3 DEF IInv, TypeOK
  <2>5. writing = {}
    BY <1>5 DEF NetworkFails, IInv, Halfway
  <2>6. QED
    BY <2>1, <2>2, <2>4, <2>5 DEF IInv, Shape, Passes, Progress, FileFirst, Halfway
<1>6. CASE Crash
  <2>1. UNCHANGED <<appFile, backend, network, status, opts, appRead, appIP, pulse, elsewhere>>
        /\ up' = FALSE /\ config' = {} /\ node' = {} /\ todo' = <<>> /\ writing' = {}
    BY <1>6 DEF Crash, files, engine, outside
  <2>2. events' \in 0..MaxEvents /\ calm' = FALSE /\ checked' = FALSE
    BY <1>6, Counted DEF Crash, IInv, Event, Tally
  <2>3. <<>> \in Seq(Steps)
    OBVIOUS
  <2>4. TypeOK'
    BY <2>1, <2>2, <2>3 DEF IInv, TypeOK
  <2>5. QED
    BY <2>1, <2>2, <2>4 DEF IInv, Shape, Passes, Progress, FileFirst, Halfway
<1>7. ASSUME NEW n \in Names, Exit(n) \/ Remove(n) \/ PolicyRestart(n)
      PROVE  IInv'
  BY <1>7, EngineEventInv DEF Exit, Remove, PolicyRestart
<1>8. CASE RemoveNetwork \/ EditPulse \/ ClusterChange
  <2>1. UNCHANGED <<config, node, up, todo, writing, appFile, backend, status, opts, appRead, appIP>>
    BY <1>8 DEF RemoveNetwork, EditPulse, ClusterChange, Untouched, agent, call, files, engine
  <2>2. events' \in 0..MaxEvents /\ calm' = FALSE /\ checked' = FALSE
    BY <1>8, Counted DEF RemoveNetwork, EditPulse, ClusterChange, IInv, Event, Tally
  <2>3. network' \in BOOLEAN
    BY <1>8 DEF RemoveNetwork, EditPulse, ClusterChange, engine, IInv, TypeOK
  <2>4. pulse' \in Pulses \cup {None}
    BY <1>8 DEF RemoveNetwork, EditPulse, ClusterChange, outside, IInv, TypeOK
  <2>5. elsewhere' \subseteq Offers
    BY <1>8 DEF RemoveNetwork, EditPulse, ClusterChange, outside, IInv, TypeOK
  <2>6. TypeOK'
    BY <2>1, <2>2, <2>3, <2>4, <2>5 DEF IInv, TypeOK
  <2>7. QED
    BY <2>1, <2>2, <2>6 DEF IInv, Shape, Progress, FileFirst, Halfway
<1>9. CASE UNCHANGED vars
  <2>1. UNCHANGED <<config, node, todo, writing, up, appFile, backend, network, status, opts,
                    appRead, appIP, pulse, elsewhere, events, calm, checked>>
    BY <1>9 DEF vars
  <2>2. Written' = Written /\ Merged' = Merged /\ (AppHere' <=> AppHere)
    BY <2>1, SameSettings DEF Written
  <2>3. ASSUME NEW p \in Phases, Settled(p)
        PROVE  Settled(p)'
    BY <2>1, <2>3, <2>2, Kept
  <2>4. \A p \in Phases : Pending(p)' <=> Pending(p)
    BY <2>1 DEF Pending
  <2>5. Progress'
    BY <2>1, <2>3, <2>4 DEF IInv, Progress
  <2>6. Halfway'
    BY <2>1, <2>2 DEF IInv, Halfway
  <2>7. QED
    BY <2>1, <2>5, <2>6 DEF IInv, TypeOK, Shape, FileFirst
<1>10. QED
  BY <1>1, <1>2, <1>3, <1>4, <1>5, <1>6, <1>7, <1>8, <1>9
  DEF Next, Outside, AppConfigChanged, BackupConfigChanged, HealthTick

(* The inductive invariant holds of every behaviour.                       *)
THEOREM Invariant == Spec => []IInv
BY InitInv, StepInv, PTL DEF Spec

(* Type correctness.                                                       *)
THEOREM TypeCorrect == Spec => []TypeOK
<1>1. IInv => TypeOK
  BY DEF IInv
<1>2. QED
  BY <1>1, Invariant, PTL

(* After a pass of applyConfig that nothing disturbed, the node is as      *)
(* configured, for every configuration it came from and every mesh.        *)
THEOREM Converges == Spec => []ConvergedAfterApply
<1>1. ASSUME IInv, calm, config # {}, todo = <<>>, NEW i \in 1..6
      PROVE  Settled(Infrastructure[i])
  <2>1. Infrastructure[i] \in Phases
    BY DEF Infrastructure, Phases
  <2>2. \A p \in Phases : ~Pending(p)
    BY <1>1 DEF Pending
  <2>3. QED
    BY <1>1, <2>1, <2>2 DEF IInv, Progress
<1>2. IInv /\ todo = <<>> => writing = {}
  BY DEF IInv, Halfway
<1>3. IInv => ConvergedAfterApply
  BY <1>1, <1>2 DEF ConvergedAfterApply
<1>4. QED
  BY <1>3, Invariant, PTL

-----------------------------------------------------------------------------
(* What the app is started over.                                           *)

(* A call of RunContainer that starts the app starts it over the file.     *)
LEMMA StartReads ==
  ASSUME TypeOK, config # {}, Reaches("app") \/ Fails("app")
  PROVE  Untouched \/ status'["app"] # "running" \/ appRead' = appFile'
<1>1. "app" \in Names /\ status \in [Names -> Statuses]
  BY DEF TypeOK, Names, Services, Statuses
<1>2. ASSUME NEW s \in {"absent", "exited"}, NEW o, Becomes("app", s, o)
      PROVE  status'["app"] # "running"
  BY <1>1, <1>2 DEF Becomes
<1>3. Becomes("app", "running", Wanted("app")) => appRead' = appFile'
  BY DEF Becomes
<1>4. QED
  BY <1>2, <1>3 DEF Reaches, Fails, Gone

(* The app is not touched, not left running, or started over a whole file. *)
LEMMA EnsureStarts ==
  ASSUME IInv, Ensure
  PROVE  \/ UNCHANGED <<status["app"], opts["app"], appRead, appIP>>
         \/ status'["app"] # "running"
         \/ \E f \in appRead' : f.pg # None
<1>1. config # {}
  BY DEF Ensure, Step, IInv, Shape
<1>2. {"valkey", "postgres", "traefik", "backupbot"} \subseteq Names \ {"app"} /\ "app" \in Names
  BY DEF Names, Services
<1>3. ASSUME NEW n \in Names \ {"app"}, Reaches(n) \/ Fails(n), appFile' \in SUBSET AppFile
      PROVE  UNCHANGED <<status["app"], opts["app"], appRead, appIP>>
  <2>1. Touches(n)
    BY <1>1, <1>3, RunTouches DEF IInv
  <2>2. QED
    BY <1>2, <2>1 DEF Touches
<1>4. CASE EnsureApp /\ writing # {} /\ appFile' = writing /\ RunContainer("app")
  <2>1. Untouched \/ status'["app"] # "running" \/ appRead' = writing
    BY <1>1, <1>4, StartReads DEF RunContainer, IInv
  <2>2. \E f \in writing : f.pg # None
    BY <1>4 DEF IInv, Halfway
  <2>3. QED
    BY <2>1, <2>2 DEF Untouched
<1>5. CASE Untouched
  BY <1>5 DEF Untouched
<1>6. appFile \in SUBSET AppFile
  BY DEF IInv, TypeOK
<1>7. QED
  BY <1>2, <1>3, <1>4, <1>5, <1>6
  DEF Ensure, Step, EnsureNetwork, EnsureValkey, EnsurePostgres, EnsureApp, EnsureTraefik,
      EnsureBackupBot, CheckApp, CheckTraefik, RunContainer, Skip, Refused, Nothing, files

\* The agent starts the app over a whole file that names its Postgres, and the
\* engine never over none.
THEOREM AppNeverBlind == Spec => AppStartsConfigured
<1> DEFINE Starts == /\ status'["app"] = "running"
                     /\ \/ status["app"] # "running"
                        \/ <<opts'["app"], appRead', appIP'>> # <<opts["app"], appRead, appIP>>
           Whole  == \E f \in appRead' : f.pg # None \/ (f = Torn /\ todo' = todo)
<1>1. IInv /\ [Next]_vars => [Starts => Whole]_vars
  <2> SUFFICES ASSUME IInv, Next, Starts
               PROVE  Whole
    OBVIOUS
  <2>1. ASSUME UNCHANGED <<status, opts, appRead, appIP>>
        PROVE  FALSE
    BY <2>1
  <2>2. CASE \E c \in Configs : Boot(c) \/ Reload(c)
    BY <2>1, <2>2 DEF Boot, Reload, Apply, engine
  <2>3. CASE BootUnconfigured \/ AppConfigChanged \/ BackupConfigChanged \/ HealthTick \/ OpenAppFile
    BY <2>1, <2>3 DEF BootUnconfigured, AppConfigChanged, BackupConfigChanged, HealthTick, Case,
       OpenAppFile, engine
  <2>4. CASE NetworkFails \/ Crash \/ RemoveNetwork \/ EditPulse \/ ClusterChange
    BY <2>1, <2>4 DEF NetworkFails, Crash, RemoveNetwork, EditPulse, ClusterChange, Untouched, engine
  <2>5. CASE Ensure
    BY <2>5, EnsureStarts
  <2>6. ASSUME NEW n \in Names, Exit(n) \/ Remove(n) \/ PolicyRestart(n), n # "app"
        PROVE  Whole
    <3>1. "app" \in Names
      BY DEF Names, Services
    <3>2. UNCHANGED <<status["app"], opts["app"], appRead, appIP>>
      BY <2>6, <3>1 DEF Exit, Remove, PolicyRestart, Gone, Becomes, IInv, TypeOK
    <3>3. QED
      BY <3>2
  <2>7. CASE Exit("app") \/ Remove("app")
    <3>1. "app" \in Names /\ status \in [Names -> Statuses]
      BY DEF IInv, TypeOK, Names, Services, Statuses
    <3>2. status'["app"] # "running"
      BY <2>7, <3>1 DEF Exit, Remove, Gone, Becomes
    <3>3. QED
      BY <3>2
  <2>8. CASE PolicyRestart("app")
    <3>1. appFile' = appFile /\ todo' = todo /\ status["app"] # "absent"
      BY <2>8 DEF PolicyRestart, files, call
    <3>2. appRead' = appFile'
      BY <2>8 DEF PolicyRestart, Becomes
    <3>3. QED
      BY <3>1, <3>2 DEF IInv, FileFirst
  <2>9. QED
    BY <2>2, <2>3, <2>4, <2>5, <2>6, <2>7, <2>8 DEF Next, Outside
<1>2. QED
  BY <1>1, Invariant, PTL DEF Spec, AppStartsConfigured

-----------------------------------------------------------------------------
(* One health check is enough.                                             *)

\* What the watched containers owe a health check as far as it has come.
AppUp     == AppHere /\ network => status["app"] = "running"
TraefikUp == Enabled("app") => status["traefik"] = "running"

Checks ==
  checked =>
    /\ config # {}
    /\ \A p \in Phases : ~Pending(p)
    /\ todo # HealthChecks => AppUp
    /\ todo \notin {HealthChecks, <<"check-traefik">>} => TraefikUp

(* Only the calls of a case are pending between two configurations.        *)
LEMMA CasesLeft ==
  ASSUME todo \in Passes, todo # <<>>, \A p \in Phases : ~Pending(p)
  PROVE  /\ todo \in {HealthChecks, <<"check-traefik">>, <<"rebuild-app">>, <<"rebuild-backupbot">>}
         /\ Head(todo) = "check-app" => todo = HealthChecks
         /\ Head(todo) = "check-traefik" => todo = <<"check-traefik">>
         /\ Head(todo) \notin Phases
<1>1. Head(todo) \notin Phases
  <2>1. Pending(Head(todo))
    BY DEF Pending, Passes
  <2>2. QED
    BY <2>1
<1>2. QED
  BY <1>1 DEF Passes, Phases, HealthChecks

(* EnsureApp without a fault starts an app that belongs here, and leaves   *)
(* Traefik's container and the network alone.                              *)
LEMMA EnsureAppUp ==
  ASSUME IInv, config # {}, checked', NEW step, Turn(step), EnsureApp
  PROVE  AppUp' /\ (TraefikUp => TraefikUp')
<1>1. (AppHere' <=> AppHere) /\ (Enabled("app")' <=> Enabled("app"))
  BY TurnSettings
<1>2. CASE writing # {} /\ appFile' = writing /\ RunContainer("app")
  <2>1. "app" \in Names /\ "traefik" \in Names
    BY DEF Names, Services
  <2>2. appFile' \in SUBSET AppFile
    BY <1>2 DEF IInv, TypeOK
  <2>3. Touches("app")
    BY <1>2, <2>1, <2>2, RunTouches DEF RunContainer, IInv
  <2>4. network' = network
    BY <1>2 DEF RunContainer
  <2>5. network => status'["app"] = "running"
    BY <1>2, <2>1, <2>2, CalmRun DEF Startable, Converged
  <2>6. status'["traefik"] = status["traefik"]
    BY <2>1, <2>3 DEF Touches
  <2>7. QED
    BY <1>1, <2>4, <2>5, <2>6 DEF AppUp, TraefikUp
<1>3. CASE ~AppHere /\ Skip
  BY <1>1, <1>3 DEF Skip, Nothing, Untouched, AppUp, TraefikUp
<1>4. QED
  BY <1>2, <1>3 DEF EnsureApp, Refused, Event

(* EnsureTraefik without a fault starts Traefik and leaves the app alone.  *)
LEMMA EnsureTraefikUp ==
  ASSUME IInv, config # {}, checked', NEW step, Turn(step), EnsureTraefik, AppUp
  PROVE  AppUp' /\ TraefikUp'
<1>1. (AppHere' <=> AppHere) /\ (Enabled("app")' <=> Enabled("app"))
  BY TurnSettings
<1>2. CASE Enabled("app") /\ RunContainer("traefik") /\ UNCHANGED appFile
  <2>1. "app" \in Names /\ "traefik" \in Names
    BY DEF Names, Services
  <2>2. Touches("traefik") /\ Converged("traefik")' /\ network' = network
    BY <1>2, <2>1, CalmRun DEF IInv, TypeOK, Startable
  <2>3. status'["app"] = status["app"]
    BY <2>1, <2>2 DEF Touches
  <2>4. QED
    BY <1>1, <2>2, <2>3 DEF AppUp, TraefikUp, Converged
<1>3. CASE ~Enabled("app") /\ Skip
  BY <1>1, <1>3 DEF Skip, Nothing, Untouched, AppUp, TraefikUp
<1>4. QED
  BY <1>2, <1>3 DEF EnsureTraefik, Refused, Event

(* BackupBot is none of them.                                              *)
LEMMA EnsureBackupBotUp ==
  ASSUME IInv, config # {}, NEW step, Turn(step), EnsureBackupBot
  PROVE  (AppUp => AppUp') /\ (TraefikUp => TraefikUp')
<1>1. (AppHere' <=> AppHere) /\ (Enabled("app")' <=> Enabled("app"))
  BY TurnSettings
<1>2. CASE RunContainer("backupbot") /\ UNCHANGED files
  <2>1. {"app", "traefik", "backupbot"} \subseteq Names
    BY DEF Names, Services
  <2>2. Touches("backupbot") /\ network' = network
    BY <1>2, <2>1, RunTouches DEF RunContainer, IInv, TypeOK, files
  <2>3. status'["app"] = status["app"] /\ status'["traefik"] = status["traefik"]
    BY <2>1, <2>2 DEF Touches
  <2>4. QED
    BY <1>1, <2>2, <2>3 DEF AppUp, TraefikUp
<1>3. CASE Skip
  BY <1>1, <1>3 DEF Skip, Nothing, Untouched, AppUp, TraefikUp
<1>4. QED
  BY <1>2, <1>3 DEF EnsureBackupBot

(* The calls of a health check and of the rebuilds keep what is checked.   *)
LEMMA EnsureChecks ==
  ASSUME IInv, Checks, Ensure, checked'
  PROVE  Checks'
<1>1. PICK step \in Steps :
        /\ Turn(step)
        /\ step = "rebuild-app" => EnsureApp
        /\ step = "check-app" => CheckApp
        /\ step = "check-traefik" => CheckTraefik
        /\ step = "rebuild-backupbot" => EnsureBackupBot
        /\ \/ EnsureNetwork \/ EnsureValkey \/ EnsurePostgres \/ EnsureApp
           \/ EnsureTraefik \/ EnsureBackupBot \/ CheckApp \/ CheckTraefik
  BY DEF Ensure, Step, Turn, Steps
<1>2. config # {}
  BY <1>1 DEF Turn, IInv, Shape
<1>3. checked /\ ~Event
  BY <1>1, <1>2, EnsureResult DEF Result, Tally, IInv, Safe, Event
<1>4. \A p \in Phases : ~Pending(p)
  BY <1>3 DEF Checks
<1>5. /\ step \in {"check-app", "check-traefik", "rebuild-app", "rebuild-backupbot"}
      /\ step = "check-app" => todo = HealthChecks
      /\ step = "check-traefik" => todo = <<"check-traefik">>
      /\ step \in {"rebuild-app", "rebuild-backupbot"} => todo = <<step>>
  BY <1>1, <1>4, CasesLeft DEF Turn, IInv, Shape, Phases, Steps, HealthChecks
<1>6. ASSUME step = "check-app"
      PROVE  todo' = <<"check-traefik">>
  <2>1. todo = <<"check-app", "check-traefik">> /\ todo' = Tail(todo)
    BY <1>1, <1>5, <1>6 DEF Turn, HealthChecks
  <2>2. QED
    BY <2>1
<1>7. config' # {} /\ \A p \in Phases : ~Pending(p)'
  <2>1. config' = config
    BY <1>1 DEF Turn, agent
  <2>2. QED
    BY <1>2, <1>4, <2>1, <1>1, PendingTail DEF Turn, IInv, Shape
<1>8. (AppHere' <=> AppHere) /\ (Enabled("app")' <=> Enabled("app"))
  BY <1>1, TurnSettings
<1>9. CASE step = "check-app"
  <2>1. EnsureApp => AppUp'
    BY <1>1, <1>2, EnsureAppUp
  <2>2. ASSUME ~NeedsRecovery("app"), Skip
        PROVE  AppUp'
    BY <1>8, <2>2 DEF NeedsRecovery, AppHere, Skip, Nothing, Untouched, AppUp
  <2>3. AppUp'
    BY <1>1, <1>3, <1>9, <2>1, <2>2 DEF CheckApp, Refused
  <2>4. QED
    BY <1>6, <1>7, <1>9, <2>3 DEF Checks
<1>10. CASE step = "check-traefik"
  <2>1. AppUp
    BY <1>3, <1>5, <1>10 DEF Checks, HealthChecks
  <2>2. EnsureTraefik => AppUp' /\ TraefikUp'
    BY <1>1, <1>2, <2>1, EnsureTraefikUp
  <2>3. ASSUME ~NeedsRecovery("traefik"), Skip
        PROVE  AppUp' /\ TraefikUp'
    BY <1>8, <2>1, <2>3 DEF NeedsRecovery, Skip, Nothing, Untouched, AppUp, TraefikUp
  <2>4. AppUp' /\ TraefikUp'
    BY <1>1, <1>3, <1>10, <2>2, <2>3 DEF CheckTraefik, Refused
  <2>5. QED
    BY <1>7, <2>4 DEF Checks
<1>11. CASE step \in {"rebuild-app", "rebuild-backupbot"}
  <2>1. AppUp /\ TraefikUp
    BY <1>3, <1>5, <1>11 DEF Checks, HealthChecks
  <2>2. AppUp' /\ TraefikUp'
    BY <1>1, <1>2, <1>11, <2>1, EnsureAppUp, EnsureBackupBotUp
  <2>3. QED
    BY <1>7, <2>2 DEF Checks
<1>12. QED
  BY <1>5, <1>9, <1>10, <1>11

(* So does every other step.                                               *)
LEMMA StepChecks == IInv /\ Checks /\ [Next]_vars => Checks'
<1> SUFFICES ASSUME IInv, Checks, [Next]_vars, checked'
             PROVE  Checks'
  BY DEF Checks
<1>1. ASSUME NEW c \in Configs, Boot(c) \/ Reload(c)
      PROVE  Checks'
  BY <1>1 DEF Boot, Reload, Apply
<1>2. CASE BootUnconfigured
  <2>1. config = {} /\ checked' = checked
    BY <1>2 DEF BootUnconfigured, IInv, Shape
  <2>2. QED
    BY <2>1 DEF Checks
<1>3. ASSUME UNCHANGED <<config, node, elsewhere, pulse, network, status>>
      PROVE  (AppUp => AppUp') /\ (TraefikUp => TraefikUp')
  BY <1>3, SameSettings DEF AppUp, TraefikUp
<1>4. CASE HealthTick
  <2>1. todo' = <<"check-app", "check-traefik">> /\ config' = config /\ config # {}
    BY <1>4 DEF HealthTick, Case, HealthChecks, agent
  <2>2. \A p \in Phases : ~Pending(p)'
    BY <2>1 DEF Pending, Phases
  <2>3. QED
    BY <2>1, <2>2 DEF Checks, HealthChecks
<1>5. CASE AppConfigChanged \/ BackupConfigChanged
  <2>1. /\ todo' \in {<<"rebuild-app">>, <<"rebuild-backupbot">>} /\ todo = <<>>
        /\ UNCHANGED <<config, node, elsewhere, pulse, network, status, checked>>
    BY <1>5 DEF AppConfigChanged, BackupConfigChanged, Case, agent, engine, outside
  <2>2. \A p \in Phases : ~Pending(p)'
    BY <2>1 DEF Pending, Phases
  <2>3. AppUp' /\ TraefikUp'
    BY <1>3, <2>1 DEF Checks, HealthChecks
  <2>4. QED
    BY <2>1, <2>2, <2>3 DEF Checks
<1>6. CASE OpenAppFile
  <2>1. UNCHANGED <<config, node, elsewhere, pulse, network, status, todo, checked>>
    BY <1>6 DEF OpenAppFile, Quiet, agent, engine, outside
  <2>2. \A p \in Phases : Pending(p)' <=> Pending(p)
    BY <2>1 DEF Pending
  <2>3. QED
    BY <1>3, <2>1, <2>2 DEF Checks
<1>7. CASE Ensure
  BY <1>7, EnsureChecks
<1>8. CASE NetworkFails \/ Crash \/ Outside
  BY <1>8 DEF NetworkFails, Crash, Outside, Exit, Remove, PolicyRestart, RemoveNetwork,
              EditPulse, ClusterChange, Event
<1>9. CASE UNCHANGED vars
  <2>1. UNCHANGED <<config, node, elsewhere, pulse, network, status, todo, checked>>
    BY <1>9 DEF vars
  <2>2. \A p \in Phases : Pending(p)' <=> Pending(p)
    BY <2>1 DEF Pending
  <2>3. QED
    BY <1>3, <2>1, <2>2 DEF Checks
<1>10. QED
  BY <1>1, <1>2, <1>4, <1>5, <1>6, <1>8, <1>9, <1>7 DEF Next

\* One undisturbed health check leaves both watched containers running, and the
\* rebuilds between it and the next one take neither down (agent.go:1086-1108).
THEOREM OneCheckHeals == Spec => []HealedByCheck
<1>1. Init => Checks
  BY DEF Init, Checks
<1>2. Checks => HealedByCheck
  BY DEF Checks, HealedByCheck, AppUp, TraefikUp, HealthChecks
<1>3. QED
  BY <1>1, <1>2, StepChecks, Invariant, PTL DEF Spec

-----------------------------------------------------------------------------
(* Nothing flaps.                                                          *)

LEMMA InfrastructureIsPhases == {Infrastructure[i] : i \in 1..6} = Phases
BY DEF Infrastructure, Phases

(* A call of RunContainer for what is converged touches nothing.           *)
LEMMA ConvergedUntouched ==
  ASSUME NEW n \in Names, Converged(n), Reaches(n)
  PROVE  Untouched
BY DEF Reaches

(* The calls of the rebuilds and of the health check, once all is settled. *)
LEMMA SettledUntouched ==
  ASSUME config # {}, calm, calm', Halfway, writing' = {}, \A p \in Phases : Settled(p),
         \/ EnsureApp \/ CheckApp
         \/ writing = {} /\ (EnsureBackupBot \/ CheckTraefik)
  PROVE  UNCHANGED <<backend, engine, Written>>
<1>1. /\ AppHere => Converged("app")
      /\ BackupBotHere => Converged("backupbot")
      /\ Enabled("app") => Converged("traefik")
  BY DEF Settled, Phases
<1>2. writing = {} /\ Nothing => UNCHANGED <<backend, engine, Written>>
  BY DEF Nothing, Untouched, files, engine, Written
<1>3. \A n \in Names : RunContainer(n) => Reaches(n) /\ UNCHANGED network
  BY DEF RunContainer, Event
<1>4. {"app", "backupbot"} \subseteq Names
  BY DEF Names, Services
<1>5. EnsureApp => UNCHANGED <<backend, engine, Written>>
  <2>1. ASSUME writing # {}, appFile' = writing, RunContainer("app"), UNCHANGED backend
        PROVE  UNCHANGED <<backend, engine, Written>>
    <3>1. AppHere
      BY <2>1 DEF Halfway
    <3>2. Untouched /\ UNCHANGED network
      BY <1>1, <1>3, <1>4, <2>1, <3>1, ConvergedUntouched
    <3>3. QED
      BY <2>1, <3>2 DEF Untouched, engine, Written
  <2>2. QED
    BY <1>2, <2>1 DEF EnsureApp, Refused, Event, Skip
<1>6. writing = {} /\ EnsureBackupBot => UNCHANGED <<backend, engine, Written>>
  <2>1. ASSUME writing = {}, BackupBotHere, RunContainer("backupbot"), UNCHANGED files
        PROVE  UNCHANGED <<backend, engine, Written>>
    <3>1. Untouched /\ UNCHANGED network
      BY <1>1, <1>3, <1>4, <2>1, ConvergedUntouched
    <3>2. QED
      BY <2>1, <3>1 DEF Untouched, files, engine, Written
  <2>2. QED
    BY <1>2, <2>1 DEF EnsureBackupBot, Skip
<1>7. writing = {} /\ CheckTraefik => UNCHANGED <<backend, engine, Written>>
  BY <1>1, <1>2 DEF CheckTraefik, NeedsRecovery, Converged, Refused, Event, Skip
<1>8. CheckApp => UNCHANGED <<backend, engine, Written>>
  BY <1>2, <1>5 DEF CheckApp, Refused, Event, Skip
<1>9. QED
  BY <1>5, <1>6, <1>7, <1>8

\* After an undisturbed pass rebuilds and health checks touch no container, and
\* write again what was written (agent.go:166-188).
THEOREM NothingFlaps == Spec => QuietOnceSettled
<1> DEFINE Idle == calm /\ calm' /\ (todo = <<>> \/ Head(todo) \notin {Infrastructure[i] : i \in 1..6})
<1>1. IInv /\ [Next]_vars => [Idle => UNCHANGED <<backend, engine, Written>>]_vars
  <2> SUFFICES ASSUME IInv, Next, Idle
               PROVE  UNCHANGED <<backend, engine, Written>>
    OBVIOUS
  <2>1. CASE \E c \in Configs : Boot(c) \/ Reload(c)
    BY <2>1 DEF Boot, Reload, Apply, files, Written
  <2>2. CASE BootUnconfigured \/ AppConfigChanged \/ BackupConfigChanged \/ HealthTick
    BY <2>2 DEF BootUnconfigured, AppConfigChanged, BackupConfigChanged, HealthTick, Case,
       call, files, Written
  <2>3. CASE NetworkFails \/ Crash \/ Outside
    BY <2>3 DEF NetworkFails, Crash, Outside, Exit, Remove, PolicyRestart, RemoveNetwork,
                EditPulse, ClusterChange, Event
  <2>4. CASE OpenAppFile \/ Ensure
    <3>1. todo # <<>> /\ Head(todo) \notin Phases
      BY <2>4, InfrastructureIsPhases DEF OpenAppFile, ForApp, Ensure, Step
    <3>2. config # {}
      BY <3>1 DEF IInv, Shape
    <3>3. \A p \in Phases : Settled(p)
      BY <3>1, <3>2, Order DEF IInv, Shape, Progress
    <3>4. ASSUME Ensure
          PROVE  UNCHANGED <<backend, engine, Written>>
      <4>1. /\ writing' = {}
            /\ \/ EnsureApp \/ CheckApp
               \/ writing = {} /\ (EnsureBackupBot \/ CheckTraefik)
        BY <3>1, <3>4 DEF Ensure, Step, Phases, IInv, Halfway
      <4>2. QED
        BY <3>2, <3>3, <4>1, SettledUntouched DEF IInv
    <3>5. ASSUME OpenAppFile
          PROVE  UNCHANGED <<backend, engine, Written>>
      <4>1. Written = {Merged} /\ Written' = {Merged}
        BY <3>3, <3>5 DEF OpenAppFile, Settled, Phases, Written
      <4>2. QED
        BY <3>5, <4>1 DEF OpenAppFile
    <3>6. QED
      BY <2>4, <3>4, <3>5
  <2>5. QED
    BY <2>1, <2>2, <2>3, <2>4 DEF Next
<1>2. QED
  BY <1>1, Invariant, PTL DEF Spec, QuietOnceSettled

-----------------------------------------------------------------------------
(***************************************************************************)
(* RunContainer as Agent takes it, one step, against the whole call as     *)
(* ContainerClient has it, engine call by engine call: Outcome is what     *)
(* both speak of.                                                          *)
(***************************************************************************)

\* What a name holds with status s and options o.
Held(s, o) == IF s = "absent" THEN {} ELSE {[what |-> o, runs |-> s = "running"]}

Holding(n) == Held(status[n], opts[n])

\* Only a container that exists has options.
Blank == \A n \in Names : status[n] = "absent" <=> opts[n] = <<None, None>>

\* No container but n changes, and an app that is started anew reads its file.
Alone(n) ==
  /\ EngineOK'
  /\ status'[n] = "absent" <=> opts'[n] = <<None, None>>
  /\ \A m \in Names \ {n} : status'[m] = status[m] /\ opts'[m] = opts[m]
  /\ IF n = "app" /\ status'[n] = "running" /\ Holding(n)' # Holding(n)
     THEN appRead' = appFile'
     ELSE UNCHANGED <<appRead, appIP>>

(* The five things a name can hold of two containers.                      *)
LEMMA HeldCases ==
  ASSUME NEW o
  PROVE  /\ Held("absent", o) = {}
         /\ Held("exited", o) = Made(o, FALSE) /\ Held("running", o) = Made(o, TRUE)
         /\ Running({}) = {} /\ Stopped({}) = {}
         /\ \A r \in BOOLEAN : /\ Running(Made(o, r)) = Made(o, TRUE)
                               /\ Stopped(Made(o, r)) = Made(o, FALSE)
                               /\ Made(o, r) # {}
<1>1. ("exited" = "running") = FALSE /\ ("running" = "running") = TRUE
  OBVIOUS
<1>2. Held("exited", o) = Made(o, FALSE) /\ Held("running", o) = Made(o, TRUE)
  BY <1>1 DEF Held, Made
<1>3. Held("absent", o) = {} /\ Running({}) = {} /\ Stopped({}) = {}
  BY DEF Held, Running, Stopped
<1>4. ASSUME NEW r \in BOOLEAN
      PROVE  /\ Running(Made(o, r)) = Made(o, TRUE)
             /\ Stopped(Made(o, r)) = Made(o, FALSE)
             /\ Made(o, r) # {}
  BY DEF Running, Stopped, Made
<1>5. QED
  BY <1>2, <1>3, <1>4

(* They tell containers apart.                                             *)
LEMMA MadeApart ==
  ASSUME NEW o, NEW p, NEW r \in BOOLEAN, NEW q \in BOOLEAN, Made(o, r) = Made(p, q)
  PROVE  o = p /\ r = q
<1>1. [what |-> o, runs |-> r] = [what |-> p, runs |-> q]
  BY DEF Made
<1>2. QED
  BY <1>1

LEMMA HeldApart ==
  ASSUME NEW s \in Statuses, NEW t \in Statuses, NEW o, NEW p, Held(s, o) = Held(t, p)
  PROVE  s = t /\ (s = "absent" \/ o = p)
<1>1. s = "absent" <=> t = "absent"
  BY HeldCases DEF Statuses
<1>2. ASSUME s # "absent", t # "absent"
      PROVE  s = t /\ o = p
  <2>1. Made(o, s = "running") = Made(p, t = "running")
    BY <1>2 DEF Held, Made
  <2>2. (s = "running") \in BOOLEAN /\ (t = "running") \in BOOLEAN
    OBVIOUS
  <2>3. o = p /\ ((s = "running") = (t = "running"))
    BY <2>1, <2>2, MadeApart
  <2>4. QED
    BY <1>2, <2>3 DEF Statuses
<1>3. QED
  BY <1>1, <1>2

(* A container that changes changes alone.                                 *)
LEMMA BecomesAlone ==
  ASSUME TypeOK, NEW n \in Names, NEW s \in Statuses, NEW o \in OptSet,
         appFile' \in SUBSET AppFile, Becomes(n, s, o),
         s = "absent" <=> o = <<None, None>>,
         n = "app" /\ s = "running" => Held(s, o) # Holding(n)
  PROVE  Alone(n) /\ Holding(n)' = Held(s, o)
<1>1. Touches(n) /\ status'[n] = s /\ opts'[n] = o
  BY BecomesTouches
<1>2. Holding(n)' = Held(s, o)
  BY <1>1 DEF Holding
<1>3. IF n = "app" /\ status'[n] = "running" /\ Holding(n)' # Holding(n)
      THEN appRead' = appFile'
      ELSE UNCHANGED <<appRead, appIP>>
  BY <1>1, <1>2 DEF Becomes
<1>4. QED
  BY <1>1, <1>2, <1>3 DEF Alone, Touches

(* And the other way round.                                                *)
LEMMA AloneBecomes ==
  ASSUME TypeOK, NEW n \in Names, NEW s \in Statuses, NEW o \in OptSet, Alone(n),
         Holding(n)' = Held(s, o), s = "absent" => o = <<None, None>>,
         n = "app" /\ s = "running" => Held(s, o) # Holding(n)
  PROVE  Becomes(n, s, o)
<1>1. status'[n] \in Statuses
  BY DEF Alone, EngineOK
<1>2. status'[n] = s /\ opts'[n] = o
  BY <1>1, HeldApart DEF Holding, Alone
<1>3. /\ status' \in [Names -> Statuses] /\ opts' \in [Names -> OptSet]
      /\ status \in [Names -> Statuses] /\ opts \in [Names -> OptSet]
  BY DEF Alone, EngineOK, TypeOK, Statuses, OptSet
<1>4. status' = [status EXCEPT ![n] = s] /\ opts' = [opts EXCEPT ![n] = o]
  BY <1>2, <1>3 DEF Alone
<1>5. \/ n = "app" /\ s = "running" /\ appRead' = appFile' /\ appIP' \in Addresses
      \/ ~(n = "app" /\ s = "running") /\ UNCHANGED <<appRead, appIP>>
  BY <1>2 DEF Alone, EngineOK
<1>6. QED
  BY <1>4, <1>5 DEF Becomes

(* What holds the same as before was not touched.                          *)
LEMMA AloneUntouched ==
  ASSUME TypeOK, Blank, NEW n \in Names, Alone(n), Holding(n)' = Holding(n)
  PROVE  Untouched
<1>1. /\ status' \in [Names -> Statuses] /\ opts' \in [Names -> OptSet]
      /\ status \in [Names -> Statuses] /\ opts \in [Names -> OptSet]
  BY DEF Alone, EngineOK, TypeOK, Statuses, OptSet
<1>2. status'[n] = status[n] /\ (status[n] = "absent" \/ opts'[n] = opts[n])
  BY <1>1, HeldApart DEF Holding
<1>3. opts'[n] = opts[n]
  BY <1>2 DEF Alone, Blank
<1>4. status' = status /\ opts' = opts
  BY <1>1, <1>2, <1>3 DEF Alone
<1>5. QED
  BY <1>4 DEF Alone, Untouched

LEMMA UntouchedAlone ==
  ASSUME TypeOK, Blank, NEW n \in Names, Untouched
  PROVE  Alone(n) /\ Holding(n)' = Holding(n)
BY DEF TypeOK, Blank, Untouched, Alone, EngineOK, Statuses, OptSet, Holding

(* The outcomes, as Agent names them.                                      *)
LEMMA OutcomesHere ==
  ASSUME TypeOK, Blank, config # {}, NEW n \in Names
  PROVE  /\ Wanted(n) \in OptSet /\ Wanted(n) # <<None, None>> /\ opts[n] \in OptSet
         /\ status[n] = "absent" => Differs(n)
         /\ Served(Holding(n), ~Differs(n), Wanted(n)) = Held("running", Wanted(n))
         /\ Outcomes(Holding(n), ~Differs(n), Wanted(n)) =
              {Holding(n), Held("running", Wanted(n))} \cup
              (IF Differs(n)
               THEN {Stopped(Holding(n)), {}, Held("exited", Wanted(n))} ELSE {})
         /\ status[n] = "absent" => Holding(n) = {} /\ Stopped(Holding(n)) = {}
         /\ status[n] # "absent" => Stopped(Holding(n)) = Held("exited", opts[n])
         /\ Converged(n) <=> Holding(n) = Held("running", Wanted(n))
<1>1. Wanted(n) \in (Images \cup {"default", None}) \X {"plain", "replica"}
  BY ConfigTypes
<1>2. Wanted(n) \in OptSet /\ Wanted(n) # <<None, None>>
  BY <1>1 DEF OptSet, None
<1>3. opts[n] \in OptSet /\ status[n] \in Statuses
  BY DEF TypeOK, OptSet, Statuses
<1>4. status[n] = "absent" => Differs(n)
  BY <1>2 DEF Blank, Differs
<1>5. status[n] = "absent" => Holding(n) = {} /\ Stopped(Holding(n)) = {}
  BY HeldCases DEF Holding
<1>6. status[n] # "absent" => /\ Stopped(Holding(n)) = Held("exited", opts[n])
                              /\ Running(Holding(n)) = Held("running", opts[n])
  BY <1>3, HeldCases DEF Holding, Statuses
<1>7. Served(Holding(n), ~Differs(n), Wanted(n)) = Held("running", Wanted(n))
  BY <1>4, <1>6, HeldCases DEF Served, Differs
<1>8. Outcomes(Holding(n), ~Differs(n), Wanted(n)) =
        {Holding(n), Held("running", Wanted(n))} \cup
        (IF Differs(n) THEN {Stopped(Holding(n)), {}, Held("exited", Wanted(n))} ELSE {})
  BY <1>7, HeldCases DEF Outcomes
<1>9. Converged(n) <=> Holding(n) = Held("running", Wanted(n))
  <2>1. ASSUME Holding(n) = Held("running", Wanted(n))
        PROVE  Converged(n)
    BY <1>3, <2>1, HeldApart DEF Holding, Converged, Differs, Statuses
  <2>2. QED
    BY <2>1 DEF Holding, Converged, Differs
<1>10. QED
  BY <1>2, <1>3, <1>4, <1>5, <1>6, <1>7, <1>8, <1>9

\* The two ways Agent lets a call of RunContainer end are the outcomes that
\* ContainerClient's calls have, no more and no fewer, and without a fault it
\* is that of success for every container that can start.
THEOREM RunsAsPromised ==
  ASSUME TypeOK, Blank, config # {}, NEW n \in Names, appFile' \in SUBSET AppFile
  PROVE  LET served == Served(Holding(n), ~Differs(n), Wanted(n))
             out    == Outcomes(Holding(n), ~Differs(n), Wanted(n))
         IN  /\ Reaches(n) \/ Fails(n) => Alone(n) /\ Holding(n)' \in out
             /\ Alone(n) /\ Holding(n)' \in out /\ (Startable(n) \/ Holding(n)' # served)
                  => Reaches(n) \/ Fails(n)
             /\ Startable(n) => (Reaches(n) <=> Alone(n) /\ Holding(n)' = served)
<1> DEFINE out == Outcomes(Holding(n), ~Differs(n), Wanted(n))
           there == Held("running", Wanted(n))
<1>1. /\ Wanted(n) \in OptSet /\ Wanted(n) # <<None, None>>
      /\ opts[n] \in OptSet /\ <<None, None>> \in OptSet
      /\ (status[n] = "absent" <=> opts[n] = <<None, None>>)
  BY OutcomesHere DEF Blank, OptSet
<1>2. Converged(n) <=> Holding(n) = there
  BY OutcomesHere
<1>3. Gone(n) => Alone(n) /\ Holding(n)' = {}
  BY <1>1, BecomesAlone, HeldCases DEF Gone, Statuses
<1>4. Becomes(n, "exited", Wanted(n)) => Alone(n) /\ Holding(n)' = Held("exited", Wanted(n))
  BY <1>1, BecomesAlone DEF Statuses
<1>5. status[n] # "absent" /\ Becomes(n, "exited", opts[n])
        => Alone(n) /\ Holding(n)' = Stopped(Holding(n))
  BY <1>1, BecomesAlone, OutcomesHere DEF Statuses
<1>6. ~Converged(n) /\ Becomes(n, "running", Wanted(n)) => Alone(n) /\ Holding(n)' = there
  BY <1>1, <1>2, BecomesAlone DEF Statuses
<1>7. Untouched => Alone(n) /\ Holding(n)' = Holding(n)
  BY UntouchedAlone
<1>8. Reaches(n) \/ Fails(n) => Alone(n) /\ Holding(n)' \in out
  <2>1. Reaches(n) => Alone(n) /\ Holding(n)' \in out
    BY <1>2, <1>3, <1>4, <1>6, <1>7, OutcomesHere DEF Reaches
  <2>2. Fails(n) => Alone(n) /\ Holding(n)' \in out
    <3>1. /\ Holding(n) \in out
          /\ Differs(n) => /\ {} \in out /\ Stopped(Holding(n)) \in out
                           /\ Held("exited", Wanted(n)) \in out
      BY OutcomesHere
    <3>2. QED
      BY <1>3, <1>4, <1>5, <1>7, <3>1 DEF Fails
  <2>3. QED
    BY <2>1, <2>2
<1>9. Startable(n) /\ Reaches(n) => Alone(n) /\ Holding(n)' = there
  BY <1>2, <1>6, <1>7 DEF Reaches
<1>10. Alone(n) /\ Holding(n)' = Holding(n) => Untouched
  BY AloneUntouched
<1>11. Alone(n) /\ Holding(n)' = there /\ Startable(n) => Reaches(n)
  <2> SUFFICES ASSUME Alone(n), Holding(n)' = there, Startable(n)
               PROVE  Reaches(n)
    OBVIOUS
  <2>1. CASE Converged(n)
    BY <1>2, <1>10, <2>1 DEF Reaches
  <2>2. CASE ~Converged(n)
    <3>1. Becomes(n, "running", Wanted(n))
      BY <1>1, <1>2, <2>2, AloneBecomes DEF Statuses
    <3>2. QED
      BY <2>2, <3>1 DEF Reaches
  <2>3. QED
    BY <2>1, <2>2
<1>12. Alone(n) /\ Holding(n)' \in out /\ Holding(n)' # there => Fails(n)
  <2> SUFFICES ASSUME Alone(n), Holding(n)' \in out, Holding(n)' # there, Holding(n)' # Holding(n)
               PROVE  Fails(n)
    BY <1>10 DEF Fails
  <2>1. Differs(n) /\ Holding(n)' \in {Stopped(Holding(n)), {}, Held("exited", Wanted(n))}
    BY OutcomesHere
  <2>2. CASE Holding(n)' = {}
    <3>1. Becomes(n, "absent", <<None, None>>)
      BY <1>1, <2>2, AloneBecomes, HeldCases DEF Statuses
    <3>2. QED
      BY <2>1, <3>1 DEF Fails, Gone
  <2>3. CASE Holding(n)' = Held("exited", Wanted(n))
    <3>1. Becomes(n, "exited", Wanted(n))
      BY <1>1, <2>3, AloneBecomes DEF Statuses
    <3>2. QED
      BY <2>1, <3>1 DEF Fails
  <2>4. CASE Holding(n)' = Stopped(Holding(n))
    <3>1. status[n] # "absent" /\ Holding(n)' = Held("exited", opts[n])
      BY <2>4, OutcomesHere
    <3>2. Becomes(n, "exited", opts[n])
      BY <1>1, <3>1, AloneBecomes DEF Statuses
    <3>3. QED
      BY <2>1, <3>1, <3>2 DEF Fails
  <2>5. QED
    BY <2>1, <2>2, <2>3, <2>4
<1>13. Served(Holding(n), ~Differs(n), Wanted(n)) = there
  BY OutcomesHere
<1>14. QED
  BY <1>8, <1>9, <1>11, <1>12, <1>13

(* A call of RunContainer keeps the options with their containers.         *)
LEMMA RunBlank ==
  ASSUME TypeOK, Blank, config # {}, NEW n \in Names, appFile' \in SUBSET AppFile,
         Reaches(n) \/ Fails(n)
  PROVE  Blank'
<1>1. Alone(n)
  BY RunsAsPromised
<1>2. QED
  BY <1>1 DEF Alone, Blank

LEMMA EnsureBlank ==
  ASSUME IInv, Blank, config # {},
         \/ EnsureNetwork \/ EnsureValkey \/ EnsurePostgres \/ EnsureApp
         \/ EnsureTraefik \/ EnsureBackupBot \/ CheckApp \/ CheckTraefik
  PROVE  Blank'
<1>1. appFile' \in SUBSET AppFile
  BY EnsureResult DEF Result, IInv, Safe
<1>2. Untouched => Blank'
  BY DEF Untouched, Blank
<1>3. ASSUME NEW n \in Names, Reaches(n) \/ Fails(n)
      PROVE  Blank'
  BY <1>1, <1>3, RunBlank DEF IInv
<1>4. {"valkey", "postgres", "app", "traefik", "backupbot"} \subseteq Names
  BY DEF Names, Services
<1>5. QED
  BY <1>2, <1>3, <1>4 DEF EnsureNetwork, EnsureValkey, EnsurePostgres, EnsureApp,
     EnsureTraefik, EnsureBackupBot, CheckApp, CheckTraefik, RunContainer, Skip, Refused, Nothing

LEMMA StepBlank == IInv /\ Blank /\ [Next]_vars => Blank'
<1> SUFFICES ASSUME IInv, Blank, [Next]_vars
             PROVE  Blank'
  OBVIOUS
<1>1. CASE Ensure
  <2>1. config # {}
    BY <1>1 DEF Ensure, Step, IInv, Shape
  <2>2. QED
    BY <1>1, <2>1, EnsureBlank DEF Ensure, Step
<1>2. ASSUME NEW n \in Names, Exit(n) \/ Remove(n) \/ PolicyRestart(n)
      PROVE  Blank'
  <2>1. \/ status[n] # "absent" /\ \E s \in {"exited", "running"} : Becomes(n, s, opts[n])
        \/ Becomes(n, "absent", <<None, None>>)
    BY <1>2 DEF Exit, Remove, PolicyRestart, Gone
  <2>2. status \in [Names -> Statuses] /\ opts \in [Names -> OptSet]
    BY DEF IInv, TypeOK, Statuses, OptSet
  <2>3. QED
    BY <2>1, <2>2 DEF Becomes, Blank
<1>3. CASE UNCHANGED <<status, opts>>
  BY <1>3 DEF Blank
<1>4. QED
  BY <1>1, <1>2, <1>3 DEF Next, Boot, Reload, Apply, BootUnconfigured, AppConfigChanged,
     BackupConfigChanged, HealthTick, Case, OpenAppFile, NetworkFails, Crash, Outside, RemoveNetwork,
     EditPulse, ClusterChange, Untouched, engine, vars

\* What RunsAsPromised assumes holds in every state of every behaviour.
THEOREM PromisedAlways == Spec => [](TypeOK /\ Blank)
<1>1. Init => Blank
  BY DEF Init, Blank
<1>2. IInv => TypeOK
  BY DEF IInv
<1>3. QED
  BY <1>1, <1>2, StepBlank, Invariant, PTL DEF Spec
==============================================================================
