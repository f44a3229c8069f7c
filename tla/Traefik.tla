-------------------------------- MODULE Traefik --------------------------------
(***************************************************************************)
(* ensureTraefik of internal/agent/agent.go, write by write: the static    *)
(* configuration, which Traefik reads when it starts, the dynamic one,     *)
(* which it watches, acme.json, which it refuses to start without, and the *)
(* container.  All three files are rewritten in place while Traefik runs   *)
(* on them; writes fail, the agent dies between any two, and the engine    *)
(* starts Traefik again whenever it likes.                                 *)
(*                                                                         *)
(* A file is what was put into it: the ACME address the static one names,  *)
(* the domain and the use of the resolver in the dynamic one.  Which       *)
(* address the app has is Agent's.                                         *)
(***************************************************************************)
EXTENDS Naturals

CONSTANTS
  Domains,
  Emails,    \* ACME addresses a configuration may give
  Images,
  MaxEvents  \* bound on failures, deaths, reloads and outside changes

Without == "without"  \* no ACME address: the static file then has no resolver
Empty   == "empty"    \* of a file: truncated and not written yet
Absent  == "absent"

Settings == [domain: Domains, email: Emails \cup {Without}, image: Images]

ASSUME TraefikAssumption ==
  /\ {Without, Empty, Absent} \cap (Emails \cup Domains \cup Images) = {}
  /\ MaxEvents \in Nat

VARIABLES
  \* The agent
  config,   \* a.Config: {} for nil, else {settings}
  apc,      \* where ensureTraefik is, or "down", "loop"
  \* The files
  static,   \* traefik.yml
  dynamic,  \* dynamic.yml: [domain, resolver]
  acme,     \* acme.json: Absent, "file" or "directory"
  \* The container
  image,    \* what it was created from, or Absent
  running,
  read,     \* the static configuration Traefik started with
  routes,   \* the dynamic configuration it has loaded
  events,   \* counts events, up to MaxEvents
  \* History variables
  unmade,   \* acme.json once could not be written
  failed    \* a write of the last pass failed

agent     == <<config, apc>>
files     == <<static, dynamic, acme>>
container == <<image, running, read, routes>>
history   == <<unmade, failed>>
vars == <<config, apc, static, dynamic, acme, image, running, read, routes, events,
          unmade, failed>>

Dynamic == [domain: Domains \cup {Empty, Absent}, resolver: BOOLEAN]
Passes  == {"static", "write_static", "dynamic", "write_dynamic", "acme", "run"}

TypeOK ==
  /\ config \in {{}} \cup {{c} : c \in Settings}
  /\ apc \in Passes \cup {"down", "loop"}
  /\ static \in Emails \cup {Without, Empty, Absent}
  /\ dynamic \in Dynamic
  /\ acme \in {Absent, "file", "directory"}
  /\ image \in Images \cup {Absent}
  /\ running \in BOOLEAN
  /\ read \in Emails \cup {Without, Empty, Absent}
  /\ routes \in Dynamic
  /\ events \in 0..MaxEvents
  /\ unmade \in BOOLEAN /\ failed \in BOOLEAN
  /\ running => image # Absent

Blank(state) == [domain |-> state, resolver |-> FALSE]

Init ==
  /\ config = {} /\ apc = "down"
  /\ static = Absent /\ dynamic = Blank(Absent) /\ acme = Absent
  /\ image = Absent /\ running = FALSE /\ read = Absent /\ routes = Blank(Absent)
  /\ events = 0
  /\ unmade = FALSE /\ failed = FALSE

Event == events < MaxEvents /\ events' = events + 1

-----------------------------------------------------------------------------
(* What is generated.                                                      *)

\* generateTraefikStaticConfig: a resolver if there is an address for it.
StaticConfig(c) == c.email

\* generateTraefikDynamicConfig: the routers use the resolver, or a default
\* certificate is generated.
DynamicConfig(c) == [domain |-> c.domain, resolver |-> c.email # Without]

\* Both files are as c calls for.
Generated(c) == static = StaticConfig(c) /\ dynamic = DynamicConfig(c)

-----------------------------------------------------------------------------
(* Agent.Run.                                                              *)

\* applyConfig comes to Traefik.
Apply(c) ==
  /\ config' = {c} /\ apc' = "static" /\ failed' = FALSE
  /\ UNCHANGED <<files, container, unmade>>

Boot(c)   == apc = "down" /\ Apply(c) /\ UNCHANGED events
Reload(c) == apc = "loop" /\ config # {c} /\ Event /\ Apply(c)

\* Mutant: IsRunning reports a missing container as an error.
HealthCheckMissingIsError ==
  /\ apc = "loop" /\ ~running /\ image # Absent
  /\ apc' = "static" /\ failed' = FALSE
  /\ UNCHANGED <<config, files, container, events, unmade>>

\* runHealthChecks finds Traefik stopped, or not there.
HealthCheck ==
  /\ apc = "loop" /\ ~running
  /\ apc' = "static" /\ failed' = FALSE
  /\ UNCHANGED <<config, files, container, events, unmade>>

\* The process ends.
Crash ==
  /\ apc # "down" /\ Event
  /\ config' = {} /\ apc' = "down"
  /\ UNCHANGED <<files, container, history>>

-----------------------------------------------------------------------------
(* ensureTraefik.                                                          *)

Goto(step) == apc' = step /\ UNCHANGED <<config, container>>

\* A write of either configuration fails: ensureTraefik returns the error.
WriteFails ==
  /\ Event /\ Goto("loop")
  /\ failed' = TRUE
  /\ UNCHANGED <<files, unmade>>

\* Mutant: a static file that is there is not generated again.
StaticOpenOnce ==
  /\ apc = "static"
  /\ static' = (IF static = Absent THEN Empty ELSE static)
  /\ Goto(IF static = Absent THEN "write_static" ELSE "dynamic")
  /\ UNCHANGED <<dynamic, acme, events, history>>

\* WriteFile opens a file, which empties it, and writes it, for the one ...
StaticOpen ==
  /\ apc = "static"
  /\ \/ /\ static' = Empty /\ Goto("write_static")
        /\ UNCHANGED <<dynamic, acme, events, history>>
     \/ WriteFails

StaticWrite ==
  /\ apc = "write_static"
  /\ \/ /\ \E c \in config : static' = StaticConfig(c)
        /\ Goto("dynamic")
        /\ UNCHANGED <<dynamic, acme, events, history>>
     \/ WriteFails

\* ... and for the other.
DynamicOpen ==
  /\ apc = "dynamic"
  /\ \/ /\ dynamic' = Blank(Empty) /\ Goto("write_dynamic")
        /\ UNCHANGED <<static, acme, events, history>>
     \/ WriteFails

\* Mutant: what is there is not written again.
DynamicWriteOnce ==
  /\ apc = "write_dynamic"
  /\ \E c \in config : dynamic' = IF image = Absent THEN DynamicConfig(c) ELSE routes
  /\ Goto("acme")
  /\ UNCHANGED <<static, acme, events, history>>

DynamicWrite ==
  /\ apc = "write_dynamic"
  /\ \/ /\ \E c \in config : dynamic' = DynamicConfig(c)
        /\ Goto("acme")
        /\ UNCHANGED <<static, acme, events, history>>
     \/ WriteFails

\* Mutant: acme.json is left to Traefik.
NoACMEFile == apc = "acme" /\ Goto("run") /\ UNCHANGED <<files, events, history>>

\* ensureTraefikACMEFile: whatever has the name stays, and an error is logged.
ACMEFile ==
  /\ apc = "acme" /\ Goto("run")
  /\ \/ /\ acme' = IF acme = Absent THEN "file" ELSE acme
        /\ UNCHANGED <<events, history>>
     \/ /\ acme = Absent /\ Event
        /\ unmade' = TRUE /\ UNCHANGED <<acme, failed>>
  /\ UNCHANGED <<static, dynamic>>

\* Traefik starts.  It ends at once if acme.json is not a file, which the code
\* says of every Traefik, with a resolver that uses it or not (agent.go:825).
Starts ==
  /\ running' = (acme' = "file")
  /\ read' = static /\ routes' = dynamic

\* A container is created: a bind source that is missing becomes a directory.
Creates(c) ==
  /\ image' = c.image
  /\ acme' = IF acme = Absent THEN "directory" ELSE acme

\* Mutant: a container is removed without being stopped.
StopsNot == UNCHANGED <<running, read, routes>>

Stops == running' = FALSE /\ UNCHANGED <<read, routes>>

\* RunContainer, by ContainerClient: it reaches what is asked for, or a fault
\* leaves the container untouched, stopped, removed, or created and not started.
Run ==
  /\ apc = "run" /\ apc' = "loop"
  /\ \E c \in config :
       \/ /\ running /\ image = c.image
          /\ UNCHANGED <<acme, container, events>>
       \/ /\ ~running /\ image = c.image
          /\ UNCHANGED <<acme, image, events>> /\ Starts
       \/ /\ image # c.image
          /\ Creates(c) /\ Starts /\ UNCHANGED events
       \/ /\ Event
          /\ \/ UNCHANGED <<acme, container>>
             \/ /\ image # c.image /\ Stops
                /\ \/ image' \in {image, Absent} /\ UNCHANGED acme
                   \/ Creates(c)
  /\ UNCHANGED <<config, static, dynamic, history>>

-----------------------------------------------------------------------------
(* Traefik and the engine (external).                                      *)

\* Traefik sees that the dynamic file has changed.
Watch ==
  /\ running /\ routes # dynamic
  /\ routes' = dynamic
  /\ UNCHANGED <<agent, files, image, running, read, events, history>>

Exit ==
  /\ running /\ Event
  /\ Stops
  /\ UNCHANGED <<agent, files, image, history>>

\* RestartPolicyAlways, for a Traefik that stopped or stops now.
PolicyRestart ==
  /\ image # Absent
  /\ \/ ~running /\ UNCHANGED events
     \/ running /\ Event
  /\ UNCHANGED <<agent, files, image, history>>
  /\ Starts

Remove ==
  /\ image # Absent /\ Event
  /\ image' = Absent /\ Stops
  /\ UNCHANGED <<agent, files, history>>

-----------------------------------------------------------------------------
Ensure == StaticOpen \/ StaticWrite \/ DynamicOpen \/ DynamicWrite \/ ACMEFile \/ Run

Next == \/ \E c \in Settings : Boot(c) \/ Reload(c)
        \/ HealthCheck \/ Crash
        \/ Ensure
        \/ Watch \/ Exit \/ PolicyRestart \/ Remove

Spec == Init /\ [][Next]_vars

\* systemd starts the agent, its calls end, the health ticker fires, Traefik
\* watches its file.  The engine owes nothing.
Fairness == /\ WF_vars(\E c \in Settings : Boot(c))
            /\ WF_vars(Ensure) /\ WF_vars(HealthCheck) /\ WF_vars(Watch)

FairSpec == Spec /\ Fairness

-----------------------------------------------------------------------------
(* Safety properties.                                                      *)

\* When the agent itself starts or creates Traefik, both configurations are
\* whole and of the same version, the one in force: no failure or death leads
\* to a start over a file of another version (agent.go:789-794).  Only the
\* engine's own restart can fall into a write.
StartedOnWhatIsConfigured ==
  [][ apc = "run" /\ apc' = "loop" /\ running' /\ (~running \/ image' # image)
        => \A c \in config : Generated(c) /\ read' = c.email /\ image' = c.image ]_vars

\* acme.json, once a directory, keeps Traefik from starting for good, since it
\* passes for existing ever after.  That takes a failure to write it just when
\* it is first needed (agent.go:795-797, 826-832), and nothing else.
AcmeIsFileUnlessUnmade == image # Absent /\ ~unmade => acme = "file"

\* After a pass without a failed write both files are as configured, though
\* any earlier pass failed, or died, between or within its writes.
WrittenUnlessFailed == apc = "loop" /\ ~failed => \A c \in config : Generated(c)

(* Liveness, under FairSpec.                                               *)

\* Traefik comes back in the end, after any failure, death, exit or removal,
\* unless acme.json has become a directory (agent.go:1081-1109).
ComesBack == <>[](acme # "directory") => []<>running

\* A domain that stays configured is routed in the end, without a restart of
\* Traefik, unless the write of its last pass failed: nothing tries that again
\* while Traefik runs (agent.go:792, 1100).
DomainRouted ==
  \A c \in Settings :
    <>[](config = {c} /\ ~failed /\ running) => <>[](routes.domain = c.domain)
==============================================================================
