---------------------------- MODULE Traefik_proofs ----------------------------
(***************************************************************************)
(* What Traefik promises for all settings and any number of failures,      *)
(* deaths, reloads and restarts by the engine.                             *)
(***************************************************************************)
EXTENDS Traefik, Outcome, TLAPS

StaticDone  == \A c \in config : static = StaticConfig(c)
DynamicDone == \A c \in config : dynamic = DynamicConfig(c)

\* What each point of ensureTraefik has behind it.
Progress ==
  /\ apc \in {"dynamic", "write_dynamic", "acme", "run"} => StaticDone
  /\ apc \in {"acme", "run"} => DynamicDone
  /\ apc = "loop" /\ ~failed => StaticDone /\ DynamicDone

\* acme.json becomes a directory only where it could not be written.
AcmeUsable ==
  ~unmade => /\ acme # "directory"
             /\ apc = "run" \/ image # Absent => acme = "file"

IInv == TypeOK /\ Progress /\ AcmeUsable

-----------------------------------------------------------------------------
LEMMA EventBounded == events \in 0..MaxEvents /\ Event => events' \in 0..MaxEvents
  BY TraefikAssumption DEF Event

LEMMA GeneratedTypes ==
  ASSUME NEW c \in Settings
  PROVE  StaticConfig(c) \in Emails \cup {Without} /\ DynamicConfig(c) \in Dynamic
  BY DEF StaticConfig, DynamicConfig, Settings, Dynamic

LEMMA BlankTypes == Blank(Absent) \in Dynamic /\ Blank(Empty) \in Dynamic
  BY DEF Blank, Dynamic

LEMMA InitIInv == Init => IInv
<1> SUFFICES ASSUME Init PROVE IInv
  OBVIOUS
<1>1. TypeOK
  <2>1. events \in 0..MaxEvents
    BY TraefikAssumption DEF Init
  <2>2. config \in {{}} \cup {{c} : c \in Settings}
    BY DEF Init
  <2>3. running \in BOOLEAN /\ unmade \in BOOLEAN /\ failed \in BOOLEAN /\ ~running
    BY DEF Init
  <2>4. apc \in Passes \cup {"down", "loop"} /\ acme \in {Absent, "file", "directory"}
    BY DEF Init
  <2>5. /\ static \in Emails \cup {Without, Empty, Absent}
        /\ read \in Emails \cup {Without, Empty, Absent}
        /\ image \in Images \cup {Absent}
    BY DEF Init
  <2>6. dynamic \in Dynamic /\ routes \in Dynamic
    BY BlankTypes DEF Init
  <2>7. QED
    BY <2>1, <2>2, <2>3, <2>4, <2>5, <2>6 DEF TypeOK
<1>2. Progress
  BY DEF Init, Progress
<1>3. AcmeUsable
  <2>1. acme # "directory" /\ ~(apc = "run" \/ image # Absent)
    BY DEF Init, Absent
  <2>2. QED
    BY <2>1 DEF AcmeUsable
<1>4. QED
  BY <1>1, <1>2, <1>3 DEF IInv

\* A write that fails leaves the files and the container as they were.
LEMMA WriteFailsIInv == IInv /\ WriteFails => IInv'
<1> SUFFICES ASSUME IInv, WriteFails PROVE IInv'
  OBVIOUS
<1>1. events' \in 0..MaxEvents
  BY EventBounded DEF WriteFails, IInv, TypeOK
<1>2. apc' = "loop" /\ failed' = TRUE /\ UNCHANGED <<config, container, files, unmade>>
  BY DEF WriteFails, Goto
<1>3. TypeOK'
  BY <1>1, <1>2 DEF IInv, TypeOK, files, container
<1>4. Progress' /\ AcmeUsable'
  BY <1>2 DEF IInv, Progress, AcmeUsable, files, container
<1>5. QED
  BY <1>3, <1>4 DEF IInv

\* The loop, and the process.
LEMMA LoopIInv ==
  ASSUME IInv,
         (\E c \in Settings : Boot(c) \/ Reload(c)) \/ HealthCheck \/ Crash
  PROVE  IInv'
<1>1. events' \in 0..MaxEvents
  BY EventBounded DEF Boot, Reload, HealthCheck, Crash, IInv, TypeOK
<1>2. CASE \E c \in Settings : Apply(c)
  <2>1. PICK c \in Settings : Apply(c)
    BY <1>2
  <2>2. config' = {c} /\ apc' = "static" /\ failed' = FALSE
        /\ UNCHANGED <<files, container, unmade>>
    BY <2>1 DEF Apply
  <2>3. TypeOK'
    BY <1>1, <2>2 DEF IInv, TypeOK, files, container, Passes
  <2>4. Progress' /\ AcmeUsable'
    BY <2>2 DEF IInv, Progress, AcmeUsable, files, container
  <2>5. QED
    BY <2>3, <2>4 DEF IInv
<1>3. CASE HealthCheck
  BY <1>1, <1>3 DEF HealthCheck, IInv, TypeOK, Progress, AcmeUsable, files, container, Passes
<1>4. CASE Crash
  BY <1>1, <1>4 DEF Crash, IInv, TypeOK, Progress, AcmeUsable, files, container, history
<1>5. QED
  BY <1>2, <1>3, <1>4 DEF Boot, Reload

\* The two writes of each configuration.
LEMMA WritesIInv ==
  ASSUME IInv, StaticOpen \/ StaticWrite \/ DynamicOpen \/ DynamicWrite
  PROVE  IInv'
<1> USE DEF IInv
<1>1. CASE WriteFails
  BY <1>1, WriteFailsIInv
<1>2. CASE apc = "static" /\ ~WriteFails
  <2>1. static' = Empty /\ apc' = "write_static"
        /\ UNCHANGED <<config, container, dynamic, acme, events, history>>
    BY <1>2 DEF StaticOpen, StaticWrite, DynamicOpen, DynamicWrite, Goto
  <2>2. TypeOK'
    BY <2>1 DEF TypeOK, container, history, Passes
  <2>3. Progress' /\ AcmeUsable'
    BY <1>2, <2>1 DEF Progress, AcmeUsable, container, history
  <2>4. QED
    BY <2>2, <2>3
<1>3. CASE apc = "write_static" /\ ~WriteFails
  <2>1. PICK c \in config : static' = StaticConfig(c)
    BY <1>3 DEF StaticOpen, StaticWrite, DynamicOpen, DynamicWrite
  <2>2. c \in Settings /\ config = {c}
    BY DEF TypeOK
  <2>3. apc' = "dynamic" /\ UNCHANGED <<config, container, dynamic, acme, events, history>>
    BY <1>3 DEF StaticOpen, StaticWrite, DynamicOpen, DynamicWrite, Goto
  <2>4. TypeOK'
    BY <2>1, <2>2, <2>3, GeneratedTypes DEF TypeOK, container, history, Passes
  <2>5. Progress'
    BY <2>1, <2>2, <2>3 DEF Progress, StaticDone, StaticConfig, history
  <2>6. AcmeUsable'
    BY <1>3, <2>3 DEF AcmeUsable, container, history
  <2>7. QED
    BY <2>4, <2>5, <2>6
<1>4. CASE apc = "dynamic" /\ ~WriteFails
  <2>1. dynamic' = Blank(Empty) /\ apc' = "write_dynamic"
        /\ UNCHANGED <<config, container, static, acme, events, history>>
    BY <1>4 DEF StaticOpen, StaticWrite, DynamicOpen, DynamicWrite, Goto
  <2>2. TypeOK'
    BY <2>1, BlankTypes DEF TypeOK, container, history, Passes
  <2>3. QED
    BY <1>4, <2>1, <2>2 DEF Progress, StaticDone, StaticConfig, AcmeUsable, container, history
<1>5. CASE apc = "write_dynamic" /\ ~WriteFails
  <2>1. PICK c \in config : dynamic' = DynamicConfig(c)
    BY <1>5 DEF StaticOpen, StaticWrite, DynamicOpen, DynamicWrite
  <2>2. c \in Settings /\ config = {c}
    BY DEF TypeOK
  <2>3. apc' = "acme" /\ UNCHANGED <<config, container, static, acme, events, history>>
    BY <1>5 DEF StaticOpen, StaticWrite, DynamicOpen, DynamicWrite, Goto
  <2>4. TypeOK'
    BY <2>1, <2>2, <2>3, GeneratedTypes DEF TypeOK, container, history, Passes
  <2>5. Progress'
    BY <1>5, <2>1, <2>2, <2>3 DEF Progress, StaticDone, DynamicDone, StaticConfig,
                                  DynamicConfig, history
  <2>6. AcmeUsable'
    BY <1>5, <2>3 DEF AcmeUsable, container, history
  <2>7. QED
    BY <2>4, <2>5, <2>6
<1>6. QED
  BY <1>1, <1>2, <1>3, <1>4, <1>5 DEF StaticOpen, StaticWrite, DynamicOpen, DynamicWrite

LEMMA ACMEFileIInv ==
  ASSUME IInv, ACMEFile
  PROVE  IInv'
<1>1. events' \in 0..MaxEvents
  BY EventBounded DEF ACMEFile, IInv, TypeOK
<1>2. /\ apc = "acme" /\ apc' = "run"
      /\ UNCHANGED <<config, container, static, dynamic, failed>>
      /\ \/ acme' = (IF acme = Absent THEN "file" ELSE acme) /\ unmade' = unmade
         \/ acme' = acme /\ unmade' = TRUE
  BY DEF ACMEFile, Goto, history
<1>3. TypeOK'
  BY <1>1, <1>2 DEF IInv, TypeOK, container, Passes
<1>4. Progress'
  BY <1>2 DEF IInv, Progress, StaticDone, DynamicDone, StaticConfig, DynamicConfig
<1>5. AcmeUsable'
  BY <1>2 DEF IInv, TypeOK, AcmeUsable, container
<1>6. QED
  BY <1>3, <1>4, <1>5 DEF IInv

\* Whatever comes of it, Run leaves the two configurations alone, and makes a
\* directory of acme.json only where it is missing.
LEMMA RunIInv ==
  ASSUME IInv, Run
  PROVE  IInv'
<1>1. PICK c \in config : 
       \/ /\ running /\ image = c.image
          /\ UNCHANGED <<acme, container, events>>
       \/ /\ ~running /\ image = c.image
          /\ UNCHANGED <<acme, image, events>> /\ Starts
       \/ /\ image # c.image
          /\ Creates(c) /\ Starts /\ UNCHANGED events
       \/ /\ Event
          /\ \/ UNCHANGED <<acme, container>>
             \/ /\ image # c.image /\ Stops
                /\ \/ image' \in {image, Absent} /\ UNCHANGED acme
                   \/ Creates(c)
  BY DEF Run
<1>2. apc = "run" /\ apc' = "loop" /\ UNCHANGED <<config, static, dynamic, history>>
  BY DEF Run
<1>3. c \in Settings
  BY DEF IInv, TypeOK
<1>4. c.image \in Images /\ c.image # Absent
  BY <1>3, TraefikAssumption DEF Settings
<1>5. events' \in 0..MaxEvents
  BY <1>1, EventBounded DEF IInv, TypeOK
<1>6. acme' = acme \/ (acme = Absent /\ acme' = "directory")
  BY <1>1 DEF Creates, container
<1>7. /\ image' \in Images \cup {Absent}
      /\ running' \in BOOLEAN
      /\ running' => image' # Absent
      /\ read' \in Emails \cup {Without, Empty, Absent}
      /\ routes' \in Dynamic
  <2>1. CASE UNCHANGED container
    BY <2>1 DEF container, IInv, TypeOK
  <2>2. CASE Starts /\ image' = c.image
    BY <1>4, <2>2 DEF Starts, IInv, TypeOK
  <2>3. CASE Stops /\ image' \in {image, Absent, c.image}
    BY <1>4, <2>3 DEF Stops, IInv, TypeOK
  <2>4. QED
    BY <1>1, <2>1, <2>2, <2>3 DEF Creates
<1>8. TypeOK'
  BY <1>2, <1>5, <1>6, <1>7 DEF IInv, TypeOK, history
<1>9. Progress'
  BY <1>2 DEF IInv, Progress, StaticDone, DynamicDone, StaticConfig, DynamicConfig, history
<1>10. AcmeUsable'
  <2>1. unmade' = unmade
    BY <1>2 DEF history
  <2>2. ~unmade => acme = "file"
    BY <1>2 DEF IInv, AcmeUsable
  <2>3. Absent # "file"
    BY DEF Absent
  <2>4. ~unmade => acme' = "file"
    BY <1>6, <2>2, <2>3
  <2>5. QED
    BY <2>1, <2>4 DEF AcmeUsable
<1>11. QED
  BY <1>8, <1>9, <1>10 DEF IInv

\* Traefik and the engine.
LEMMA EngineIInv ==
  ASSUME IInv, Watch \/ Exit \/ PolicyRestart \/ Remove
  PROVE  IInv'
<1>1. UNCHANGED <<agent, files, history>>
  BY DEF Watch, Exit, PolicyRestart, Remove
<1>2. events' \in 0..MaxEvents
  BY EventBounded DEF Watch, Exit, PolicyRestart, Remove, IInv, TypeOK
<1>3. image' = image \/ image' = Absent
  BY DEF Watch, Exit, PolicyRestart, Remove
<1>4. /\ running' \in BOOLEAN
      /\ running' => image' # Absent
      /\ read' \in Emails \cup {Without, Empty, Absent}
      /\ routes' \in Dynamic
  BY DEF Watch, Exit, PolicyRestart, Remove, Starts, Stops, IInv, TypeOK
<1>5. TypeOK'
  BY <1>1, <1>2, <1>3, <1>4 DEF IInv, TypeOK, agent, files, history
<1>6. Progress' /\ AcmeUsable'
  BY <1>1, <1>3 DEF IInv, Progress, StaticDone, DynamicDone, StaticConfig, DynamicConfig,
                    AcmeUsable, agent, files, history
<1>7. QED
  BY <1>5, <1>6 DEF IInv

LEMMA NextIInv == IInv /\ [Next]_vars => IInv'
<1> SUFFICES ASSUME IInv, [Next]_vars PROVE IInv'
  OBVIOUS
<1>1. CASE UNCHANGED vars
  <2>1. TypeOK'
    BY <1>1 DEF IInv, TypeOK, vars
  <2>2. Progress'
    BY <1>1 DEF IInv, Progress, StaticDone, DynamicDone, StaticConfig, DynamicConfig, vars
  <2>3. AcmeUsable'
    BY <1>1 DEF IInv, AcmeUsable, vars
  <2>4. QED
    BY <2>1, <2>2, <2>3 DEF IInv
<1>2. QED
  BY <1>1, LoopIInv, WritesIInv, ACMEFileIInv, RunIInv, EngineIInv DEF Next, Ensure

-----------------------------------------------------------------------------
(* The theorems.                                                           *)

\* The inductive invariant holds of every behaviour.
THEOREM Invariant == Spec => []IInv
  BY InitIInv, NextIInv, PTL DEF Spec

\* Every variable stays in its type, and a Traefik that runs was created.
THEOREM TypeCorrect == Spec => []TypeOK
<1>1. IInv => TypeOK
  BY DEF IInv
<1>2. QED
  BY Invariant, <1>1, PTL

\* acme.json is a file when Traefik's container exists, unless it could not be
\* written just when it was needed (agent.go:795-797).
THEOREM AcmeIsFile == Spec => []AcmeIsFileUnlessUnmade
<1>1. IInv => AcmeIsFileUnlessUnmade
  BY DEF IInv, AcmeUsable, AcmeIsFileUnlessUnmade
<1>2. QED
  BY Invariant, <1>1, PTL

\* A pass whose writes succeed leaves both files as configured, whatever was
\* left behind before (agent.go:789-794).
THEOREM FilesWritten == Spec => []WrittenUnlessFailed
<1>1. IInv => WrittenUnlessFailed
  BY DEF IInv, Progress, StaticDone, DynamicDone, WrittenUnlessFailed, Generated
<1>2. QED
  BY Invariant, <1>1, PTL

\* The agent never starts Traefik over a file of another version, or one that
\* is not whole (agent.go:789-821).
THEOREM StartedRight == Spec => StartedOnWhatIsConfigured
<1> DEFINE Right ==
      apc = "run" /\ apc' = "loop" /\ running' /\ (~running \/ image' # image)
        => \A c \in config : Generated(c) /\ read' = c.email /\ image' = c.image
<1>1. IInv /\ [Next]_vars => [Right]_vars
  <2>1. SUFFICES ASSUME IInv, Next, apc = "run", apc' = "loop", running',
                        ~running \/ image' # image, NEW c \in config
                 PROVE  Generated(c) /\ read' = c.email /\ image' = c.image
    OBVIOUS
  <2>2. Run
    BY <2>1 DEF Next, Boot, Reload, Apply, HealthCheck, Crash, Ensure, StaticOpen,
       StaticWrite, DynamicOpen, DynamicWrite, ACMEFile, Goto, Watch, Exit,
       PolicyRestart, Remove, agent
  <2>3. static = c.email /\ dynamic = DynamicConfig(c)
    BY <2>1 DEF IInv, Progress, StaticDone, DynamicDone, StaticConfig
  <2>4. config = {c}
    BY <2>1 DEF IInv, TypeOK
  <2>5. Starts /\ image' = c.image
    BY <2>1, <2>2, <2>4 DEF Run, Creates, Stops, container, IInv, TypeOK
  <2>6. QED
    BY <2>3, <2>5 DEF Starts, Generated, StaticConfig
<1>2. QED
  BY Invariant, <1>1, PTL DEF Spec, StartedOnWhatIsConfigured

-----------------------------------------------------------------------------
(* RunContainer as Traefik takes it, one step, against the whole call as   *)
(* ContainerClient has it, engine call by engine call.                     *)

\* What the name holds.
Held(i, r) == IF i = Absent THEN {} ELSE Made(i, r)

Holding == Held(image, running)

\* Run changes nothing but the container, and acme.json where the engine mounts
\* it: a container that is made makes a directory of it if it is not there.
Mounts(c) ==
  acme' = IF acme = Absent /\ image # c.image /\ image' = c.image THEN "directory" ELSE acme

(* What a name can hold tells apart what it is made from.                  *)
LEMMA HeldCases ==
  ASSUME NEW i, i # Absent, NEW r \in BOOLEAN
  PROVE  /\ Held(i, r) = Made(i, r) /\ Held(Absent, r) = {} /\ Made(i, r) # {}
         /\ Running(Made(i, r)) = Made(i, TRUE) /\ Running({}) = {}
         /\ Stopped(Made(i, r)) = Made(i, FALSE) /\ Stopped({}) = {}
<1>1. /\ Running(Made(i, r)) = Made(i, TRUE) /\ Stopped(Made(i, r)) = Made(i, FALSE)
      /\ Made(i, r) # {}
  BY DEF Running, Stopped, Made
<1>2. Running({}) = {} /\ Stopped({}) = {}
  BY DEF Running, Stopped
<1>3. QED
  BY <1>1, <1>2 DEF Held

LEMMA HeldApart ==
  ASSUME NEW i, NEW j, NEW r \in BOOLEAN, NEW q \in BOOLEAN, Held(i, r) = Held(j, q)
  PROVE  i = j /\ (i = Absent \/ r = q)
<1>1. ASSUME i # Absent, j # Absent
      PROVE  i = j /\ r = q
  <2>1. [what |-> i, runs |-> r] = [what |-> j, runs |-> q]
    BY <1>1 DEF Held, Made
  <2>2. QED
    BY <2>1
<1>2. i = Absent <=> j = Absent
  BY DEF Held, Made
<1>3. QED
  BY <1>1, <1>2

(* A call that succeeds leaves Traefik running, made from what is asked for. *)
LEMMA ServedHere ==
  ASSUME TypeOK, NEW c \in Settings
  PROVE  Served(Holding, image = c.image, c.image) = Made(c.image, TRUE)
<1>1. c.image # Absent /\ running \in BOOLEAN
  BY TraefikAssumption DEF TypeOK, Settings
<1>2. CASE image = c.image
  <2>1. Holding = Made(c.image, running)
    BY <1>1, <1>2 DEF Holding, Held
  <2>2. Running(Holding) = Made(c.image, TRUE)
    BY <1>1, <2>1, HeldCases
  <2>3. QED
    BY <1>2, <2>2 DEF Served
<1>3. CASE image # c.image
  BY <1>3 DEF Served
<1>4. QED
  BY <1>2, <1>3

\* Every outcome that Traefik gives a call of RunContainer is one ContainerClient's
\* calls have; Traefik may also exit at once, in the same step, and does so if
\* acme.json is not a file.  Without a fault the call succeeds.
THEOREM RunsAsPromised ==
  ASSUME TypeOK, NEW c \in Settings, config = {c}, Run
  PROVE  LET served == Served(Holding, image = c.image, c.image)
         IN  /\ Mounts(c)
             /\ \/ Holding' \in Outcomes(Holding, image = c.image, c.image)
                \/ acme' # "file" /\ Holding' = Stopped(served)
             /\ UNCHANGED events
                  => Holding' = served \/ (acme' # "file" /\ Holding' = Stopped(served))
<1> DEFINE served == Served(Holding, image = c.image, c.image)
           out    == Outcomes(Holding, image = c.image, c.image)
<1>1. /\ image \in Images \cup {Absent} /\ running \in BOOLEAN /\ acme \in {Absent, "file", "directory"}
      /\ c.image \in Images /\ c.image # Absent
      /\ running => image # Absent
  BY TraefikAssumption DEF TypeOK, Settings
<1>2. Absent # "file" /\ Absent # "directory"
  BY DEF Absent
<1>3. served = Made(c.image, TRUE) /\ Stopped(served) = Made(c.image, FALSE)
  BY <1>1, HeldCases, ServedHere
<1>4. /\ Holding \in out /\ served \in out
      /\ image # c.image => {} \in out /\ Stopped(Holding) \in out /\ Made(c.image, FALSE) \in out
  BY DEF Outcomes
<1>5. \/ /\ running /\ image = c.image
         /\ UNCHANGED <<acme, container, events>>
      \/ /\ ~running /\ image = c.image
         /\ UNCHANGED <<acme, image, events>> /\ Starts
      \/ /\ image # c.image
         /\ Creates(c) /\ Starts /\ UNCHANGED events
      \/ /\ Event
         /\ \/ UNCHANGED <<acme, container>>
            \/ /\ image # c.image /\ Stops
               /\ \/ image' \in {image, Absent} /\ UNCHANGED acme
                  \/ Creates(c)
  BY DEF Run
<1>6. CASE running /\ image = c.image /\ UNCHANGED <<acme, container, events>>
  <2>1. Holding' = Holding /\ Holding = Made(c.image, TRUE) /\ Mounts(c)
    BY <1>1, <1>6 DEF Holding, Held, container, Mounts
  <2>2. QED
    BY <1>3, <1>4, <2>1
<1>7. CASE /\ \/ image = c.image /\ UNCHANGED <<acme, image>>
              \/ image # c.image /\ Creates(c)
           /\ Starts
  <2>1. image' = c.image /\ running' = (acme' = "file") /\ Mounts(c)
    BY <1>1, <1>7 DEF Creates, Starts, Mounts
  <2>2. CASE acme' = "file"
    <3>1. Holding' = Made(c.image, TRUE)
      BY <1>1, <2>1, <2>2 DEF Holding, Held
    <3>2. QED
      BY <1>3, <1>4, <2>1, <3>1
  <2>3. CASE acme' # "file"
    <3>1. Holding' = Made(c.image, FALSE)
      BY <1>1, <2>1, <2>3 DEF Holding, Held
    <3>2. QED
      BY <1>3, <2>1, <2>3, <3>1
  <2>4. QED
    BY <2>2, <2>3
<1>8. CASE Event /\ UNCHANGED <<acme, container>>
  <2>1. Holding' = Holding /\ Mounts(c) /\ events' # events
    BY <1>8 DEF Holding, container, Mounts, Event, TypeOK
  <2>2. QED
    BY <1>4, <2>1
<1>9. CASE /\ Event /\ image # c.image /\ Stops
           /\ \/ image' \in {image, Absent} /\ UNCHANGED acme
              \/ Creates(c)
  <2>1. Mounts(c) /\ events' # events
    BY <1>1, <1>9 DEF Mounts, Creates, Event, TypeOK
  <2>2. running' = FALSE /\ image' \in {image, Absent, c.image}
    BY <1>9 DEF Stops, Creates
  <2>3. Holding' \in {Stopped(Holding), {}, Made(c.image, FALSE)}
    <3>1. CASE image' = Absent
      BY <3>1 DEF Holding, Held
    <3>2. CASE image' = c.image
      BY <1>1, <2>2, <3>2 DEF Holding, Held
    <3>3. CASE image' = image /\ image # Absent
      <4>1. Holding = Made(image, running) /\ Holding' = Made(image, FALSE)
        BY <2>2, <3>3 DEF Holding, Held
      <4>2. QED
        BY <1>1, <3>3, <4>1, HeldCases
    <3>4. QED
      BY <2>2, <3>1, <3>2, <3>3
  <2>4. QED
    BY <1>4, <1>9, <2>1, <2>3
<1>10. QED
  BY <1>5, <1>6, <1>7, <1>8, <1>9

\* And every outcome of a call of ContainerClient is one that Traefik gives it,
\* a fault having spent an event: what is proved of Traefik covers them all.
THEOREM RunsAllPromised ==
  ASSUME TypeOK, TypeOK', NEW c \in Settings, config = {c},
         apc = "run", apc' = "loop", UNCHANGED <<config, static, dynamic, history>>,
         Mounts(c),
         LET served == Served(Holding, image = c.image, c.image)
         IN  \/ Holding' = served /\ Holding' = Holding /\ UNCHANGED <<container, events>>
             \/ Holding' = served /\ Holding' # Holding /\ UNCHANGED events
                /\ acme' = "file" /\ read' = static /\ routes' = dynamic
             \/ Holding' \in Outcomes(Holding, image = c.image, c.image) \ {served}
                /\ Event /\ UNCHANGED <<read, routes>>
  PROVE  Run
<1> DEFINE served == Served(Holding, image = c.image, c.image)
<1>1. /\ image \in Images \cup {Absent} /\ running \in BOOLEAN
      /\ image' \in Images \cup {Absent} /\ running' \in BOOLEAN
      /\ c.image \in Images /\ c.image # Absent
      /\ running => image # Absent
      /\ running' => image' # Absent
  BY TraefikAssumption DEF TypeOK, Settings
<1>2. served = Held(c.image, TRUE)
  <2>1. served = Made(c.image, TRUE)
    BY ServedHere
  <2>2. QED
    BY <1>1, <2>1 DEF Held
<1>3. Holding' = Held(image', running') /\ Holding = Held(image, running)
  BY DEF Holding
<1>4. Holding' = served => image' = c.image /\ running' = TRUE
  <2>1. ASSUME Held(image', running') = Held(c.image, TRUE)
        PROVE  image' = c.image /\ running' = TRUE
    BY <1>1, <2>1, HeldApart
  <2>2. QED
    BY <1>2, <1>3, <2>1
<1>5. Holding' = Holding => image' = image /\ running' = running
  BY <1>1, <1>3, HeldApart
<1>6. CASE Holding' = served /\ Holding' = Holding /\ UNCHANGED <<container, events>>
  <2>1. running /\ image = c.image
    BY <1>4, <1>5, <1>6
  <2>2. UNCHANGED acme
    BY <2>1 DEF Mounts
  <2>3. QED
    BY <1>6, <2>1, <2>2 DEF Run
<1>7. CASE Holding' = served /\ Holding' # Holding /\ UNCHANGED events
           /\ acme' = "file" /\ read' = static /\ routes' = dynamic
  <2>1. image' = c.image /\ Starts
    BY <1>4, <1>7 DEF Starts
  <2>2. CASE image = c.image
    <3>1. ~running
      BY <1>1, <1>2, <1>3, <1>7, <2>2
    <3>2. UNCHANGED <<acme, image>>
      BY <2>1, <2>2 DEF Mounts
    <3>3. QED
      BY <1>7, <2>1, <2>2, <3>1, <3>2 DEF Run
  <2>3. CASE image # c.image
    <3>1. Creates(c)
      BY <2>1, <2>3 DEF Creates, Mounts
    <3>2. QED
      BY <1>7, <2>1, <2>3, <3>1 DEF Run
  <2>4. QED
    BY <2>2, <2>3
<1>8. CASE Holding' \in Outcomes(Holding, image = c.image, c.image) \ {served}
           /\ Event /\ UNCHANGED <<read, routes>>
  <2>1. CASE Holding' = Holding
    <3>1. UNCHANGED <<acme, container>>
      BY <1>5, <1>8, <2>1 DEF Mounts, container
    <3>2. QED
      BY <1>8, <3>1 DEF Run
  <2>2. CASE Holding' # Holding
    <3>1. image # c.image /\ Holding' \in {Stopped(Holding), {}, Made(c.image, FALSE)}
      BY <1>8, <2>2 DEF Outcomes
    <3>2. CASE Holding' = {}
      <4>1. image' = Absent
        BY <1>1, <1>3, <3>2, HeldCases
      <4>2. Stops /\ UNCHANGED acme
        BY <1>1, <1>8, <4>1 DEF Stops, Mounts
      <4>3. QED
        BY <1>8, <3>1, <4>1, <4>2 DEF Run
    <3>3. CASE Holding' = Made(c.image, FALSE)
      <4>1. Held(image', running') = Held(c.image, FALSE)
        BY <1>1, <1>3, <3>3 DEF Held
      <4>2. image' = c.image /\ running' = FALSE
        BY <1>1, <4>1, HeldApart
      <4>3. Stops /\ Creates(c)
        BY <1>1, <1>8, <3>1, <4>2 DEF Stops, Creates, Mounts
      <4>4. QED
        BY <1>8, <3>1, <4>3 DEF Run
    <3>4. CASE Holding' = Stopped(Holding)
      <4>1. image # Absent
        BY <1>3, <2>2, <3>4, HeldCases DEF Held, Stopped
      <4>2. Holding' = Held(image, FALSE)
        BY <1>1, <1>3, <3>4, <4>1, HeldCases
      <4>3. image' = image /\ ~running'
        BY <1>1, <1>3, <4>1, <4>2, HeldApart
      <4>4. Stops /\ UNCHANGED acme
        BY <1>1, <1>8, <3>1, <4>3 DEF Stops, Mounts
      <4>5. QED
        BY <1>8, <3>1, <4>3, <4>4 DEF Run
    <3>5. QED
      BY <3>1, <3>2, <3>3, <3>4
  <2>3. QED
    BY <2>1, <2>2
<1>9. QED
  BY <1>6, <1>7, <1>8
==============================================================================
