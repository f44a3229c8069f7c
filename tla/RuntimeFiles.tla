----------------------------- MODULE RuntimeFiles -----------------------------
(***************************************************************************)
(* The file the agent generates for the app from pulse.json, or for        *)
(* BackupBot from backup.json (internal/agent/agent.go): merged and        *)
(* written in place at every ensure call, given to the container's user,   *)
(* and bind-mounted into the container.  config.FileWatcher                *)
(* (internal/config/watcher.go) polls the source's modification time and   *)
(* signals a change through a channel of capacity one.  Writes fail, the   *)
(* agent dies anywhere, the operator edits the source meanwhile, and       *)
(* ensureApp merges nothing while it waits for Postgres to be seen.        *)
(*                                                                         *)
(* The n-th version of the source is n.  Who else is ensured in a pass,    *)
(* the hosts that are merged in, and the container itself are Agent's.     *)
(***************************************************************************)
EXTENDS Integers

CONSTANTS
  Kinds,       \* which of the two is followed: "app", "backupbot"
  Documents,   \* what the operator may write: "object" (with the names of
               \* agent.go:616), "array" (of agent.go:617), "null", "broken"
  MtimeSteps,  \* how far a write moves the modification time
  Specs,       \* container_uids: 0 = unset or root, a uid, or Invalid
  MaxWrites,   \* bound on the versions of the source
  MaxEvents    \* bound on deaths and failed writes

Root    == 0
Invalid == -1

ASSUME FilesAssumption ==
  /\ Kinds \subseteq {"app", "backupbot"}
  /\ Documents \subseteq {"object", "array", "null", "broken"}
  /\ MtimeSteps \subseteq Int
  /\ Specs \subseteq Nat \cup {Invalid}
  /\ MaxWrites \in Nat /\ MaxEvents \in Nat

VARIABLES
  kind,     \* which file this is; never changes
  source,   \* pulse.json or backup.json: [there, ver, mtime, doc]
  gen,      \* the generated file: [state, content, owner]
  wpc,      \* the FileWatcher goroutine
  lastMod,  \* its lastModTime, 0 = the zero time
  changed,  \* how many signals its Changed channel holds
  apc,      \* Agent.Run, within the ensure call of this file
  config,   \* a.Config: {} for nil, else {its spec}
  ensures,  \* whether the ensure call gets to the merge: "always", "seen" (once the
            \* mesh shows Postgres, for an app without one of its own), or "never"
  merged,   \* what the last ensure call made of the source, if anything
  events,   \* counts events, up to MaxEvents
  missed    \* history: why the generated file will not follow the source

watcher == <<wpc, lastMod, changed>>
agent   == <<apc, config, ensures, merged>>
vars    == <<kind, source, gen, wpc, lastMod, changed, apc, config, ensures, merged, events,
             missed>>

Capacity == 1  \* make(chan struct{}, 1)

\* What a generated file says: the version it was made from, and of a backup
\* the backend ("file", or the "bucket" and "keys" of an S3 backend).
Contents == [ver: 0..MaxWrites, backend: SUBSET {"file", "bucket", "keys"}]

TypeOK ==
  /\ kind \in Kinds
  /\ source \in [there: BOOLEAN, ver: 0..MaxWrites, mtime: Int,
                 doc: {"object", "array", "null", "broken"}]
  /\ gen \in [state: {"absent", "empty", "whole", "directory"}, content: Contents, owner: Nat]
  /\ wpc \in {"off", "init", "poll", "send"}
  /\ lastMod \in Int
  /\ changed \in 0..Capacity
  /\ apc \in {"down", "read", "truncate", "write", "own", "run", "start", "loop"}
  /\ config \in {{}} \cup {{s} : s \in Specs}
  /\ ensures \in {"always", "seen", "never"}
  /\ merged \in Contents
  /\ events \in 0..MaxEvents
  /\ missed \in {"none", "boot", "mtime", "delete", "fault", "waiting"}

Nothing == [ver |-> 0, backend |-> {}]

\* A first start, with or without the source in place.
Init ==
  /\ kind \in Kinds
  /\ \E there \in {b \in BOOLEAN : b => MaxWrites > 0}, doc \in Documents :
       source = [there |-> there, ver |-> IF there THEN 1 ELSE 0, mtime |-> 1, doc |-> doc]
  /\ gen = [state |-> "absent", content |-> Nothing, owner |-> Root]
  /\ wpc = "off" /\ lastMod = 0 /\ changed = 0
  /\ apc = "down" /\ config = {} /\ ensures = "never" /\ merged = Nothing
  /\ events = 0 /\ missed = "none"

-----------------------------------------------------------------------------
(* What is made of the source.                                             *)

\* parseBackupConfig.  "access_key_id" is a yaml name of the struct, json does
\* not know it; an array is an error already for the first Unmarshal.
parseBackupConfig(doc) == IF doc = "object" THEN {"bucket"} ELSE {}

\* mergeBackupBotConfig falls back to a local file for whatever it cannot use.
BackupBackend ==
  IF source.there /\ parseBackupConfig(source.doc) # {} THEN parseBackupConfig(source.doc)
  ELSE {"file"}

\* mergeAppConfig makes something of an object only.
Mergeable == kind = "app" => source.there /\ source.doc = "object"

Merged ==
  IF kind = "app" THEN [ver |-> source.ver, backend |-> {}]
  ELSE [ver |-> IF BackupBackend = {"file"} THEN 0 ELSE source.ver, backend |-> BackupBackend]

\* The first setting goes into a nil map.
Panics == kind = "app" /\ source.there /\ source.doc = "null"

-----------------------------------------------------------------------------
(* The operator (external).                                                *)

\* The watcher is past its initial check: it will look at what has a later
\* mtime, and not at anything else.
Watching == wpc \in {"poll", "send"}

Written(ver, mtime, doc) ==
  /\ source' = [there |-> TRUE, ver |-> ver, mtime |-> mtime, doc |-> doc]
  /\ missed' = IF ~Watching THEN missed ELSE IF mtime > lastMod THEN "none" ELSE "mtime"
  /\ UNCHANGED <<kind, gen, watcher, agent, events>>

\* A new file is moved over the old one.
Replace ==
  /\ source.ver < MaxWrites
  /\ \E d \in MtimeSteps, doc \in Documents : Written(source.ver + 1, source.mtime + d, doc)

\* The file is rewritten in place, in two steps.
WriteBegin ==
  /\ source.ver < MaxWrites
  /\ \E d \in MtimeSteps : Written(source.ver + 1, source.mtime + d, "broken")

WriteEnd ==
  /\ source.there /\ source.doc = "broken"
  /\ \E d \in MtimeSteps \cup {0}, doc \in Documents \ {"broken"} :
       Written(source.ver, source.mtime + d, doc)

\* A file that is not there is never looked at.
Delete ==
  /\ source.there
  /\ source' = [source EXCEPT !.there = FALSE]
  /\ missed' = IF Watching THEN "delete" ELSE missed
  /\ UNCHANGED <<kind, gen, watcher, agent, events>>

-----------------------------------------------------------------------------
(* Agent.Run.                                                              *)

Event == events < MaxEvents /\ events' = events + 1

Goto(step) == apc' = step /\ UNCHANGED <<config, ensures, merged>>

\* Where an ensure call returns to: during the boot, Agent.Run goes on.
Caller == IF wpc = "off" THEN "start" ELSE "loop"
Return == Goto(Caller)

\* A configuration.
Configure ==
  /\ \E s \in Specs : config' = {s}
  /\ ensures' \in IF kind = "app" THEN {"always", "seen", "never"} ELSE {"always", "never"}
  /\ apc' = "read"

\* Boot with a configuration, or without.
Boot ==
  /\ apc = "down"
  /\ Configure \/ (Goto("start") /\ config = {})
  /\ UNCHANGED <<kind, source, gen, watcher, merged, events, missed>>

StartWatchers ==
  /\ apc = "start" /\ Goto("loop")
  /\ wpc' = "init"
  /\ UNCHANGED <<kind, source, gen, lastMod, changed, events, missed>>

\* Another configuration, or for the app a failed health check.
Reload ==
  /\ apc = "loop"
  /\ Configure
  /\ UNCHANGED <<kind, source, gen, watcher, merged, events, missed>>

\* case <-Changed: without a configuration the signal is spent for nothing.
Signal ==
  /\ apc = "loop" /\ changed > 0
  /\ changed' = changed - 1
  /\ IF config # {} THEN Goto("read") ELSE Goto("loop")
  /\ UNCHANGED <<kind, source, gen, wpc, lastMod, events, missed>>

Stopped ==
  /\ apc' = "down" /\ config' = {} /\ ensures' = "never" /\ merged' = Nothing
  /\ wpc' = "off" /\ lastMod' = 0 /\ changed' = 0
  /\ UNCHANGED <<kind, source, gen>>

\* The process ends.
Crash == apc # "down" /\ Event /\ Stopped /\ UNCHANGED missed

\* The ensure call made something of the source, or nothing.
Makes(content, step, why) ==
  /\ merged' = content /\ apc' = step /\ missed' = why
  /\ UNCHANGED <<kind, source, gen, watcher, config, ensures, events>>

\* Mutant: what cannot be merged ends the agent.
ReadExits ==
  /\ apc = "read"
  /\ \/ ensures # "always" /\ Makes(Nothing, Caller, "waiting")
     \/ ensures # "never" /\ Mergeable /\ Makes(Merged, "truncate", "none")
     \/ ensures # "never" /\ ~Mergeable /\ Stopped /\ UNCHANGED <<events, missed>>

\* The ensure call up to its WriteFile.  It returns before the merge if this is
\* not its service, or the mesh shows no Postgres just then; or the source is
\* read.
Read ==
  /\ apc = "read"
  /\ \/ ensures # "always" /\ Makes(Nothing, Caller, "waiting")
     \/ ensures # "never" /\ Mergeable /\ Makes(Merged, "truncate", "none")
     \/ ensures # "never" /\ ~Mergeable /\ ~Panics /\ Makes(Nothing, Caller, "none")  \* an error
     \/ ensures # "never" /\ Panics /\ Stopped /\ UNCHANGED <<events, missed>>

\* Mutant: ensureApp goes on when the file could not be written.
WriteFailedUnguarded == Goto("own")

\* ensureApp returns the error of the merge, ensureBackupBot only logs it.
WriteFailed == IF kind = "app" THEN Return ELSE Goto("own")

\* WriteFile opens the file, which makes it or empties it, ...
Truncate ==
  /\ apc = "truncate"
  /\ \/ /\ gen.state # "directory"
        /\ gen' = [state |-> "empty", content |-> Nothing, owner |-> gen.owner]
        /\ Goto("write")
        /\ UNCHANGED <<events, missed>>
     \/ /\ \/ gen.state = "directory" /\ UNCHANGED events
           \/ Event
        /\ WriteFailed
        /\ missed' = "fault"
        /\ UNCHANGED gen
  /\ UNCHANGED <<kind, source, watcher>>

\* ... and writes it.
Write ==
  /\ apc = "write"
  /\ \/ /\ gen' = [gen EXCEPT !.state = "whole", !.content = merged]
        /\ Goto("own")
        /\ UNCHANGED <<events, missed>>
     \/ /\ Event
        /\ WriteFailed
        /\ missed' = "fault"
        /\ UNCHANGED gen
  /\ UNCHANGED <<kind, source, watcher>>

\* Mutant: the directory is given away, the files in it are not.
OwnDirectoryOnly ==
  /\ apc = "own" /\ Goto("run")
  /\ UNCHANGED <<kind, source, gen, watcher, events, missed>>

\* setRuntimeDirOwnership, whose errors are logged: nothing is done for root or
\* a spec that does not parse.
Own ==
  /\ apc = "own" /\ Goto("run")
  /\ \/ /\ \E s \in config \ {Root, Invalid} : gen' = [gen EXCEPT !.owner = s]
        /\ UNCHANGED <<events, missed>>
     \/ /\ config \subseteq {Root, Invalid}
        /\ UNCHANGED <<gen, events, missed>>
     \/ Event /\ missed' = "fault" /\ UNCHANGED gen
  /\ UNCHANGED <<kind, source, watcher>>

\* RunContainer: the engine makes a directory of a bind source that is missing,
\* if it gets to create the container.
Run ==
  /\ apc = "run" /\ Return
  /\ \/ UNCHANGED gen
     \/ gen.state = "absent" /\ gen' = [gen EXCEPT !.state = "directory"]
  /\ UNCHANGED <<kind, source, watcher, events, missed>>

-----------------------------------------------------------------------------
(* FileWatcher.Run.                                                        *)

\* The initial check: what the boot has not read passes for known.
WatchInit ==
  /\ wpc = "init" /\ wpc' = "poll"
  /\ lastMod' = IF source.there THEN source.mtime ELSE 0
  /\ missed' = IF config # {} /\ missed = "none" /\ merged # Merged THEN "boot" ELSE missed
  /\ UNCHANGED <<kind, source, gen, changed, agent, events>>

\* A tick that finds a later modification time ...
Poll ==
  /\ wpc = "poll"
  /\ source.there /\ source.mtime > lastMod
  /\ lastMod' = source.mtime
  /\ wpc' = "send"
  /\ UNCHANGED <<kind, source, gen, changed, agent, events, missed>>

\* Mutants: a send that always succeeds; a channel without a buffer.
SendUnbounded ==
  /\ wpc = "send" /\ wpc' = "poll"
  /\ changed' = changed + 1
  /\ UNCHANGED <<kind, source, gen, lastMod, agent, events, missed>>

SendUnbuffered ==
  /\ wpc = "send" /\ wpc' = "poll"
  /\ changed' = IF apc = "loop" THEN Capacity ELSE changed
  /\ UNCHANGED <<kind, source, gen, lastMod, agent, events, missed>>

\* ... and signals it, unless a signal is waiting already.
Send ==
  /\ wpc = "send" /\ wpc' = "poll"
  /\ changed' = IF changed < Capacity THEN changed + 1 ELSE changed
  /\ UNCHANGED <<kind, source, gen, lastMod, agent, events, missed>>

-----------------------------------------------------------------------------
Operator == Replace \/ WriteBegin \/ WriteEnd \/ Delete
Ensure   == Read \/ Truncate \/ Write \/ Own \/ Run
Watcher  == WatchInit \/ Poll \/ Send

Next == Operator \/ Boot \/ StartWatchers \/ Reload \/ Signal \/ Crash \/ Ensure \/ Watcher

Spec == Init /\ [][Next]_vars

\* systemd starts the agent, calls end, the ticker ticks; select chooses at
\* random among the cases that are ready.
Fairness == /\ WF_vars(Boot) /\ WF_vars(StartWatchers \/ Ensure)
            /\ WF_vars(Watcher) /\ SF_vars(Signal)

FairSpec == Spec /\ Fairness

-----------------------------------------------------------------------------
(* Safety properties.                                                      *)

\* Nothing is on its way.
Settled ==
  /\ apc = "loop" /\ changed = 0 /\ config # {}
  /\ wpc = "poll" /\ (source.there => source.mtime <= lastMod)

\* The generated file is what the source calls for, and belongs to whom the
\* configuration says.
Current ==
  /\ gen.state = "whole" /\ gen.content = Merged
  /\ config \subseteq {Root, Invalid, gen.owner}

\* When nothing is on its way, the generated file is current, unless the source
\* was edited while the agent booted, or to a modification time that is not
\* later, or deleted, or a write failed, or the last call returned before the
\* merge, for instance because Postgres was out of sight, in which case its
\* signal is spent (watcher.go:91, 101, 106, agent.go:166-170, 548-568, 584-592,
\* 764).  In particular no signal is lost for being dropped while one
\* waits: it carries no content, and the source is read after it is received.
StaleOnlyWhenMissed == Settled /\ Mergeable /\ missed = "none" => Current

\* No failed write of the app's file ends in a container created over a path
\* that is not there, which would make it a directory for good; of BackupBot
\* that cannot be said (agent.go:584-588, 294-296).
AppFileIsNoDirectory == gen.state = "directory" => kind = "backupbot"

(* Liveness, under FairSpec.                                               *)

\* In a run in which the last version was not missed, the generated file
\* follows it, through restarts with an empty file and signals that come while
\* the agent is busy.  It need not where Postgres was out of sight when the
\* signal came: nothing calls ensureApp again for an app that runs.
FollowsUnlessMissed ==
  <>[](config # {} /\ Mergeable /\ missed = "none") => []<>Current

\* Only pulse.json = null keeps the agent from its loop, and only while it is
\* that (agent.go:709-722).
RunsUnlessNull == <>[](~Panics) => []<>(apc = "loop")

-----------------------------------------------------------------------------
(* What a comment says and the code does not do.                           *)

\* agent.go:615-617 "parses backup.json in two formats": either of them gives
\* BackupBot a bucket and its keys.
DocumentedFormats ==
  Settled /\ missed = "none" /\ kind = "backupbot" /\ source.there
    /\ source.doc \in {"object", "array"}
  => {"bucket", "keys"} \subseteq gen.content.backend
==============================================================================
