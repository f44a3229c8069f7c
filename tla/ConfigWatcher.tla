---------------------------- MODULE ConfigWatcher ----------------------------
(***************************************************************************)
(* How the agent comes by its configuration: the boot path and the update  *)
(* case of Agent.Run (internal/agent/agent.go) and the config.Watcher      *)
(* goroutine (internal/config/watcher.go), which polls the modification    *)
(* time of xavi.json and hands what it loads to the agent through a        *)
(* channel of capacity one, while an operator writes the file.             *)
(*                                                                         *)
(* A configuration is its version: the n-th content the operator gives     *)
(* the file.  One of the two history variables, missed, says why the       *)
(* present content will never be loaded; the program has no such variable. *)
(***************************************************************************)
EXTENDS Integers, Sequences

CONSTANTS
  AuthBundles, \* what --auth may hold at a start: "none", "good", or "bad" if it
               \* does not parse
  MtimeSteps,  \* how far a write moves the file's modification time
  MaxWrites,   \* bound on the versions of the file
  MaxCrashes   \* bound on the times the agent dies

ASSUME WatcherAssumption ==
  /\ AuthBundles \subseteq {"none", "good", "bad"}
  /\ MtimeSteps \subseteq Int
  /\ MaxWrites \in Nat
  /\ MaxCrashes \in Nat

VARIABLES
  file,     \* xavi.json: [there, ver, mtime, whole]; not whole = cannot be parsed
  wpc,      \* the watcher goroutine
  lastMod,  \* its lastModTime, 0 = the zero time
  loaded,   \* its cfg
  updates,  \* its Updates channel
  apc,      \* Agent.Run
  config,   \* a.Config
  crashes,  \* counts deaths of the agent, up to MaxCrashes
  \* History variables
  offered,  \* the versions the operator completed
  newest,   \* the newest version that ever was in force
  missed    \* why the version in the file will not be loaded

watcher == <<wpc, lastMod, loaded>>
agent   == <<apc, config, newest>>
vars    == <<file, wpc, lastMod, loaded, updates, apc, config, crashes,
             offered, newest, missed>>

Nil      == -1
Bundle   == 0
Capacity == 1   \* make(chan *Config, 1)

Readable == file.there /\ file.whole

TypeOK ==
  /\ file \in [there: BOOLEAN, ver: 0..MaxWrites, mtime: Int, whole: BOOLEAN]
  /\ wpc \in {"off", "init", "poll", "load", "send"}
  /\ lastMod \in Int
  /\ loaded \in 0..MaxWrites
  /\ updates \in Seq(1..MaxWrites) /\ Len(updates) <= Capacity
  /\ apc \in {"down", "load", "boot", "start", "loop", "busy"}
  /\ config \in {Nil, Bundle} \cup offered
  /\ crashes \in 0..MaxCrashes
  /\ offered \subseteq 1..file.ver
  /\ newest \in {0} \cup offered
  /\ missed \in {"none", "boot", "burst", "mtime"}

\* The operator may or may not have put a file in place.
Init ==
  /\ \E there \in {b \in BOOLEAN : b => MaxWrites > 0} :
       /\ file = [there |-> there, ver |-> IF there THEN 1 ELSE 0,
                  mtime |-> 1, whole |-> there]
       /\ offered = IF there THEN {1} ELSE {}
  /\ wpc = "off" /\ lastMod = 0 /\ loaded = 0 /\ updates = <<>>
  /\ apc = "load" /\ config = Nil /\ crashes = 0
  /\ newest = 0 /\ missed = "none"

-----------------------------------------------------------------------------
(* The operator (external).                                                *)

\* A write that leaves the mtime at or before lastMod when the watcher is
\* past its load is one the watcher will not look at.
Unnoticed(mtime) == wpc \in {"poll", "send"} /\ mtime <= lastMod

\* The operator has given the file a content that can be parsed.
Completed(ver, mtime) ==
  /\ file' = [there |-> TRUE, ver |-> ver, mtime |-> mtime, whole |-> TRUE]
  /\ offered' = offered \cup {ver}
  /\ missed' = IF Unnoticed(mtime) THEN "mtime" ELSE "none"
  /\ UNCHANGED <<watcher, updates, agent, crashes>>

\* A new file is moved over the old one.
Replace ==
  /\ file.ver < MaxWrites
  /\ \E d \in MtimeSteps : Completed(file.ver + 1, file.mtime + d)

\* The file is truncated and written in place; until that ends it does not
\* parse.  It may never end: that is a file with a mistake in it.
WriteBegin ==
  /\ file.ver < MaxWrites
  /\ \E d \in MtimeSteps :
       file' = [there |-> TRUE, ver |-> file.ver + 1, mtime |-> file.mtime + d,
                whole |-> FALSE]
  /\ missed' = "none"
  /\ UNCHANGED <<watcher, updates, agent, crashes, offered>>

WriteEnd ==
  /\ file.there /\ ~file.whole
  /\ \E d \in MtimeSteps \cup {0} : Completed(file.ver, file.mtime + d)

Delete ==
  /\ file.there
  /\ file' = [file EXCEPT !.there = FALSE, !.whole = FALSE]
  /\ missed' = "none"
  /\ UNCHANGED <<watcher, updates, agent, crashes, offered>>

-----------------------------------------------------------------------------
(* Agent.Run.                                                              *)

PutInForce(v) == config' = v /\ newest' = v

\* The file if it can be read, else the bundle, else nothing.  A bundle that
\* does not parse ends the process.
BootLoad ==
  /\ apc = "load"
  /\ \/ Readable /\ PutInForce(file.ver) /\ apc' = "boot"
     \/ /\ ~Readable
        /\ \/ "good" \in AuthBundles /\ config' = Bundle /\ apc' = "boot"
           \/ "none" \in AuthBundles /\ config' = Nil /\ apc' = "start"
           \/ "bad" \in AuthBundles  /\ config' = Nil /\ apc' = "down"
        /\ UNCHANGED newest
  /\ missed' = "none"
  /\ UNCHANGED <<file, watcher, updates, crashes, offered>>

\* applyConfig of the first configuration returns: pulls and starts are done.
BootApplied ==
  /\ apc = "boot" /\ apc' = "start"
  /\ UNCHANGED <<file, watcher, updates, config, crashes, offered, newest, missed>>

StartWatchers ==
  /\ apc = "start" /\ apc' = "loop"
  /\ wpc' = "init"
  /\ UNCHANGED <<file, lastMod, loaded, updates, config, crashes, offered, newest, missed>>

\* case newCfg := <-a.watcher.Updates
Receive ==
  /\ apc = "loop" /\ updates # <<>>
  /\ PutInForce(Head(updates))
  /\ updates' = Tail(updates)
  /\ apc' = "busy"
  /\ UNCHANGED <<file, watcher, crashes, offered, missed>>

\* The other cases of the select: a changed file or a tick, when there is a
\* configuration.
OtherCase ==
  /\ apc = "loop" /\ config # Nil /\ apc' = "busy"
  /\ UNCHANGED <<file, watcher, updates, config, crashes, offered, newest, missed>>

\* The case's body returns.
CaseDone ==
  /\ apc = "busy" /\ apc' = "loop"
  /\ UNCHANGED <<file, watcher, updates, config, crashes, offered, newest, missed>>

\* The process ends, by a signal or otherwise: goroutine and channel with it.
Crash ==
  /\ apc # "down" /\ crashes < MaxCrashes
  /\ apc' = "down" /\ config' = Nil /\ crashes' = crashes + 1
  /\ wpc' = "off" /\ lastMod' = 0 /\ loaded' = 0 /\ updates' = <<>>
  /\ UNCHANGED <<file, offered, newest, missed>>

\* systemd: Restart=always.
Restart ==
  /\ apc = "down" /\ apc' = "load"
  /\ UNCHANGED <<file, watcher, updates, config, crashes, offered, newest, missed>>

-----------------------------------------------------------------------------
(* Watcher.Run.                                                            *)

\* The initial check: what is in the file now passes for loaded.
WatchInit ==
  /\ wpc = "init" /\ wpc' = "poll"
  /\ lastMod' = IF file.there THEN file.mtime ELSE 0
  /\ missed' = IF Readable /\ config # file.ver THEN "boot" ELSE missed
  /\ UNCHANGED <<file, loaded, updates, agent, crashes, offered>>

\* A tick that finds a later modification time, which it notes before the load.
Poll ==
  /\ wpc = "poll"
  /\ file.there /\ file.mtime > lastMod
  /\ lastMod' = file.mtime
  /\ wpc' = "load"
  /\ UNCHANGED <<file, loaded, updates, agent, crashes, offered, missed>>

\* Mutants: the error of LoadFromFile is not looked at; or it ends the
\* goroutine.
LoadIgnoresError ==
  /\ wpc = "load" /\ file.there
  /\ loaded' = file.ver /\ wpc' = "send"
  /\ UNCHANGED <<file, lastMod, updates, agent, crashes, offered, missed>>

LoadErrorReturns ==
  /\ wpc = "load"
  /\ IF Readable THEN loaded' = file.ver /\ wpc' = "send" /\ missed' = "none"
     ELSE wpc' = "off" /\ UNCHANGED <<loaded, missed>>
  /\ UNCHANGED <<file, lastMod, updates, agent, crashes, offered>>

Load ==
  /\ wpc = "load"
  /\ IF Readable THEN loaded' = file.ver /\ wpc' = "send" /\ missed' = "none"
     ELSE wpc' = "poll" /\ UNCHANGED <<loaded, missed>>
  /\ UNCHANGED <<file, lastMod, updates, agent, crashes, offered>>

\* Mutants: a send that always succeeds; a channel without a buffer.
SendUnbounded ==
  /\ wpc = "send" /\ wpc' = "poll" /\ loaded' = 0
  /\ updates' = Append(updates, loaded)
  /\ UNCHANGED <<file, lastMod, agent, crashes, offered, missed>>

SendUnbuffered ==
  /\ wpc = "send" /\ wpc' = "poll" /\ loaded' = 0
  /\ updates' = IF apc = "loop" /\ updates = <<>> THEN <<loaded>> ELSE updates
  /\ UNCHANGED <<file, lastMod, agent, crashes, offered, missed>>

\* The non-blocking send: with the channel full, the newer version is dropped.
Send ==
  /\ wpc = "send" /\ wpc' = "poll" /\ loaded' = 0
  /\ IF Len(updates) < Capacity
     THEN updates' = Append(updates, loaded) /\ UNCHANGED missed
     ELSE /\ missed' = IF loaded = file.ver /\ loaded # updates[1] THEN "burst" ELSE missed
          /\ UNCHANGED updates
  /\ UNCHANGED <<file, lastMod, agent, crashes, offered>>

-----------------------------------------------------------------------------
Operator == Replace \/ WriteBegin \/ WriteEnd \/ Delete
Boot     == BootLoad \/ BootApplied \/ StartWatchers
Watcher  == WatchInit \/ Poll \/ Load \/ Send

Next == Operator \/ Boot \/ Receive \/ OtherCase \/ CaseDone \/ Crash \/ Restart \/ Watcher

Spec == Init /\ [][Next]_vars

\* The scheduler runs both goroutines, the ticker ticks, applyConfig returns and
\* systemd restarts.  Strong fairness for Receive: select chooses at random
\* among the cases that are ready.  Nothing makes an operator write or a
\* process die.
Fairness == /\ WF_vars(Boot) /\ WF_vars(CaseDone) /\ WF_vars(Restart)
            /\ WF_vars(Watcher) /\ SF_vars(Receive)

FairSpec == Spec /\ Fairness

-----------------------------------------------------------------------------
(* Properties.                                                             *)

\* HotReload is implemented: whatever the file, the watcher and the process
\* go through, no half-written file comes into force (LoadFromFile, config.go:123),
\* and no version is followed by an older one (watcher.go:49-62, agent.go:163).
Promise == INSTANCE HotReload WITH up <- apc \notin {"down", "load"}

ImplementsHotReload == Promise!Spec

\* Nothing is on its way: the agent waits in select and the watcher would load
\* nothing.
Settled ==
  /\ apc = "loop" /\ updates = <<>>
  /\ wpc = "poll" /\ Readable /\ file.mtime <= lastMod

\* An update is lost in exactly three ways.  When nothing is on its way, the
\* file is in force unless it was written while the agent booted, or loaded
\* while an older update was waiting, or written with a modification time that
\* is not later (watcher.go:34, 61, 49).
LostOnlyWhenMissed == Settled => (config = file.ver <=> missed = "none")

(* Liveness, under FairSpec.                                               *)

\* A version that is not missed in one of the three ways comes into force and
\* stays, whatever else the agent is busy with and however often it dies.
ReloadsUnlessMissed ==
  (<>[](Readable /\ missed = "none")) => <>[](config = file.ver)
==============================================================================
