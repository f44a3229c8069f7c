-------------------------- MODULE RuntimeFiles_proofs --------------------------
(***************************************************************************)
(* What RuntimeFiles promises for every clock, every number of edits,      *)
(* deaths and failed writes, and every user the files may belong to.       *)
(***************************************************************************)
EXTENDS RuntimeFiles, TLAPS

\* A change of the source is on its way to the agent.
Pending == \/ changed > 0
           \/ wpc = "send"
           \/ wpc = "poll" /\ source.there /\ source.mtime > lastMod

\* Nothing is on its way, and no reason is known why the file should be stale.
Fresh == config # {} /\ missed = "none" /\ ~Pending

Made    == gen.state = "whole" /\ gen.content = merged
Owned   == config \subseteq {Root, Invalid, gen.owner}
Refused == kind = "app" /\ merged = Nothing

\* What each point of an ensure call, and the loop, knows of the file ...
Progress ==
  Fresh => /\ apc = "own" => Made
           /\ apc = "run" => Made /\ Owned
           /\ apc \in {"start", "loop"} => Refused \/ (Made /\ Owned)

\* ... and of the source, once it is watched.
Followed == Fresh /\ apc # "read" /\ wpc = "poll" /\ Mergeable => merged = Merged

\* The app's container is created over a file that is there.
Guarded == kind = "app" => /\ gen.state # "directory"
                           /\ apc \in {"own", "run"} => gen.state = "whole"

IInv ==
  /\ TypeOK
  /\ source.there => source.ver > 0
  /\ wpc \in {"off", "init"} => changed = 0
  /\ apc \in {"down", "start"} => wpc = "off"
  /\ Progress
  /\ Followed
  /\ Guarded

-----------------------------------------------------------------------------
LEMMA BackendsAreContents ==
  ASSUME TypeOK
  PROVE  Merged \in Contents /\ Nothing \in Contents
<1>1. 0 \in 0..MaxWrites /\ source.ver \in 0..MaxWrites
  BY FilesAssumption DEF TypeOK
<1>2. BackupBackend \in SUBSET {"file", "bucket", "keys"}
  BY DEF BackupBackend, parseBackupConfig
<1>3. QED
  BY <1>1, <1>2 DEF Merged, Nothing, Contents

\* The bound on events is respected.
LEMMA EventBounded == events \in 0..MaxEvents /\ Event => events' \in 0..MaxEvents
  BY FilesAssumption DEF Event

LEMMA InitIInv == Init => IInv
<1> SUFFICES ASSUME Init PROVE IInv
  OBVIOUS
<1>1. Nothing \in Contents
  BY FilesAssumption DEF Nothing, Contents
<1>2. source \in [there: BOOLEAN, ver: 0..MaxWrites, mtime: Int,
                  doc: {"object", "array", "null", "broken"}]
      /\ (source.there => source.ver > 0)
  BY FilesAssumption DEF Init
<1>3. TypeOK
  BY <1>1, <1>2, FilesAssumption DEF Init, TypeOK, Capacity, Root
<1>4. QED
  BY <1>2, <1>3 DEF Init, IInv, Progress, Followed, Guarded, Fresh

(* The operator: a change is noticed, or it is known to be missed.         *)
LEMMA OperatorStep ==
  ASSUME IInv, Operator
  PROVE  IInv'
<1> USE DEF IInv, TypeOK
<1>1. ASSUME NEW ver \in 1..MaxWrites, NEW mtime \in Int,
             NEW doc \in {"object", "array", "null", "broken"}, Written(ver, mtime, doc)
      PROVE  IInv'
  <2>1. TypeOK' /\ (source'.there => source'.ver > 0)
    BY <1>1 DEF Written, watcher, agent
  <2>2. UNCHANGED <<kind, gen, wpc, lastMod, changed, apc, config, ensures, merged>>
    BY <1>1 DEF Written, watcher, agent
  <2>3. CASE ~Watching
    <3>1. Fresh' => Fresh /\ wpc # "poll"
      BY <1>1, <2>2, <2>3 DEF Written, Watching, Fresh, Pending
    <3>2. QED
      BY <2>1, <2>2, <3>1 DEF Progress, Followed, Guarded, Made, Owned, Refused
  <2>4. CASE Watching
    <3>1. ~Fresh'
      BY <1>1, <2>2, <2>4 DEF Written, Watching, Fresh, Pending
    <3>2. QED
      BY <2>1, <2>2, <3>1 DEF Progress, Followed, Guarded
  <2>5. QED
    BY <2>3, <2>4
<1>2. CASE Replace
  <2>1. PICK d \in MtimeSteps, doc \in Documents : Written(source.ver + 1, source.mtime + d, doc)
    BY <1>2 DEF Replace
  <2>2. /\ source.ver + 1 \in 1..MaxWrites /\ source.mtime + d \in Int
        /\ doc \in {"object", "array", "null", "broken"}
    BY <1>2, FilesAssumption DEF Replace
  <2>3. QED
    BY <1>1, <2>1, <2>2
<1>3. CASE WriteBegin
  <2>1. PICK d \in MtimeSteps : Written(source.ver + 1, source.mtime + d, "broken")
    BY <1>3 DEF WriteBegin
  <2>2. source.ver + 1 \in 1..MaxWrites /\ source.mtime + d \in Int
    BY <1>3, FilesAssumption DEF WriteBegin
  <2>3. QED
    BY <1>1, <2>1, <2>2
<1>4. CASE WriteEnd
  <2>1. PICK d \in MtimeSteps \cup {0}, doc \in Documents \ {"broken"} :
          Written(source.ver, source.mtime + d, doc)
    BY <1>4 DEF WriteEnd
  <2>2. /\ source.ver \in 1..MaxWrites /\ source.mtime + d \in Int
        /\ doc \in {"object", "array", "null", "broken"}
    BY <1>4, FilesAssumption DEF WriteEnd
  <2>3. QED
    BY <1>1, <2>1, <2>2
<1>5. CASE Delete
  <2>1. TypeOK' /\ ~source'.there
    BY <1>5 DEF Delete, watcher, agent
  <2>2. UNCHANGED <<kind, gen, wpc, lastMod, changed, apc, config, ensures, merged>>
    BY <1>5 DEF Delete, watcher, agent
  <2>3. Fresh' => Fresh /\ wpc # "poll"
    BY <1>5, <2>2 DEF Delete, Watching, Fresh, Pending
  <2>4. QED
    BY <2>1, <2>2, <2>3 DEF Progress, Followed, Guarded, Made, Owned, Refused
<1>6. QED
  BY <1>2, <1>3, <1>4, <1>5 DEF Operator

(* The agent outside of an ensure call.                                    *)
LEMMA LoopStep ==
  ASSUME IInv, Boot \/ StartWatchers \/ Reload \/ Signal \/ Crash
  PROVE  IInv'
<1> USE DEF IInv, TypeOK
<1>1. CASE Boot
  <2>1. TypeOK' /\ (apc' = "read" \/ (apc' = "start" /\ config' = {}))
    BY <1>1 DEF Boot, Configure, Goto, watcher
  <2>2. apc = "down" /\ UNCHANGED <<kind, source, gen, wpc, lastMod, changed>>
    BY <1>1 DEF Boot, watcher
  <2>3. QED
    BY <2>1, <2>2 DEF Progress, Followed, Guarded, Fresh
<1>2. CASE StartWatchers
  <2>1. TypeOK' /\ wpc' = "init" /\ UNCHANGED <<kind, source, gen, changed, config, ensures, merged>>
    BY <1>2 DEF StartWatchers, Goto
  <2>2. apc = "start" /\ apc' = "loop" /\ UNCHANGED <<lastMod, missed>>
    BY <1>2 DEF StartWatchers, Goto
  <2>3. QED
    BY <2>1, <2>2 DEF Progress, Followed, Guarded, Fresh, Pending, Made, Owned, Refused
<1>3. CASE Reload
  <2>1. TypeOK' /\ apc' = "read" /\ UNCHANGED <<kind, source, gen, wpc, changed>>
    BY <1>3 DEF Reload, Configure, watcher
  <2>2. QED
    BY <2>1 DEF Progress, Followed, Guarded
<1>4. CASE Signal
  <2>1. TypeOK' /\ UNCHANGED <<kind, source, gen, wpc, config, ensures>> /\ changed # 0
    BY <1>4 DEF Signal, Goto, Capacity
  <2>2. (config = {} /\ apc' = "loop") \/ apc' = "read"
    BY <1>4 DEF Signal, Goto
  <2>3. QED
    BY <2>1, <2>2 DEF Progress, Followed, Guarded, Fresh
<1>5. CASE Crash
  <2>1. UNCHANGED <<missed, kind, source, gen>> /\ Event
    BY <1>5 DEF Crash, Stopped
  <2>2. /\ apc' = "down" /\ config' = {} /\ ensures' = "never" /\ merged' = Nothing
        /\ wpc' = "off" /\ lastMod' = 0 /\ changed' = 0
    BY <1>5 DEF Crash, Stopped
  <2>3. TypeOK'
    BY <2>1, <2>2, BackendsAreContents, EventBounded DEF Capacity
  <2>4. QED
    BY <2>1, <2>2, <2>3 DEF Progress, Followed, Guarded, Fresh
<1>6. QED
  BY <1>1, <1>2, <1>3, <1>4, <1>5

(* An ensure call.                                                         *)
LEMMA EnsureStep ==
  ASSUME IInv, Ensure
  PROVE  IInv'
<1> USE DEF IInv, TypeOK
<1>1. CASE Read
  <2>1. CASE Mergeable /\ Makes(Merged, "truncate", "none")
    <3>1. TypeOK'
      BY <2>1, BackendsAreContents DEF Makes, watcher
    <3>2. /\ merged' = Merged /\ apc' = "truncate"
          /\ UNCHANGED <<kind, source, gen, wpc, lastMod, changed, config, ensures>>
      BY <2>1 DEF Makes, watcher
    <3>3. Merged' = Merged
      BY <3>2 DEF Merged, BackupBackend
    <3>4. QED
      BY <3>1, <3>2, <3>3 DEF Progress, Followed, Guarded
  <2>2. CASE ~Mergeable /\ Makes(Nothing, Caller, "none")
    <3>1. TypeOK'
      BY <2>2, BackendsAreContents DEF Makes, watcher, Caller
    <3>2. /\ merged' = Nothing /\ apc' \in {"start", "loop"}
          /\ apc' = "start" => wpc = "off"
          /\ UNCHANGED <<kind, source, gen, wpc, lastMod, changed, config, ensures>>
      BY <1>1, <2>2 DEF Read, Makes, watcher, Caller
    <3>3. kind = "app" /\ ~Mergeable'
      BY <2>2, <3>2 DEF Mergeable
    <3>4. QED
      BY <3>1, <3>2, <3>3 DEF Progress, Followed, Guarded, Refused
  <2>3. CASE Stopped /\ UNCHANGED <<events, missed>>
    <3>1. UNCHANGED <<events, missed, kind, source, gen>>
      BY <2>3 DEF Stopped
    <3>2. /\ apc' = "down" /\ config' = {} /\ ensures' = "never" /\ merged' = Nothing
          /\ wpc' = "off" /\ lastMod' = 0 /\ changed' = 0
      BY <2>3 DEF Stopped
    <3>3. TypeOK'
      BY <3>1, <3>2, BackendsAreContents DEF Capacity
    <3>4. QED
      BY <3>1, <3>2, <3>3 DEF Progress, Followed, Guarded, Fresh
  <2>4. CASE Makes(Nothing, Caller, "waiting")
    <3>1. TypeOK'
      BY <2>4, BackendsAreContents DEF Makes, watcher, Caller
    <3>2. /\ apc' \in {"start", "loop"} /\ missed' = "waiting"
          /\ apc' = "start" => wpc = "off"
          /\ UNCHANGED <<kind, source, gen, wpc, lastMod, changed, config, ensures>>
      BY <1>1, <2>4 DEF Read, Makes, watcher, Caller
    <3>3. QED
      BY <3>1, <3>2 DEF Progress, Followed, Guarded, Fresh
  <2>5. QED
    BY <1>1, <2>1, <2>2, <2>3, <2>4 DEF Read
<1>2. CASE Truncate
  <2>1. UNCHANGED <<kind, source, wpc, lastMod, changed, config, ensures, merged>>
    BY <1>2 DEF Truncate, watcher, Goto, WriteFailed, Return
  <2>2. CASE apc' = "write"
    <3>1. /\ gen' = [state |-> "empty", content |-> Nothing, owner |-> gen.owner]
          /\ UNCHANGED <<events, missed>>
      BY <1>2, <2>2 DEF Truncate, Goto, WriteFailed, Return, Caller
    <3>2. TypeOK'
      BY <2>1, <2>2, <3>1, BackendsAreContents
    <3>3. Fresh' => Fresh
      BY <2>1, <3>1 DEF Fresh, Pending
    <3>4. Mergeable' = Mergeable /\ Merged' = Merged
      BY <2>1 DEF Mergeable, Merged, BackupBackend
    <3>5. apc = "truncate"
      BY <1>2 DEF Truncate
    <3>6. QED
      BY <2>1, <2>2, <3>1, <3>2, <3>3, <3>4, <3>5 DEF Progress, Followed, Guarded
  <2>3. CASE apc' # "write"
    <3>1. missed' = "fault" /\ gen' = gen /\ (events' = events \/ Event)
      BY <1>2, <2>3 DEF Truncate, Goto
    <3>2. /\ kind = "app" => apc' = Caller
          /\ kind # "app" => apc' = "own"
      BY <1>2, <2>3 DEF Truncate, WriteFailed, Goto, Return
    <3>3. TypeOK'
      BY <2>1, <3>1, <3>2, EventBounded DEF Caller
    <3>4. QED
      BY <2>1, <3>1, <3>2, <3>3 DEF Progress, Followed, Guarded, Fresh, Caller
  <2>4. QED
    BY <2>2, <2>3
<1>3. CASE Write
  <2>1. UNCHANGED <<kind, source, wpc, lastMod, changed, config, ensures, merged>>
    BY <1>3 DEF Write, watcher, Goto, WriteFailed, Return
  <2>2. CASE gen' = [gen EXCEPT !.state = "whole", !.content = merged]
               /\ apc' = "own" /\ UNCHANGED <<events, missed>>
    <3>1. TypeOK' /\ Made'
      BY <2>1, <2>2 DEF Made
    <3>2. Fresh' => Fresh
      BY <2>1, <2>2 DEF Fresh, Pending
    <3>3. Mergeable' = Mergeable /\ Merged' = Merged
      BY <2>1 DEF Mergeable, Merged, BackupBackend
    <3>4. apc = "write"
      BY <1>3 DEF Write
    <3>5. QED
      BY <2>1, <2>2, <3>1, <3>2, <3>3, <3>4 DEF Progress, Followed, Guarded, Made
  <2>3. CASE Event /\ WriteFailed /\ missed' = "fault" /\ gen' = gen
    <3>1. /\ kind = "app" => apc' = Caller
          /\ kind # "app" => apc' = "own"
      BY <2>3 DEF WriteFailed, Goto, Return
    <3>2. TypeOK'
      BY <2>1, <2>3, <3>1, EventBounded DEF Caller
    <3>3. QED
      BY <2>1, <2>3, <3>1, <3>2 DEF Progress, Followed, Guarded, Fresh, Caller
  <2>4. QED
    BY <1>3, <2>2, <2>3 DEF Write, Goto
<1>4. CASE Own
  <2>1. /\ UNCHANGED <<kind, source, wpc, lastMod, changed, config, ensures, merged>>
        /\ apc = "own" /\ apc' = "run"
    BY <1>4 DEF Own, watcher, Goto
  <2>2. /\ UNCHANGED <<gen.state, gen.content>>
        /\ TypeOK'
        /\ missed' = "fault" \/ (UNCHANGED missed /\ Owned')
    <3>1. ASSUME NEW s \in config \ {Root, Invalid}, gen' = [gen EXCEPT !.owner = s],
                 UNCHANGED <<events, missed>>
          PROVE  <2>2!1 /\ <2>2!2 /\ <2>2!3
      <4>1. s \in Nat /\ config = {s}
        BY FilesAssumption
      <4>2. gen'.owner = s /\ gen'.state = gen.state /\ gen'.content = gen.content
        BY <3>1
      <4>3. QED
        BY <2>1, <3>1, <4>1, <4>2 DEF Owned
    <3>2. CASE UNCHANGED gen /\ config \subseteq {Root, Invalid} /\ UNCHANGED <<events, missed>>
      BY <2>1, <3>2 DEF Owned
    <3>3. CASE Event /\ missed' = "fault" /\ UNCHANGED gen
      BY <2>1, <3>3, EventBounded
    <3>4. QED
      BY <1>4, <3>1, <3>2, <3>3 DEF Own
  <2>3. Fresh' => Fresh
    BY <2>1, <2>2 DEF Fresh, Pending
  <2>4. Mergeable' = Mergeable /\ Merged' = Merged
    BY <2>1 DEF Mergeable, Merged, BackupBackend
  <2>5. QED
    BY <2>1, <2>2, <2>3, <2>4 DEF Progress, Followed, Guarded, Made, Fresh
<1>5. CASE Run
  <2>1. /\ UNCHANGED <<kind, source, wpc, lastMod, changed, config, ensures, merged, events, missed>>
        /\ apc = "run" /\ apc' = Caller
    BY <1>5 DEF Run, watcher, Goto, Return
  <2>2. TypeOK' /\ (gen' = gen \/ gen.state = "absent")
    BY <1>5, <2>1 DEF Run, Caller
  <2>3. Fresh' => Fresh
    BY <2>1 DEF Fresh, Pending
  <2>4. Mergeable' = Mergeable /\ Merged' = Merged
    BY <2>1 DEF Mergeable, Merged, BackupBackend
  <2>5. QED
    BY <2>1, <2>2, <2>3, <2>4 DEF Progress, Followed, Guarded, Made, Owned, Caller
<1>6. QED
  BY <1>1, <1>2, <1>3, <1>4, <1>5 DEF Ensure

(* The watcher.                                                            *)
LEMMA WatcherStep ==
  ASSUME IInv, Watcher
  PROVE  IInv'
<1> USE DEF IInv, TypeOK
<1>1. UNCHANGED <<kind, source, gen, apc, config, ensures, merged, events>>
  BY DEF Watcher, WatchInit, Poll, Send, agent
<1>2. Mergeable' = Mergeable /\ Merged' = Merged
  BY <1>1 DEF Mergeable, Merged, BackupBackend
<1>3. CASE WatchInit
  <2>1. wpc = "init" /\ wpc' = "poll" /\ changed' = 0
    BY <1>3 DEF WatchInit
  <2>2. TypeOK'
    BY <1>1, <1>3 DEF WatchInit
  <2>3. Fresh' => Fresh /\ merged = Merged
    BY <1>1, <1>3, <2>1 DEF WatchInit, Fresh, Pending
  <2>4. QED
    BY <1>1, <1>2, <2>1, <2>2, <2>3 DEF Progress, Followed, Guarded, Made, Owned, Refused
<1>4. CASE Poll
  <2>1. TypeOK' /\ wpc = "poll" /\ wpc' = "send" /\ changed' = changed
    BY <1>1, <1>4 DEF Poll
  <2>2. ~Fresh'
    BY <2>1 DEF Fresh, Pending
  <2>3. QED
    BY <1>1, <2>1, <2>2 DEF Progress, Followed, Guarded
<1>5. CASE Send
  <2>1. wpc = "send" /\ wpc' = "poll" /\ changed' = 1 /\ UNCHANGED <<lastMod, missed>>
    BY <1>5 DEF Send, Capacity
  <2>2. TypeOK'
    BY <1>1, <2>1 DEF Capacity
  <2>3. ~Fresh'
    BY <2>1 DEF Fresh, Pending
  <2>4. QED
    BY <1>1, <2>1, <2>2, <2>3 DEF Progress, Followed, Guarded
<1>6. QED
  BY <1>3, <1>4, <1>5 DEF Watcher

LEMMA NextIInv == IInv /\ [Next]_vars => IInv'
<1>1. ASSUME IInv, UNCHANGED vars PROVE IInv'
  BY <1>1 DEF vars, IInv, TypeOK, Progress, Followed, Guarded, Fresh, Pending, Made, Owned,
              Refused, Mergeable, Merged, BackupBackend
<1>2. ASSUME IInv, Next PROVE IInv'
  BY <1>2, OperatorStep, LoopStep, EnsureStep, WatcherStep DEF Next
<1>3. QED
  BY <1>1, <1>2

-----------------------------------------------------------------------------
(* The theorems.                                                           *)

\* The inductive invariant holds of every behaviour.
THEOREM Invariant == Spec => []IInv
  BY InitIInv, NextIInv, PTL DEF Spec

\* Every variable stays in its type; at most one signal waits (watcher.go:80).
THEOREM TypeCorrect == Spec => []TypeOK
<1>1. IInv => TypeOK
  BY DEF IInv
<1>2. QED
  BY <1>1, Invariant, PTL

\* The generated file is stale for one of five reasons only, however the edits,
\* the watcher and the agent interleave and whenever the mesh shows Postgres
\* (watcher.go:82-116, agent.go:166-179, 548-568).
THEOREM StaleCharacterized == Spec => []StaleOnlyWhenMissed
<1>1. ASSUME IInv PROVE StaleOnlyWhenMissed
  <2> SUFFICES ASSUME Settled, Mergeable, missed = "none" PROVE Current
    BY DEF StaleOnlyWhenMissed
  <2>1. Fresh /\ wpc = "poll" /\ apc = "loop"
    BY <1>1 DEF Settled, Fresh, Pending, IInv, TypeOK
  <2>2. merged = Merged
    BY <1>1, <2>1 DEF IInv, Followed
  <2>3. ~Refused
    <3> SUFFICES ASSUME kind = "app" PROVE Merged # Nothing
      BY <2>2 DEF Refused
    <3>1. source.ver > 0
      BY <1>1 DEF IInv, Mergeable
    <3>2. Merged.ver = source.ver /\ Nothing.ver = 0
      BY DEF Merged, Nothing
    <3>3. QED
      BY <1>1, <3>1, <3>2
  <2>4. QED
    BY <1>1, <2>1, <2>2, <2>3 DEF IInv, Progress, Made, Owned, Current
<1>2. QED
  BY <1>1, Invariant, PTL

\* The guard of ensureApp keeps the engine from making a directory of the app's
\* configuration, whatever fails (agent.go:584-588).
THEOREM AppFileGuarded == Spec => []AppFileIsNoDirectory
<1>1. IInv => AppFileIsNoDirectory
  BY FilesAssumption DEF IInv, Guarded, AppFileIsNoDirectory, TypeOK
<1>2. QED
  BY <1>1, Invariant, PTL
==============================================================================
