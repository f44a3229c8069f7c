------------------------ MODULE ConfigWatcher_proofs ------------------------
(***************************************************************************)
(* The configuration of the agent, proved for every number of writes and   *)
(* of restarts, every clock and every --auth flag: ConfigWatcher           *)
(* implements HotReload, and loses an update in exactly the three ways     *)
(* LostOnlyWhenMissed names.                                               *)
(*                                                                         *)
(* Both follow from one inductive invariant.  A version travels from the   *)
(* file to the watcher's variable, from there to the channel and to the    *)
(* agent; Pipeline says that the versions on that way never overtake each  *)
(* other, and Account says at each point of it what missed stands for.     *)
(***************************************************************************)
EXTENDS ConfigWatcher, SequenceTheorems, TLAPS

\* A file that parses was completed by the operator, one that does not was not.
FileOffered ==
  /\ Readable => file.ver \in offered
  /\ file.there /\ ~file.whole => file.ver \notin offered
  /\ file.there => file.ver > 0

\* Before the watcher starts there is nothing on the way.
Booting ==
  /\ apc \notin {"loop", "busy"} => wpc = "off"
  /\ wpc \in {"off", "init"} => updates = <<>>
  /\ apc \in {"down", "load"} => config = Nil

Pipeline ==
  /\ config <= newest
  /\ wpc = "send" => loaded \in offered /\ newest <= loaded
  /\ updates # <<>> => /\ Head(updates) \in offered /\ newest <= Head(updates)
                       /\ wpc = "send" => Head(updates) <= loaded

\* The configuration the agent has or is about to take.
Latest == IF updates = <<>> THEN config ELSE Head(updates)

Noticed == Readable /\ file.mtime <= lastMod

Account ==
  /\ apc \in {"boot", "start", "loop", "busy"} /\ wpc \in {"off", "init"} => missed = "none"
  /\ wpc = "send" /\ Noticed => (loaded = file.ver <=> missed = "none")
  /\ wpc = "poll" /\ Noticed => (Latest = file.ver <=> missed = "none")

IInv == TypeOK /\ FileOffered /\ Booting /\ Pipeline /\ Account

-----------------------------------------------------------------------------
LEMMA InitIInv == Init => IInv
  BY WatcherAssumption
  DEF Init, IInv, TypeOK, FileOffered, Booting, Pipeline, Account, Readable, Nil, Bundle,
      Capacity, Latest, Noticed

\* A sequence of at most one element.
LEMMA AtMostOneElement ==
  ASSUME NEW S, NEW s \in Seq(S), Len(s) \in {0, 1}
  PROVE  /\ Len(s) < 1 => s = <<>>
         /\ s # <<>> => Head(s) \in S /\ Tail(s) = <<>> /\ Len(s) = 1
<1>1. Len(s) \in Nat /\ (s # <<>> => Len(s) \in Nat \ {0})
  BY EmptySeq, LenProperties
<1>2. ASSUME s # <<>> PROVE Head(s) \in S /\ Tail(s) = <<>> /\ Len(s) = 1
  <2>1. Len(s) = 1
    BY <1>1, <1>2
  <2>2. Head(s) \in S /\ Tail(s) \in Seq(S) /\ Len(Tail(s)) = 0
    BY <1>2, <2>1, HeadTailProperties
  <2>3. Tail(s) # <<>> => Len(Tail(s)) \in Nat \ {0}
    BY <2>2, EmptySeq
  <2>4. QED
    BY <2>1, <2>2, <2>3
<1>3. QED
  BY <1>1, <1>2

(* The channel holds nothing or one version.                               *)
LEMMA Channel ==
  ASSUME TypeOK
  PROVE  /\ updates # <<>> => /\ Head(updates) \in 1..MaxWrites /\ Tail(updates) = <<>>
                              /\ Len(updates) = Capacity
         /\ Len(updates) < Capacity => updates = <<>>
         /\ \A v \in 1..MaxWrites : LET s == Append(<<>>, v)
                                    IN  /\ s \in Seq(1..MaxWrites) /\ Len(s) = 1
                                        /\ s # <<>> /\ Head(s) = v
<1>1. updates \in Seq(1..MaxWrites) /\ Len(updates) \in {0, 1} /\ Capacity = 1
  <2>1. updates \in Seq(1..MaxWrites)
    BY DEF TypeOK
  <2>2. Len(updates) \in Nat /\ Len(updates) <= 1
    BY LenProperties DEF TypeOK, Capacity
  <2>3. QED
    BY <2>1, <2>2 DEF Capacity
<1>2. /\ Len(updates) < 1 => updates = <<>>
      /\ updates # <<>> => /\ Head(updates) \in 1..MaxWrites /\ Tail(updates) = <<>>
                           /\ Len(updates) = 1
  BY <1>1, AtMostOneElement
<1>3. ASSUME NEW v \in 1..MaxWrites
      PROVE  LET s == Append(<<>>, v)
             IN  s \in Seq(1..MaxWrites) /\ Len(s) = 1 /\ s # <<>> /\ Head(s) = v
  BY <1>3
<1>4. QED
  BY <1>1, <1>2, <1>3

LEMMA OperatorStep == IInv /\ Operator => IInv'
<1> SUFFICES ASSUME IInv, Operator PROVE IInv'
  OBVIOUS
<1> USE WatcherAssumption DEF IInv, Nil, Bundle, Readable
<1>1. ASSUME NEW v \in 1..MaxWrites, NEW t \in Int,
             v > file.ver \/ (v = file.ver /\ file.there /\ ~file.whole),
             Completed(v, t)
      PROVE  IInv'
  <2>1. /\ file' = [there |-> TRUE, ver |-> v, mtime |-> t, whole |-> TRUE]
        /\ offered' = offered \cup {v}
        /\ missed' = IF Unnoticed(t) THEN "mtime" ELSE "none"
        /\ UNCHANGED <<wpc, lastMod, loaded, updates, apc, config, newest, crashes>>
    BY <1>1 DEF Completed, watcher, agent
  <2>2. offered \subseteq 1..v /\ file.ver <= v
    BY <1>1 DEF TypeOK
  <2>3. TypeOK'
    <3>1. file' \in [there: BOOLEAN, ver: 0..MaxWrites, mtime: Int, whole: BOOLEAN]
      BY <2>1
    <3>2. offered' \subseteq 1..file'.ver
      BY <2>1, <2>2
    <3>3. QED
      BY <2>1, <3>1, <3>2 DEF TypeOK
  <2>4. FileOffered'
    BY <1>1, <2>1 DEF FileOffered
  <2>5. Booting' /\ Pipeline'
    BY <2>1 DEF Booting, Pipeline
  <2>6. v \notin offered
    BY <1>1 DEF TypeOK, FileOffered
  <2>7. Account'
    BY <1>1, <2>1, <2>6, Channel DEF TypeOK, Account, Pipeline, Unnoticed, Latest, Noticed
  <2>8. QED
    BY <2>3, <2>4, <2>5, <2>7
<1>2. CASE Replace
  <2>1. PICK d \in MtimeSteps : Completed(file.ver + 1, file.mtime + d)
    BY <1>2 DEF Replace
  <2>2. file.ver + 1 \in 1..MaxWrites /\ file.mtime + d \in Int /\ file.ver + 1 > file.ver
    BY <1>2 DEF Replace, TypeOK
  <2>3. QED
    BY <1>1, <2>1, <2>2
<1>3. CASE WriteEnd
  <2>1. PICK d \in MtimeSteps \cup {0} : Completed(file.ver, file.mtime + d)
    BY <1>3 DEF WriteEnd
  <2>2. file.ver \in 1..MaxWrites /\ file.mtime + d \in Int
    BY <1>3 DEF WriteEnd, TypeOK, FileOffered
  <2>3. QED
    BY <1>1, <1>3, <2>1, <2>2 DEF WriteEnd
<1>4. CASE WriteBegin
  BY <1>4, Channel DEF WriteBegin, TypeOK, FileOffered, Booting, Pipeline, Account, Latest,
                       Noticed, watcher, agent
<1>5. CASE Delete
  BY <1>5, Channel DEF Delete, TypeOK, FileOffered, Booting, Pipeline, Account, Latest,
                       Noticed, watcher, agent
<1>6. QED
  BY <1>2, <1>3, <1>4, <1>5 DEF Operator

LEMMA AgentStep ==
  IInv /\ (Boot \/ Receive \/ OtherCase \/ CaseDone \/ Crash \/ Restart) => IInv'
<1> SUFFICES ASSUME IInv, Boot \/ Receive \/ OtherCase \/ CaseDone \/ Crash \/ Restart
             PROVE  IInv'
  OBVIOUS
<1> USE WatcherAssumption DEF IInv, TypeOK, FileOffered, Booting, Pipeline, Account, Latest,
                              Noticed, watcher, Nil, Bundle, Readable
<1>1. CASE BootLoad
  BY <1>1 DEF BootLoad, PutInForce
<1>2. CASE BootApplied \/ OtherCase \/ CaseDone \/ Restart
  BY <1>2 DEF BootApplied, OtherCase, CaseDone, Restart
<1>3. CASE StartWatchers
  BY <1>3 DEF StartWatchers
<1>4. CASE Receive
  BY <1>4, Channel DEF Receive, PutInForce
<1>5. CASE Crash
  <2>1. crashes' \in 0..MaxCrashes
    BY <1>5 DEF Crash
  <2>2. newest \in Nat
    OBVIOUS
  <2>3. TypeOK'
    BY <1>5, <2>1 DEF Crash, Capacity
  <2>4. QED
    BY <1>5, <2>2, <2>3 DEF Crash
<1>6. QED
  BY <1>1, <1>2, <1>3, <1>4, <1>5 DEF Boot

LEMMA WatcherStep == IInv /\ Watcher => IInv'
<1> SUFFICES ASSUME IInv, Watcher PROVE IInv'
  OBVIOUS
<1> USE WatcherAssumption DEF IInv, TypeOK, FileOffered, Booting, Pipeline, Account, Latest,
                              Noticed, agent, Nil, Bundle, Readable
<1>1. CASE WatchInit
  BY <1>1 DEF WatchInit
<1>2. CASE Poll
  BY <1>2 DEF Poll
<1>3. CASE Load
  BY <1>3, Channel DEF Load
<1>4. CASE Send
  BY <1>4, Channel DEF Send, Capacity
<1>5. QED
  BY <1>1, <1>2, <1>3, <1>4 DEF Watcher

LEMMA NextIInv == IInv /\ [Next]_vars => IInv'
<1>1. IInv /\ UNCHANGED vars => IInv'
  BY DEF IInv, TypeOK, FileOffered, Booting, Pipeline, Account, Latest, Noticed, Readable, vars
<1>2. QED
  BY <1>1, OperatorStep, AgentStep, WatcherStep DEF Next

-----------------------------------------------------------------------------
(* The theorems.                                                           *)

THEOREM Invariant == Spec => []IInv
  BY InitIInv, NextIInv, PTL DEF Spec

\* Every variable stays in its type; in particular the Updates channel never
\* holds more than it has room for (watcher.go:22).
THEOREM TypeCorrect == Spec => []TypeOK
<1>1. IInv => TypeOK
  BY DEF IInv
<1>2. QED
  BY <1>1, Invariant, PTL

(* Whatever the number of writes, restarts and clock steps, an update that *)
(* is not missed in one of the three ways is in force once nothing is on   *)
(* its way any more, and one that is missed is not.                        *)
THEOREM LossCharacterized == Spec => []LostOnlyWhenMissed
<1>1. IInv => LostOnlyWhenMissed
  BY DEF IInv, Account, LostOnlyWhenMissed, Settled, Latest, Noticed
<1>2. QED
  BY <1>1, Invariant, PTL

(* ConfigWatcher implements HotReload: only whole files come into force,   *)
(* and never an older one after a newer one.                               *)
LEMMA StepImplements == IInv /\ [Next]_vars => [Promise!Next]_Promise!vars
<1> SUFFICES ASSUME IInv, [Next]_vars PROVE [Promise!Next]_Promise!vars
  OBVIOUS
<1> USE WatcherAssumption DEF IInv, Promise!vars, Nil, Bundle
<1>1. CASE Operator
  <2>1. ASSUME NEW v \in 1..MaxWrites, v >= file.ver, NEW t, Completed(v, t)
        PROVE  [Promise!Next]_Promise!vars
    <3>1. offered' = offered \cup {v} /\ UNCHANGED <<apc, config, newest>>
      BY <2>1 DEF Completed, agent
    <3>2. file.ver \in Nat /\ offered \subseteq 1..file.ver
      BY DEF TypeOK
    <3>3. offered' \subseteq Nat \ {0}
      BY <3>1, <3>2
    <3>4. \A w \in offered : w < v \/ w = v
      BY <2>1, <3>2
    <3>5. QED
      BY <3>1, <3>3, <3>4 DEF Promise!Next, Promise!Offer
  <2>2. CASE Replace
    <3>1. file.ver + 1 \in 1..MaxWrites /\ file.ver + 1 >= file.ver
      BY <2>2 DEF Replace, TypeOK
    <3>2. QED
      BY <2>1, <2>2, <3>1 DEF Replace
  <2>3. CASE WriteEnd
    <3>1. file.ver \in 1..MaxWrites /\ file.ver >= file.ver
      BY <2>3 DEF WriteEnd, TypeOK, FileOffered
    <3>2. QED
      BY <2>1, <2>3, <3>1 DEF WriteEnd
  <2>4. CASE WriteBegin \/ Delete
    BY <2>4 DEF WriteBegin, Delete, agent
  <2>5. QED
    BY <1>1, <2>2, <2>3, <2>4 DEF Operator
<1>2. CASE BootLoad
  BY <1>2 DEF BootLoad, PutInForce, TypeOK, FileOffered, Booting, Readable,
              Promise!Next, Promise!Start, Promise!Take, Promise!Nil, Promise!Bundle
<1>3. CASE Receive
  BY <1>3 DEF Receive, PutInForce, Pipeline, Promise!Next, Promise!Adopt, Promise!Take
<1>4. CASE Crash
  BY <1>4 DEF Crash, Booting, TypeOK, Promise!Next, Promise!Stop, Promise!Nil
<1>5. CASE BootApplied \/ StartWatchers \/ OtherCase \/ CaseDone \/ Restart
  BY <1>5 DEF BootApplied, StartWatchers, OtherCase, CaseDone, Restart
<1>6. CASE Watcher
  BY <1>6 DEF Watcher, WatchInit, Poll, Load, Send, agent
<1>7. CASE UNCHANGED vars
  BY <1>7 DEF vars
<1>8. QED
  BY <1>1, <1>2, <1>3, <1>4, <1>5, <1>6, <1>7 DEF Next, Boot

THEOREM Implements == Spec => ImplementsHotReload
<1>1. Init => Promise!Init
  BY DEF Init, Promise!Init, Promise!Nil, Nil
<1>2. QED
  BY <1>1, StepImplements, Invariant, PTL DEF Spec, ImplementsHotReload, Promise!Spec
==============================================================================
