---------------------------- MODULE Secrets_proofs ----------------------------
(***************************************************************************)
(* What Secrets promises for every set of nodes and fields, every file an  *)
(* older version left, and every number of deaths and copies.  That a      *)
(* secret in use stays is not inductive by itself: between two runs of the *)
(* agent it is the file that has to keep it, and during an addition it is  *)
(* only in memory, while the file is torn.  That a complete file is left   *)
(* alone needs that no run is on its way to save.                          *)
(***************************************************************************)
EXTENDS Secrets, TLAPS

\* Whatever of file and memory there is of a node, it has the node's secrets.
Kept(n) ==
  ~touched[n] => \A s \in handed[n] :
    /\ file[n].state # "absent"
    /\ file[n].state = "whole" => Extends(file[n].set, s)
    /\ pc[n] # "down" => Extends(secrets[n], s)

Saved(n) == pc[n] = "up" /\ ~touched[n] => file[n] = Whole(secrets[n])

\* No start of the agent is about to write over what is in use and complete.
Safe(n) ==
  ~touched[n] => \A s \in handed[n] :
    ~Incomplete(s) => file[n] = Whole(s) /\ pc[n] \in {"down", "up"}

\* A set whose password xavi drew is as it was when it was generated.
Original(s) == s[Password] > Given => s = Generate(s[Password])

Sound(n) == Kept(n) /\ Safe(n) /\ Saved(n) /\ Original(file[n].set) /\ Original(secrets[n])

IInv == TypeOK /\ \A n \in Nodes : Sound(n)

-----------------------------------------------------------------------------
(* Sets of secrets.                                                        *)

LEMMA States ==
  /\ Absent.state = "absent" /\ Absent.set = Blank
  /\ Torn.state = "torn" /\ Torn.set = Blank
  /\ \A s : Whole(s).state = "whole" /\ Whole(s).set = s
  BY DEF Absent, Torn, Whole

LEMMA BlankIsOriginal == Blank \in Sets /\ Original(Blank)
  BY DEF Blank, Sets, Original, Empty, Given, Fields

(* A generated file is complete and counts as generated.                   *)
LEMMA GenerateIsOriginal ==
  ASSUME NEW k \in Nat
  PROVE  Generate(k) \in Sets /\ Original(Generate(k))
<1>1. Generate(k) \in Sets /\ Generate(k)[Password] = k
  BY DEF Generate, Sets, Default, Fields, Password, Database
<1>2. QED
  BY <1>1 DEF Original

(* Adding what is missing takes no secret away (secrets.go:34-61), and     *)
(* changes nothing in a file that xavi generated.                          *)
LEMMA RepairKeeps ==
  ASSUME NEW s \in Sets, NEW k \in Nat
  PROVE  /\ Repair(s, k) \in Sets
         /\ Extends(Repair(s, k), s)
         /\ Original(s) => Original(Repair(s, k))
<1>1. Repair(s, k) \in Sets /\ Repair(s, k)[Password] = s[Password]
  BY DEF Repair, Sets, Default, Fields
<1>2. Extends(Repair(s, k), s)
  BY DEF Extends, Repair
<1>3. ASSUME Original(s), s[Password] > Given PROVE Repair(s, k) = s
  <2>1. s = Generate(s[Password])
    BY <1>3 DEF Original
  <2>2. \A f \in Fields : s[f] # Empty
    BY <1>3, <2>1 DEF Generate, Empty, Default, Given, Sets
  <2>3. QED
    BY <2>2 DEF Repair, Sets
<1>4. Original(s) => Original(Repair(s, k))
  BY <1>1, <1>3 DEF Original
<1>5. QED
  BY <1>1, <1>2, <1>4

LEMMA ExtendsTransitive ==
  ASSUME NEW r \in Sets, NEW s \in Sets, NEW t \in Sets, Extends(r, s), Extends(s, t)
  PROVE  Extends(r, t)
  BY DEF Extends

(* What is in use with a set that extends it is that set.                  *)
LEMMA InUseIsSet ==
  ASSUME NEW used \in SUBSET Sets, NEW s \in Sets
  PROVE  /\ InUseWith(used, s) \in SUBSET Sets
         /\ (\A u \in used : Extends(s, u)) => \A t \in InUseWith(used, s) : t = s
<1>1. CASE used = {}
  BY <1>1 DEF InUseWith
<1>2. CASE used # {}
  <2> DEFINE with(u) == [f \in Fields |-> IF u[f] # Empty THEN u[f] ELSE s[f]]
  <2>1. InUseWith(used, s) = {with(u) : u \in used}
    BY <1>2 DEF InUseWith
  <2>2. ASSUME NEW u \in used
        PROVE  with(u) \in Sets /\ (Extends(s, u) => with(u) = s)
    BY DEF Sets, Extends
  <2>3. QED
    BY <2>1, <2>2
<1>3. QED
  BY <1>1, <1>2

-----------------------------------------------------------------------------
(* The invariant is inductive.                                             *)

LEMMA InitIInv == Init => IInv
<1> SUFFICES ASSUME Init PROVE IInv
  OBVIOUS
<1>1. \A s \in OldSets : s \in Sets /\ ~(s[Password] > Given)
  BY SecretsAssumption DEF Sets, Empty, Given, Fields
<1>2. \A n \in Nodes : file[n] = Absent \/ \E s \in OldSets : file[n] = Whole(s)
  BY DEF Init
<1>3. TypeOK
  <2>1. file \in [Nodes -> [state: {"absent", "torn", "whole"}, set: Sets]]
    BY <1>1, BlankIsOriginal DEF Init, Absent, Whole
  <2>2. handed \in [Nodes -> SUBSET Sets]
    BY <1>1 DEF Init
  <2>3. \A n \in Nodes : file[n].state # "whole" => file[n].set = Blank
    BY <1>2, States
  <2>4. QED
    BY <2>1, <2>2, <2>3, BlankIsOriginal, SecretsAssumption DEF Init, TypeOK, Given
<1>4. ASSUME NEW n \in Nodes PROVE Kept(n) /\ Safe(n) /\ Saved(n)
  <2>1. pc[n] = "down" /\ \A s \in handed[n] : file[n] = Whole(s)
    BY DEF Init
  <2>2. QED
    BY <2>1, States DEF Kept, Safe, Saved, Extends
<1>5. ASSUME NEW n \in Nodes PROVE Original(file[n].set) /\ Original(secrets[n])
  <2>1. Original(file[n].set)
    BY <1>1, <1>2, BlankIsOriginal, States DEF Original
  <2>2. QED
    BY <2>1, BlankIsOriginal DEF Init
<1>6. QED
  BY <1>3, <1>4, <1>5 DEF IInv, Sound

\* A node of which nothing changes stays sound.
Same(n) == UNCHANGED <<file[n], pc[n], secrets[n], handed[n], touched[n]>>

LEMMA SameIsSound ==
  ASSUME NEW n, Sound(n), Same(n)
  PROVE  Sound(n)'
  BY DEF Sound, Same, Kept, Safe, Saved, Original

(* The steps of LoadOrGenerate.                                            *)
LEMMA LoadStep ==
  ASSUME IInv, NEW n \in Nodes, LoadOrGenerate(n)
  PROVE  IInv'
<1> USE DEF IInv, TypeOK
<1>1. CASE LoadNothing(n)
  <2>1. TypeOK'
    BY <1>1, GenerateIsOriginal DEF LoadNothing, history
  <2>2. \A i \in Nodes \ {n} : Same(i)
    BY <1>1 DEF LoadNothing, history, Same
  <2>3. Kept(n)' /\ Safe(n)'
    BY <1>1, States DEF LoadNothing, history, Sound, Kept, Safe
  <2>4. Saved(n)' /\ Original(file'[n].set)
    BY <1>1 DEF LoadNothing, Sound, Saved
  <2>5. Original(secrets'[n])
    BY <1>1, GenerateIsOriginal DEF LoadNothing
  <2>6. QED
    BY <2>1, <2>2, <2>3, <2>4, <2>5, SameIsSound DEF Sound
<1>2. CASE LoadComplete(n)
  <2>1. TypeOK'
    BY <1>2 DEF LoadComplete, history
  <2>2. \A i \in Nodes \ {n} : Same(i)
    BY <1>2 DEF LoadComplete, history, Same
  <2>3. Kept(n)' /\ Safe(n)'
    BY <1>2 DEF LoadComplete, history, Sound, Kept, Safe
  <2>4. Saved(n)'
    BY <1>2 DEF LoadComplete, Saved, Whole
  <2>5. Original(file'[n].set) /\ Original(secrets'[n])
    BY <1>2 DEF LoadComplete, Sound
  <2>6. QED
    BY <2>1, <2>2, <2>3, <2>4, <2>5, SameIsSound DEF Sound
<1>3. CASE LoadIncomplete(n)
  <2> DEFINE s == file[n].set
             r == Repair(s, drawn + 1)
  <2>1. s \in Sets /\ drawn + 1 \in Nat /\ secrets' = [secrets EXCEPT ![n] = r]
    BY <1>3 DEF LoadIncomplete
  <2>2. r \in Sets /\ Extends(r, s) /\ Original(r)
    BY <2>1, RepairKeeps DEF Sound
  <2> HIDE DEF r
  <2>3. TypeOK'
    BY <1>3, <2>1, <2>2 DEF LoadIncomplete, history
  <2>4. \A i \in Nodes \ {n} : Same(i)
    BY <1>3 DEF LoadIncomplete, history, Same
  <2>5. Kept(n)'
    <3> SUFFICES ASSUME ~touched[n], NEW h \in handed[n]
                 PROVE  /\ file'[n].state # "absent"
                        /\ Extends(file'[n].set, h)
                        /\ Extends(secrets'[n], h)
      BY <1>3 DEF Kept, LoadIncomplete, history
    <3>1. h \in Sets /\ Extends(s, h)
      BY <1>3 DEF LoadIncomplete, Sound, Kept
    <3>2. Extends(r, h)
      BY <2>1, <2>2, <3>1, ExtendsTransitive
    <3>3. QED
      BY <1>3, <2>1, <3>1, <3>2 DEF LoadIncomplete
  <2>6. Safe(n)' /\ Saved(n)' /\ Original(file'[n].set)
    BY <1>3, States DEF LoadIncomplete, history, Safe, Saved, Sound
  <2>7. Original(secrets'[n])
    BY <2>1, <2>2
  <2>8. QED
    BY <2>3, <2>4, <2>5, <2>6, <2>7, SameIsSound DEF Sound
<1>4. CASE Truncate(n)
  <2>1. TypeOK'
    BY <1>4, BlankIsOriginal DEF Truncate, history, Torn
  <2>2. \A i \in Nodes \ {n} : Same(i)
    BY <1>4 DEF Truncate, history, Same
  <2>3. file'[n] = Torn /\ pc[n] = "save" /\ pc'[n] = "write" /\ secrets'[n] = secrets[n]
    BY <1>4 DEF Truncate
  <2>4. Kept(n)' /\ Safe(n)'
    BY <1>4, <2>3, States DEF Truncate, history, Sound, Kept, Safe
  <2>5. Saved(n)' /\ Original(file'[n].set) /\ Original(secrets'[n])
    BY <2>3, States, BlankIsOriginal DEF Saved, Sound
  <2>6. QED
    BY <2>1, <2>2, <2>4, <2>5, SameIsSound DEF Sound
<1>5. CASE Write(n)
  <2>1. TypeOK'
    BY <1>5, States DEF Write, history, Whole
  <2>2. \A i \in Nodes \ {n} : Same(i)
    BY <1>5 DEF Write, history, Same
  <2>3. /\ file'[n] = Whole(secrets[n]) /\ secrets'[n] = secrets[n]
        /\ pc[n] = "write" /\ pc'[n] = "up"
    BY <1>5 DEF Write
  <2>4. Kept(n)' /\ Safe(n)'
    BY <1>5, <2>3, States DEF Write, history, Sound, Kept, Safe
  <2>5. Saved(n)' /\ Original(file'[n].set) /\ Original(secrets'[n])
    BY <2>3, States DEF Saved, Sound
  <2>6. QED
    BY <2>1, <2>2, <2>4, <2>5, SameIsSound DEF Sound
<1>6. QED
  BY <1>1, <1>2, <1>3, <1>4, <1>5 DEF LoadOrGenerate

\* The bound on events is respected.
LEMMA EventBounded == events \in 0..MaxEvents /\ Event => events' \in 0..MaxEvents
  BY SecretsAssumption DEF Event

(* A file that is replaced is no longer promised to be kept.  The          *)
(* replacement f is nothing, torn, or whole and original.                  *)
LEMMA ChangedIsSound ==
  ASSUME IInv, NEW n \in Nodes, NEW f \in [state: {"absent", "torn", "whole"}, set: Sets],
         Original(f.set), Changed(n, f),
         \/ UNCHANGED <<pc, secrets>>
         \/ pc'[n] = "down" /\ secrets'[n] = Blank
  PROVE  Sound(n)'
<1>1. file'[n] = f /\ handed' = handed
  BY DEF Changed, IInv, TypeOK
<1>2. touched'[n] = (touched[n] \/ pc[n] # "down" \/ handed[n] # {})
  BY DEF Changed, IInv, TypeOK
<1>3. Kept(n)' /\ Safe(n)'
  BY <1>1, <1>2 DEF Kept, Safe
<1>4. Saved(n)'
  BY <1>2 DEF Saved
<1>5. Original(file'[n].set) /\ Original(secrets'[n])
  BY <1>1, BlankIsOriginal DEF IInv, Sound
<1>6. QED
  BY <1>3, <1>4, <1>5 DEF Sound

(* The node and the operator.                                              *)
LEMMA OtherStep ==
  ASSUME IInv, NEW n \in Nodes,
         \/ HandOut(n) \/ Die(n) \/ Sync(n) \/ PowerLoss(n) \/ Remove(n)
         \/ \E m \in Nodes : Copy(n, m)
  PROVE  IInv'
<1> USE DEF IInv, TypeOK
<1>0. Absent \in [state: {"absent", "torn", "whole"}, set: Sets]
      /\ Torn \in [state: {"absent", "torn", "whole"}, set: Sets]
  BY BlankIsOriginal DEF Absent, Torn
<1>1. CASE HandOut(n)
  <2>1. /\ handed' = [handed EXCEPT ![n] = InUseWith(handed[n], secrets[n])]
        /\ pc[n] = "up"
        /\ UNCHANGED <<file, pc, secrets, dirty, drawn, events, touched>>
    BY <1>1 DEF HandOut
  <2>2. /\ InUseWith(handed[n], secrets[n]) \in SUBSET Sets
        /\ (\A u \in handed[n] : Extends(secrets[n], u))
             => \A t \in InUseWith(handed[n], secrets[n]) : t = secrets[n]
    BY InUseIsSet
  <2>3. TypeOK' /\ \A i \in Nodes \ {n} : Same(i)
    <3>1. handed' \in [Nodes -> SUBSET Sets]
      BY <2>1, <2>2
    <3>2. \A i \in Nodes \ {n} : handed'[i] = handed[i]
      BY <2>1
    <3>3. QED
      BY <2>1, <3>1, <3>2 DEF Same
  <2>4. Kept(n)' /\ Safe(n)'
    <3>1. ~touched[n] => \A t \in InUseWith(handed[n], secrets[n]) : t = secrets[n]
      BY <2>1, <2>2 DEF Sound, Kept
    <3>2. ~touched[n] => file[n] = Whole(secrets[n])
      BY <2>1 DEF Sound, Saved
    <3>3. handed'[n] = InUseWith(handed[n], secrets[n])
      BY <2>1
    <3>4. QED
      BY <2>1, <3>1, <3>2, <3>3, States DEF Kept, Safe, Extends
  <2>5. Saved(n)' /\ Original(file'[n].set) /\ Original(secrets'[n])
    BY <1>1 DEF HandOut, Sound, Saved
  <2>6. QED
    BY <2>3, <2>4, <2>5, SameIsSound DEF Sound
<1>2. CASE Die(n)
  <2>1. TypeOK' /\ \A i \in Nodes \ {n} : Same(i)
    BY <1>2, BlankIsOriginal, EventBounded DEF Die, history, Same
  <2>2. Sound(n)'
    BY <1>2, BlankIsOriginal DEF Die, history, Sound, Kept, Safe, Saved
  <2>3. QED
    BY <2>1, <2>2, SameIsSound
<1>3. CASE Sync(n)
  <2>1. TypeOK' /\ \A i \in Nodes : Same(i)
    BY <1>3 DEF Sync, history, Same
  <2>2. QED
    BY <2>1, SameIsSound
<1>4. CASE PowerLoss(n)
  <2>1. PICK f \in {Absent, Torn} : Changed(n, f)
    BY <1>4 DEF PowerLoss
  <2>2. /\ f \in [state: {"absent", "torn", "whole"}, set: Sets]
        /\ Original(f.set) /\ f.set = Blank
    BY <1>0, BlankIsOriginal, States
  <2>3. TypeOK' /\ \A i \in Nodes \ {n} : Same(i)
    BY <1>4, <2>1, <2>2, BlankIsOriginal, EventBounded DEF PowerLoss, Changed, Same
  <2>4. Sound(n)'
    <3>1. pc'[n] = "down" /\ secrets'[n] = Blank
      BY <1>4 DEF PowerLoss
    <3>2. QED
      BY <2>1, <2>2, <3>1, ChangedIsSound
  <2>5. QED
    BY <2>3, <2>4, SameIsSound
<1>5. CASE Remove(n)
  <2>1. TypeOK' /\ \A i \in Nodes \ {n} : Same(i)
    BY <1>0, <1>5, States, EventBounded DEF Remove, Changed, Same
  <2>2. Sound(n)'
    BY <1>0, <1>5, BlankIsOriginal, States, ChangedIsSound DEF Remove
  <2>3. QED
    BY <2>1, <2>2, SameIsSound
<1>6. ASSUME NEW m \in Nodes, Copy(n, m) PROVE IInv'
  <2>1. TypeOK' /\ \A i \in Nodes \ {m} : Same(i)
    BY <1>6, EventBounded DEF Copy, Changed, Same
  <2>2. Sound(m)'
    BY <1>6, ChangedIsSound DEF Copy, Sound
  <2>3. QED
    BY <2>1, <2>2, SameIsSound
<1>7. QED
  BY <1>1, <1>2, <1>3, <1>4, <1>5, <1>6

LEMMA NextIInv == IInv /\ [Next]_vars => IInv'
<1>1. ASSUME IInv, UNCHANGED vars PROVE IInv'
  BY <1>1 DEF vars, IInv, TypeOK, Sound, Kept, Safe, Saved, Original
<1>2. ASSUME IInv, Next PROVE IInv'
  BY <1>2, LoadStep, OtherStep DEF Next, Node
<1>3. QED
  BY <1>1, <1>2

-----------------------------------------------------------------------------
(* The theorems.                                                           *)

\* The inductive invariant holds of every behaviour.
THEOREM Invariant == Spec => []IInv
  BY InitIInv, NextIInv, PTL DEF Spec

\* Every variable stays in its type, and a file that is not whole holds no
\* secrets (secrets.go:98-119).
THEOREM TypeCorrect == Spec => []TypeOK
<1>1. IInv => TypeOK
  BY DEF IInv
<1>2. QED
  BY <1>1, Invariant, PTL

\* A secret in use stays in use until somebody touches the file, however often
\* the agent dies while it adds to the file (secrets.go:28-87).
THEOREM StaysInUse == Spec => []HandedOutStays
<1>1. IInv => HandedOutStays
  BY DEF IInv, Sound, Kept, HandedOutStays
<1>2. QED
  BY <1>1, Invariant, PTL

\* Once what is in use is complete, neither a start nor a death of the agent
\* touches its file again: only the addition to an older file puts secrets in
\* use at risk (secrets.go:31-66).
THEOREM CompleteStays == Spec => []CompleteNeverRewritten
<1>1. IInv => CompleteNeverRewritten
  BY DEF IInv, Sound, Safe, CompleteNeverRewritten
<1>2. QED
  BY <1>1, Invariant, PTL

\* LoadOrGenerate returns only what is in the file (secrets.go:62-66, 83-87).
THEOREM SavedFirst == Spec => []InUseIsSaved
<1>1. IInv => InUseIsSaved
  BY DEF IInv, Sound, Saved, InUseIsSaved
<1>2. QED
  BY <1>1, Invariant, PTL

\* Nodes that were given copies of a file xavi generated have all its secrets
\* in common, whenever it was copied (README.md:128).
THEOREM CopiesAgree == Spec => []GeneratedAgree
<1>1. IInv => GeneratedAgree
  BY DEF IInv, Sound, Original, GeneratedAgree
<1>2. QED
  BY <1>1, Invariant, PTL
==============================================================================
