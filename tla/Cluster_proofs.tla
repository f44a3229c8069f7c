---------------------------- MODULE Cluster_proofs ----------------------------
(***************************************************************************)
(* What Cluster promises for every set of nodes, configurations, peers and *)
(* keys, and any number of deaths, reloads and failures of the network.    *)
(***************************************************************************)
EXTENDS Cluster, FiniteSetTheorems, TLAPS

Primary(n) == \E c \in config[n] : c.role = "primary"

\* What the operator sees to: no two nodes are configured as primary.
OneConfigured == \A n, m \in Nodes : Primary(n) /\ Primary(m) => n = m

IInv == TypeOK /\ MeshedUnlessFailed /\ OneConfigured

-----------------------------------------------------------------------------
(* Groups.                                                                 *)

LEMMA EventBounded == events \in 0..MaxEvents /\ Event => events' \in 0..MaxEvents
  BY ClusterAssumption DEF Event

\* Groups that are united stay groups, and nobody leaves one.
LEMMA UniteKeeps ==
  ASSUME TypeOK, NEW n \in Nodes, NEW S \in SUBSET Nodes, Unite(n, S)
  PROVE  /\ group' \in [Nodes -> SUBSET Nodes]
         /\ Partition'
         /\ \A x, y \in Nodes : y \in group[x] => y \in group'[x]
         /\ \A y \in S : y \in group'[n] /\ n \in group'[y]
<1> DEFINE G == UNION {group[m] : m \in S \cup {n}}
<1>1. group' = [m \in Nodes |-> IF m \in G THEN G ELSE group[m]]
  BY DEF Unite
<1>2. group \in [Nodes -> SUBSET Nodes] /\ Partition
  BY DEF TypeOK
<1>3. G \in SUBSET Nodes
  BY <1>2
<1>4. \A x \in Nodes : x \in G => group[x] \subseteq G
  BY <1>2 DEF Partition
<1>5. \A x \in Nodes : x \notin G => \A y \in group[x] : y \notin G
  <2>1. SUFFICES ASSUME NEW x \in Nodes, NEW y \in group[x], y \in G
                 PROVE  x \in G
    OBVIOUS
  <2>2. PICK m \in S \cup {n} : y \in group[m]
    BY <2>1
  <2>3. y \in Nodes /\ m \in Nodes /\ x \in group[x]
    BY <1>2 DEF Partition
  <2>4. group[y] = group[m] /\ group[y] = group[x]
    BY <1>2, <2>2, <2>3 DEF Partition
  <2>5. x \in group[m]
    BY <2>3, <2>4
  <2>6. QED
    BY <2>5
<1>6. S \subseteq G /\ n \in G
  BY <1>2 DEF Partition
<1> HIDE DEF G
<1>7. group' \in [Nodes -> SUBSET Nodes]
  BY <1>1, <1>2, <1>3
<1>8. Partition'
  <2>1. SUFFICES ASSUME NEW x \in Nodes
                 PROVE  x \in group'[x] /\ \A y \in group'[x] : group'[y] = group'[x]
    BY DEF Partition
  <2>2. CASE x \in G
    BY <1>1, <1>3, <2>1, <2>2
  <2>3. CASE x \notin G
    BY <1>1, <1>2, <1>5, <2>1, <2>3 DEF Partition
  <2>4. QED
    BY <2>2, <2>3
<1>9. \A x, y \in Nodes : y \in group[x] => y \in group'[x]
  BY <1>1, <1>4
<1>10. \A y \in S : y \in group'[n] /\ n \in group'[y]
  BY <1>1, <1>3, <1>6
<1>11. QED
  BY <1>7, <1>8, <1>9, <1>10

\* A group that falls apart, or loses a member, leaves groups.
LEMMA SplitKeeps ==
  ASSUME TypeOK, NEW x \in Nodes, NEW A \in SUBSET group[x], A # {},
         group' = [m \in Nodes |-> IF m \in A THEN A ELSE group[m] \ A]
  PROVE  /\ group' \in [Nodes -> SUBSET Nodes]
         /\ Partition'
         /\ \A n, m \in Nodes :
              m \in group[n] => m \in group'[n] \/ (n \in A <=> m \notin A)
<1>1. group \in [Nodes -> SUBSET Nodes] /\ Partition /\ A \in SUBSET Nodes
  BY DEF TypeOK
<1>2. group' \in [Nodes -> SUBSET Nodes]
  BY <1>1
<1>3. Partition'
  <2>1. SUFFICES ASSUME NEW n \in Nodes
                 PROVE  n \in group'[n] /\ \A m \in group'[n] : group'[m] = group'[n]
    BY DEF Partition
  <2>2. CASE n \in A
    BY <1>1, <2>1, <2>2
  <2>3. CASE n \notin A
    BY <1>1, <2>1, <2>3 DEF Partition
  <2>4. QED
    BY <2>2, <2>3
<1>4. QED
  BY <1>1, <1>2, <1>3

-----------------------------------------------------------------------------
LEMMA InitIInv == Init => IInv
<1> SUFFICES ASSUME Init PROVE IInv
  OBVIOUS
<1>1. TypeOK
  <2>1. Partition
    BY DEF Init, Partition
  <2>2. QED
    BY <2>1, ClusterAssumption DEF Init, TypeOK, AtMostOne
<1>2. MeshedUnlessFailed /\ OneConfigured
  BY DEF Init, MeshedUnlessFailed, Mutual, OneConfigured, Primary
<1>3. QED
  BY <1>1, <1>2 DEF IInv

\* Who names whom, and was made so that it can be reached, is symmetric.
LEMMA MutualSymmetric == \A n, m \in Nodes : Mutual(n, m) => Mutual(m, n)
  BY DEF Mutual

\* The operator's rule is kept by a configuration that observes it.
LEMMA ConfiguredKept ==
  ASSUME TypeOK, OneConfigured, NEW n \in Nodes, NEW c \in Configs,
         OnePrimary(n, c), config' = [config EXCEPT ![n] = {c}]
  PROVE  OneConfigured' /\ config' \in [Nodes -> AtMostOne(Configs)]
<1>1. \A m \in Nodes \ {n} : config'[m] = config[m]
  BY DEF TypeOK
<1>2. config'[n] = {c}
  BY DEF TypeOK
<1>3. QED
  BY <1>1, <1>2 DEF OneConfigured, Primary, OnePrimary, TypeOK, AtMostOne

\* A node that starts is in one mesh with every peer it could join.
LEMMA NewKeeps ==
  ASSUME IInv, NEW n \in Nodes, NEW c \in Configs, New(n, c), ~Running(n)
  PROVE  /\ self' \in [Nodes -> AtMostOne(Configs)]
         /\ group' \in [Nodes -> SUBSET Nodes] /\ Partition'
         /\ failed' \in SUBSET SUBSET Nodes
         /\ events' \in 0..MaxEvents
         /\ MeshedUnlessFailed'
<1> USE DEF IInv
<1>1. self' = [self EXCEPT ![n] = {c}] /\ self \in [Nodes -> AtMostOne(Configs)]
  BY DEF New, TypeOK
<1>2. PICK S \in SUBSET Reachable(n, c) :
        /\ Unite(n, S)
        /\ failed' = {f \in failed : n \notin f} \cup {{n, p} : p \in Reachable(n, c) \ S}
        /\ IF S = Reachable(n, c) THEN UNCHANGED events ELSE Event
  BY DEF New, Join
<1>3. Reachable(n, c) \subseteq Nodes
  BY ClusterAssumption DEF Reachable
<1>4. /\ group' \in [Nodes -> SUBSET Nodes]
      /\ Partition'
      /\ \A x, y \in Nodes : y \in group[x] => y \in group'[x]
      /\ \A y \in S : y \in group'[n] /\ n \in group'[y]
  BY <1>2, <1>3, UniteKeeps
<1>5. self' \in [Nodes -> AtMostOne(Configs)] /\ self'[n] = {c}
      /\ \A x \in Nodes \ {n} : self'[x] = self[x]
  BY <1>1 DEF AtMostOne
<1>6. events' \in 0..MaxEvents
  BY <1>2, EventBounded DEF TypeOK
<1>7. failed' \in SUBSET SUBSET Nodes
  BY <1>2, <1>3 DEF TypeOK
<1>8. ASSUME NEW m \in Nodes, Mutual(n, m)', m # n
      PROVE  \/ m \in group'[n] /\ n \in group'[m]
             \/ {n, m} \in failed'
  <2>1. m \in Reachable(n, c)
    BY <1>5, <1>8 DEF Mutual, Reachable
  <2>2. CASE m \in S
    BY <1>4, <2>2
  <2>3. CASE m \notin S
    BY <1>2, <2>1, <2>3
  <2>4. QED
    BY <2>2, <2>3
<1>9. ASSUME NEW x \in Nodes, NEW y \in Nodes, Mutual(x, y)'
      PROVE  y \in group'[x] \/ {x, y} \in failed'
  <2>1. CASE x = y
    BY <1>4, <2>1 DEF Partition
  <2>2. CASE x # y /\ x = n
    BY <1>8, <1>9, <2>2
  <2>3. CASE x # y /\ y = n
    <3>1. Mutual(n, x)'
      BY <1>9, <2>3 DEF Mutual
    <3>2. {n, x} = {x, y}
      BY <2>3
    <3>3. QED
      BY <1>8, <2>3, <3>1, <3>2
  <2>4. CASE x # n /\ y # n
    <3>1. Mutual(x, y)
      BY <1>5, <1>9, <2>4 DEF Mutual
    <3>2. y \in group[x] \/ {x, y} \in failed
      BY <3>1 DEF MeshedUnlessFailed
    <3>3. {x, y} \in failed => {x, y} \in failed'
      BY <1>2, <2>4
    <3>4. QED
      BY <1>4, <3>2, <3>3
  <2>5. QED
    BY <2>1, <2>2, <2>3, <2>4
<1>10. MeshedUnlessFailed'
  BY <1>9 DEF MeshedUnlessFailed
<1>11. QED
  BY <1>4, <1>5, <1>6, <1>7, <1>10

LEMMA ApplyIInv ==
  ASSUME IInv, NEW n \in Nodes, NEW c \in Configs, Apply(n, c)
  PROVE  IInv'
<1>1. OneConfigured' /\ config' \in [Nodes -> AtMostOne(Configs)]
  BY ConfiguredKept DEF IInv, Apply
<1>2. CASE New(n, c)
  <2>1. ~Running(n)
    BY DEF Apply
  <2>2. view' = view
    BY <1>2 DEF New
  <2>3. QED
    BY <1>1, <1>2, <2>1, <2>2, NewKeeps DEF IInv, TypeOK
<1>3. CASE CreateFails \/ UNCHANGED <<mesh, failed, events>>
  <2>1. UNCHANGED <<self, group, view, failed>>
    BY <1>3 DEF CreateFails, mesh
  <2>2. events' \in 0..MaxEvents
    BY <1>3, EventBounded DEF CreateFails, IInv, TypeOK
  <2>3. MeshedUnlessFailed'
    BY <2>1 DEF IInv, MeshedUnlessFailed, Mutual
  <2>4. TypeOK'
    BY <1>1, <2>1, <2>2 DEF IInv, TypeOK, Partition
  <2>5. QED
    BY <1>1, <2>3, <2>4 DEF IInv
<1>4. QED
  BY <1>2, <1>3 DEF Apply

LEMMA ReloadIInv ==
  ASSUME IInv, NEW n \in Nodes, NEW c \in Configs, Reload(n, c)
  PROVE  IInv'
<1>1. OneConfigured' /\ config' \in [Nodes -> AtMostOne(Configs)]
  BY ConfiguredKept DEF IInv, Reload
<1>2. UNCHANGED <<self, group, view, failed>> /\ events' \in 0..MaxEvents
  BY EventBounded DEF Reload, mesh, IInv, TypeOK
<1>3. MeshedUnlessFailed'
  BY <1>2 DEF IInv, MeshedUnlessFailed, Mutual
<1>4. TypeOK'
  BY <1>1, <1>2 DEF IInv, TypeOK, Partition
<1>5. QED
  BY <1>1, <1>3, <1>4 DEF IInv

LEMMA GossipIInv ==
  ASSUME IInv, NEW n \in Nodes, NEW m \in Nodes, Gossip(n, m)
  PROVE  IInv'
<1> USE DEF IInv
<1>1. UNCHANGED <<config, self, events, failed>>
  BY DEF Gossip, Learn, Forget, Contact
<1>2. OneConfigured'
  BY <1>1 DEF OneConfigured, Primary
<1>3. CASE Learn(n, m) \/ Forget(n, m)
  <2>1. group' = group
    BY <1>3 DEF Learn, Forget
  <2>2. Meta(m) \in AtMostOne(Broadcasts)
    <3>1. self[m] \in AtMostOne(Configs)
      BY DEF TypeOK
    <3>2. CASE self[m] = {}
      BY <3>2 DEF Meta, AtMostOne
    <3>3. CASE self[m] # {}
      <4>1. PICK c \in Configs : self[m] = {c}
        BY <3>1, <3>3 DEF AtMostOne
      <4>2. Meta(m) = {Broadcast(c)}
        BY <4>1 DEF Meta
      <4>3. Broadcast(c) \in Broadcasts
        BY ClusterAssumption DEF Broadcast, Broadcasts
      <4>4. QED
        BY <4>2, <4>3 DEF AtMostOne
    <3>4. QED
      BY <3>2, <3>3
  <2>3. view' \in [Nodes -> [Nodes -> AtMostOne(Broadcasts)]]
    <3>1. PICK v \in AtMostOne(Broadcasts) : view' = [view EXCEPT ![n][m] = v]
      BY <1>3, <2>2 DEF Learn, Forget, AtMostOne
    <3>2. QED
      BY <3>1 DEF TypeOK
  <2>4. MeshedUnlessFailed'
    BY <1>1, <2>1 DEF MeshedUnlessFailed, Mutual
  <2>5. QED
    BY <1>1, <1>2, <2>1, <2>3, <2>4 DEF TypeOK, Partition
<1>4. CASE Contact(n, m)
  <2>1. Unite(n, {m}) /\ view' = view
    BY <1>4 DEF Contact
  <2>2. /\ group' \in [Nodes -> SUBSET Nodes]
        /\ Partition'
        /\ \A x, y \in Nodes : y \in group[x] => y \in group'[x]
    BY <2>1, UniteKeeps
  <2>3. MeshedUnlessFailed'
    BY <1>1, <2>2 DEF MeshedUnlessFailed, Mutual
  <2>4. QED
    BY <1>1, <1>2, <2>1, <2>2, <2>3 DEF TypeOK
<1>5. QED
  BY <1>3, <1>4 DEF Gossip

LEMMA SplitIInv ==
  ASSUME IInv, NEW A \in SUBSET Nodes, Split(A)
  PROVE  IInv'
<1> USE DEF IInv
<1>1. UNCHANGED <<config, self, view>> /\ events' \in 0..MaxEvents
  BY EventBounded DEF Split, TypeOK
<1>2. OneConfigured'
  BY <1>1 DEF OneConfigured, Primary
<1>3. PICK x \in Nodes : A \in SUBSET group[x] /\ A # {}
  BY DEF Split
<1>4. group' = [m \in Nodes |-> IF m \in A THEN A ELSE group[m] \ A]
  BY DEF Split
<1>5. /\ group' \in [Nodes -> SUBSET Nodes]
      /\ Partition'
      /\ \A n, m \in Nodes :
           m \in group[n] => m \in group'[n] \/ (n \in A <=> m \notin A)
  BY <1>3, <1>4, SplitKeeps
<1> DEFINE Cut == {{a, b} : a \in A, b \in (UNION {group[n] : n \in A}) \ A}
<1>6. failed' = failed \cup Cut
  BY DEF Split
<1>7. Cut \in SUBSET SUBSET Nodes
  BY DEF TypeOK
<1>8. ASSUME NEW n \in Nodes, NEW m \in Nodes, Mutual(n, m)'
      PROVE  m \in group'[n] \/ {n, m} \in failed'
  <2>1. m \in group[n] \/ {n, m} \in failed
    BY <1>1, <1>8 DEF MeshedUnlessFailed, Mutual
  <2>2. CASE {n, m} \in failed
    BY <1>6, <2>2
  <2>3. CASE m \in group[n] /\ n \in A /\ m \notin A
    <3>1. {n, m} \in Cut
      BY <2>3
    <3>2. QED
      BY <1>6, <3>1
  <2>4. CASE m \in group[n] /\ m \in A /\ n \notin A
    <3>1. n \in group[m]
      BY <2>4 DEF TypeOK, Partition
    <3>2. {m, n} \in Cut
      BY <2>4, <3>1
    <3>3. {m, n} = {n, m}
      OBVIOUS
    <3>4. QED
      BY <1>6, <3>2, <3>3
  <2>5. QED
    BY <1>5, <2>1, <2>2, <2>3, <2>4
<1>9. MeshedUnlessFailed'
  BY <1>8 DEF MeshedUnlessFailed
<1> HIDE DEF Cut
<1>10. QED
  BY <1>1, <1>2, <1>5, <1>6, <1>7, <1>9 DEF TypeOK

LEMMA DieIInv ==
  ASSUME IInv, NEW n \in Nodes, Die(n)
  PROVE  IInv'
<1> USE DEF IInv
<1>1. /\ config' = [config EXCEPT ![n] = {}]
      /\ self' = [self EXCEPT ![n] = {}]
      /\ group' = [m \in Nodes |-> IF m = n THEN {n} ELSE group[m] \ {n}]
      /\ view' = [view EXCEPT ![n] = [m \in Nodes |-> {}]]
      /\ failed' = failed
      /\ events' \in 0..MaxEvents
  BY EventBounded DEF Die, TypeOK
<1>2. OneConfigured'
  <2>1. config'[n] = {} /\ \A m \in Nodes \ {n} : config'[m] = config[m]
    BY <1>1 DEF TypeOK
  <2>2. QED
    BY <2>1 DEF OneConfigured, Primary
<1>3. group' = [m \in Nodes |-> IF m \in {n} THEN {n} ELSE group[m] \ {n}]
  BY <1>1
<1>4. {n} \in SUBSET group[n] /\ {n} # {}
  BY DEF TypeOK, Partition
<1>5. /\ group' \in [Nodes -> SUBSET Nodes]
      /\ Partition'
      /\ \A x, y \in Nodes :
           y \in group[x] => y \in group'[x] \/ (x \in {n} <=> y \notin {n})
  BY <1>3, <1>4, SplitKeeps
<1>6. MeshedUnlessFailed'
  <2>1. self'[n] = {} /\ \A m \in Nodes \ {n} : self'[m] = self[m]
    BY <1>1 DEF TypeOK
  <2>2. SUFFICES ASSUME NEW x \in Nodes, NEW y \in Nodes, Mutual(x, y)'
                 PROVE  y \in group'[x] \/ {x, y} \in failed'
    BY DEF MeshedUnlessFailed
  <2>3. x # n /\ y # n
    BY <2>1, <2>2 DEF Mutual
  <2>4. Mutual(x, y)
    BY <2>1, <2>2, <2>3 DEF Mutual
  <2>5. QED
    BY <1>1, <1>5, <2>3, <2>4 DEF MeshedUnlessFailed
<1>7. TypeOK'
  <2>1. config' \in [Nodes -> AtMostOne(Configs)] /\ self' \in [Nodes -> AtMostOne(Configs)]
    BY <1>1 DEF TypeOK, AtMostOne
  <2>2. view' \in [Nodes -> [Nodes -> AtMostOne(Broadcasts)]]
    BY <1>1 DEF TypeOK, AtMostOne
  <2>3. QED
    BY <1>1, <1>5, <2>1, <2>2 DEF TypeOK
<1>8. QED
  BY <1>2, <1>6, <1>7

LEMMA NextIInv == IInv /\ [Next]_vars => IInv'
<1> SUFFICES ASSUME IInv, [Next]_vars PROVE IInv'
  OBVIOUS
<1>1. CASE UNCHANGED vars
  BY <1>1 DEF IInv, TypeOK, Partition, MeshedUnlessFailed, Mutual, OneConfigured, Primary, vars
<1>2. CASE \E n \in Nodes : Die(n)
  BY <1>2, DieIInv
<1>3. CASE \E n \in Nodes, c \in Configs : Apply(n, c)
  BY <1>3, ApplyIInv
<1>4. CASE \E n \in Nodes, c \in Configs : Reload(n, c)
  BY <1>4, ReloadIInv
<1>5. CASE \E n, m \in Nodes : Gossip(n, m)
  BY <1>5, GossipIInv
<1>6. CASE \E A \in SUBSET Nodes : Split(A)
  BY <1>6, SplitIInv
<1>7. QED
  BY <1>1, <1>2, <1>3, <1>4, <1>5, <1>6 DEF Next, Agent

\* The inductive invariant holds of every run of the mesh.
THEOREM Invariant == Spec => []IInv
<1>1. QED
  BY InitIInv, NextIInv, PTL DEF Spec

\* The groups of the mesh always partition the nodes.
THEOREM TypeCorrect == Spec => []TypeOK
<1>1. IInv => TypeOK
  BY DEF IInv
<1>2. QED
  BY Invariant, <1>1, PTL

\* Nodes that name each other are in one mesh, whoever starts first and how
\* often they come back, unless a join failed or the network fell apart since
\* (cluster.go:64-71).
THEOREM Meshed == Spec => []MeshedUnlessFailed
<1>1. IInv => MeshedUnlessFailed
  BY DEF IInv
<1>2. QED
  BY Invariant, <1>1, PTL

\* A settled node finds at most one primary, and it is the configured one, as
\* long as no member was promoted or demoted by hot reload (cluster.go:111-136).
THEOREM PrimaryIsTrue == Spec => []OnePrimaryFound
<1>1. IInv => OnePrimaryFound
  <2>1. SUFFICES ASSUME IInv, NEW n \in Nodes, Running(n), Settled(n),
                        \A m \in group[n] : config[m] = self[m]
                 PROVE  /\ \A m \in FindPrimary(n) : Primary(m)
                        /\ Cardinality(FindPrimary(n)) <= 1
    BY DEF OnePrimaryFound, Primary
  <2>2. ASSUME NEW m \in FindPrimary(n)
        PROVE  m \in Nodes /\ Primary(m)
    <3>1. m \in Nodes /\ m \in group[n] /\ \E b \in Meta(m) : b.role = "primary"
      BY <2>1 DEF FindPrimary, Settled, IInv, TypeOK, Partition
    <3>2. \E c \in self[m] : c.role = "primary"
      BY <3>1 DEF Meta, Broadcast
    <3>3. QED
      BY <2>1, <3>1, <3>2 DEF Primary
  <2>3. FindPrimary(n) = {} \/ \E m \in Nodes : FindPrimary(n) = {m}
    BY <2>1, <2>2 DEF IInv, OneConfigured
  <2>4. Cardinality(FindPrimary(n)) <= 1
    <3>1. CASE FindPrimary(n) = {}
      BY <3>1, FS_EmptySet
    <3>2. CASE \E m \in Nodes : FindPrimary(n) = {m}
      BY <3>2, FS_Singleton
    <3>3. QED
      BY <2>3, <3>1, <3>2
  <2>5. QED
    BY <2>2, <2>4
<1>2. QED
  BY Invariant, <1>1, PTL

\* Whoever lists a service, in the configuration its node was made from, is found
\* by a node that names it and is named by it, as soon as that one is settled.
FoundOnceSettled ==
  \A n, m \in Nodes, s \in Services :
    /\ n # m /\ Mutual(n, m) /\ {n, m} \notin failed /\ Settled(n)
    /\ config[m] = self[m] /\ \E c \in config[m] : s \in c.services
    => FindServiceAddr(n, s) # {}

\* The safety half of FoundInTheEnd: where nothing failed, a service is missed
\* only for as long as gossip is behind, never because two nodes are in meshes of
\* their own (cluster.go:64-71, 82-108).  That gossip catches up is fairness.
THEOREM ServicesFound == Spec => []FoundOnceSettled
<1>1. MeshedUnlessFailed => FoundOnceSettled
  <2>1. SUFFICES ASSUME MeshedUnlessFailed, NEW n \in Nodes, NEW m \in Nodes, NEW s \in Services,
                        n # m, Mutual(n, m), {n, m} \notin failed, Settled(n),
                        NEW c \in self[m], s \in c.services
                 PROVE  FindServiceAddr(n, s) # {}
    BY DEF FoundOnceSettled
  <2>2. m \in group[n]
    BY <2>1 DEF MeshedUnlessFailed
  <2>3. view[n][m] = Meta(m)
    BY <2>1, <2>2 DEF Settled
  <2>4. Broadcast(c) \in Meta(m) /\ s \in Broadcast(c).services
    BY <2>1 DEF Meta, Broadcast
  <2>5. CASE \E b \in Meta(n) : s \in b.services
    BY <2>5 DEF FindServiceAddr
  <2>6. CASE ~\E b \in Meta(n) : s \in b.services
    <3>1. m \in FindServiceAddr(n, s)
      BY <2>1, <2>3, <2>4, <2>6 DEF FindServiceAddr
    <3>2. QED
      BY <3>1
  <2>7. QED
    BY <2>5, <2>6
<1>2. QED
  BY Meshed, <1>1, PTL
==============================================================================
