------------------------------- MODULE Cluster -------------------------------
(***************************************************************************)
(* The mesh of several agents: cluster.New, FindServiceAddr and            *)
(* FindPrimary (internal/cluster/cluster.go) and the part of applyConfig   *)
(* (internal/agent/agent.go) that makes the node.  A node broadcasts what  *)
(* its configuration said when it was made, and tries to join its peers    *)
(* once; agents are configured, reconfigured, die and come back, and the   *)
(* network fails between them.                                             *)
(*                                                                         *)
(* hashicorp/memberlist is external and modelled by what it provides: the  *)
(* members of a group come to know each other's broadcast, who is not a    *)
(* member any more is forgotten, and two nodes that make contact unite     *)
(* their groups.                                                           *)
(***************************************************************************)
EXTENDS Naturals, FiniteSets

CONSTANTS
  Nodes,
  Services,
  Configs,   \* what the operator may configure: [services, role, cluster]
  Peers,     \* cluster.peers of each node, where its configuration has any
  Key,       \* the cluster key of each node, or None if it does not decode
  MaxEvents  \* bound on deaths, reloads and failures

None  == "none"
Roles == {None, "primary", "secondary"}

ASSUME ClusterAssumption ==
  /\ Configs \subseteq [services: SUBSET Services, role: Roles, cluster: BOOLEAN]
  /\ Peers \in [Nodes -> SUBSET Nodes]
  /\ MaxEvents \in Nat

VARIABLES
  config,    \* a.Config of each agent: {} if it has none or is down, else {c}
  self,      \* a.node: {} for nil, else {the configuration it was made from}
  group,     \* the nodes a node's memberlist is one with
  view,      \* view[n][m]: {} if n does not list m, else {the broadcast it has of m}
  events,    \* counts events, up to MaxEvents
  failed     \* history: the pairs of nodes one of which failed to join the other,
             \* or that were separated

mesh == <<self, group, view>>
vars == <<config, self, group, view, events, failed>>

Broadcasts == [services: SUBSET Services, role: Roles]
AtMostOne(S) == {{}} \cup {{x} : x \in S}

\* The groups are those of a partition of the nodes.
Partition == \A n \in Nodes : n \in group[n] /\ \A m \in group[n] : group[m] = group[n]

TypeOK ==
  /\ config \in [Nodes -> AtMostOne(Configs)]
  /\ self \in [Nodes -> AtMostOne(Configs)]
  /\ group \in [Nodes -> SUBSET Nodes]
  /\ view \in [Nodes -> [Nodes -> AtMostOne(Broadcasts)]]
  /\ events \in 0..MaxEvents
  /\ failed \in SUBSET SUBSET Nodes
  /\ Partition

Init ==
  /\ config = [n \in Nodes |-> {}]
  /\ self = [n \in Nodes |-> {}]
  /\ group = [n \in Nodes |-> {n}]
  /\ view = [n \in Nodes |-> [m \in Nodes |-> {}]]
  /\ events = 0
  /\ failed = {}

Event == events < MaxEvents /\ events' = events + 1

-----------------------------------------------------------------------------
(* cluster.New.                                                            *)

\* Mutants: whoever runs services is taken for a primary; services are kept local.
BroadcastRole(c) == [services |-> c.services, role |-> IF c.services # {} THEN "primary" ELSE c.role]
BroadcastRoleOnly(c) == [services |-> {}, role |-> c.role]

\* The metadata, fixed for the life of the node.
Broadcast(c) == [services |-> c.services, role |-> c.role]
Meta(m) == {Broadcast(c) : c \in self[m]}

Running(n) == self[n] # {}

\* The peers of c a join can reach: without a cluster section a node takes any port.
Reachable(n, c) ==
  {p \in Peers[n] \ {n} : /\ c.cluster /\ Key[p] = Key[n]
                         /\ \E d \in self[p] : d.cluster}

\* Mutant: who was in a mesh before is not told.
UniteContacts(n, S) ==
  group' = [m \in Nodes |-> IF m \in S \cup {n} THEN UNION {group[p] : p \in S \cup {n}} ELSE group[m]]

\* The group of n and those of everyone in S become one.
Unite(n, S) ==
  LET G == UNION {group[m] : m \in S \cup {n}} IN
  group' = [m \in Nodes |-> IF m \in G THEN G ELSE group[m]]

\* Mutant: the peers are not joined.
JoinNobody(n, c) == UNCHANGED <<group, failed, events>>

\* Join returns when every peer was tried once, some of them in vain.
Join(n, c) ==
  \E S \in SUBSET Reachable(n, c) :
    /\ Unite(n, S)
    /\ failed' = {f \in failed : n \notin f} \cup {{n, p} : p \in Reachable(n, c) \ S}
    /\ IF S = Reachable(n, c) THEN UNCHANGED events ELSE Event

New(n, c) ==
  /\ self' = [self EXCEPT ![n] = {c}]
  /\ Join(n, c)
  /\ UNCHANGED view

\* memberlist.Create fails: its port is taken.
CreateFails == Event /\ UNCHANGED <<mesh, failed>>

-----------------------------------------------------------------------------
(* applyConfig.                                                            *)

WantsNode(c) == c.cluster \/ c.services # {}

\* The operator has no more than one node configured as primary.
OnePrimary(n, c) ==
  c.role = "primary" => \A m \in Nodes \ {n} : \A d \in config[m] : d.role # "primary"

\* The first configuration, or one for which no node could be made before.
Apply(n, c) ==
  /\ ~Running(n) /\ OnePrimary(n, c)
  /\ config' = [config EXCEPT ![n] = {c}]
  /\ \/ WantsNode(c) /\ (New(n, c) \/ CreateFails)
     \/ ~WantsNode(c) /\ config[n] # {c} /\ UNCHANGED <<mesh, failed, events>>

\* Another configuration for an agent that has its node: the node stays.
Reload(n, c) ==
  /\ Running(n) /\ OnePrimary(n, c)
  /\ config[n] # {c} /\ Event
  /\ config' = [config EXCEPT ![n] = {c}]
  /\ UNCHANGED <<mesh, failed>>

\* Mutant: what is found of a service is any node there is.
FindServiceAddrAny(n, s) == {m \in Nodes : m = n \/ view[n][m] # {}}

\* FindServiceAddr: the node itself, or any of the members, in whatever order
\* memberlist has them.
FindServiceAddr(n, s) ==
  IF \E b \in Meta(n) : s \in b.services THEN {n}
  ELSE {m \in Nodes \ {n} : \E b \in view[n][m] : s \in b.services}

\* FindPrimary.
FindPrimary(n) ==
  IF \E b \in Meta(n) : b.role = "primary" THEN {n}
  ELSE {m \in Nodes \ {n} : \E b \in view[n][m] : b.role = "primary"}

-----------------------------------------------------------------------------
(* memberlist, the network and the hosts (external).                       *)

\* n receives the present broadcast of a member of its group.
Learn(n, m) ==
  /\ m \in group[n] \ {n}
  /\ Running(n) /\ Running(m) /\ view[n][m] # Meta(m)
  /\ view' = [view EXCEPT ![n][m] = Meta(m)]
  /\ UNCHANGED <<config, self, group, events, failed>>

\* n has found that m does not answer.
Forget(n, m) ==
  /\ m \notin group[n] /\ view[n][m] # {}
  /\ view' = [view EXCEPT ![n][m] = {}]
  /\ UNCHANGED <<config, self, group, events, failed>>

\* n still lists m, and m answers again: it came back, or the network did.
Contact(n, m) ==
  /\ m \notin group[n] /\ view[n][m] # {}
  /\ Running(n) /\ Running(m) /\ Key[n] = Key[m]
  /\ Unite(n, {m})
  /\ UNCHANGED <<config, self, view, events, failed>>

\* The network falls apart for longer than memberlist waits.
Split(A) ==
  /\ Event
  /\ \E n \in Nodes : A \in SUBSET group[n] /\ A # group[n] /\ A # {}
  /\ group' = [m \in Nodes |-> IF m \in A THEN A ELSE group[m] \ A]
  /\ failed' = failed \cup {{a, b} : a \in A, b \in (UNION {group[n] : n \in A}) \ A}
  /\ UNCHANGED <<config, self, view>>

\* The agent ends, by a signal or otherwise: nothing calls Shutdown.
Die(n) ==
  /\ config[n] # {} /\ Event
  /\ config' = [config EXCEPT ![n] = {}]
  /\ self' = [self EXCEPT ![n] = {}]
  /\ group' = [m \in Nodes |-> IF m = n THEN {n} ELSE group[m] \ {n}]
  /\ view' = [view EXCEPT ![n] = [m \in Nodes |-> {}]]
  /\ UNCHANGED failed

-----------------------------------------------------------------------------
Agent(n) == Die(n) \/ \E c \in Configs : Apply(n, c) \/ Reload(n, c)
Gossip(n, m) == Learn(n, m) \/ Forget(n, m) \/ Contact(n, m)

Next == \/ \E n \in Nodes : Agent(n)
        \/ \E n, m \in Nodes : Gossip(n, m)
        \/ \E A \in SUBSET Nodes : Split(A)

Spec == Init /\ [][Next]_vars

\* Gossip and failure detection go on.
Fairness == \A n, m \in Nodes : WF_vars(Learn(n, m)) /\ WF_vars(Forget(n, m))

FairSpec == Spec /\ Fairness

-----------------------------------------------------------------------------
(* Safety properties.                                                      *)

\* n and m name each other and were made so that they can reach each other.
Mutual(n, m) ==
  /\ n \in Peers[m] /\ m \in Peers[n] /\ Key[n] = Key[m]
  /\ \E c \in self[n] : c.cluster
  /\ \E c \in self[m] : c.cluster

\* A join that is tried once is enough for two nodes that name each other,
\* whichever of them starts first and however often they come back: they are
\* in one mesh unless a join failed or the network fell apart since (cluster.go:
\* 64-71).  Of nodes that do not name each other this cannot be said.
MeshedUnlessFailed ==
  \A n, m \in Nodes : Mutual(n, m) => m \in group[n] \/ {n, m} \in failed

\* n has heard all its group broadcasts, and forgotten all others.
Settled(n) ==
  \A m \in Nodes \ {n} : view[n][m] = IF m \in group[n] THEN Meta(m) ELSE {}

\* With one primary configured at a time, a settled node, among members whose
\* configuration is the one their node was made from, finds no other primary
\* than that one: a database replicates from itself, or from one of two, only
\* after a promotion or demotion by hot reload (cluster.go:111-136, agent.go:223).
OnePrimaryFound ==
  \A n \in Nodes :
    /\ Running(n) /\ Settled(n)
    /\ \A m \in group[n] : config[m] = self[m]
    => /\ \A m \in FindPrimary(n) : \E c \in config[m] : c.role = "primary"
       /\ Cardinality(FindPrimary(n)) <= 1

(* Liveness, under FairSpec.                                               *)

\* A service is found in the end: a node that names m, and is named by it,
\* finds somebody for what m lists (README.md:134-136).
FoundInTheEnd ==
  \A n \in Nodes, s \in Services : \A m \in Nodes \ {n} :
    <>[](/\ Mutual(n, m) /\ {n, m} \notin failed
         /\ config[m] = self[m] /\ \E c \in config[m] : s \in c.services)
      => <>[](FindServiceAddr(n, s) # {})

\* And nobody is sent for ever to where a service is not: whom a node finds in
\* the end for a service has it in its configuration.  Who died is forgotten, who
\* came back with other services is heard anew, whatever was known of it before,
\* unless it was reconfigured under a node that keeps its broadcast (cluster.go:
\* 47-55, 82-108, agent.go:223).
TrueInTheEnd ==
  \A n \in Nodes : \A m \in Nodes \ {n} :
    <>[](~Running(m) \/ config[m] = self[m])
      => <>[](\A s \in Services :
                m \in FindServiceAddr(n, s) => \E c \in config[m] : s \in c.services)
==============================================================================
