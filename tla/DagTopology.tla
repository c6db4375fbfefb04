------------------------------ MODULE DagTopology ------------------------------
(***************************************************************************)
(* The pure half of inferflow's dag-topology-executor: how the             *)
(* component_dependency map of a model configuration becomes a topology.   *)
(*                                                                         *)
(* A configuration maps a component to the components it DEPENDS ON; that  *)
(* is the reading of getComponentAdjacencyMap, whose edges run from a      *)
(* listed component to the key that lists it.  The lists of the code are   *)
(* sets here: a component listed twice is counted twice and discounted     *)
(* twice by the validator and deduplicated by the adjacency map.           *)
(***************************************************************************)
EXTENDS Naturals, FiniteSets

\* Every configuration over the components in C: some are keys, and each key
\* lists any of the components.
ConfigsOver(C) == UNION {[K -> SUBSET C] : K \in SUBSET C}

Listed(cfg) == UNION {cfg[k] : k \in DOMAIN cfg}

NodesOf(cfg) == DOMAIN cfg \cup Listed(cfg)

DependenciesOf(cfg, c) == IF c \in DOMAIN cfg THEN cfg[c] ELSE {}

(***************************************************************************)
(* getComponentAdjacencyMap, getZeroInDegreeComponents, getInDegreeMap.    *)
(***************************************************************************)
ComponentAdjacencyMap(cfg) ==
  [d \in Listed(cfg) |-> {k \in DOMAIN cfg : d \in cfg[k]}]

NonZeroInDegree(adj) == UNION {adj[d] : d \in DOMAIN adj}

ZeroInDegreeComponents(adj) == DOMAIN adj \ NonZeroInDegree(adj)

InDegreeMap(adj) ==
  [n \in NonZeroInDegree(adj) |-> Cardinality({d \in DOMAIN adj : n \in adj[d]})]

\* One component depends on nothing, and no component is without any edge.
SingleRooted(cfg) ==
  LET adj == ComponentAdjacencyMap(cfg)
  IN  /\ Cardinality(ZeroInDegreeComponents(adj)) = 1
      /\ NodesOf(cfg) = DOMAIN adj \cup NonZeroInDegree(adj)

\* The reference notion the validator is compared with: every set of components
\* has one that depends on none of them.
Acyclic(cfg) ==
  \A S \in (SUBSET NodesOf(cfg)) \ {{}} : \E n \in S : DependenciesOf(cfg, n) \cap S = {}

\* The names getAbstractComponents looks up in the ComponentProvider.
\* The faulty variant looks up the keys only.
KeysOnly(cfg) == DOMAIN cfg
AbstractComponents(cfg) ==
  ZeroInDegreeComponents(ComponentAdjacencyMap(cfg)) \cup DOMAIN cfg

(***************************************************************************)
(* IsValidDag: Kahn's algorithm, run over the map as it is written (from a *)
(* key to what it lists).  One step takes a node off the queue; a node is  *)
(* queued at most once, so the loop ends within as many steps as there are *)
(* nodes.  Which node is taken depends on the map's iteration order in the *)
(* code; CHOOSE stands for any one of them.                                *)
(***************************************************************************)
KahnInit(cfg) ==
  LET degree == [n \in NodesOf(cfg) |-> Cardinality({k \in DOMAIN cfg : n \in cfg[k]})]
  IN  [degree |-> degree, queue |-> {n \in NodesOf(cfg) : degree[n] = 0}]

\* Faulty variant: queues what it lists whatever the degree left.
KahnStepEager(cfg, s) ==
  LET u      == CHOOSE n \in s.queue : TRUE
      degree == [n \in NodesOf(cfg) |->
                   IF n \in DependenciesOf(cfg, u) /\ s.degree[n] > 0
                     THEN s.degree[n] - 1 ELSE s.degree[n]]
  IN  [degree |-> degree, queue |-> (s.queue \ {u}) \cup DependenciesOf(cfg, u)]

KahnStep(cfg, s) ==
  LET u      == CHOOSE n \in s.queue : TRUE
      degree == [n \in NodesOf(cfg) |->
                   IF n \in DependenciesOf(cfg, u) THEN s.degree[n] - 1 ELSE s.degree[n]]
  IN  [degree |-> degree,
       queue  |-> (s.queue \ {u})
                    \cup {n \in DependenciesOf(cfg, u) : degree[n] = 0}]

IsValidDag(cfg) ==
  LET run[i \in 0..Cardinality(NodesOf(cfg))] ==
        IF i = 0 THEN KahnInit(cfg)
        ELSE LET s == run[i - 1]
             IN  IF s.queue = {} THEN s ELSE KahnStep(cfg, s)
      last == run[Cardinality(NodesOf(cfg))]
  IN  \A n \in NodesOf(cfg) : last.degree[n] = 0

=============================================================================
