------------------------------ MODULE DagOnboarding ------------------------------
(***************************************************************************)
(* The way of a DAG from horizon to inferflow: horizon builds the          *)
(* component_dependency map of an onboarding request (DagConfigBuilder),   *)
(* or somebody writes a map into etcd by hand, and inferflow's             *)
(* InitializeComponentDag validates it and derives the topology that       *)
(* DagExecutor executes.                                                   *)
(***************************************************************************)
EXTENDS DagConfigBuilder

CONSTANTS
  Pipelines,     \* onboarding requests
  HandWritten    \* maps written into etcd without horizon

ASSUME PipelinesAssumption ==
  \A p \in Pipelines :
    /\ ComponentsOf(p) # {} /\ FEATURE_INITIALIZER \notin ComponentsOf(p)
    /\ p.feature \cap p.predator = {} /\ (p.feature \cup p.predator) \cap p.numerix = {}
    /\ IsFiniteSet(ComponentsOf(p))

\* Go's maps and slices are finite.
ASSUME HandWrittenAssumption == \A cfg \in HandWritten : IsFiniteSet(NodesOf(cfg))

VARIABLES
  request,    \* the onboarding request (one pipeline), or <<>> for a map written by hand
  stage,      \* "requested", "built", "initialized", "rejected" or "panicked"
  dag,        \* the component_dependency map
  topology    \* what InitializeComponentDag returns

onboardingVars == <<request, stage, dag, topology>>

OnboardingInit ==
  /\ topology = <<>>
  /\ \/ request \in {<<p>> : p \in Pipelines} /\ stage = "requested" /\ dag = <<>>
     \/ request = <<>> /\ stage = "built" /\ dag \in HandWritten

Build ==
  /\ stage = "requested"
  /\ dag' = GetDagExecutionConfig(request[1])
  /\ stage' = "built"
  /\ UNCHANGED <<request, topology>>

\* An InvalidDagError; the topology; or the panic over a component the provider does
\* not know (yet: SetModelConfigMap comes before RegisterComponent).
InitializeComponentDag ==
  /\ stage = "built"
  /\ \/ ~IsValidDag(dag) /\ stage' = "rejected" /\ UNCHANGED topology
     \/ /\ IsValidDag(dag) /\ AbstractComponents(dag) # {}
        /\ stage' = "panicked" /\ UNCHANGED topology
     \/ /\ IsValidDag(dag)
        /\ stage' = "initialized"
        /\ LET adj == ComponentAdjacencyMap(dag)
           IN  topology' = [zeroInDegreeComponents |-> ZeroInDegreeComponents(adj),
                            componentInDegreeMap   |-> InDegreeMap(adj),
                            componentAdjacencyMap  |-> adj,
                            abstractComponents     |-> AbstractComponents(dag)]
  /\ UNCHANGED <<request, dag>>

OnboardingOver == stage \in {"initialized", "rejected", "panicked"} /\ UNCHANGED onboardingVars

OnboardingNext == Build \/ InitializeComponentDag \/ OnboardingOver

OnboardingSpec == OnboardingInit /\ [][OnboardingNext]_onboardingVars

-----------------------------------------------------------------------------
\* Kahn's algorithm, as dagvalidator.go runs it, rejects the maps with a cycle
\* and no others (dagvalidator.go:7-44).
KahnDecidesAcyclicity ==
  /\ stage \in {"initialized", "panicked"} => Acyclic(dag)
  /\ stage = "rejected" => ~Acyclic(dag)

\* Every map horizon builds that has no cycle has exactly one component without
\* dependencies, the feature initializer: the graphs executeDag's count of
\* terminal nodes is right for (config_builder.go:1072-1120, executor.go:42).
GeneratedSingleRooted ==
  request # <<>> /\ stage # "requested" /\ Acyclic(dag) =>
    /\ SingleRooted(dag)
    /\ ZeroInDegreeComponents(ComponentAdjacencyMap(dag)) = {FEATURE_INITIALIZER}

\* Whatever the executor can come to receive from its channel, a root or a
\* component with an in-degree, has an AbstractComponent: a component without
\* one ends without a terminal node and the call never returns
\* (executor.go:69-74, initializer.go:36-54).
ExecutableComponentsResolved ==
  stage = "initialized" =>
    topology.zeroInDegreeComponents \cup DOMAIN topology.componentInDegreeMap
      \subseteq topology.abstractComponents

=============================================================================
