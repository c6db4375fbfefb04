---------------------------- MODULE DagConfigBuilder ----------------------------
(***************************************************************************)
(* Horizon's GetDagExecutionConfig: from the components of an onboarding   *)
(* request to the component_dependency map that inferflow executes.        *)
(*                                                                         *)
(* A pipeline has feature, predator and numerix components.  Each reads    *)
(* and writes columns of the component matrix: a feature component reads   *)
(* its FSKeys and writes its prefixed features, a predator reads its input *)
(* features and writes its model scores (its outputs also have names), a   *)
(* numerix reads its score mapping and writes its score column.  A         *)
(* column's name is put together from prefixes and labels in the code;     *)
(* here a column is a value.  The RTP and seen-score components are empty  *)
(* in the open-source build (component_builder_internal_stub.go) and are   *)
(* left out.                                                               *)
(***************************************************************************)
EXTENDS DagTopology

CONSTANT FEATURE_INITIALIZER

ComponentsOf(p) == p.feature \cup p.predator \cup p.numerix

\* Every pipeline over these components and columns.
PipelinesOver(F, P, N, Column) ==
  [feature : {F}, predator : {P}, numerix : {N},
   reads : [F \cup P \cup N -> SUBSET Column], writes : [F \cup P \cup N -> SUBSET Column],
   names : [P -> SUBSET Column]]

\* The components among S that write something c reads.
ProducersFor(p, c, S) == {x \in S : p.writes[x] \cap p.reads[c] # {}}

\* findSpecificFeatureDependencies and its siblings: a feature component may
\* depend on feature components (itself included), a predator on feature and
\* numerix components, a numerix on every kind (itself included).
SpecificDependencies(p, c) ==
  CASE c \in p.feature  -> ProducersFor(p, c, p.feature)
    [] c \in p.predator -> ProducersFor(p, c, p.feature \cup p.numerix)
    [] c \in p.numerix  -> ProducersFor(p, c, ComponentsOf(p))

\* addPredatorDependencies: the other predators of which a predator reads a
\* model score or an output by its name.
PredatorDependencies(p, c) ==
  IF c \in p.predator
    THEN {x \in p.predator \ {c} : (p.writes[x] \cup p.names[x]) \cap p.reads[c] # {}}
    ELSE {}

\* Faulty variant: a component without specific dependencies lists nothing.
WithoutInitializer(p, c) == SpecificDependencies(p, c)

\* A component without specific dependencies waits for the feature initializer.
OrInitializer(p, c) ==
  IF SpecificDependencies(p, c) = {} THEN {FEATURE_INITIALIZER} ELSE SpecificDependencies(p, c)

GetDagExecutionConfig(p) ==
  [c \in ComponentsOf(p) |-> OrInitializer(p, c) \cup PredatorDependencies(p, c)]

=============================================================================
