------------------------- MODULE TopologicalExecution -------------------------
(***************************************************************************)
(* What a DAG execution promises its caller: every component of the graph  *)
(* is run once, after everything it depends on has finished, and the call  *)
(* returns when, and only when, all of them have finished.                 *)
(***************************************************************************)
EXTENDS DagTopology

CONSTANT DagConfigs

VARIABLES dagConfig, started, finished, returned

absVars == <<dagConfig, started, finished, returned>>

AbsInit ==
  /\ dagConfig \in DagConfigs
  /\ started = {}
  /\ finished = {}
  /\ returned = FALSE

Begin(c) ==
  /\ c \in NodesOf(dagConfig) \ started
  /\ DependenciesOf(dagConfig, c) \subseteq finished
  /\ started' = started \cup {c}
  /\ UNCHANGED <<dagConfig, finished, returned>>

End(c) ==
  /\ c \in started \ finished
  /\ finished' = finished \cup {c}
  /\ UNCHANGED <<dagConfig, started, returned>>

Return ==
  /\ ~returned
  /\ finished = NodesOf(dagConfig)
  /\ returned' = TRUE
  /\ UNCHANGED <<dagConfig, started, finished>>

AbsNext == Return \/ \E c \in NodesOf(dagConfig) : Begin(c) \/ End(c)

AbsSafeSpec == AbsInit /\ [][AbsNext]_absVars

AbsSpec == AbsSafeSpec /\ WF_absVars(AbsNext)

=============================================================================
