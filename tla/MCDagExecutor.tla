----------------------------- MODULE MCDagExecutor -----------------------------
(***************************************************************************)
(* Instances of DagExecutor.  Every acyclic graph over these components    *)
(* with one root is, up to renaming, one in which a component depends only *)
(* on earlier ones and all but the first depend on something.              *)
(***************************************************************************)
EXTENDS DagExecutor, TLC

FI == "feature_initializer"

MCComponent == {FI, "b", "c", "d"}

Earlier == [b |-> {FI}, c |-> {FI, "b"}, d |-> {FI, "b", "c"}]

\* The root is not a key, as horizon writes the map; once, it lists nothing.
MCSingleRoot ==
  {cfg \in [{"b", "c", "d"} -> SUBSET MCComponent] :
     \A n \in DOMAIN cfg : cfg[n] # {} /\ cfg[n] \subseteq Earlier[n]}
    \cup {(FI :> {}) @@ [b |-> {FI}, c |-> {FI}, d |-> {"b", "c"}]}

=============================================================================
