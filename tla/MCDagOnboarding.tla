---------------------------- MODULE MCDagOnboarding ----------------------------
EXTENDS DagOnboarding

\* One feature component, two predators and one numerix, over three columns: a
\* feature, a model score or output name, and a numerix score.  The feature
\* component writes the feature, the numerix the score; predators differ.
MCPipelines ==
  {p \in [feature : {{"fs"}}, predator : {{"ranker", "second"}}, numerix : {{"reranker"}},
          reads : [{"fs", "ranker", "second", "reranker"} -> SUBSET {"f", "m", "n"}],
          writes : [{"fs", "ranker", "second", "reranker"} -> {{"f"}, {"m"}, {"n"}}],
          names : [{"ranker", "second"} -> {{}, {"m"}}]] :
     p.writes["fs"] = {"f"} /\ p.writes["reranker"] = {"n"}
       /\ p.writes["ranker"] \in {{"f"}, {"m"}} /\ p.writes["second"] = {"m"}}

\* Every map over four components.
MCHandWritten == ConfigsOver({"a", "b", "c", "d"})

=============================================================================
