------------------------- MODULE MCPredatorApproval -------------------------
EXTENDS PredatorApproval, TLC

CONSTANTS g1, g2, m1, m2, w1, w2

MCGroups == {g1, g2}
MCModels == {m1, m2}
MCServed == {m1}
MCBatches == {{m1}, {m2}}
MCCreated == {"Onboard", "ScaleUp"}
MCWorkers == {w1, w2}
Symmetry == Permutations(MCGroups) \union Permutations(MCWorkers)
=============================================================================
