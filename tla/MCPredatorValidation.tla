----------------------- MODULE MCPredatorValidation -----------------------
EXTENDS PredatorValidation

CONSTANTS g1, g2, m1, w1, v1, v2

MCGroups == {g1, g2}
MCModels == {m1}
MCServed == {}
MCBatches == {{m1}}
MCCreated == {"ScaleUp"}
MCWorkers == {w1}
MCValidators == {v1, v2}
Symmetry == Permutations(MCGroups) \union Permutations(MCValidators)
=============================================================================
