--------------------------- MODULE MCFeatureStore ---------------------------
EXTENDS FeatureStore, TLC

CONSTANTS a, b, c, p1, p2, w1, w2

MCFGs == {a, b, c}
MCScylla == {c}
MCInMem == {a, c}
MCDist == {a, b}
MCLifetime == {c}
MCPods == {p1, p2}
MCFormer == {<<a, 1>>, <<b, 2>>, <<c, 1>>}
MCRequests == {<<p1, {a, c}, {}>>, <<p1, {a, c}, {c}>>, <<p2, {b, c}, {b}>>}
MCWriters == {w1, w2}
MCWrites == {<<p1, {a}>>, <<p1, {b, c}>>, <<"consumer", {b}>>}
Symmetry == Permutations(MCWriters)
=============================================================================
