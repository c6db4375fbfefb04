------------------------ MODULE MCInteractionStore ------------------------
EXTENDS InteractionStore, TLC

CONSTANTS c1, c2, r1, r2

MCCalls == {c1, c2}
MCReplicas == {r1, r2}
Symmetry == Permutations(MCReplicas) \union Permutations(MCCalls)

(* Weeks of two units, three week columns in two buckets, years of seven    *)
(* weeks: as with 24 columns and 52 weeks, a year is two turns of the       *)
(* columns and a part of a third.                                           *)
MCTimes == {3, 6, 8, 15}
MCQueryTimes == {3, 7, 9, 15}
=============================================================================
