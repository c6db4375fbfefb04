---------------------------- MODULE MCHorizonJobs ----------------------------
EXTENDS HorizonJobs, TLC

CONSTANTS p1, p2

MCPods == {p1, p2}
MCModes == {"airflow", "skye-trigger"}
Symmetry == Permutations(MCPods)
=============================================================================
