----------------------------- MODULE MCDagRegistry -----------------------------
EXTENDS DagRegistry

\* Three requests; two configurations that are valid and one that is not.
MCRequest == {"r1", "r2", "r3"}
MCConfig == {"m1", "m2", "cyclic"}
MCValid == {"m1", "m2"}

=============================================================================
