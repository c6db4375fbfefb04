-------------------------- MODULE MCHorizonWorkflow --------------------------
EXTENDS HorizonWorkflow

CONSTANTS a, b, u, w1, w2

MCWorkflows == {a, b}
MCUpdates == {u}
MCWorkers == {w1, w2}
MCKinds == {"onboarding", "UpdateThresholds of cpu", "UpdateSharedMemory"}
=============================================================================
