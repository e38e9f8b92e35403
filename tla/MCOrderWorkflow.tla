-------------------------- MODULE MCOrderWorkflow --------------------------
EXTENDS OrderWorkflow, TLC

Symmetry == Permutations(Consumers)
=============================================================================
