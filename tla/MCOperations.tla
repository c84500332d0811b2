---------------------------- MODULE MCOperations ----------------------------
EXTENDS Operations, TLC

\* Requests are interchangeable: nothing orders them but their steps.
RequestSymmetry == Permutations(Requests)
=============================================================================
