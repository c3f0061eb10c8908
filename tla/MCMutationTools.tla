---------------------------- MODULE MCMutationTools ----------------------------
EXTENDS MutationTools, TLC

Symmetry == Permutations(ToolCalls)
=============================================================================
