--------------------------- MODULE MCPlaybookSteps ---------------------------
EXTENDS PlaybookSteps, TLC

HandlerSymmetry == Permutations(ProceedHandlers)
=============================================================================
