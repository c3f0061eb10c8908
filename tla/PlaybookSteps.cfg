SPECIFICATION StepSpec
CONSTANTS
    ProceedHandlers = {t1, t2}
    MaxProposals = 3
    MaxProceeds = 3
SYMMETRY HandlerSymmetry
INVARIANTS StepRunsOnce ApprovedIsRun
CHECK_DEADLOCK FALSE
