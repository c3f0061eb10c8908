SPECIFICATION Spec
CONSTANTS
    Series <- MCSeries
    Playbook <- MCPlaybook
    Answers <- MCAnswers
    Requests <- MCRequests
    RunIds = {1, 2}
    Handlers = {t1, t2}
    MaxChainDepth = 3
    MaxStarts = 1
    MaxRequests = 3
SYMMETRY HandlerSymmetry
INVARIANTS ChainAuthorised GateRunsOnce AnnouncedGateStands
CHECK_DEADLOCK FALSE
