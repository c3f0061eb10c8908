SPECIFICATION Spec
CONSTANTS
    Requests = {r1, r2}
    NoTrace = NoTrace
    Configs <- MCConfigs
    Calls <- MCCalls
    Amounts = {0, 2}
    Ages = {0, 2}
    MaxApprovals = 2
    LastHour = 2
SYMMETRY Symmetry
INVARIANTS DenialHolds ApprovalHolds LimitsHold TraceKept
CHECK_DEADLOCK FALSE
