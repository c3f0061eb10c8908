SPECIFICATION Spec
CONSTANTS
    Events = {e1}
    Jobs = {j1}
    r1 = r1
    r2 = r2
    c1 = c1
    c2 = c2
    Records = {r1, r2}
    Calls = {c1, c2}
    None = None
    ToolEvents <- MCToolEvents
    GatewayConfigured = TRUE
    MaxApplied = 2
    MaxRestarts = 1
SYMMETRY Symmetric
INVARIANTS DuplicatesExplained ApprovalsBelong ExecutingExplained InverseOnce
CHECK_DEADLOCK FALSE
