CONSTANTS
    ToolCalls = {c1, c2}
    MaxXactAge = 1
    MaxReplicas = 2
    MaxChanges = 3
SPECIFICATION ToolSpec
SYMMETRY Symmetry
INVARIANTS
    VerifiedLasts
    AgeBounded
    PreStateExact
