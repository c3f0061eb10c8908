CONSTANTS
    Requests = {r1, r2}
    Callers <- MCCallers
    Configs <- MCConfigs
    Results <- MCResults
    MaxTools = 1
SPECIFICATION Spec
SYMMETRY Symmetry
INVARIANTS
    FabricationSeen
    
    NothingUnseen
    JourneysTell
