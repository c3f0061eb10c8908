SPECIFICATION Spec
CONSTANTS
    Rules <- MCRules
    Deployments <- MCDeployments
    Durations = {0, 3}
    Bundles = {b1, b2}
    FirstLimit = 1
    PollLimit = 2
    MaxSeen = 2
    Buffer = 2
SYMMETRY BundleSymmetry
INVARIANTS WatchedOnce AnomaliesExplained CooldownKept IndexKeeps
CHECK_DEADLOCK FALSE
