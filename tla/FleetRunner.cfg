SPECIFICATION Spec
CONSTANTS
    N = 4
    Strategies <- MCStrategies
    StepLists <- MCStepLists
    MaxPolls = 1
INVARIANTS GatesHold CanariesShield BreakerHolds RecordsHonest
PROPERTY RunnerEnds
CHECK_DEADLOCK FALSE
