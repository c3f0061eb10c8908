SPECIFICATION SafeSpec
CONSTANTS
    alice = alice
    bob = bob
    System = System
    NoOne = NoOne
    Sweeper = Sweeper
    Approvals = {a1}
    People = {alice, bob}
    RolesOf <- MCRolesOf
    Handlers = {h1, h2}
    Clients = {c1}
    Windows = {1}
    MaxTime = 2
    MaxPolls = 1
    MaxCrashes = 1
SYMMETRY Symmetry
CHECK_DEADLOCK FALSE
INVARIANTS ApproverEntitled ExpiryExact AnswersAgree NoStrayWaiter
PROPERTIES ResolutionIsFinal ImplementsDecision
