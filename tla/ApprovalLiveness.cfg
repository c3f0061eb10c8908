SPECIFICATION Spec
CONSTANTS
    alice = alice
    bob = bob
    System = System
    NoOne = NoOne
    Sweeper = Sweeper
    Approvals = {a1}
    People = {alice, bob}
    RolesOf <- MCRolesOf
    Handlers = {h1}
    Clients = {c1}
    Windows = {1}
    MaxTime = 2
    MaxPolls = 2
    MaxCrashes = 1
CHECK_DEADLOCK FALSE
PROPERTIES EventuallyResolved WaitReturns
