SPECIFICATION ChainSpec
CONSTANTS
    gateway = gateway
    agent = agent
    g1 = g1
    g2 = g2
    g3 = g3
    Nobody = Nobody
    Processes = {gateway, agent}
    Recorders = {g1, g2, g3}
    SocketOwner = gateway
    ProcessOf <- MCProcessOf
    EventIds = {e1, e2, e3, e4}
    LegacyCounts = {0, 1}
    MaxLost = 2
    MaxRestarts = 2
SYMMETRY Symmetry
CHECK_DEADLOCK FALSE
INVARIANTS BreaksExplained
