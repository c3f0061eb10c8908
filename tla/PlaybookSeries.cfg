SPECIFICATION Spec
CONSTANTS
    Series = {"shipped", "own"}
    Shipped = {"shipped"}
    Bodies <- MCBodies
    MaxRows = 3
    MaxVersion = 2
    MaxUpdates = 1
    MaxRestarts = 1
INVARIANTS ChosenRuns SeededRunnable
CHECK_DEADLOCK FALSE
