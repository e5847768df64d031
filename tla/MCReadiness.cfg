SPECIFICATION LSpec
CONSTANTS
    LifeLimit <- LifeBounds
INVARIANTS ReadyMeansRunning
CHECK_DEADLOCK FALSE
