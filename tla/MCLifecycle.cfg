SPECIFICATION LSpec
CONSTANTS
    LifeLimit <- LifeBounds
INVARIANTS ConsumerEndShows
PROPERTIES StopsAfterSignal LostLinkNoticed BecomesReady
CHECK_DEADLOCK FALSE
