SPECIFICATION FairSpec
CONSTANTS
    Paths = {p, q}
    Sizes = {1, 2}
    Checksums = {"a", "b"}
    Contents <- AllContents
    Writes <- TwoWrites
    Absent = Absent
    RetryMaxAttempts = 1
    WatchLimit <- WatchBounds
INVARIANTS  Announced DraftCurrent EventsPaidFor
PROPERTIES EventuallyAnnounced
