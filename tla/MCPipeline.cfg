SPECIFICATION PSpec
CONSTANTS
    Paths = {p}
    Sizes = {1, 2}
    Checksums = {"a", "b"}
    Contents <- AllContents
    Writes <- TwoWrites
    Absent = Absent
    Flagged = {}
    Poison = {}
    Inputs = {}
    Dests = {s3}
    RetryMaxAttempts = 1
    UploadMaxConcurrency = 2
    WatchLimit <- WatchBounds
    Limit <- WorkBounds
INVARIANTS EndToEnd NoSilentLoss
