SPECIFICATION Spec
CONSTANTS
    p = p
    a = a
    b = b
    bad = bad
    bin = bin
    Absent = Absent
    Paths <- OnePath
    Contents = {a, bad, bin}
    Flagged = {bad}
    Poison = {bin}
    Dests = {s3}
    RetryMaxAttempts = 0
    UploadMaxConcurrency = 1
    Inputs <- AllEvents
    Limit <- BodyBounds
INVARIANTS TypeOK NoSilentLoss
