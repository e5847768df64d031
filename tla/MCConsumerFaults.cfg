SPECIFICATION Spec
CONSTANTS
    p = p
    a = a
    b = b
    bad = bad
    bin = bin
    Absent = Absent
    Paths <- OnePath
    Contents = {a, b}
    Flagged = {}
    Poison = {}
    Dests = {s3, gcs}
    RetryMaxAttempts = 2
    UploadMaxConcurrency = 1
    Inputs <- EventsAB
    Limit <- FaultBounds
SYMMETRY DestSymmetry
INVARIANTS NoSilentLoss NoUploadOnceDone DoneMeansUploaded CopiesPaidFor ThreadInv FreshCopy AckSafe AttemptsEarned
PROPERTIES ImplementsTransfer
