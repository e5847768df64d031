SPECIFICATION AttendedSpec
CONSTANTS
    p = p
    a = a
    b = b
    bad = bad
    bin = bin
    Absent = Absent
    Paths <- OnePath
    Contents = {a, bin}
    Flagged = {}
    Poison = {bin}
    Dests = {s3, gcs}
    RetryMaxAttempts = 1
    UploadMaxConcurrency = 2
    Inputs <- EventsABin
    Limit <- QuietBounds
PROPERTIES LeftForRedelivery
