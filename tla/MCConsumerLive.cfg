SPECIFICATION AttendedSpec
CONSTANTS
    p = p
    a = a
    b = b
    bad = bad
    bin = bin
    Absent = Absent
    Paths <- OnePath
    Contents = {a, bad}
    Flagged = {bad}
    Poison = {}
    Dests = {s3, gcs}
    RetryMaxAttempts = 1
    UploadMaxConcurrency = 2
    Inputs <- TidyEvents
    Limit <- LiveBounds
PROPERTIES Drains
