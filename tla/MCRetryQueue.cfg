SPECIFICATION RSpec
CONSTANTS
    Messages = {m1, m2, m3}
    RetryMaxAttempts = 3
    backoff_delay_ms <- Doubling
    LongestDelay = 8
    Horizon = 20
SYMMETRY MessageSymmetry
INVARIANTS RTypeOK WaitExplained BoundedWait QueueInOrder
CHECK_DEADLOCK FALSE
