\* Two workers that claim, publish and settle the same row, with faults.
SPECIFICATION FairSpec
CONSTANTS
    NumEvents = 2
    Workers = {w1, w2}
    BatchSize = 2
    RetryLimit = 1
    MaxFaults = 2
INVARIANTS PublishedIsDelivered DeadLetterEarned HandledAtMostOnce
PROPERTY EventuallySettled
CHECK_DEADLOCK FALSE
