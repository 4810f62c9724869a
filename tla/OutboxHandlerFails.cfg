\* A handler that raises once loses its event: the key is already marked.
SPECIFICATION FairSpec
CONSTANTS
    NumEvents = 1
    Workers = {w1}
    BatchSize = 2
    RetryLimit = 1
    MaxFaults = 1
PROPERTY PublishedIsHandled
CHECK_DEADLOCK FALSE
