\* A command submitted again after it was flushed blocks the queue for good.
SPECIFICATION FairSpec
CONSTANTS
    Keys = {k1, k2}
    ZeroKeys = {}
    Modes = {"hot"}
    Clients = {c1}
    Workers = {w1}
    Readers = {}
    BatchSizes = {1}
    MaxQueue = 3
    OverloadDepth = 3
    MaxSends = 2
    MaxAborts = 0
    None = None
PROPERTY AckedIsCredited
CHECK_DEADLOCK FALSE
