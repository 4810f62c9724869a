\* One worker and a queue that is soon overloaded: dropped and coalesced commands are still credited and readable in the end.
SPECIFICATION FairSpec
CONSTANTS
    Keys = {k1, k2, k3, z}
    ZeroKeys = {z}
    Modes = {"hot"}
    Clients = {c1}
    Workers = {w1}
    Readers = {r1}
    BatchSizes = {1, 2}
    MaxQueue = 3
    OverloadDepth = 0
    MaxSends = 1
    MaxAborts = 1
    None = None
INVARIANT ReadYourWrites
PROPERTIES AckedIsCredited ReceiptsBecomeCovered
CHECK_DEADLOCK FALSE
