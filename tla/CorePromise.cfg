\* Two workers, two clients, every key submitted twice in any mode, no overload: credited once, the ledger
\* agrees with the total, and the write path implements ExactlyOnce.
SPECIFICATION Spec
CONSTANTS
    Keys = {k1, k2}
    ZeroKeys = {}
    Modes = {"hot", "cold"}
    Clients = {c1, c2}
    Workers = {w1, w2}
    Readers = {}
    BatchSizes = {1, 2}
    MaxQueue = 3
    OverloadDepth = 3
    MaxSends = 2
    MaxAborts = 1
    None = None
INVARIANTS KeyCreditedOnce LedgerAgrees
PROPERTY KeepsPromise
CHECK_DEADLOCK FALSE
