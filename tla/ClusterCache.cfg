SPECIFICATION FairSpec
CONSTANTS
    Caller = {c1, c2, c3}
    Key = {k1}
    TTL = {1, 2}
    MaxNow = 2
    MaxVersion = 2
    None = None
INVARIANTS TypeOK MonotoneReads SingleFlight StaleFlagIsTruth
PROPERTIES EveryCallEnds
