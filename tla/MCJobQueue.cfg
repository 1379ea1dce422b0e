SPECIFICATION FairSpec
CONSTANTS
    Workers = {w1, w2}
    NoWorker = NoWorker
    Docs = {d1}
    JobIds = {1, 2}
    NoJob = NoJob
    JobTypes = {"INDEX_DOCUMENT"}
    Revisions = {1}
    MaxAttempts = 2
    LeaseTicks = 2
    RetryTicks = 1
    MaxCrashes = 1
INVARIANTS
    TypeOK
    OneActiveJobPerDocument
    RowsConsistent
    AttemptTokensUnique
PROPERTIES
    LiveLeaseProtects
    ExpiredLeaseNeverRevived
    FollowsLifecycle
    EveryJobEnds
    SignalStops
