SPECIFICATION WorkflowSpec
CONSTANTS
    d1 = d1
    c1 = c1
    c2 = c2
    Workers = {w1, w2}
    NoWorker = NoWorker
    Docs = {d1}
    JobIds = {1, 2, 3}
    NoJob = NoJob
    JobTypes = {"INDEX_DOCUMENT", "DELETE_DOCUMENT"}
    Revisions = {1, 2}
    MaxAttempts = 2
    LeaseTicks = 1
    RetryTicks = 0
    MaxCrashes = 1
    Contents = {c1, c2}
    Code = {c1}
    ContentsOf <- AllTexts
    MaxFaults = 0
SYMMETRY Symmetry
INVARIANT
    DeletesActiveRevision
