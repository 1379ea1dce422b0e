SPECIFICATION Spec
CONSTANTS
    Docs = {d1}
    TokenLimit = 2
    Sources <- MCMany
    Updates <- MCFew
    ParseOf <- MCParse
    MaxRevision = 3
    MaxMigrations = 1
    MaxRetrieved = 2
INVARIANTS
    TypeOK
    ChunksPartitionFile
    AttributedToInnermost
    IndexFollowsStatus
    OneRevisionBesideFirstText
    CitedLinesHoldText
PROPERTIES
    CitedPassagesAreCurrent
CHECK_DEADLOCK FALSE
