SPECIFICATION Spec
CONSTANTS
    Docs = {d1}
    TokenLimit = 2
    Sources <- MCFew
    Updates <- MCFew
    ParseOf <- MCParse
    MaxRevision = 2
    MaxMigrations = 1
    MaxRetrieved = 2
INVARIANT
    DeletionRemovesText
CHECK_DEADLOCK FALSE
