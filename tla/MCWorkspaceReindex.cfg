SPECIFICATION Spec
CONSTANTS
    d1 = d1
    d2 = d2
    w1 = w1
    w2 = w2
    old = old
    new = new
    Docs = {d1, d2}
    Workers = {w1, w2}
    Contracts = {old, new}
    ConfigOf <- AllNew
    ApiContracts = {new}
    Stored = old
    MaxRevision = 2
SYMMETRY Symmetry
INVARIANTS
    TypeOK
    UnmarkedIsIndexed
    ReindexFindsDocument
PROPERTIES
    MarksGoWithTheIndex
