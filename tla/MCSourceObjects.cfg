SPECIFICATION Spec
CONSTANTS
    Requests = {q1, q2, q3}
    NoRequest = NoRequest
    Contents = {a, b}
    NoContent = NoContent
    MaxLostAnswers = 1
SYMMETRY Symmetry
INVARIANTS
    TypeOK
    SourceIsItsOwn
    UnreferencedIsExplained
CHECK_DEADLOCK FALSE
