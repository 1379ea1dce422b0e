SPECIFICATION Spec
CONSTANTS
    Requests = {q1, q2, q3}
    NoRequest = NoRequest
    Contents = {a, b}
    NoContent = NoContent
    MaxLostAnswers = 0
SYMMETRY Symmetry
INVARIANT
    EveryRevisionHasSource
CHECK_DEADLOCK FALSE
