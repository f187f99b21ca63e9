CONSTANTS
    Agent = {a1}
    Foreign = {a1}
    Studio = {a1}
    Id = {i1, i2}
    NoId = NoId
    MaxMade = 2
    MaxCalls = 2
    MaxReads = 2
    MaxDecisions = 0

SPECIFICATION Spec

\* The bounds are reached and every turn has ended.
CHECK_DEADLOCK FALSE

INVARIANT
    IdRestores
