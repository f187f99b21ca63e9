CONSTANTS
    Agent = {a1, a2}
    Foreign = {a1}
    Studio = {a1}
    Id = {i1, i2, i3}
    NoId = NoId
    MaxMade = 3
    MaxCalls = 2
    MaxReads = 2
    MaxDecisions = 1

SPECIFICATION Spec

SYMMETRY MCSymmetry

\* The bounds are reached and every turn has ended.
CHECK_DEADLOCK FALSE

INVARIANTS
    TypeOK
    TaintTravels
    ApprovalHolds
    TraversalsAgree

PROPERTY
    AppendOnly
