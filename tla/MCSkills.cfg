CONSTANTS
    Curator = {c}
    Body = {a}
    Taint <- MCTaint
    MaxVersion = 2
    MaxNew = 2
    MaxUses = 3

SPECIFICATION Spec

\* The bounds are reached and every version left alone.
CHECK_DEADLOCK FALSE

INVARIANTS
    TypeOK
    TaintStaysOut
    RetrievalIsEarned
    RevertHasTarget
