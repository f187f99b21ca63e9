CONSTANTS
    Curator = {c}
    Body = {a, b}
    Taint <- MCTaint
    MaxVersion = 2
    MaxNew = 1
    MaxUses = 0

SPECIFICATION Spec

\* The bounds are reached and every version left alone.
CHECK_DEADLOCK FALSE

PROPERTY
    NeverMutates
