CONSTANTS
    RunId = {run1, run2}
    Amount <- MCAmount
    MaxReservations = 3

SYMMETRY RunSymmetry

SPECIFICATION Spec

INVARIANTS
    TypeOK
    HistoryExplains
    ChargedAtMostOnce
    AuditBalances

PROPERTY
    ImplementsReservations
