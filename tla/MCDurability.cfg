CONSTANTS
    Process = {p}
    Amount = {1, 2}
    OnInterrupted = {"surface"}
    MaxReservations = 3
    MaxCrashes = 2

SPECIFICATION Spec

\* A closed run stops.
CHECK_DEADLOCK FALSE

INVARIANTS
    TypeOK
    SpendIsTruth

PROPERTY
    ImplementsExactlyOnce
