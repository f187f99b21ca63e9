CONSTANTS
    Process = {p, q}
    Amount = {1}
    OnInterrupted = {"surface"}
    MaxReservations = 2
    MaxCrashes = 0

SPECIFICATION SafetySpec

\* A closed run stops.
CHECK_DEADLOCK FALSE

PROPERTY
    NeverForgets
