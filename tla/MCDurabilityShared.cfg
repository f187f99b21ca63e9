CONSTANTS
    Process = {p, q}
    Amount = {1}
    OnInterrupted = {"surface", "hold"}
    MaxReservations = 2
    MaxCrashes = 1

SYMMETRY ProcessSymmetry

SPECIFICATION SafetySpec

\* A closed run stops.
CHECK_DEADLOCK FALSE

INVARIANTS
    RecordIsBacked
    RecordBalances
    MoneyFollowsTruth
