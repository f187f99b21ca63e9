CONSTANTS
    Process = {p}
    Amount = {1}
    OnInterrupted = {"hold"}
    MaxReservations = 2
    MaxCrashes = 1

SPECIFICATION Spec

\* A closed run stops.
CHECK_DEADLOCK FALSE

PROPERTY
    SettlementCharges
