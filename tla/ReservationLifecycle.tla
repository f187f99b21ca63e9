------------------------ MODULE ReservationLifecycle ------------------------
(***************************************************************************)
(* What one ledger row does when it is captured or released: the pure part *)
(* of billing/ledger.py, shared by the biller alone (LedgerBiller) and by  *)
(* the runs that drive it through crashes (Durability).  A row is any      *)
(* record with the fields state and outcome.                               *)
(***************************************************************************)

\* core/types.py ToolOutcome
Outcome == {"success", "failed", "denied", "interrupted"}

\* LedgerEntry.outcome of a row that is held, or was released.
NoOutcome == "none"

\* ReservationState
State == {"reserved", "captured", "needs_reconciliation", "released"}

\* ReservationState.is_charged: an interrupted capture holds its credit too.
IsCharged(entry) == entry.state \in {"captured", "needs_reconciliation"}

\* The state and outcome fields that can occur together.
Coherent(entry) ==
    \/ entry.state \in {"reserved", "released"} /\ entry.outcome = NoOutcome
    \/ entry.state = "captured" /\ entry.outcome \in Outcome \ {"interrupted"}
    \/ entry.state = "needs_reconciliation" /\ entry.outcome = "interrupted"

\* Fault: an interrupted tool call is charged like a settled one.
CaptureTargetSettles(outcome) == "captured"

CaptureTarget(outcome) ==
    IF outcome = "interrupted" THEN "needs_reconciliation" ELSE "captured"

\* capture() raises DoubleCaptureError: the row is charged on another outcome,
\* or its credit has been given back.
CaptureRefused(entry, outcome) ==
    \/ IsCharged(entry) /\ entry.outcome # outcome
    \/ entry.state = "released"

\* Fault: the check for a released reservation is missing.
CaptureChargesReleased(entry) == ~ IsCharged(entry)

\* capture() charges, as opposed to tolerating a repeat.
CaptureCharges(entry) == entry.state = "reserved"

AfterCapture(entry, outcome) ==
    [entry EXCEPT !.state = CaptureTarget(outcome), !.outcome = outcome]

\* Fault: a settled charge is refundable through release.
ReleaseRefundsSettled(entry) == entry.state # "released"

\* release() gives credit back; from every other state it is a no-op.
ReleaseRefunds(entry) == entry.state \in {"reserved", "needs_reconciliation"}

AfterRelease(entry) ==
    [entry EXCEPT !.state = "released", !.outcome = NoOutcome]
=============================================================================
