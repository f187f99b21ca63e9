---------------------------- MODULE LedgerBiller ----------------------------
(***************************************************************************)
(* billing/ledger.py, class LedgerBiller: the in-memory biller with an     *)
(* auditable ledger.  None of its coroutines awaits, so each call is one   *)
(* step; what varies is the order in which the callers' reserve, capture   *)
(* and release calls arrive, with any ids and outcomes, repeated or not.   *)
(***************************************************************************)
EXTENDS Integers, Sequences, Functions, ReservationLifecycle

CONSTANTS
    RunId,              \* the runs that reserve credit
    Amount,             \* the amounts callers ask for, negative ones included
    MaxReservations     \* bound: accepted reserve calls

ASSUME AmountAssumption == Amount \subseteq Int
ASSUME MaxReservationsAssumption == MaxReservations \in Nat

VARIABLES
    counter,    \* _counter: reservations issued so far
    entries,    \* _entries: reservation id -> its current ledger row
    history,    \* _history: every row ever written, in order
    reply       \* how the last call ended: "ok" or the exception it raised

vars == <<counter, entries, history, reply>>

-----------------------------------------------------------------------------

\* The id "res-{run}-{tool}-{counter}" ends in the counter and nothing else
\* distinguishes two ids for sure: the counter stands for it.  Ids of no
\* reservation are what a caller may pass too.
Id == 1 .. MaxReservations

Issued == 1 .. counter

Reply == {"ok", "ValueError", "KeyError", "DoubleCaptureError"}

\* LedgerEntry (its tool and timestamp decide nothing)
Entry == [run : RunId, amount : {a \in Amount : a >= 0},
          state : State, outcome : Outcome \cup {NoOutcome}]

Row == [id : Id, entry : Entry]

Init ==
    /\ counter = 0
    /\ entries = [id \in {} |-> {}]
    /\ history = << >>
    /\ reply = "ok"

\* Fault: a transition is not appended to the history.
RecordNoHistory(id, entry) ==
    /\ entries' = [i \in DOMAIN entries \cup {id} |->
                       IF i = id THEN entry ELSE entries[i]]
    /\ history' = history
    /\ reply' = "ok"

\* The only two writes of the ledger: the current row of id, and one row more
\* in the history.
Record(id, entry) ==
    /\ entries' = [i \in DOMAIN entries \cup {id} |->
                       IF i = id THEN entry ELSE entries[i]]
    /\ history' = Append(history, [id |-> id, entry |-> entry])
    /\ reply' = "ok"

Answer(result) ==
    /\ reply' = result
    /\ UNCHANGED <<counter, entries, history>>

-----------------------------------------------------------------------------

ReserveRefused(amount) ==
    /\ amount < 0
    /\ Answer("ValueError")

Reserve(run, amount) ==
    /\ amount >= 0
    /\ counter < MaxReservations
    /\ counter' = counter + 1
    /\ Record(counter', [run |-> run, amount |-> amount,
                         state |-> "reserved", outcome |-> NoOutcome])

CaptureUnknown(id) ==
    /\ id \notin Issued
    /\ Answer("KeyError")

CaptureDouble(id, outcome) ==
    /\ id \in Issued
    /\ CaptureRefused(entries[id], outcome)
    /\ Answer("DoubleCaptureError")

CaptureAgain(id, outcome) ==
    /\ id \in Issued
    /\ ~ CaptureRefused(entries[id], outcome)
    /\ ~ CaptureCharges(entries[id])
    /\ Answer("ok")

Capture(id, outcome) ==
    /\ id \in Issued
    /\ CaptureCharges(entries[id])
    /\ Record(id, AfterCapture(entries[id], outcome))
    /\ UNCHANGED counter

ReleaseNothing(id) ==
    /\ id \in Issued => ~ ReleaseRefunds(entries[id])
    /\ Answer("ok")

Release(id) ==
    /\ id \in Issued
    /\ ReleaseRefunds(entries[id])
    /\ Record(id, AfterRelease(entries[id]))
    /\ UNCHANGED counter

Next ==
    \/ \E amount \in Amount :
         \/ ReserveRefused(amount)
         \/ \E run \in RunId : Reserve(run, amount)
    \/ \E id \in Id :
         \/ CaptureUnknown(id)
         \/ \E outcome \in Outcome :
              \/ CaptureDouble(id, outcome)
              \/ CaptureAgain(id, outcome)
              \/ Capture(id, outcome)
         \/ ReleaseNothing(id)
         \/ Release(id)

Spec == Init /\ [][Next]_vars

-----------------------------------------------------------------------------
(* The audit surface: what the ledger reports of a run. *)

OfRun(run) == {id \in Issued : entries[id].run = run}

\* Fault: a charge held for reconciliation is not counted.
captured_reservationsSettled(run) ==
    {id \in OfRun(run) : entries[id].state = "captured"}

captured_reservations(run) == {id \in OfRun(run) : IsCharged(entries[id])}

unreconciled(run) ==
    {id \in OfRun(run) : entries[id].state = "needs_reconciliation"}

total_reserved(run) ==
    SumFunctionOnSet([id \in Issued |-> entries[id].amount], OfRun(run))

total_charged(run) ==
    SumFunctionOnSet([id \in Issued |-> entries[id].amount],
                     captured_reservations(run))

-----------------------------------------------------------------------------
(* Properties. *)

\* Type invariant: the ledger holds exactly the reservations issued, each row
\* with a state and an outcome that go together.
TypeOK ==
    /\ counter \in 0 .. MaxReservations
    /\ entries \in [Issued -> Entry]
    /\ \A id \in Issued : Coherent(entries[id])
    /\ history \in Seq(Row)
    /\ reply \in Reply

\* The states a row of the history may be followed by, for the same id.
Later == {<<"reserved", "captured">>, <<"reserved", "needs_reconciliation">>,
          <<"reserved", "released">>, <<"needs_reconciliation", "released">>}

\* Every current row is the last of its id in the history.
HistoryIsCurrent ==
    \A id \in Issued :
        \E k \in DOMAIN history :
            /\ history[k] = [id |-> id, entry |-> entries[id]]
            /\ \A j \in DOMAIN history : j > k => history[j].id # id

\* Any two rows of one id keep its run and amount and follow the life cycle.
HistoryIsLegal ==
    \A j, k \in DOMAIN history :
        j < k /\ history[j].id = history[k].id =>
            /\ <<history[j].entry.state, history[k].entry.state>> \in Later
            /\ history[j].entry.run = history[k].entry.run
            /\ history[j].entry.amount = history[k].entry.amount

\* The audit is complete and cannot be contradicted by the ledger ("a run's
\* spend and the reason for it are recoverable"): whatever order the calls
\* came in, the history of each reservation is a legal life ending in its
\* current row.
HistoryExplains == HistoryIsCurrent /\ HistoryIsLegal

\* P5, one charging point: over its whole life a reservation is charged at
\* most once, however often and on whatever outcomes capture and release are
\* repeated in between.
ChargedAtMostOnce ==
    \A j, k \in DOMAIN history :
        /\ history[j].id = history[k].id
        /\ IsCharged(history[j].entry)
        /\ IsCharged(history[k].entry)
        => j = k

\* Rows of the history that charged a run, and those that gave a charge back.
ChargeRows(run) ==
    {k \in DOMAIN history : history[k].entry.run = run /\ IsCharged(history[k].entry)}

RefundRows(run) ==
    {k \in DOMAIN history :
        /\ history[k].entry.run = run
        /\ history[k].entry.state = "released"
        /\ \E j \in 1 .. k : history[j].id = history[k].id /\ j \in ChargeRows(run)}

Credits(rows) ==
    SumFunctionOnSet([k \in DOMAIN history |-> history[k].entry.amount], rows)

\* The money adds up: what total_charged reports of each run is what replaying
\* its history charges less what it refunds, and is never more than the run
\* reserved.
AuditBalances ==
    \A run \in RunId :
        /\ total_charged(run) = Credits(ChargeRows(run)) - Credits(RefundRows(run))
        /\ total_charged(run) <= total_reserved(run)

\* The status of each reservation as Reservations knows it.
StatusOf(state) ==
    CASE state = "reserved"             -> "held"
      [] state = "captured"             -> "charged"
      [] state = "needs_reconciliation" -> "disputed"
      [] state = "released"             -> "refunded"

Status(id) == IF id \in Issued THEN StatusOf(entries[id].state) ELSE "free"

Promise == INSTANCE Reservations WITH status <- [id \in Id |-> Status(id)]

\* The ledger keeps the Biller's promise about every reservation: each call
\* moves at most one of them, one legal step, and a settled one never moves.
ImplementsReservations == Promise!Spec
=============================================================================
