------------------------------ MODULE Durability ------------------------------
(***************************************************************************)
(* durability/checkpoint.py and durability/resume.py over a biller that    *)
(* bills as LedgerBiller does and a run store that overwrites whole rows:  *)
(* one run, the host processes that drive and resume it, and the crashes   *)
(* between any two of their awaits.  A process works on its own copy of    *)
(* the run; the biller, the store, the caller's tool-call journal and the  *)
(* provider outlive it, as they do in tests/properties/test_resume.py.     *)
(***************************************************************************)
EXTENDS Integers, FiniteSets, Functions, ReservationLifecycle

CONSTANTS
    Process,            \* the processes that may hold the run
    Amount,             \* what a metered call may cost
    OnInterrupted,      \* what a live host does on an interrupted call:
                        \*   "surface"  resume_reservation gives a Reconciliation
                        \*   "hold"     it is captured at the biller as such
    MaxReservations,    \* bound: metered calls of the run
    MaxCrashes          \* bound: crashes

ASSUME AmountAssumption == Amount \subseteq Nat
ASSUME ReactionAssumption == OnInterrupted \subseteq {"surface", "hold"}
ASSUME BoundAssumption == MaxReservations \in Nat /\ MaxCrashes \in Nat

VARIABLES
    biller,     \* the biller's rows, by reservation id
    store,      \* the run's row in the RunStore
    journal,    \* the caller's journal: what it knows of each call
    landed,     \* the provider's truth: the paid side effect happened
    host,       \* per process: where it stands and the copies it works on
    crashes

vars == <<biller, store, journal, landed, host, crashes>>

-----------------------------------------------------------------------------

Id == 1 .. MaxReservations
Issued == DOMAIN biller

Terminal == {"succeeded", "failed", "cancelled"}
Phase == {"absent", "running"} \cup Terminal

\* core/types.py Run: the fields a checkpoint or a resume reads or writes.
Run == [phase : Phase, iteration : Nat, captured : SUBSET Id, charged : Nat]
NoRun == [phase |-> "absent", iteration |-> 0, captured |-> {}, charged |-> 0]

\* "none": not journalled; "held": reserved, the tool not called yet; then the
\* outcome the caller saw, "interrupted" also when it died during the call.
JournalEntry == {"none", "held"} \cup Outcome

Place == {"down", "resuming", "settling", "driving", "journaling", "calling",
          "reacting", "capturing", "recording", "releasing", "iterating"}

\* run: this process's copy; pending, recon: the triples resume() still has to
\* resolve and the Reconciliations it surfaced; id, outcome, next: the
\* reservation in hand, what it is captured on, and where to go after it.
Host == [at : Place, run : Run, pending : SUBSET (Id \X Outcome), recon : SUBSET Id,
         id : Id \cup {0}, outcome : Outcome \cup {NoOutcome}, next : Place]

Down == [at |-> "down", run |-> NoRun, pending |-> {}, recon |-> {},
         id |-> 0, outcome |-> NoOutcome, next |-> "down"]

Init ==
    /\ biller = [id \in {} |-> {}]
    /\ store = NoRun
    /\ journal = [id \in Id |-> "none"]
    /\ landed = [id \in Id |-> FALSE]
    /\ host = [p \in Process |-> Down]
    /\ crashes = 0

At(p, place) == host[p].at = place
Run_(p) == host[p].run
Now(p) == host[p].id

\* What a step of process p changes of its own.
Become(p, h) == host' = [host EXCEPT ![p] = h]
Goto(p, place) == Become(p, [host[p] EXCEPT !.at = place])

\* Fault: the reservation in hand is captured on no outcome.
TakeNoOutcome(h, place, id, outcome, next) ==
    [h EXCEPT !.at = place, !.id = id, !.next = next]

\* Work on reservation id at the given place, then continue at next.
Take(h, place, id, outcome, next) ==
    [h EXCEPT !.at = place, !.id = id, !.outcome = outcome, !.next = next]

\* Fault: the caller goes on with the copy it had before the checkpoint.
CheckpointStale(p, run, place) ==
    /\ store' = run
    /\ Goto(p, place)

\* RunStore.checkpoint overwrites the whole row; the caller keeps what it wrote.
Checkpoint(p, run, place) ==
    /\ store' = run
    /\ Become(p, [host[p] EXCEPT !.run = run, !.at = place])

Bill(id, row) == biller' = [biller EXCEPT ![id] = row]

-----------------------------------------------------------------------------
(* Checkpointer.open, and Resumer.load. *)

\* RunStore.create refuses an id that exists.
Open(p) ==
    /\ At(p, "down")
    /\ store.phase = "absent"
    /\ Checkpoint(p, [NoRun EXCEPT !.phase = "running"], "driving")
    /\ UNCHANGED <<biller, journal, landed, crashes>>

Journalled == {<<id, journal[id]>> : id \in {i \in Id : journal[i] \in Outcome}}

\* Fault: a resume takes up nothing that was in flight.
ResumeForgets(p) ==
    /\ At(p, "down")
    /\ store.phase \notin {"absent"} \cup Terminal
    /\ Become(p, [Down EXCEPT !.at = "resuming", !.run = store])
    /\ UNCHANGED <<biller, store, journal, landed, crashes>>

\* Neither UnknownRunError nor TerminalRunError: load the last checkpoint, and
\* take every call the journal knows an outcome of as pending, resolved before
\* or not.
Resume(p) ==
    /\ At(p, "down")
    /\ store.phase \notin {"absent"} \cup Terminal
    /\ Become(p, [Down EXCEPT !.at = "resuming", !.run = store, !.pending = Journalled])
    /\ UNCHANGED <<biller, store, journal, landed, crashes>>

-----------------------------------------------------------------------------
(* Resumer.decide and resume_reservation, for one pending triple at a time. *)

\* Fault: an interrupted call is taken for a failed one.
DecisionInterruptedFailed(run, id, outcome) ==
    IF id \in run.captured THEN "already_captured"
    ELSE IF outcome = "success" THEN "capture" ELSE "release"

Decision(run, id, outcome) ==
    IF id \in run.captured THEN "already_captured"
    ELSE CASE outcome = "success" -> "capture"
           [] outcome = "interrupted" -> "reconcile"
           [] OTHER -> "release"

ResumeReservation(p, id, outcome) ==
    /\ At(p, "resuming")
    /\ <<id, outcome>> \in host[p].pending
    /\ LET decision == Decision(Run_(p), id, outcome)
           h == [host[p] EXCEPT !.pending = @ \ {<<id, outcome>>}]
       IN  \/ /\ decision = "already_captured"
              /\ Become(p, h)
           \/ /\ decision = "capture"
              /\ Become(p, Take(h, "capturing", id, outcome, "resuming"))
           \/ /\ decision = "release"
              /\ Become(p, Take(h, "releasing", id, NoOutcome, "resuming"))
           \/ /\ decision = "reconcile"
              /\ Become(p, [h EXCEPT !.recon = @ \cup {id}])
    /\ UNCHANGED <<biller, store, journal, landed, crashes>>

Resumed(p) ==
    /\ At(p, "resuming")
    /\ host[p].pending = {}
    /\ Goto(p, "settling")
    /\ UNCHANGED <<biller, store, journal, landed, crashes>>

\* settle_reconciliation, with what the provider says happened.  safe_capture's
\* own guard refuses nothing here: this copy shows no id it surfaced.
Settle(p, id) ==
    /\ At(p, "settling")
    /\ id \in host[p].recon
    /\ LET h == [host[p] EXCEPT !.recon = @ \ {id}]
       IN  \/ /\ landed[id]
              /\ id \notin Run_(p).captured
              /\ Become(p, Take(h, "capturing", id, "success", "settling"))
           \/ /\ ~ landed[id]
              /\ Become(p, Take(h, "releasing", id, NoOutcome, "settling"))
    /\ UNCHANGED <<biller, store, journal, landed, crashes>>

Settled(p) ==
    /\ At(p, "settling")
    /\ host[p].recon = {}
    /\ Goto(p, "driving")
    /\ UNCHANGED <<biller, store, journal, landed, crashes>>

-----------------------------------------------------------------------------
(* safe_capture past its guard: the biller's capture, then record_capture. *)
(* An interrupted call is captured at the biller alone: its contract, and   *)
(* what FakeBackend._meter does, with no record in the run.                 *)

\* The biller raises DoubleCaptureError, and it propagates: the resume is over
\* and the copy of the run with it.
CaptureRaises(p) ==
    /\ At(p, "capturing")
    /\ CaptureRefused(biller[Now(p)], host[p].outcome)
    /\ Become(p, Down)
    /\ UNCHANGED <<biller, store, journal, landed, crashes>>

\* Fault: a refused capture is taken for a repeat of one, and recorded.
CaptureIgnoresRefusal(p) ==
    /\ At(p, "capturing")
    /\ IF CaptureCharges(biller[Now(p)])
       THEN Bill(Now(p), AfterCapture(biller[Now(p)], host[p].outcome))
       ELSE UNCHANGED biller
    /\ Goto(p, IF host[p].outcome = "interrupted" THEN host[p].next ELSE "recording")
    /\ UNCHANGED <<store, journal, landed, crashes>>

Capture(p) ==
    /\ At(p, "capturing")
    /\ ~ CaptureRefused(biller[Now(p)], host[p].outcome)
    /\ IF CaptureCharges(biller[Now(p)])
       THEN Bill(Now(p), AfterCapture(biller[Now(p)], host[p].outcome))
       ELSE UNCHANGED biller
    /\ Goto(p, IF host[p].outcome = "interrupted" THEN host[p].next ELSE "recording")
    /\ UNCHANGED <<store, journal, landed, crashes>>

\* Fault: record_capture shows the id and not its cost.
WithCaptureFree(run, id, amount) == [run EXCEPT !.captured = @ \cup {id}]

\* record_capture: the id and its cost, unless this copy already shows them.
WithCapture(run, id, amount) ==
    IF id \in run.captured THEN run
    ELSE [phase |-> run.phase, iteration |-> run.iteration,
          captured |-> run.captured \cup {id}, charged |-> run.charged + amount]

RecordCapture(p) ==
    /\ At(p, "recording")
    /\ Checkpoint(p, WithCapture(Run_(p), Now(p), biller[Now(p)].amount), host[p].next)
    /\ UNCHANGED <<biller, journal, landed, crashes>>

Release(p) ==
    /\ At(p, "releasing")
    /\ IF ReleaseRefunds(biller[Now(p)])
       THEN Bill(Now(p), AfterRelease(biller[Now(p)]))
       ELSE UNCHANGED biller
    /\ Goto(p, host[p].next)
    /\ UNCHANGED <<store, journal, landed, crashes>>

-----------------------------------------------------------------------------
(* The host's metered calls, one an iteration. *)

Reserve(p, amount) ==
    /\ At(p, "driving")
    /\ Cardinality(Issued) < MaxReservations
    /\ LET id == Cardinality(Issued) + 1
       IN  /\ biller' = [i \in Issued \cup {id} |->
                            IF i = id THEN [amount |-> amount, state |-> "reserved",
                                            outcome |-> NoOutcome]
                            ELSE biller[i]]
           /\ Become(p, [host[p] EXCEPT !.at = "journaling", !.id = id])
    /\ UNCHANGED <<store, journal, landed, crashes>>

\* A crash before this step leaves a reservation nobody will ask for again.
Journal(p) ==
    /\ At(p, "journaling")
    /\ journal' = [journal EXCEPT ![Now(p)] = "held"]
    /\ Goto(p, "calling")
    /\ UNCHANGED <<biller, store, landed, crashes>>

\* A resumed host runs the call that was reserved and not made.  The caller
\* does not start a call another process is making.
Adopt(p, id) ==
    /\ At(p, "driving")
    /\ journal[id] = "held"
    /\ \A q \in Process : ~ (At(q, "calling") /\ Now(q) = id)
    /\ Become(p, [host[p] EXCEPT !.at = "calling", !.id = id])
    /\ UNCHANGED <<biller, store, journal, landed, crashes>>

\* The tool runs.  Its side effect has happened or not once the outcome is
\* known, and an interrupted call may have gone either way.
Call(p, happened, outcome) ==
    /\ At(p, "calling")
    /\ outcome = "success" => happened
    /\ outcome \in {"failed", "denied"} => ~ happened
    /\ landed' = [landed EXCEPT ![Now(p)] = happened]
    /\ journal' = [journal EXCEPT ![Now(p)] = outcome]
    /\ Goto(p, "reacting")
    /\ UNCHANGED <<biller, store, crashes>>

\* capture, release, surface or hold, as the outcome says.
React(p) ==
    /\ At(p, "reacting")
    /\ LET outcome == journal[Now(p)]
       IN  \/ /\ outcome = "success"
              /\ Now(p) \notin Run_(p).captured
              /\ Become(p, Take(host[p], "capturing", Now(p), outcome, "iterating"))
           \/ /\ outcome \in {"failed", "denied"}
              /\ Become(p, Take(host[p], "releasing", Now(p), NoOutcome, "iterating"))
           \/ /\ outcome = "interrupted" /\ "surface" \in OnInterrupted
              /\ Become(p, [host[p] EXCEPT !.at = "settling", !.recon = {Now(p)}])
           \/ /\ outcome = "interrupted" /\ "hold" \in OnInterrupted
              /\ Become(p, Take(host[p], "capturing", Now(p), outcome, "iterating"))
    /\ UNCHANGED <<biller, store, journal, landed, crashes>>

\* Checkpointer.record at the iteration boundary.
Iterate(p) ==
    /\ At(p, "iterating")
    /\ Checkpoint(p, [Run_(p) EXCEPT !.iteration = @ + 1], "driving")
    /\ UNCHANGED <<biller, journal, landed, crashes>>

\* Checkpointer.close; the host has no call left to make.
Close(p, phase) ==
    /\ At(p, "driving")
    /\ phase \in Terminal
    /\ \A id \in Id : journal[id] # "held"
    /\ store' = [Run_(p) EXCEPT !.phase = phase]
    /\ Become(p, Down)
    /\ UNCHANGED <<biller, journal, landed, crashes>>

\* The process dies between two awaits, with everything it held in memory.
Crash(p) ==
    /\ ~ At(p, "down")
    /\ crashes < MaxCrashes
    /\ crashes' = crashes + 1
    /\ Become(p, Down)
    /\ UNCHANGED <<biller, store, journal, landed>>

-----------------------------------------------------------------------------

\* What a process does of itself once there is work to resolve.
Work(p) ==
    \/ Resume(p)
    \/ \E id \in Id, outcome \in Outcome : ResumeReservation(p, id, outcome)
    \/ Resumed(p)
    \/ \E id \in Id : Settle(p, id)
    \/ Settled(p)
    \/ CaptureRaises(p)
    \/ Capture(p)
    \/ RecordCapture(p)
    \/ Release(p)
    \/ Journal(p)
    \/ \E id \in Id : Adopt(p, id)
    \/ \E happened \in BOOLEAN, outcome \in Outcome : Call(p, happened, outcome)
    \/ React(p)
    \/ Iterate(p)

Next ==
    \E p \in Process :
        \/ Open(p)
        \/ Work(p)
        \/ \E amount \in Amount : Reserve(p, amount)
        \/ \E phase \in Phase : Close(p, phase)
        \/ Crash(p)

SafetySpec == Init /\ [][Next]_vars

\* A dead host is resumed and a live one goes on: crash recovery is retried
\* until it succeeds.  Nothing obliges a host to start a call or to close.
Fairness == \A p \in Process : WF_vars(Work(p))

Spec == SafetySpec /\ Fairness

-----------------------------------------------------------------------------
(* Properties. *)

\* The reservation a process works on is an issued one.
HasReservation(h) ==
    h.at \in {"journaling", "calling", "reacting", "capturing", "recording", "releasing"}
        => h.id \in Issued

\* Type invariant; a process that is to bill has an issued reservation in hand.
TypeOK ==
    /\ \E n \in 0 .. MaxReservations : Issued = 1 .. n
    /\ \A id \in Issued : /\ biller[id].amount \in Amount
                          /\ Coherent(biller[id])
    /\ store \in Run
    /\ journal \in [Id -> JournalEntry]
    /\ landed \in [Id -> BOOLEAN]
    /\ host \in [Process -> Host]
    /\ \A p \in Process : HasReservation(host[p])
    /\ crashes \in 0 .. MaxCrashes

Charged == {id \in Issued : IsCharged(biller[id])}
Landed == {id \in Id : landed[id]}
Cost(ids) == SumFunctionOnSet([id \in Issued |-> biller[id].amount], ids)

\* The run's durable row, and every copy of it some process works on.
Records == {store} \cup {Run_(p) : p \in Process}

IsBacked(run) ==
    \A id \in run.captured : id \in Issued /\ biller[id].state = "captured"

\* A record is backed by the biller wherever processes crash and however they
\* race: each id it shows as captured is charged there and cannot be refunded.
RecordIsBacked == \A run \in Records : IsBacked(run)

\* charged_credits is exactly the cost of the reservations the same record
\* shows as captured, in every copy: no replay adds an amount twice.
RecordBalances == \A run \in Records : run.charged = Cost(run.captured)

\* Money follows the provider's truth: a settled charge is for a side effect
\* that happened, credit is given back only when none did, and a charge is
\* held in dispute only for a call whose outcome is unknown.
MoneyFollowsTruth ==
    \A id \in Issued :
        /\ biller[id].state = "captured" => landed[id]
        /\ biller[id].state = "released" => ~ landed[id]
        /\ biller[id].state = "needs_reconciliation" => journal[id] = "interrupted"

\* "Resuming produces the same total spend as an uninterrupted run": once the
\* run is closed, the user has been charged for exactly the calls that landed,
\* by the record and by the biller alike, whatever crashed on the way.
SpendIsTruth ==
    store.phase \in Terminal =>
        /\ store.charged = Cost(Landed)
        /\ Charged = Landed

Fate(id) ==
    IF journal[id] \notin Outcome THEN "open"
    ELSE IF landed[id] THEN "landed" ELSE "lost"

Promise == INSTANCE ExactlyOnce WITH
    fate <- [id \in Id |-> Fate(id)],
    charged <- Charged,
    recorded <- store.captured,
    closed <- store.phase \in Terminal

\* One host at a time, crashing and resuming, charges each landed call exactly
\* once and shows it in the record, forgets nothing, leaves a closed run alone,
\* and gets there in the end if crash recovery is retried.
ImplementsExactlyOnce == Promise!Spec

\* "A checkpoint must be unable to forget a reservation was captured."
NeverForgets == [][store.captured \subseteq store'.captured]_store

\* settle_reconciliation on a side effect that occurred "charges the user for it
\* exactly once": the settlement ends with the call captured in the record.
SettlementCharges ==
    \A p \in Process, id \in Id :
        (At(p, "capturing") /\ host[p].next = "settling" /\ Now(p) = id)
            ~> id \in store.captured
=============================================================================
