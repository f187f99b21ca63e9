----------------------------- MODULE ExactlyOnce -----------------------------
(***************************************************************************)
(* What a durable run promises about its paid calls (P9, and the test that *)
(* a crashed run spends what an uninterrupted one does), with no biller,   *)
(* store, process or crash: a call whose side effect landed is charged     *)
(* once and then shown by the run's record, one that was lost is never     *)
(* charged, the record forgets nothing, and nothing happens to a closed    *)
(* run.                                                                    *)
(***************************************************************************)
CONSTANT Id         \* the paid calls, by reservation id

VARIABLES
    fate,           \* [Id -> {"open", "landed", "lost"}]: the side effect
    charged,        \* the calls the user has been charged for
    recorded,       \* the calls the run's record shows as charged
    closed          \* the run is over

vars == <<fate, charged, recorded, closed>>

Init ==
    /\ fate = [id \in Id |-> "open"]
    /\ charged = {}
    /\ recorded = {}
    /\ closed = FALSE

Decide(id) ==
    /\ ~ closed
    /\ fate[id] = "open"
    /\ \E end \in {"landed", "lost"} : fate' = [fate EXCEPT ![id] = end]
    /\ UNCHANGED <<charged, recorded, closed>>

Charge(id) ==
    /\ ~ closed
    /\ fate[id] = "landed"
    /\ id \notin charged
    /\ charged' = charged \cup {id}
    /\ UNCHANGED <<fate, recorded, closed>>

Record(id) ==
    /\ ~ closed
    /\ id \in charged \ recorded
    /\ recorded' = recorded \cup {id}
    /\ UNCHANGED <<fate, charged, closed>>

\* Only a run whose every landed call is charged and recorded is closed.
Close ==
    /\ ~ closed
    /\ {id \in Id : fate[id] = "landed"} = recorded
    /\ closed' = TRUE
    /\ UNCHANGED <<fate, charged, recorded>>

Next == \/ \E id \in Id : Decide(id) \/ Charge(id) \/ Record(id)
        \/ Close

Fairness == \A id \in Id : WF_vars(Charge(id)) /\ WF_vars(Record(id))

Spec == Init /\ [][Next]_vars /\ Fairness
=============================================================================
