----------------------------- MODULE TurnStream -----------------------------
(***************************************************************************)
(* What the consumer of one turn after another is promised of the events   *)
(* it is sent: the start comes first, a call returns once and after it was *)
(* announced, and nothing comes after the end.  A stream that broke may    *)
(* leave calls open, and says nothing more of calls.                       *)
(***************************************************************************)
VARIABLES
    stage,      \* of the stream that is being read
    open,       \* calls announced and not yet returned
    broken      \* the live view was lost

vars == <<stage, open, broken>>

Init ==
    /\ stage = "quiet"
    /\ open = {}
    /\ broken = FALSE

\* Another turn is asked for: a stream of its own.
Ask ==
    /\ stage' \in {"quiet", "started"}
    /\ open' = {}
    /\ broken' = FALSE

Start ==
    /\ stage = "quiet"
    /\ stage' = "started"
    /\ UNCHANGED <<open, broken>>

Call ==
    /\ stage = "started" /\ ~ broken
    /\ \E id \in open' \ open : open' = open \cup {id}
    /\ UNCHANGED <<stage, broken>>

Return ==
    /\ stage = "started" /\ ~ broken
    /\ \E id \in open : open' = open \ {id}
    /\ UNCHANGED <<stage, broken>>

Break ==
    /\ stage # "finished"
    /\ broken' = TRUE
    /\ UNCHANGED <<stage, open>>

Finish ==
    /\ stage = "started"
    /\ open = {} \/ broken
    /\ stage' = "finished"
    /\ UNCHANGED <<open, broken>>

Next == Ask \/ Start \/ Call \/ Return \/ Break \/ Finish

Spec == Init /\ [][Next]_vars
=============================================================================
