---------------------------- MODULE Reservations ----------------------------
(***************************************************************************)
(* The promise of a Biller (core/protocols.py, billing/ledger.py) about    *)
(* each reservation, with no ledger, no ids and no errors: it is held      *)
(* once, its held credit goes one way only, and whichever way it went is   *)
(* final, except that a disputed charge (the tool was interrupted and may  *)
(* not have run) can still be given back.                                  *)
(***************************************************************************)
CONSTANT Id         \* the reservations that may ever be made

VARIABLE status     \* [Id -> Status]

Status == {"free", "held", "charged", "disputed", "refunded"}

Init == status = [id \in Id |-> "free"]

Move(id, from, to) ==
    /\ status[id] \in from
    /\ status' = [status EXCEPT ![id] = to]

Hold(id)    == Move(id, {"free"}, "held")
Charge(id)  == Move(id, {"held"}, "charged")
Dispute(id) == Move(id, {"held"}, "disputed")
Refund(id)  == Move(id, {"held", "disputed"}, "refunded")

Next == \E id \in Id : Hold(id) \/ Charge(id) \/ Dispute(id) \/ Refund(id)

Spec == Init /\ [][Next]_status
=============================================================================
