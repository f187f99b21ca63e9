--------------------------- MODULE MCLedgerBiller ---------------------------
(* LedgerBiller with two runs; one amount that is refused and one that is held. *)
EXTENDS LedgerBiller, TLC

MCAmount == {-1, 2}

RunSymmetry == Permutations(RunId)
=============================================================================
