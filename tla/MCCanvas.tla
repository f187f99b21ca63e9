------------------------------ MODULE MCCanvas ------------------------------
(* Canvas with interchangeable ids. *)
EXTENDS Canvas, TLC

MCSymmetry == Permutations(Id)
=============================================================================
