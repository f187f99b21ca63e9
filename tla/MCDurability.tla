---------------------------- MODULE MCDurability ----------------------------
(* Durability with one host that crashes, or two hosts that race. *)
EXTENDS Durability, TLC

ProcessSymmetry == Permutations(Process)
=============================================================================
