------------------------------ MODULE MCSkills ------------------------------
(* Skills with one taint: the gates ask whether there is any. *)
EXTENDS Skills, TLC

MCTaint == {"foreign_skill"}

\* Curators and bodies are told apart by nothing but which they are.
MCSymmetry == Permutations(Curator) \cup Permutations(Body)
=============================================================================
