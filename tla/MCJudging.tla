------------------------------ MODULE MCJudging -------------------------------
(* The panel over two presentations, for TLC. *)
EXTENDS Judging, TLC

Symmetry == Permutations(Calls) \cup Permutations(Presentations)
             \cup Permutations(Judges) \cup Permutations(Submodalities)
=============================================================================
