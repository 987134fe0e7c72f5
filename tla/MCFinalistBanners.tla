------------------------- MODULE MCFinalistBanners -------------------------
(* Instances of FinalistBanners small enough for TLC. *)
EXTENDS FinalistBanners, TLC

CONSTANTS c1, c2, c3, North, South

Symmetry == Permutations(Calls) \cup Permutations(Academies)
=============================================================================
