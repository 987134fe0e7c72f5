---------------------------- MODULE MCGrandFinal ----------------------------
(* Instances of GrandFinal small enough for TLC. *)
EXTENDS GrandFinal, TLC

CONSTANTS c1, c2, North, South, qr, v1, v2, sheet, l1, l2

OneSheet == [v \in Codes |-> sheet]
Symmetry == Permutations(Calls) \cup Permutations(Voters) \cup Permutations(Academies)
            \cup Permutations(Links)
=============================================================================
