--------------------------- MODULE MCSeminarPlaces ---------------------------
(* Instances of SeminarPlaces small enough for TLC: a dancer of an academy   *)
(* who is also an individual.                                               *)
EXTENDS SeminarPlaces, TLC

CONSTANTS c1, c2, dancer, individual

OneLink == {<<dancer, individual>>}
TwoRosters == {{dancer}, {individual}}
TwoRows == 1 .. 2
TwoPrices == {<<2, FALSE>>, <<1, TRUE>>}
CallSymmetry == Permutations(Calls)
=============================================================================
