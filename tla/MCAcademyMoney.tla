--------------------------- MODULE MCAcademyMoney ---------------------------
(* Instances of AcademyMoney small enough for TLC. *)
EXTENDS AcademyMoney, TLC

CONSTANTS c1, c2, Duo, Workshop

TwoCalls == {c1, c2}
CallSymmetry == Permutations(TwoCalls)

\* Two dancers of one choreography; or one, and a person of a seminar.
OneUnit == [i \in Inscriptions |-> CHOOSE u \in Units : TRUE]
DuoAndWorkshop == [i \in Inscriptions |-> IF i = 1 THEN Duo ELSE Workshop]
OneOwner == [u \in Units |-> 1]

\* A choreography's prices: the full one, 2, whose deposit is half of it, and a
\* discounted one of the same deposit.  A seminar has one price.
DepositOfOne == [p \in Prices |-> 1]
CostsItsNumber == [p \in Prices |-> p]
TwoPrices == [u \in Units |-> IF u = Duo THEN Prices ELSE {1}]
FullPrice == [i \in Inscriptions |-> CHOOSE p \in TwoPrices[UnitOf[i]] : \A q \in TwoPrices[UnitOf[i]] : q <= p]
=============================================================================
