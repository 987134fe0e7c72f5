----------------------- MODULE MCComprobanteEmission -----------------------
\* Small instances of ComprobanteEmission for TLC.
EXTENDS ComprobanteEmission, TLC

CONSTANTS a1, a2, c1, c2

\* Anchors and calls are only ever compared, never ordered.
Symmetry == Permutations(Anchors) \cup Permutations(Calls)
CallSymmetry == Permutations(Calls)
=============================================================================
