------------------------- MODULE MCScheduleCapacity --------------------------
(* Instances of ScheduleCapacity small enough for TLC.                      *)
EXTENDS ScheduleCapacity, TLC

CONSTANTS c1, c2, x1, x2, s1, s2, jazz, ballet

TwoPlans == {<<2, {jazz}, 0>>, <<1, {jazz, ballet}, 1>>}
Symmetry == Permutations(Calls) \cup Permutations(Choreographies) \cup Permutations(Schedules)
=============================================================================
