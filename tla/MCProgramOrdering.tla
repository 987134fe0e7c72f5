-------------------------- MODULE MCProgramOrdering --------------------------
(* Instances of ProgramOrdering small enough for TLC. *)
EXTENDS ProgramOrdering

Kind(schedule, block, cast) == [schedule |-> schedule, block |-> block, cast |-> cast]

\* Two days; on the first, two blocks, two rows of one sharing a dancer.
TwoDays == [s \in Schedules |-> s]
FourKinds == {Kind(1, 1, {"ana"}), Kind(1, 1, {}), Kind(1, 2, {"ana"}), Kind(2, 1, {"ana"})}
=============================================================================
