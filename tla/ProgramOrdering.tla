---------------------------- MODULE ProgramOrdering ----------------------------
(***************************************************************************)
(* The numbers of an event's presentations: administration orders some     *)
(* days or all of them, or moves one presentation by hand, while           *)
(* choreographies are registered, corrected, withdrawn, deleted and        *)
(* evaluated.  A schedule with an evaluated presentation keeps the numbers *)
(* it was announced with; whoever comes late to it goes around them.       *)
(*                                                                         *)
(* The algorithms of ordering.ts and the spacing of warnings.ts are        *)
(* operators over the rows.  An ordering is one step: it holds the event,  *)
(* and Judging has what an evaluation may do beside it.                    *)
(*                                                                         *)
(* A definition named D_x above D is what D would be with one slip, x.     *)
(***************************************************************************)
EXTENDS Integers, FiniteSets, FiniteSetsExt, Functions

CONSTANTS
    Choreographies,  \* by choreographyNumber
    Schedules,       \* by date, time and name
    DayOf,           \* the date of each schedule
    Kinds,           \* a schedule, a block in it (level, ages, group) and who dances
    Gap,             \* dancerSpacingGap
    None             \* no kind

ASSUME NumberAssumption == /\ Choreographies \subseteq Nat \ {0} /\ IsFiniteSet(Choreographies)
                           /\ Schedules \subseteq Nat /\ Gap \in Nat
ASSUME KindAssumption == None \notin Kinds /\ \A k \in Kinds : k.schedule \in Schedules /\ k.block \in Nat
ASSUME DayAssumption == /\ DayOf \in [Schedules -> Nat]
                        /\ \A s, t \in Schedules : s < t => DayOf[s] <= DayOf[t]

VARIABLES
    row,          \* each choreography, with the number of its presentation
    evaluated,    \* choreographies with a score or a disqualification
    fresh         \* the days of the ordering nothing has happened since

vars == <<row, evaluated, fresh>>

-----------------------------------------------------------------------------
\* TYPES

Unnumbered == 0
Positions == 1 .. Cardinality(Choreographies) + 1
Days == {DayOf[s] : s \in Schedules}

Registered == {x \in Choreographies : row[x].stage \in {"on", "withdrawn"}}
Withdrawn == {x \in Choreographies : row[x].stage = "withdrawn"}
Numbered == {x \in Registered : row[x].number # Unnumbered}

TypeOK ==
    /\ row \in [Choreographies -> [stage : {"none", "on", "withdrawn", "deleted"},
                                   kind : Kinds \cup {None},
                                   number : 0 .. Cardinality(Choreographies)]]
    /\ \A x \in Choreographies : x \in Registered <=> row[x].kind # None
    /\ evaluated \subseteq Numbered \ Withdrawn
    /\ fresh \subseteq Days
    /\ \A x, y \in Numbered : x # y => row[x].number # row[y].number

Schedule(x) == row[x].kind.schedule
Day(x) == DayOf[Schedule(x)]

-----------------------------------------------------------------------------
\* WHAT STAYS

\* findFrozenChoreographyIds: the whole lineup of a schedule that has started.
Frozen_Scored == evaluated
Frozen == {x \in Numbered : \E y \in evaluated : Schedule(y) = Schedule(x)}
Movable == Registered \ (Frozen \cup Withdrawn)
Held == {x \in Numbered : x \in Frozen \cup Withdrawn}

\* listBlockedPositions: what they hold, and a gap between two frozen neighbours.
Neighbours(x, y) ==
    /\ row[x].number < row[y].number
    /\ ~\E z \in Numbered : row[x].number < row[z].number /\ row[z].number < row[y].number
Blocked ==
    {row[x].number : x \in Held}
    \cup {p \in Positions : \E x, y \in Frozen :
             Neighbours(x, y) /\ row[x].number < p /\ p < row[y].number}

\* listFreePositions: the i-th position that is not blocked, where b is Blocked.
FreePosition(b, i) ==
    CHOOSE p \in Positions : p \notin b /\ Cardinality((1 .. p) \ b) = i

-----------------------------------------------------------------------------
\* computeAutomaticOrder

\* conflictsWithRecentPlacements: someone of x danced in the Gap positions before
\* p, at being who holds each position; a withdrawn one is no rest.
Recent(p, at) ==
    LET danced == {q \in 1 .. p - 1 : q \in DOMAIN at => at[q] \notin Withdrawn}
    IN {q \in danced : Cardinality({r \in danced : r > q}) < Gap}
Shares(x, y) == Schedule(x) = Schedule(y) /\ row[x].kind.cast \cap row[y].kind.cast # {}
Conflicts_AsStored(x, p, at) ==
    \E q \in Recent(p, at), y \in Numbered : row[y].number = q /\ Shares(x, y)
Conflicts(x, p, at) == \E q \in Recent(p, at) \cap DOMAIN at : Shares(x, at[q])

\* A day that is ordered goes by schedule and block; one left out keeps its order.
Precedes(x, y, days) ==
    \/ Day(x) < Day(y)
    \/ /\ Day(x) = Day(y) /\ Day(x) \in days
       /\ \/ Schedule(x) < Schedule(y)
          \/ Schedule(x) = Schedule(y) /\ row[x].kind.block < row[y].kind.block
    \/ Day(x) = Day(y) /\ Day(x) \notin days /\ row[x].number < row[y].number

\* The next row for position p: the lowest number of the first block that
\* conflicts with nobody, or the lowest number.
NextRow(pending, p, at, days) ==
    LET block == {x \in pending : \A y \in pending : ~Precedes(y, x, days)}
        apart == {x \in block : ~Conflicts(x, p, at)}
    IN  Min(IF apart # {} THEN apart ELSE block)

Chosen(days) == {x \in Movable : Day(x) \in days}
Kept(days) == {x \in Movable \cap Numbered : Day(x) \notin days}

\* Who holds each position when all is placed.
Placed(days) ==
    LET toPlace == Chosen(days) \cup Kept(days)
        b == Blocked
        held == [p \in {row[x].number : x \in Held} |->
                    CHOOSE x \in Held : row[x].number = p]
        placed[i \in 0 .. Cardinality(toPlace)] ==
            IF i = 0 THEN held
            ELSE LET at == placed[i - 1]
                     p == FreePosition(b, i)
                     next == NextRow(toPlace \ Range(at), p, at, days)
                 IN  [q \in DOMAIN at \cup {p} |-> IF q = p THEN next ELSE at[q]]
    IN  placed[Cardinality(toPlace)]

\* The number each row ends up with.
Automatic(days) ==
    LET at == Placed(days) IN
    [x \in Choreographies |->
        IF x \in Range(at) THEN CHOOSE p \in DOMAIN at : at[p] = x ELSE row[x].number]

-----------------------------------------------------------------------------
\* computeManualMove

MoveAllowed(x, to) ==
    /\ Numbered # {} /\ x \in Movable
    /\ to \notin Blocked

\* movePosition: x goes where `to` falls among the free positions, or last; the
\* others close up around it in the order they have.
Moved_OnePast(x, to) ==
    LET others == (Movable \cap Numbered) \ {x}
        b == Blocked
        target == Min({Cardinality(others),
                       Cardinality({i \in 1 .. Cardinality(others) + 1 : FreePosition(b, i) <= to})})
        place(y) == Cardinality({z \in others : row[z].number < row[y].number})
    IN  [y \in Choreographies |->
            IF y = x THEN FreePosition(b, target + 1)
            ELSE IF y \in others
                 THEN FreePosition(b, place(y) + (IF place(y) < target THEN 1 ELSE 2))
                 ELSE row[y].number]
Moved(x, to) ==
    LET others == (Movable \cap Numbered) \ {x}
        b == Blocked
        target == Min({Cardinality(others),
                       Cardinality({i \in 1 .. Cardinality(others) + 1 : FreePosition(b, i) < to})})
        place(y) == Cardinality({z \in others : row[z].number < row[y].number})
    IN  [y \in Choreographies |->
            IF y = x THEN FreePosition(b, target + 1)
            ELSE IF y \in others
                 THEN FreePosition(b, place(y) + (IF place(y) < target THEN 1 ELSE 2))
                 ELSE row[y].number]

-----------------------------------------------------------------------------
\* THE EVENT

NoRow == [stage |-> "none", kind |-> None, number |-> Unnumbered]

Init ==
    /\ row = [x \in Choreographies |-> NoRow]
    /\ evaluated = {} /\ fresh = {}

\* writePlacements, whose unique constraint is checked at commit.
Write(numbers) == row' = [x \in Choreographies |-> [row[x] EXCEPT !.number = numbers[x]]]

\* runAutomaticOrdering
Order(days) ==
    /\ Chosen(days) # {}
    /\ Write(Automatic(days)) /\ fresh' = days
    /\ UNCHANGED evaluated

\* movePresentation, whose client still has x's number right.
Move(x, to) ==
    /\ MoveAllowed(x, to)
    /\ Write(Moved(x, to)) /\ fresh' = {}
    /\ UNCHANGED evaluated

Register(x, kind) ==
    /\ row[x].stage = "none" /\ \A y \in Choreographies : y < x => row[y].stage # "none"
    /\ row' = [row EXCEPT ![x] = [NoRow EXCEPT !.stage = "on", !.kind = kind]]
    /\ fresh' = {}
    /\ UNCHANGED evaluated

\* A draft save; it keeps the presentation and its number.
Correct(x, kind) ==
    /\ row[x].stage = "on" /\ x \notin evaluated
    /\ row' = [row EXCEPT ![x].kind = kind]
    /\ fresh' = {}
    /\ UNCHANGED evaluated

\* removeChoreography, with evidence or without.
Remove(x) ==
    /\ row[x].stage = "on" /\ x \notin evaluated
    /\ row' \in {[row EXCEPT ![x].stage = "withdrawn"],
                 [row EXCEPT ![x] = [NoRow EXCEPT !.stage = "deleted"]]}
    /\ fresh' = {}
    /\ UNCHANGED evaluated

\* The first score or a disqualification; one that is reverted.
Evaluate(x) ==
    /\ x \in Numbered \ Withdrawn /\ x \notin evaluated
    /\ evaluated' = evaluated \cup {x} /\ fresh' = {}
    /\ UNCHANGED row
Reinstate(x) ==
    /\ x \in evaluated
    /\ evaluated' = evaluated \ {x} /\ fresh' = {}
    /\ UNCHANGED row

Next ==
    \/ \E days \in SUBSET Days \ {{}} : Order(days)
    \/ \E x \in Choreographies :
        \/ Remove(x) \/ Evaluate(x) \/ Reinstate(x)
        \/ \E to \in Positions : Move(x, to)
        \/ \E kind \in Kinds : Register(x, kind) \/ Correct(x, kind)

Spec == Init /\ [][Next]_vars

-----------------------------------------------------------------------------
\* PROPERTIES

\* What was announced is never renumbered: no ordering or move changes the number
\* of a withdrawn presentation, or of any of a schedule that has started, the
\* part of it nobody has scored included (findFrozenChoreographyIds).
AnnouncedNumbersStay ==
    [][\A x \in Numbered :
        /\ x \in Withdrawn \/ \E y \in evaluated : Schedule(y) = Schedule(x)
        /\ x \in Registered'
        => row'[x].number = row[x].number]_vars

\* An ordering repeated with nothing new gives the same numbers, whatever was
\* moved, removed or frozen before the first (computeAutomaticOrder reads back
\* the gaps that it left).
OrderingIsSettled == fresh # {} => Automatic(fresh) = [x \in Choreographies |-> row[x].number]

\* findSpacingClashes: fewer than Gap presentations that will be danced in between.
Danced == Numbered \ Withdrawn
Between(x, y) == {z \in Danced : row[x].number < row[z].number /\ row[z].number < row[y].number}
Clash(x, y) == /\ row[x].number < row[y].number /\ Cardinality(Between(x, y)) < Gap
               /\ Shares(x, y)

\* The ordering and the warning it leaves to the reader measure one thing: a row
\* it placed is flagged against an earlier one only when the rest of its block,
\* in its place, would be flagged too; or for a number between them that nobody
\* has, which the ordering counts as rest.
ClashesAreForced ==
    \A y \in Movable \cap Numbered : \A x \in Danced :
        Day(y) \in fresh /\ Clash(x, y) =>
            \/ \E p \in row[x].number .. row[y].number : ~\E z \in Numbered : row[z].number = p
            \/ \A z \in Movable :
                  /\ Schedule(z) = Schedule(y) /\ row[z].kind.block = row[y].kind.block
                  /\ row[z].number > row[y].number
                  => \E w \in Danced : /\ row[w].number < row[y].number
                                       /\ Cardinality(Between(w, y)) < Gap /\ Shares(w, z)

\* A presentation moved by hand gets the number it was dropped on, or the last
\* one, and nobody else passes anybody (computeManualMove, which counts the free
\* positions and closes the gaps at once).
MovesLandWhereDropped ==
    \A x \in Movable, to \in Positions :
        MoveAllowed(x, to) =>
            LET after == Moved(x, to)
                others == (Movable \cap Numbered) \ {x}
            IN  /\ after[x] = to \/ (after[x] < to /\ \A y \in others : after[y] < after[x])
                /\ \A y, z \in others : row[y].number < row[z].number <=> after[y] < after[z]
                /\ \A y \in Numbered \ {x} : after[y] # after[x]
=============================================================================
