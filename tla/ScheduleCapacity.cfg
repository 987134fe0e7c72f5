SPECIFICATION Spec
CONSTANTS
    c1 = c1
    c2 = c2
    x1 = x1
    x2 = x2
    s1 = s1
    s2 = s2
    jazz = jazz
    ballet = ballet
    Null = Null
    Calls = {c1, c2}
    Choreographies = {x1, x2}
    Schedules = {s1, s2}
    Kinds = {jazz, ballet}
    Plans <- TwoPlans
    Capacities = {0}
SYMMETRY Symmetry
INVARIANTS
    TotalHoldsItsOccupants
PROPERTIES
    NobodyEntersAFullEntry
    OnlyAStaleCorrectionMisplaces
