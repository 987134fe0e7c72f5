SPECIFICATION Spec
CONSTANTS
    Calls = {c1, c2}
    Presentations = {p1, p2}
    Judges = {j1}
    Submodalities = {m1, m2}
    MaxTakes = 1
    MaxSheets = 1
    None = None
SYMMETRY Symmetry
INVARIANTS
    TypeOK
    TakeIsStored
    RemovedWasNeverJudged
PROPERTIES
    DisqualifiedKeepsItsValues
CHECK_DEADLOCK FALSE
