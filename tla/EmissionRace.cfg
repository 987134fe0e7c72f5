SPECIFICATION Spec
CONSTANTS
    a1 = a1
    a2 = a2
    c1 = c1
    c2 = c2
    Calls = {c1, c2}
    Free = Free
    Anchors = {a1, a2}
    Amounts = {1}
    Dates = {1, 2}
    ForeignAmounts = {2}
    MaxAttempts = 2
    MaxForeign = 1
    MaxCrashes = 1
SYMMETRY Symmetry
INVARIANTS
    TypeOK
    AuthorizedIsAccountedFor
    LandableRequestIsReserved
    RecordedIsWhatArcaHolds
    NumberTakenIsFinal
PROPERTIES
    ImplementsLedger
