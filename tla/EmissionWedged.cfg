SPECIFICATION OperatedSpec
CONSTANTS
    a1 = a1
    a2 = a2
    c1 = c1
    c2 = c2
    Calls = {c1, c2}
    Free = Free
    Anchors = {a1, a2}
    Amounts = {1}
    Dates = {1}
    ForeignAmounts = {2}
    MaxAttempts = 2
    MaxForeign = 0
    MaxCrashes = 1
PROPERTIES
    EveryAttemptSettles
