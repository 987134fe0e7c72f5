SPECIFICATION OperatedSpec
CONSTANTS
    a1 = a1
    a2 = a2
    c1 = c1
    c2 = c2
    Calls = {c1, c2}
    Free = Free
    Anchors = {a1}
    Amounts = {1}
    Dates = {1}
    ForeignAmounts = {2}
    MaxAttempts = 3
    MaxForeign = 1
    MaxCrashes = 0
INVARIANTS
    OneInvoicePerAnchor
    CreditCeiling
PROPERTIES
    EveryAttemptSettles
