SPECIFICATION Spec
CONSTANTS
    c1 = c1
    c2 = c2
    dancer = dancer
    individual = individual
    None = None
    Calls = {c1, c2}
    People = {dancer, individual}
    Individuals = {individual}
    Links <- OneLink
    Rosters <- TwoRosters
    Rows <- TwoRows
    Prices <- TwoPrices
    Rates = {25, 75}
    Quotas = {1, 2}
    Starts = {2}
    Hold = 1
    MaxTime = 1
    MaxAmount = 2
SYMMETRY CallSymmetry
INVARIANTS
    OnlyAnEditOverbooks
    OnlyTheRateOverfills
PROPERTIES
    PlaceKeptWithItsMoney
    LinkedPersonOnce
