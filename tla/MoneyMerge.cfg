SPECIFICATION FairSpec
CONSTANTS
    c1 = c1
    c2 = c2
    Duo = Duo
    Workshop = Workshop
    None = None
    Calls <- TwoCalls
    Units = {Duo}
    Choreographies = {Duo}
    UnitOf <- OneUnit
    FirstOwner <- OneOwner
    Academies = {1, 2}
    Inscriptions = {1, 2}
    Payments = {1}
    Refunds = {}
    DepositAt <- DepositOfOne
    Prices = {1}
    TotalAt <- CostsItsNumber
    Candidates <- TwoPrices
    FirstPrice <- FullPrice
    MaxAmount = 1
    MaxVersions = 2
    Operations = {"register-payment", "allocate", "merge", "sync-roster", "remove-choreography", "edit-payment", "delete-payment", "charge-deposit"}
INVARIANTS
    OwnMoneyOnly
    OnlyKnownCycles
PROPERTIES
    EveryCallEnds
