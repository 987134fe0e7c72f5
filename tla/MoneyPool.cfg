SPECIFICATION Spec
CONSTANTS
    c1 = c1
    c2 = c2
    Duo = Duo
    Workshop = Workshop
    None = None
    Calls <- TwoCalls
    Units = {Duo}
    Choreographies = {Duo}
    UnitOf <- OneUnit
    FirstOwner <- OneOwner
    Academies = {1}
    Inscriptions = {1, 2}
    Payments = {1, 2}
    Refunds = {1}
    DepositAt <- DepositOfOne
    Prices = {1, 2}
    TotalAt <- CostsItsNumber
    Candidates <- TwoPrices
    FirstPrice <- FullPrice
    MaxAmount = 2
    MaxVersions = 2
    Operations = {"register-payment", "allocate", "charge-balance", "edit-payment", "register-refund", "edit-refund", "waive", "delete-refund"}
SYMMETRY CallSymmetry
INVARIANTS
    TypeOK
    PoolNeverOverdrawn
    NoPaymentOverspent
    OverTotalOnlyByCrossing
    RefundWrittenIsTheOneShown
