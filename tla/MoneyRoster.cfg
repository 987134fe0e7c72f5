SPECIFICATION Spec
CONSTANTS
    c1 = c1
    c2 = c2
    Duo = Duo
    Workshop = Workshop
    None = None
    Calls <- TwoCalls
    Units = {Duo, Workshop}
    Choreographies = {Duo}
    UnitOf <- DuoAndWorkshop
    FirstOwner <- OneOwner
    Academies = {1}
    Inscriptions = {1, 2}
    Payments = {1}
    Refunds = {}
    DepositAt <- DepositOfOne
    Prices = {1, 2}
    TotalAt <- CostsItsNumber
    Candidates <- TwoPrices
    FirstPrice <- FullPrice
    MaxAmount = 2
    MaxVersions = 2
    Operations = {"register-payment", "allocate", "release-deposit", "sync-roster", "remove-choreography", "emit", "remove-seminar-row", "reprice", "release-excess"}
SYMMETRY CallSymmetry
INVARIANTS
    DocumentedKeepsRow
    WithdrawnRetainsDeposit
PROPERTIES
    EvidenceNeverDestroyed
