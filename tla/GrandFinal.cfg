SPECIFICATION Spec
CONSTANTS
    c1 = c1
    c2 = c2
    North = North
    South = South
    qr = qr
    v1 = v1
    v2 = v2
    sheet = sheet
    l1 = l1
    l2 = l2
    None = None
    Calls = {c1, c2}
    Academies = {North, South}
    Codes = {qr}
    Voters = {v1, v2}
    Batches = {sheet}
    BatchOf <- OneSheet
    Links = {l1, l2}
    CodePoints = 2
    MaxActiveAuditLinks = 1
    MaxTime = 3
SYMMETRY Symmetry
INVARIANTS
    RefusalIsTrue
    PublishedIsDecided
    LinksWithinLimit
PROPERTIES
    VotesAreFinal
