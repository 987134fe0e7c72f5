SPECIFICATION Spec
CONSTANTS
    c1 = c1
    c2 = c2
    c3 = c3
    North = North
    South = South
    None = None
    Calls = {c1, c2}
    Academies = {North, South}
    MaxKeys = 3
SYMMETRY Symmetry
INVARIANTS
    OnlyASaveWithoutJudgesTakesABanner
