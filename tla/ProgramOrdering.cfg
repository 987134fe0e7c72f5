SPECIFICATION Spec
CONSTANTS
    Choreographies = {1, 2, 3}
    Schedules = {1, 2}
    DayOf <- TwoDays
    Kinds <- FourKinds
    Gap = 1
    None = None
INVARIANTS
    OrderingIsSettled
    ClashesAreForced
    MovesLandWhereDropped
PROPERTIES
    AnnouncedNumbersStay
CHECK_DEADLOCK FALSE
