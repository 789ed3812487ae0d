SPECIFICATION LookingSpec
CONSTANTS
    Edition = {e1, e2}
    Elsewhere = Elsewhere
    None = None
    Sections = 2
    MaxSaves = 3
    MaxQueue = 1
    MaxOpens = 1
PROPERTIES
    OpeningKeepsThePosition
CHECK_DEADLOCK FALSE
