CONSTANTS
    Sizes <- MCSizes
    MaxPictures = 3
    MaxSurfaces = 2
SPECIFICATION FairSpec
INVARIANTS
    OneRunnable
    DrawnWhole
    FillsScreen
    PlanesApart
PROPERTIES
    NewestShown
CHECK_DEADLOCK FALSE
