CONSTANTS
    Canvases = {c1, c2}
    MaxVectors = 2
    MaxGroups = 1
    MaxRun = 2
SPECIFICATION ProgramSpec
INVARIANTS
    PicturesNamed
PROPERTIES
    SignalEnds
    SavesPrinted
CHECK_DEADLOCK FALSE
