CONSTANTS
    gui = gui
    c1 = c1
    c2 = c2
    Gui = gui
    Clients = {}
    EventsPerPass = 2
    Faults = {"open", "start", "end"}
    RunNumbers = {}
    MaxDepth = 3
    MaxRun = 4
SPECIFICATION FairSpec
INVARIANTS
    NumbersFresh
PROPERTIES
    StopEndsRun
CHECK_DEADLOCK FALSE
