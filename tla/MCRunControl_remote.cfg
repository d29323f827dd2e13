CONSTANTS
    gui = gui
    c1 = c1
    c2 = c2
    Gui = gui
    Clients <- TwoClients
    EventsPerPass = 1
    Faults = {"open", "start", "end"}
    RunNumbers = {1}
    MaxDepth = 2
    MaxRun = 0
SPECIFICATION FairSpec
INVARIANTS
    LockDiscipline
    FlagHasReader
PROPERTIES
    LockReleased
CHECK_DEADLOCK FALSE
