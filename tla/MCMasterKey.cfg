SPECIFICATION Spec
CONSTANTS
    w1 = w1
    w2 = w2
    w3 = w3
    MaxLag = 2
    Worker = {w1, w2, w3}
    NoWorker = NoWorker
    Keyfairy = Keyfairy
    MaxApply = 2
    MaxCrash = 1
    MaxGov = 1
ACTION_CONSTRAINT Scenario
INVARIANTS OneMasterKey PanicsOnlyAtLaunch
PROPERTIES LaunchCompletes 
CHECK_DEADLOCK FALSE
