SPECIFICATION Spec_sync
CONSTANTS
    FetchBlocks = 2
    MaxRetries = 2
    MaxHeight = 4
    MaxChange = 2
    MaxFault = 1
    MaxCrash = 1
ACTION_CONSTRAINT Scenario
  
PROPERTY CatchesUp
CHECK_DEADLOCK FALSE
