SPECIFICATION Spec
CONSTANTS
    MaxMsg = 3
    MaxSync = 2
    MaxCrash = 2
    MaxLoss = 1
PROPERTY ExactlyOnce
