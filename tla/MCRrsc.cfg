SPECIFICATION MCSpec
CONSTANTS
    EpochDuration = 2
    SegmentLength = 1
    MaxSkipped = 1
    MaxSegment = 5
    GenesisAuthorities <- MCGenesisAuthorities
    GenesisConfig = "PrimaryAndSecondaryPlainSlots"
    None = None
    Slots = {1, 2, 3, 4, 5, 6, 7, 8, 9}
    AuthoritySets <- MCAuthoritySets
    Configs = {"PrimaryAndSecondaryVRFSlots"}
    MaxBlocks = 5
    k1 = k1
    k2 = k2
    ForkBlocks = 4
    ForkSlots = {1, 2, 3, 5, 7}
INVARIANTS RuntimeVerifies  
CHECK_DEADLOCK FALSE
