SPECIFICATION Spec
CONSTANTS
    BLOCK = 2
    PAGE = 12
    Pages = 1
    NumSets = 2
    SetAddrs <- PartitionAddrs
    SetAssoc <- PartitionAssoc
    DefaultAssoc = 1
    CACHE_WRITEBACK = TRUE
    CACHE_HIT_LATENCY = 690
    CACHE_MISS_LATENCY = 6200
    NS_PER_INSTRUCTION = 5
    MaxLoops = 2
    WorstCaseSymIndices = TRUE
    GiveUpOnComplexSymIndices = FALSE
    TerminateOnUNSAT = FALSE
    World <- Worlds
    Pointer <- PartitionPointers
    MaxInstructions = 5
PROPERTIES
    WorstCasePick
    LoadCostPredicted
CHECK_DEADLOCK FALSE
