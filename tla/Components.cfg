SPECIFICATION PartSpec
CONSTANTS
    BLOCK = 2
    PAGE = 8
    Pages = 2
    NumSets = 2
    SetAddrs <- MCAddrs
    SetAssoc <- MCAssoc
    DefaultAssoc = 1
    CACHE_WRITEBACK = TRUE
    CACHE_HIT_LATENCY = 690
    CACHE_MISS_LATENCY = 6200
    NS_PER_INSTRUCTION = 5
    MaxLoops = 2
    WorstCaseSymIndices = TRUE
    GiveUpOnComplexSymIndices = TRUE
    TerminateOnUNSAT = TRUE
    World <- MCWorlds
    Pointer <- MCPointers
    MaxInstructions = 5
    Size = 2
    Byte = {0, 1}
    Null = Null
    MaxWrites = 3
    ExternalsWriteFlushed = FALSE
    Havoc <- MCHavocs
    Input <- MCInputs
    HashValue <- MCHashValues
    Hash <- MCHash
    Table <- MCRecords
    Path <- MCPaths
    OutputUnreconciled = FALSE
    Program <- MCPrograms
    None = None
INVARIANTS CacheAndPathConsistent WritebacksArePaidFor CachesConsistent TestCasesReal MapComplete PathsAddUp
PROPERTIES IsByteArray NoneMissed ReconciliationEnds CostMapTerminates
CHECK_DEADLOCK FALSE
