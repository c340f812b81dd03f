SPECIFICATION ObjectSpec
CONSTANTS
    Size = 2
    Byte = {0, 1}
    Null = Null
    MaxWrites = 3
    ExternalsWriteFlushed = TRUE
INVARIANT FlushedAgree
