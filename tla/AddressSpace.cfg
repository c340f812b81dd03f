SPECIFICATION Spec
CONSTANTS
    a1 = a1
    a2 = a2
    table = table
    heap = heap
    stack = stack
    c1 = c1
    c2 = c2
    c3 = c3
    c4 = c4
    c5 = c5
    zero = zero
    one = one
    Space <- Spaces
    Object <- Objects
    Cell <- Cells
    Value <- Values
    ReadOnly <- Tables
    MaxKey = 3
SYMMETRY Addresses
INVARIANTS SharingIsSafe
PROPERTIES MergeTakesOneSide MemoryIsPrivate
CHECK_DEADLOCK FALSE
