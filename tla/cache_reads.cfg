SPECIFICATION Spec
CONSTANTS
    Size = 2
    Value = {v1, v2}
    Junk = Junk
    Ops = {"read", "write"}
    MayFail = TRUE
    MaxEjects = 2
INVARIANTS TypeOK BufferHandOver
PROPERTIES ReadReturnsMedia WritesMedia
CHECK_DEADLOCK FALSE
