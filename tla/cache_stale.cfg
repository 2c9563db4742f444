SPECIFICATION Spec
CONSTANTS
    Size = 3
    Value = {v1, v2}
    Junk = Junk
    Ops = {"read", "write"}
    MayFail = FALSE
    MaxEjects = 0
PROPERTY ReadReturnsWritten
CHECK_DEADLOCK FALSE
