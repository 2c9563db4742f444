SPECIFICATION Spec
CONSTANTS
    Size = 2
    Value = {v1}
    Junk = Junk
    Ops = {"read", "write"}
    MayFail = TRUE
    MaxEjects = 1
INVARIANT WakeUpComes
PROPERTY CallsReturn
CHECK_DEADLOCK FALSE
