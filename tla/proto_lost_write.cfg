SPECIFICATION Spec
CONSTANTS
    SectorLen = 7
    ByteMax = 4
    Unit = {0}
    Lbn = {0, 1}
    Fresh <- MCFresh
    Calls <- MCHaltCalls
    None = None
    Noise = {}
    MaxHalts = 1
    MaxGarbles = 0
PROPERTY ReportedIsStored
CHECK_DEADLOCK FALSE
