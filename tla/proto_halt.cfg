SPECIFICATION Spec
CONSTANTS
    SectorLen = 7
    ByteMax = 4
    Unit = {0}
    Lbn = {0, 1}
    Fresh <- MCFresh
    Calls <- MCStoppedCalls
    None = None
    Noise = {0}
    MaxHalts = 1
    MaxGarbles = 2
PROPERTIES TargetRecovers InStepServesBlocks InStepReturns
CHECK_DEADLOCK FALSE
