SPECIFICATION PromptSpec
CONSTANTS
    SectorLen = 7
    ByteMax = 4
    Unit = {0, 1}
    Lbn = {0, 1}
    Fresh <- MCFresh
    Calls <- MCCalls
    None = None
    Noise = {}
    MaxHalts = 0
    MaxGarbles = 0
INVARIANTS TypeOK Agreement
PROPERTIES ServesBlocks CallReturns
