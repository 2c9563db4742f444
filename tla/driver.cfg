SPECIFICATION Spec
CONSTANTS
    Unit = {0, 1}
    Span = 3
    Block <- MCBlock
    Image <- MCImage
    BlankBpb <- MCBlank
    Options <- MCOptions
    Written <- MCWritten
    MaxCount = 2
    TextBase = 16
    ShutdownAt = 3
    MaxDrops = 1
    MaxChanges = 1
INVARIANTS TypeOK MountedBeforeTransfer BpbIsFirstVolume
PROPERTY RequestReturns
