SPECIFICATION Spec
CONSTANTS
    Nibble <- MCNibble
    Command <- MCCommand
    ReqLen <- MCReqLen
    RepLen <- MCRepLen
    MaxHalts = 2
PROPERTIES TargetReturns InStepAgain
CHECK_DEADLOCK FALSE
