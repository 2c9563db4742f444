SPECIFICATION LiveSpec
CONSTANTS
    Nibble <- MCNibble
    Command <- MCCommand
    ReqLen <- MCReqLen
    RepLen <- MCRepLen
    MaxHalts = 0
INVARIANTS TypeOK InSync
PROPERTIES CarriesBytes NoCommandDropped RoundCompletes
