SPECIFICATION Spec
CONSTANTS
    NrDisks = 2
    FatEntries = 4
    Eoc <- MCEoc
    Sticks <- MCSticks
    NoStick = NoStick
    MaxPlugs = 2
INVARIANTS TypeOK DiskIsFile DrivesAreUnbrokenFiles DrivesAreServed
PROPERTIES InitReturns WalkAdvances
CHECK_DEADLOCK FALSE
