SPECIFICATION Spec
CONSTANTS
    Word = 8
    DayHi = 2
    DayLo = 4
    Pause = 5
    Lag = 2
INVARIANTS TypeOK PauseIsLong PauseIsBounded
