SPECIFICATION Spec
CONSTANTS
    SectorLen = 8
    ByteMax = 2
INVARIANTS TypeOK RoundTrip NeverAhead NeverFails LengthHeader OverrunByOne ComputesCode
CHECK_DEADLOCK FALSE
