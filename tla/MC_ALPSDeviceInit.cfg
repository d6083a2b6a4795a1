CONSTANTS
    Pads = {"V1", "V2", "V3", "Rushmore", "V4", "V5", "Other"}
    InitVals = {0, 65}
    MaxFail = 1
    Sticks = {FALSE, TRUE}

SPECIFICATION Spec

INVARIANTS
    TypeOK
    HealthyInitSucceeds
    RegisterCallsInCommandMode
    TrackstickPortClosed
