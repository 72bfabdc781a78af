CONSTANTS
    FramesPerMeasurement = 2
    Uninitialized = {0}
    UINT32_RANGE = 65536
    Cycle = 6
    MaxQueue = 1
    Faults = FALSE
SPECIFICATION StallSpec
PROPERTIES SigIntEndsProcess
CHECK_DEADLOCK FALSE
