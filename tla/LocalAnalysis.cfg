CONSTANTS
    SAMPLES_PER_CYCLE = 4
    DECIMATION_FACTOR = 2
    FramesPerMeasurement = 3
    AdfTaps = 8
    LpfTaps = 4
    UINT_RANGE = 16
    Uninitialized = {0, 5}
    MaxMeasurements = 4
SPECIFICATION Spec
INVARIANTS EachInputOneTap NoInitialZeros OneCrossingPerRise
PROPERTY EvenlySpaced
CHECK_DEADLOCK FALSE
