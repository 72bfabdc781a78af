CONSTANTS
    SECOND = 3
    redisRecordTTL = 2
    redisRecordRotation = 0
    FramesPerMeasurement = 2
    MaxQueue = 2
    Start = 4
    MaxTime = 13
    StepBack = 1
    Windows <- MCWindows
SPECIFICATION Spec
INVARIANTS ListsExpire RangeComplete
PROPERTY Retained
