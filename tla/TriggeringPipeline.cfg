CONSTANTS
    FramesPerMeasurement = 10
    Uninitialized = {0, 62000, 63600, 65535}
    UINT32_RANGE = 65536
    Cycle = 8
    MaxQueue = 2
    Faults = TRUE
SPECIFICATION FairSpec
INVARIANTS TypeOK PublishedInOrder TriggerHasData FiltersWarm
PROPERTIES SigIntEndsProcess KeepsPublishing
CHECK_DEADLOCK FALSE
