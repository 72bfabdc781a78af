CONSTANTS
    OPQ_CYCLE_BUFFER_COUNT = 4
    Readers = {r1, r2}
    MaxInterrupts = 5
    Faults = TRUE
SPECIFICATION FairSpec
INVARIANTS TypeOK SemaphoreCountsFrames NoTornCopy SlotsHoldLastFrames RingOutlivesItsUsers TransfersFollowEdges
PROPERTIES DeliveredInOrder NoLostWakeup ClaimedReadReturns UnloadCompletes
CHECK_DEADLOCK FALSE
