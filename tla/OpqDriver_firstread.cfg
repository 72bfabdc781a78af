CONSTANTS
    OPQ_CYCLE_BUFFER_COUNT = 4
    Readers = {r1}
    MaxInterrupts = 3
    Faults = FALSE
SPECIFICATION Spec
INVARIANT ReadsReturnSamples
