CONSTANTS
    OPQ_CYCLE_BUFFER_COUNT = 3
    Readers = {r1}
    MaxInterrupts = 6
    Faults = FALSE
    FRAME_BUFFER_SIZE = 4
    FRAME_DATA_COUNT = 2
    MaxFrames = 6
    MaxBootSamples = 0
SPECIFICATION LinkSpec
INVARIANTS NoEdgeMerged FramesArriveWhole
PROPERTIES StreamSpec DspSpec FrameReachesReader
