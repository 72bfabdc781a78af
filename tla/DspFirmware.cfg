CONSTANTS
    FRAME_BUFFER_SIZE = 4
    FRAME_DATA_COUNT = 3
    MaxFrames = 5
    MaxBootSamples = 1
SPECIFICATION Spec
INVARIANTS TypeOK TransfersAreFrames PulseMarkedOnce StampFollowsMark EdgePerTransfer MasterInStep
