CONSTANTS
    FRAME_BUFFER_SIZE = 3
    FRAME_DATA_COUNT = 2
    MaxFrames = 4
    MaxBootSamples = 0
SPECIFICATION FairSpec
PROPERTIES LoadEnablesAcquisition
