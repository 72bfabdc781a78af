CONSTANTS
    Readers = {r1, r2}
    Keys = {"frames_per_measurement"}
    Ints = {2, 10}
    MaxId = 3
SPECIFICATION Spec
INVARIANT NoDanglingCallback
