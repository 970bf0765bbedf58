CONSTANTS
    a = a
    b = b
    PayloadBytes <- MCPayloadBytes
    Bufs <- MCBufs
    MaxBufs = 2
    HeaderOpts = {0, 1, 2, 4}
    MinOpts = {0, 2}
    MaxOpts = {0, 2, 256}
    MaxWrites = 2

SPECIFICATION Spec

INVARIANT TypeOK
INVARIANT FramesRoundTrip
PROPERTY AllFramesDelivered

CHECK_DEADLOCK FALSE
