SPECIFICATION Spec
CONSTANTS
    Classes = {1, 3}
    kinds <- MCkinds
    MaxEvents = 3
    Oversized = {}
    ChannelCapacity = 1
    MaxTotal = 2
    SegmentMax = 2
    MaxBatch = 2
    IngestMax = 2
    MaxFaults = 0
INVARIANT AccountedFor
CHECK_DEADLOCK FALSE
