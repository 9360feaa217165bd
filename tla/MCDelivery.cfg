SPECIFICATION FairSpec
CONSTANTS
    Classes = {1, 3}
    kinds <- MCkinds
    MaxEvents = 3
    Oversized = {3}
    ChannelCapacity = 1
    MaxTotal = 2
    SegmentMax = 2
    MaxBatch = 2
    IngestMax = 1
    MaxFaults = 1
INVARIANT AccountedUnlessOvertaken
INVARIANT DiskBounded
INVARIANT DropsHeardOnce
PROPERTY EventuallyDelivered
PROPERTY RevokedAgentStops
CHECK_DEADLOCK FALSE
