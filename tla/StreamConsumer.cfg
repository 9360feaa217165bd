SPECIFICATION FairSpec
CONSTANTS
    Consumers = {c1, c2}
    MaxEntries = 2
    MaxLen = 1
    BatchSize = 2
    MaxDeliveryAttempts = 3
    Malformed = {2}
    MaxCrashes = 1
INVARIANT HandlerRunsBounded
PROPERTY ImplementsAtLeastOnce
PROPERTY EventuallySettled
CHECK_DEADLOCK FALSE
