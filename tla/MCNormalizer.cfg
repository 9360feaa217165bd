SPECIFICATION Spec
CONSTANTS
    Workers = {w1, w2}
    Batches <- MCBatches
    Events <- MCEvents
    events <- MCevents
    Malformed = {"bad"}
    source_event_id <- MCsource
    month <- MCmonth
    NoSourceId = {"anonymous"}
    HasHost = {"login", "resent", "anonymous"}
    MaxRuns = 4
    MaxDuplicates = 1
    MaxFailures = 1
INVARIANT StoredOrDeadLettered
INVARIANT StoredOnce
INVARIANT UnpublishedOnlyByFailure
CHECK_DEADLOCK FALSE
