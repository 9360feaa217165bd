SPECIFICATION FairSpec
CONSTANTS
    h1 = h1
    h2 = h2
    h3 = h3
    h4 = h4
    Workers = {w1, w2}
    Triagers = {t1}
    Hits = {h1, h2, h3, h4}
    Malformed = {h4}
    rule_id <- MCRule
    entity_key <- MCEntity
    hostname <- MCHost
    event_time <- MCTime
    NoHost = NoHost
    DedupWindow = 2
    CorrelationWindow = 1
    MaxAlerts = 4
    MaxFaults = 1
    MaxTransitions = 2
INVARIANT OneOpenPerKey
INVARIANT CountTracksLinks
INVARIANT PriorityTracksCount
INVARIANT TriageMissedOnlyByFailure
PROPERTY ClosedTakesNoHits
PROPERTY EveryHitEnds
CHECK_DEADLOCK FALSE
