SPECIFICATION Spec
CONSTANTS
    Processes = {p1, p2}
    Tasks = {t1, t2}
    MaxTokens = 2
    MaxAttempts = 2
    MaxFaults = 2
INVARIANT ActiveIsProvisioned
INVARIANT OutcomeAgrees
PROPERTY VerifiedSettles
CHECK_DEADLOCK FALSE
