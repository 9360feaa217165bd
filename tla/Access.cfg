SPECIFICATION Spec
CONSTANTS
    Requests = {r1, r2}
    TTL = 2
    Span = 1
    Overlap = 1
    MaxSerial = 3
    MaxChanges = 2
    MaxFaults = 1
INVARIANT LateRequestRefused
INVARIANT RenewalKeepsAccess
CHECK_DEADLOCK FALSE
