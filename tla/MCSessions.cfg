SPECIFICATION Spec
CONSTANTS
    u1 = u1
    u2 = u2
    s1 = s1
    s2 = s2
    s3 = s3
    l1 = l1
    q1 = q1
    q2 = q2
    Users = {u1, u2}
    Owner = u1
    Roles <- MCRoles
    Sids = {s1, s2, s3}
    Logins = {l1}
    Changers = {q1, q2}
    MaxChanges = 3
    MaxFaults = 1
SYMMETRY Symmetric
INVARIANT StaleOnlyByOverlap
INVARIANT AdminRemains
CHECK_DEADLOCK FALSE
