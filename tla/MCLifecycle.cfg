SPECIFICATION Spec
CONSTANTS
    Replicas = {r1, r2}
    Tenants = {t1}
    TrialEnd <- MCTrialEnd
    PlanRetention <- MCPlanRetention
    Override <- MCOverride
    DefaultRetention = 1
    PurgeAfter = 0
    MonthLength = 1
    StartMonth = 12
    MaxTime = 2
    MaxChanges = 1
    MaxEvents = 2
    MaxFaults = 1
INVARIANT AloneUnlessOutlived
 
INVARIANT DataLostOnlyByOverlap
PROPERTY RetentionKeeps
PROPERTY TrialEnds
CHECK_DEADLOCK FALSE
