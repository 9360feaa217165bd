SPECIFICATION FairSpec
CONSTANTS
    Workers = {w1, w2}
    Alerts = {a1}
    RuleSeverities = {"low", "critical"}
    Answers = {"low", "high"}
    HasClient = TRUE
    MaxAttempts = 2
    DailyCap = 2
    MaxCount = 2
    MaxDuplicates = 2
    MaxFailures = 1
    MaxChanges = 2
INVARIANT BudgetBounded
INVARIANT ScoreUsesDisplayedSeverity
INVARIANT NotBuried
PROPERTY EventuallyTriaged
CHECK_DEADLOCK FALSE
