\* No source has ten recent events; every call answers.
SPECIFICATION Spec
CONSTANTS
    Alerts <- TwoAlerts
    NoAlert = none
    Content <- TwoInOrder
    BatchSize = 2
    LookBack = 1
    AutoExecute = TRUE
    EventCounts = {0, 9}
    Unreliable = {}
    MaxTime = 2
    MaxSessions = 2
    MaxHunts = 1
INVARIANT HuntClearsThreshold
