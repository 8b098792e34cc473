SPECIFICATION FairSpec
CONSTANTS
    Alerts <- ThreeAlerts
    NoAlert = none
    Content <- ThreeAtTwoTimes
    BatchSize = 1
    LookBack = 1
    AutoExecute = TRUE
    EventCounts = {0}
    Unreliable = {"search", "writeback"}
    MaxTime = 3
    MaxSessions = 2
    MaxHunts = 0
INVARIANTS
    SkipHasCause
    EffectsNeedEvidence
PROPERTIES
    TimelyAlertIsRun
    PageIsWorkedOff
