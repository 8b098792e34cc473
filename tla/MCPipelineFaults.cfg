SPECIFICATION Spec
CONSTANTS
    Alerts <- TwoAlerts
    NoAlert = none
    Content <- TwoInOrder
    BatchSize = 2
    LookBack = 1
    AutoExecute = TRUE
    EventCounts = {0, 10}
    Unreliable = {"cti", "search", "writeback", "wazuh",
                  "notify"}
    MaxTime = 2
    MaxSessions = 2
    MaxHunts = 1
INVARIANTS
    TypeOK
    OncePerSession
    NoticeReflectsOutcome
PROPERTIES
    LedgerSpec
