\* Every call answers; one dispatch of a critical alert.
SPECIFICATION Spec
CONSTANTS
    Tenants = {"alpha", "beta"}
    Absent = absent
    Stored <- StoredDocs
    Operators = {o1}
    Settings <- PostedSettings
    Unreliable = {}
    MaxCalls = 1
    Alerts <- TwoNotices
    OwnerOf <- Owners
    Percents = {90}
    MaxDispatches = 1
PROPERTY NeverBlocked
CHECK_DEADLOCK FALSE
