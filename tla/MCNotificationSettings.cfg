\* Every call answers, and every tenant has a document.
SPECIFICATION Spec
CONSTANTS
    Tenants = {"alpha", "beta"}
    Absent = absent
    Stored <- StoredDocs
    Operators = {o1}
    Settings <- PostedSettings
    Unreliable = {}
    MaxCalls = 1
    Alerts <- TwoNotices
    OwnerOf <- Owners
    Percents = {90}
    MaxDispatches = 1
PROPERTY SettingsAreStored
CHECK_DEADLOCK FALSE
