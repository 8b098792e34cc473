SPECIFICATION Spec
CONSTANTS
    Tenants = {"alpha", "beta"}
    Absent = absent
    Stored <- StoredDocs
    Operators = {o1, o2}
    Settings <- PostedSettings
    Unreliable = {"get", "post", "channel", "log"}
    MaxCalls = 2
    Alerts <- TwoNotices
    OwnerOf <- Owners
    Percents = {20, 75, 90}
    MaxDispatches = 2
SYMMETRY OperatorSymmetry
INVARIANTS
    TypeOK
    OneDocumentPerNotice
PROPERTIES
    OffboardingSticks
    FailuresStayApart
CHECK_DEADLOCK FALSE
