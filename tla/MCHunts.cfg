SPECIFICATION FairSpec
CONSTANTS
    none = none
    dev = dev
    root = root
    www = www
    agent = agent
    NoField = none
    Users <- FourUsers
    Peers <- Departments
    Systems <- Agents
    Namesakes = {agent}
    TermsSize = 2
    Hour = {0, 3, 23}
    LastDay = 3
    Count = {0, 1, 3}
    Bytes = {0, 1, 2, 3}
    Schedules <- SomeSchedules
    peer_multiplier = 2
    min_events_no_peers = 2
    staging_multiplier = 2
    new_systems_threshold = 2
    shift_hours = 2
    consecutive_days_threshold = 2
    escalate_if_found <- EscalateMost
    HUNT_INTERVAL_HOURS = 2
    TimeWindows = {2, 6}
    MaxDelay = 2
    LastHour = 9
    MaxEvents = 2
    Directories <- SomeDirectories
    MaxFindings = 3
INVARIANTS
    TypeOK
    WrongFindingHasCause
    RepeatsAreBounded
    NoTimelyEventIsLost
    RequestIsFaithful
PROPERTIES
    RecordIsTrue
    EveryCycleEnds
CHECK_DEADLOCK FALSE
