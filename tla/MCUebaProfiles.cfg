SPECIFICATION Spec
CONSTANTS
    Ips = {"office", "abroad", "home"}
    Commands = {"sudo", "curl"}
    TopIps = 1
    IpBuckets = 2
    CommandBuckets = 2
    FanOut = 1
    HeavyVolume = 50
    PeerGroup = "infrastructure"
    NoProfile = NoProfile
    Builders = {nightly, manual}
    Events <- MCEvents
    Volumes = {100}
    Scored <- MCScored
    MaxRebuilds = 2
    EarlierBaselines <- MCEarlierBaselines
    MaxBaselines = 1
    MaxChanges = 1
SYMMETRY Symmetry
INVARIANTS
    TypeOK
    SilenceIsNoEvidence
    HabitsAreNotAnomalies
PROPERTIES
    LaterRebuildPrevails
    BaselinesAreCurrent
CHECK_DEADLOCK FALSE
