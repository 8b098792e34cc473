\* Two callers of the response tools; two retrainers side by side, every call
\* of theirs may fail.
SPECIFICATION Spec
CONSTANTS
    Levels = {0, 3, 5, 6, 9, 10, 12, 16}
    Anomalies = {0, 4, 5, 100}
    Confidences = {0, 80, 81}
    Counts = {0, 9, 10, 19, 20}
    Retrainers = {r1, r2}
    Submissions <- MixedSubmissions
    SampleSize = 2
    Unreliable = {"lookup", "verdicts", "weights", "write"}
    MaxVerdicts = 3
    MaxRetrains = 3
    Callers = {runner, analyst}
    Addresses = {attacker}
    Host = endpoint
    MaxAttempts = 2
    MaxCalls = 4
SYMMETRY Symmetry
INVARIANTS
    RoutingAgreesWithTier
    ThresholdsFit
    RetrainIsGradual
    BlameHasEvidence
    RulesMatchCalls
    UnblockIsBounded
    LoggedTicketsExist
PROPERTIES
    EvidenceNeverHurts
CHECK_DEADLOCK FALSE
