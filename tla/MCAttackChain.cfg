SPECIFICATION FairSpec
CONSTANTS
    a = a
    b = b
    t1 = t1
    t2 = t2
    u = u
    Host <- TwoHosts
    Peer <- TwoHosts
    Test <- TwoTests
    ALLOWED_TESTS <- Allowed
    REDTEAM_SSH_HOSTS <- OneReachable
    Chains <- SomeChains
    ENTRY_TECHNIQUE <- EntryOf
    Technique <- Techniques
    Topologies <- Neighbours
    Pct = {85, 86}
    Account = {u}
    GroupLists <- SomeGroups
INVARIANTS
    TypeOK
    NothingUnreviewed
    ResidueIsOnRecord
    ClaimsHaveGrounds
PROPERTIES
    NoTestAfterBlock
    BlastOnlySharpens
    KillChainSpec
    RunEnds
CHECK_DEADLOCK FALSE
