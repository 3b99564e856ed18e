\* A clustered and a stand-alone server, four elections, three rejected calls,
\* every optional master worker enabled.
CONSTANTS
    ClusterModes = {TRUE, FALSE}
    SendStats = TRUE
    ScrubberEnabled = TRUE
    LifecycleEnabled = TRUE
    MAX_REJECTS = 3
    MAX_FLIPS = 4
    MAX_DELAYED = 2
SPECIFICATION FairSpec
PROPERTY MasterStateFollowsMongo
