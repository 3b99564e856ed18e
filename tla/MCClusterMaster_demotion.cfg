\* A clustered server promoted and demoted, with the default configuration
\* (lifecycle enabled) and calls that always succeed.
CONSTANTS
    ClusterModes = {TRUE}
    SendStats = FALSE
    ScrubberEnabled = TRUE
    LifecycleEnabled = TRUE
    MAX_REJECTS = 0
    MAX_FLIPS = 2
    MAX_DELAYED = 2
SPECIFICATION Spec
INVARIANT WorkersStopOnDemotion
