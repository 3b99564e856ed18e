\* A bucket in us-east-1 that answers every request; one write, one restart.
CONSTANTS
    b1 = b1
    b2 = b2
    w1 = w1
    w2 = w2
    Blocks = {b1}
    Writers = {w1}
    DataSizes = {1}
    MdSizes = {1}
    BucketRegions = {"us-east-1"}
    Flaky = FALSE
    NONE = NONE
    MAX_WRITES = 1
    MAX_RESTARTS = 1
SPECIFICATION Spec
PROPERTY InitRestoresPersistedUsage
