\* Two concurrent writes of two blocks, a bucket in eu-central-1 (one region
\* switch, then ok) or in another region (400/301 for ever), one restart.
CONSTANTS
    b1 = b1
    b2 = b2
    w1 = w1
    w2 = w2
    Blocks = {b1, b2}
    Writers = {w1, w2}
    DataSizes = {1, 2}
    MdSizes = {1}
    BucketRegions = {"eu-central-1", "us-west-2"}
    Flaky = FALSE
    NONE = NONE
    MAX_WRITES = 3
    MAX_RESTARTS = 1
SPECIFICATION FairSpec

PROPERTY WritesComplete
