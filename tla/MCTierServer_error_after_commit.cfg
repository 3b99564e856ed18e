\* A policy whose tier is deleted, then an update_tier of another tier.
CONSTANTS
    PETABYTE = 4
    MANTISSA_BITS = 5
    PETA_MIN_INIT = 3
    STORAGE_KEYS <- MC_FREE_KEYS
    n1 = n1
    n2 = n2
    c1 = c1
    ta = ta
    tb = tb
    NodePools = {n1, n2}
    CloudPools = {c1}
    TierIds = {t1, t2}
    TierNames = {ta, tb}
    PolicyIds = {p1}
    PolicyNames = {pa}
    Reqs = {r1}
    NONE = NONE
    NodeListArgs <- MC_OneNodeArgs
    CloudListArgs <- MC_NoCloudArgs
    ReplicaArgs = {}
    PlacementArgs = {}
    TierListArgs <- MC_OneTierList
    SIZES <- MC_SIZES_ZERO
SPECIFICATION Spec
PROPERTY ErrorOnlyBeforeCommit
