\* A MIRROR tier over a pool that reports free 0, or no stats at all.
CONSTANTS
    PETABYTE = 4
    MANTISSA_BITS = 5
    PETA_MIN_INIT = 3
    STORAGE_KEYS <- MC_FREE_KEYS
    n1 = n1
    n2 = n2
    c1 = c1
    ta = ta
    tb = tb
    NodePools = {n1, n2}
    CloudPools = {c1}
    TierIds = {t1}
    TierNames = {ta}
    PolicyIds = {p1}
    PolicyNames = {pa}
    Reqs = {r1}
    NONE = NONE
    NodeListArgs <- MC_NodeOnlyArgs
    CloudListArgs <- MC_NoCloudArgs
    ReplicaArgs = {2}
    PlacementArgs = {"MIRROR"}
    TierListArgs <- MC_OneTierList
    SIZES <- MC_SIZES
SPECIFICATION Spec
INVARIANT MirrorRealBoundedBySmallestPool
