\* Two concurrent update_tier requests, one changing node pools, one cloud pools.
CONSTANTS
    PETABYTE = 4
    MANTISSA_BITS = 5
    PETA_MIN_INIT = 3
    STORAGE_KEYS <- MC_FREE_KEYS
    n1 = n1
    n2 = n2
    c1 = c1
    ta = ta
    tb = tb
    NodePools = {n1, n2}
    CloudPools = {c1}
    TierIds = {t1}
    TierNames = {ta}
    PolicyIds = {p1}
    PolicyNames = {pa}
    Reqs = {r1, r2}
    NONE = NONE
    NodeListArgs <- MC_NodeOnlyArgs
    CloudListArgs <- MC_CloudOnlyArgs
    ReplicaArgs = {}
    PlacementArgs = {}
    TierListArgs <- MC_OneTierList
    SIZES <- MC_SIZES_ZERO
SPECIFICATION Spec
PROPERTY UpdateKeepsUnnamedPools
