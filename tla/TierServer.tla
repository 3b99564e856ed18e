----------------------------- MODULE TierServer -----------------------------
(***************************************************************************)
(* src/server/system_services/tier_server.js: the tier and tiering-policy  *)
(* RPC handlers, and the capacity reports get_tier_info and                *)
(* get_tiering_policy_info built on SizeUtils.                             *)
(*                                                                         *)
(* State.  `tiers` and `policies` are the documents of the system store    *)
(* (system_store.data), by id; `stats` is what the node monitor reports    *)
(* per node pool.  Requests run concurrently: a handler runs synchronously *)
(* up to its first promise (make_changes, or the stats fetch), and its     *)
(* continuation runs later, after any number of other steps.  pc[r] is    *)
(* where request r is, req[r] what its synchronous part captured from the  *)
(* snapshot req.system, reply[r] what it answered.                         *)
(***************************************************************************)
EXTENDS Integers, Sequences, SequencesExt, FiniteSets, SizeUtils

CONSTANTS
    NodePools,      \* pools without cloud_pool_info
    CloudPools,     \* pools with cloud_pool_info
    TierIds,        \* ids system_store.generate_id() may hand out for tiers
    TierNames,
    PolicyIds,
    PolicyNames,
    Reqs,           \* concurrent RPC requests
    NONE,           \* an absent optional rpc parameter / a removed document
    NodeListArgs,   \* node_pools arguments a caller may send (lists of pool names)
    CloudListArgs,  \* cloud_pools arguments a caller may send
    ReplicaArgs,    \* replicas arguments a caller may send
    PlacementArgs,  \* data_placement arguments a caller may send
    TierListArgs,   \* create_policy `tiers` arguments: sequences of tier names
    SIZES           \* sizes the node monitor may report for a pool metric

VARIABLES tiers, policies, stats, pc, req, reply

vars == <<tiers, policies, stats, pc, req, reply>>

Pools == NodePools \cup CloudPools
Placements == {"SPREAD", "MIRROR"}
Errors == {"NO_SUCH_TIER", "NO_SUCH_TIERING_POLICY", "ILLEGAL NODE POOLS LIST",
           "TODO", "CONFLICT", "TypeError"}
\* A reply: a code, and the reported storage for a capacity report.
Code(c) == [code |-> c, storage |-> <<>>]
Report(s) == [code |-> "ok", storage |-> s]
NoReply == Code("none")

\* `_.isUndefined(pool.cloud_pool_info)` partitions a tier's pools.
NodePart(pools) == SelectSeq(pools, LAMBDA p : p \in NodePools)
CloudPart(pools) == SelectSeq(pools, LAMBDA p : p \in CloudPools)

\* What the node monitor may report for one pool (no pool reports `real`).
Storages == UNION {[K -> SIZES] : K \in SUBSET (STORAGE_KEYS \ {"real"})}

(***************************************************************************)
(* Capacity reports.                                                       *)
(*                                                                         *)
(* get_tier_info reads `nodes_aggregate_pool.groups[<pool id>].storage`.   *)
(* An aggregate is modelled by its shape: "groups" is the shape            *)
(* get_tier_info expects (and the spec describes); "flat" is what          *)
(* nodes_client.aggregate_nodes_by_pool returns (nodes_client.js:54-57):   *)
(* the per-pool objects at top level, with no `groups` key.                *)
(***************************************************************************)
Aggregate(shape, s) == [shape |-> shape, byPool |-> s]

\* `_.get(nodes_aggregate_pool, ['groups', String(pool._id), 'storage'])`
PoolStorage(agg, p) ==
    IF agg # NONE /\ agg.shape = "groups" THEN agg.byPool[p] ELSE <<>>

ZeroDefaults ==
    [k \in {"used", "total", "unavailable_free", "used_other", "reserved"}
            \cap STORAGE_KEYS |-> Num(0)]

\* Mutant of get_tier_info: the redundancy factor passed as the multiplier
\* instead of the divisor of reduce_storage.
get_tier_info_swapped(tier, agg) ==
    LET nodes    == NodePart(tier.pools)
        storages == [i \in 1..Len(nodes) |->
                        Defaults(PoolStorage(agg, nodes[i]), [free |-> Num(0)])]
        raw      == Defaults(reduce_storage("sum", storages, 1, 1), ZeroDefaults)
        usable   == IF tier.data_placement = "MIRROR"
                    THEN reduce_storage("minimum", storages, tier.replicas, 1)
                    ELSE reduce_storage("sum", storages, tier.replicas, 1)
    IN  ("real" :> Defaults(usable, [free |-> Num(0)]).free) @@ raw

get_tier_info(tier, agg) ==
    LET nodes    == NodePart(tier.pools)
        storages == [i \in 1..Len(nodes) |->
                        Defaults(PoolStorage(agg, nodes[i]), [free |-> Num(0)])]
        raw      == Defaults(reduce_storage("sum", storages, 1, 1), ZeroDefaults)
        usable   == IF tier.data_placement = "MIRROR"
                    THEN reduce_storage("minimum", storages, 1, tier.replicas)
                    ELSE reduce_storage("sum", storages, 1, tier.replicas)
    IN  ("real" :> Defaults(usable, [free |-> Num(0)]).free) @@ raw

\* get_tiering_policy_info with an aggregate: the storages of the policy's
\* tiers (the resolved tier documents, in order) summed.
get_tiering_policy_info(tierDocs, agg) ==
    LET per == [i \in 1..Len(tierDocs) |-> get_tier_info(tierDocs[i], agg)]
    IN  reduce_storage("sum", per, 1, 1)

(***************************************************************************)
(* The system store (system_store.js is not part of the sources).  Its     *)
(* make_changes commits all-or-nothing and republishes system_store.data;  *)
(* names are unique per system, so an insert or rename onto a name in use  *)
(* fails with a conflict and changes nothing.                              *)
(***************************************************************************)
LiveTiers == {t \in TierIds : tiers[t] # NONE}
LivePolicies == {p \in PolicyIds : policies[p] # NONE}
TierNameTaken(name, except) == \E t \in LiveTiers \ {except} : tiers[t].name = name
PolicyNameTaken(name) == \E p \in LivePolicies : policies[p].name = name

\* find_tier_by_name / find_policy_by_name on a snapshot: an id or NONE.
TierByName(name) ==
    IF \E t \in LiveTiers : tiers[t].name = name
    THEN CHOOSE t \in LiveTiers : tiers[t].name = name ELSE NONE
PolicyByName(name) ==
    IF \E p \in LivePolicies : policies[p].name = name
    THEN CHOOSE p \in LivePolicies : policies[p].name = name ELSE NONE

\* A policy entry whose tier was removed no longer resolves to a tier
\* document; reading `.pools`, `.name` or `._id` of it throws.
Dangling(p) == \E i \in 1..Len(policies[p].tiers) : tiers[policies[p].tiers[i]] = NONE

Idle(r) == pc[r] = "idle"
\* Request r answers x and is done; `kept` is what the model keeps of it.
AnswerKeeping(r, x, kept) == /\ pc' = [pc EXCEPT ![r] = "idle"]
                             /\ reply' = [reply EXCEPT ![r] = x]
                             /\ req' = [req EXCEPT ![r] = kept]
Answer(r, x) == AnswerKeeping(r, x, NONE)
Await(r, phase, captured) ==
    /\ pc' = [pc EXCEPT ![r] = phase]
    /\ req' = [req EXCEPT ![r] = captured]
    /\ reply' = [reply EXCEPT ![r] = NoReply]

(***************************************************************************)
(* create_tier: new_tier_defaults with the caller's placement fields       *)
(* merged in, inserted; then, after make_changes resolves, the tier is     *)
(* looked up again by name in the reloaded system.                         *)
(***************************************************************************)
new_tier_defaults(name, pools) ==
    [name |-> name, replicas |-> 3, data_placement |-> "SPREAD", pools |-> pools]

\* Mutant of MergePlacement: a hand-written merge that copies `replicas`
\* even when the caller did not send it.
MergePlacementUnchecked(doc, placement, replicas) ==
    [doc EXCEPT !.data_placement = IF placement = NONE THEN @ ELSE placement,
                !.replicas       = replicas]

\* `_.merge(tier, _.pick(req.rpc_params, TIER_PLACEMENT_FIELDS))`
MergePlacement(doc, placement, replicas) ==
    [doc EXCEPT !.data_placement = IF placement = NONE THEN @ ELSE placement,
                !.replicas       = IF replicas = NONE THEN @ ELSE replicas]

create_tier(r, name, nodes, clouds, placement, replicas) ==
    /\ Idle(r)
    /\ \E id \in TierIds \ LiveTiers :
        IF TierNameTaken(name, NONE)
        THEN /\ Answer(r, Code("CONFLICT"))
             /\ UNCHANGED tiers
        ELSE /\ tiers' = [tiers EXCEPT ![id] =
                    MergePlacement(new_tier_defaults(name, nodes \o clouds), placement, replicas)]
             /\ Await(r, "create_tier_reload", [name |-> name])
    /\ UNCHANGED <<policies, stats>>

create_tier_reload(r) ==
    /\ pc[r] = "create_tier_reload"
    /\ Answer(r, Code(IF TierByName(req[r].name) = NONE THEN "NO_SUCH_TIER" ELSE "ok"))
    /\ UNCHANGED <<tiers, policies, stats>>

(***************************************************************************)
(* read_tier: the tier is taken from the snapshot, then the node monitor   *)
(* is asked, one promise tick later, for the pools' aggregate.             *)
(***************************************************************************)
read_tier(r, name) ==
    /\ Idle(r)
    /\ LET t == TierByName(name) IN
        IF t = NONE
        THEN Answer(r, Code("NO_SUCH_TIER"))
        ELSE Await(r, "read_tier_fetch", [tier |-> tiers[t]])
    /\ UNCHANGED <<tiers, policies, stats>>

read_tier_fetch(r) ==
    /\ pc[r] = "read_tier_fetch"
    /\ Answer(r, Report(get_tier_info(req[r].tier, Aggregate("flat", stats))))
    /\ UNCHANGED <<tiers, policies, stats>>

(***************************************************************************)
(* update_tier.  Placement fields and the new name are written only when   *)
(* given; `pools` is always written whole: the given node (cloud) list, or *)
(* the node (cloud) part of the tier as the snapshot had it.  The cloud    *)
(* check iterates req.rpc_params.node_pools (tier_server.js:128).          *)
(***************************************************************************)
NodeListValid(nodes) == nodes = NONE \/ \A i \in 1..Len(nodes) : nodes[i] \notin CloudPools
CloudListCheck(nodes, clouds) ==
    clouds = NONE \/ nodes = NONE \/ \A i \in 1..Len(nodes) : nodes[i] \in CloudPools

update_tier(r, name, newName, placement, replicas, nodes, clouds) ==
    /\ Idle(r)
    /\ LET t    == TierByName(name)
           args == [name |-> newName, data_placement |-> placement,
                    replicas |-> replicas, node_pools |-> nodes, cloud_pools |-> clouds]
           pools == (IF nodes # NONE THEN nodes ELSE NodePart(tiers[t].pools))
                    \o (IF clouds # NONE THEN clouds ELSE CloudPart(tiers[t].pools))
       IN  CASE t = NONE -> Answer(r, Code("NO_SUCH_TIER"))
             [] ~NodeListValid(nodes) \/ ~CloudListCheck(nodes, clouds) ->
                    AnswerKeeping(r, Code("ILLEGAL NODE POOLS LIST"), [args |-> args])
             [] OTHER -> Await(r, "update_tier_commit",
                    [id |-> t, args |-> args, pools |-> pools])
    /\ UNCHANGED <<tiers, policies, stats>>

ApplyTierUpdate(doc, u) ==
    [doc EXCEPT !.name           = IF u.args.name = NONE THEN @ ELSE u.args.name,
                !.data_placement = IF u.args.data_placement = NONE THEN @
                                   ELSE u.args.data_placement,
                !.replicas       = IF u.args.replicas = NONE THEN @ ELSE u.args.replicas,
                !.pools          = u.pools]

update_tier_commit(r) ==
    /\ pc[r] = "update_tier_commit"
    /\ LET u == req[r] IN
        IF tiers[u.id] = NONE \/ (u.args.name # NONE /\ TierNameTaken(u.args.name, u.id))
        THEN Answer(r, Code("CONFLICT")) /\ UNCHANGED tiers
        ELSE /\ tiers' = [tiers EXCEPT ![u.id] = ApplyTierUpdate(@, u)]
             /\ pc' = [pc EXCEPT ![r] = "update_tier_post"]
             /\ UNCHANGED <<req, reply>>
    /\ UNCHANGED <<policies, stats>>

\* The order of system_store.data.tieringpolicies.
PolicyOrder == SetToSeq(PolicyIds)

\* find_bucket_by_tier scans the policies' tier entries in order for the
\* tier's id; it throws on a removed tier met before the first match.
BucketLookupThrows(t) ==
    LET entries == FlattenSeq([i \in 1..Len(PolicyOrder) |->
                        IF policies[PolicyOrder[i]] = NONE THEN <<>>
                        ELSE policies[PolicyOrder[i]].tiers])
    IN  \E i \in 1..Len(entries) :
            /\ tiers[entries[i]] = NONE
            /\ \A j \in 1..i : entries[j] # t

update_tier_post(r) ==
    /\ pc[r] = "update_tier_post"
    /\ Answer(r, Code(IF BucketLookupThrows(req[r].id) THEN "TypeError" ELSE "ok"))
    /\ UNCHANGED <<tiers, policies, stats>>

(***************************************************************************)
(* delete_tier: found in the snapshot, removed by id when make_changes     *)
(* runs.                                                                   *)
(***************************************************************************)
delete_tier(r, name) ==
    /\ Idle(r)
    /\ LET t == TierByName(name) IN
        IF t = NONE
        THEN Answer(r, Code("NO_SUCH_TIER"))
        ELSE Await(r, "delete_tier_commit", [id |-> t])
    /\ UNCHANGED <<tiers, policies, stats>>

delete_tier_commit(r) ==
    /\ pc[r] = "delete_tier_commit"
    /\ tiers' = [tiers EXCEPT ![req[r].id] = NONE]
    /\ Answer(r, Code("ok"))
    /\ UNCHANGED <<policies, stats>>

(***************************************************************************)
(* Tiering policies.  create_policy resolves the tier names in the         *)
(* snapshot (`req.system.tiers_by_name[t.tier]._id` throws on an unknown   *)
(* name), inserts, then reads the policy back from the reloaded system and *)
(* reports it; reporting reads `.name` of every tier entry.                *)
(***************************************************************************)
\* new_policy_defaults takes an id from generate_id() synchronously.
PendingPolicyIds == {req[q].id : q \in {q \in Reqs : pc[q] = "create_policy_commit"}}

create_policy(r, name, tierNames) ==
    /\ Idle(r)
    /\ \E id \in PolicyIds \ (LivePolicies \cup PendingPolicyIds) :
        LET ids == [i \in 1..Len(tierNames) |-> TierByName(tierNames[i])] IN
        IF \E i \in 1..Len(ids) : ids[i] = NONE
        THEN Answer(r, Code("TypeError"))
        ELSE Await(r, "create_policy_commit", [id |-> id, name |-> name, tiers |-> ids])
    /\ UNCHANGED <<tiers, policies, stats>>

create_policy_commit(r) ==
    /\ pc[r] = "create_policy_commit"
    /\ IF PolicyNameTaken(req[r].name)
       THEN Answer(r, Code("CONFLICT")) /\ UNCHANGED policies
       ELSE /\ policies' = [policies EXCEPT ![req[r].id] =
                                [name |-> req[r].name, tiers |-> req[r].tiers]]
            /\ pc' = [pc EXCEPT ![r] = "create_policy_reload"]
            /\ UNCHANGED <<req, reply>>
    /\ UNCHANGED <<tiers, stats>>

\* find_policy_by_name, then get_tiering_policy_info without an aggregate.
PolicyReport(name) ==
    LET p == PolicyByName(name)
    IN  CASE p = NONE       -> "NO_SUCH_TIERING_POLICY"
          [] Dangling(p)    -> "TypeError"
          [] OTHER          -> "ok"

create_policy_reload(r) ==
    /\ pc[r] = "create_policy_reload"
    /\ Answer(r, Code(PolicyReport(req[r].name)))
    /\ UNCHANGED <<tiers, policies, stats>>

update_policy(r) ==
    /\ Idle(r)
    /\ Answer(r, Code("TODO"))
    /\ UNCHANGED <<tiers, policies, stats>>

get_policy_pools(r, name) ==
    /\ Idle(r)
    /\ Answer(r, Code(PolicyReport(name)))
    /\ UNCHANGED <<tiers, policies, stats>>

\* read_policy collects `tier_and_order.tier.pools` synchronously, then
\* fetches the aggregate and reports with it.
read_policy(r, name) ==
    /\ Idle(r)
    /\ LET p == PolicyByName(name) IN
        CASE p = NONE    -> Answer(r, Code("NO_SUCH_TIERING_POLICY"))
          [] Dangling(p) -> Answer(r, Code("TypeError"))
          [] OTHER       -> Await(r, "read_policy_fetch",
                    [tiers |-> [i \in 1..Len(policies[p].tiers) |->
                                    tiers[policies[p].tiers[i]]]])
    /\ UNCHANGED <<tiers, policies, stats>>

read_policy_fetch(r) ==
    /\ pc[r] = "read_policy_fetch"
    /\ Answer(r, Report(get_tiering_policy_info(req[r].tiers, Aggregate("flat", stats))))
    /\ UNCHANGED <<tiers, policies, stats>>

delete_policy(r, name) ==
    /\ Idle(r)
    /\ LET p == PolicyByName(name) IN
        IF p = NONE
        THEN Answer(r, Code("NO_SUCH_TIERING_POLICY"))
        ELSE Await(r, "delete_policy_commit", [id |-> p])
    /\ UNCHANGED <<tiers, policies, stats>>

delete_policy_commit(r) ==
    /\ pc[r] = "delete_policy_commit"
    /\ policies' = [policies EXCEPT ![req[r].id] = NONE]
    /\ Answer(r, Code("ok"))
    /\ UNCHANGED <<tiers, stats>>

(***************************************************************************)
(* The node monitor (not part of the sources) changes a pool's report.     *)
(***************************************************************************)
PoolStatsChange(p, s) ==
    /\ stats' = [stats EXCEPT ![p] = s]
    /\ UNCHANGED <<tiers, policies, pc, req, reply>>

(***************************************************************************)
(* Specification.                                                          *)
(***************************************************************************)

Init ==
    /\ tiers = [t \in TierIds |-> NONE]
    /\ policies = [p \in PolicyIds |-> NONE]
    /\ stats = [p \in NodePools |-> <<>>]
    /\ pc = [r \in Reqs |-> "idle"]
    /\ req = [r \in Reqs |-> NONE]
    /\ reply = [r \in Reqs |-> NoReply]

TierRequest(r) ==
    \/ \E name \in TierNames, nodes \in NodeListArgs, clouds \in CloudListArgs,
          pl \in PlacementArgs \cup {NONE}, rep \in ReplicaArgs \cup {NONE} :
            create_tier(r, name, nodes, clouds, pl, rep)
    \/ \E name \in TierNames : read_tier(r, name) \/ delete_tier(r, name)
    \/ \E name \in TierNames, newName \in TierNames \cup {NONE},
          pl \in PlacementArgs \cup {NONE}, rep \in ReplicaArgs \cup {NONE},
          nodes \in NodeListArgs \cup {NONE}, clouds \in CloudListArgs \cup {NONE} :
            update_tier(r, name, newName, pl, rep, nodes, clouds)

PolicyRequest(r) ==
    \/ \E name \in PolicyNames, ts \in TierListArgs : create_policy(r, name, ts)
    \/ \E name \in PolicyNames :
            get_policy_pools(r, name) \/ read_policy(r, name) \/ delete_policy(r, name)
    \/ update_policy(r)

Continuation(r) ==
    \/ create_tier_reload(r)
    \/ read_tier_fetch(r)
    \/ update_tier_commit(r)
    \/ update_tier_post(r)
    \/ delete_tier_commit(r)
    \/ create_policy_commit(r)
    \/ create_policy_reload(r)
    \/ read_policy_fetch(r)
    \/ delete_policy_commit(r)

Next ==
    \/ \E r \in Reqs : TierRequest(r) \/ PolicyRequest(r) \/ Continuation(r)
    \/ \E p \in NodePools, s \in Storages : PoolStatsChange(p, s)

Spec == Init /\ [][Next]_vars

(***************************************************************************)
(* Properties.                                                             *)
(***************************************************************************)
Phases == {"idle", "create_tier_reload", "read_tier_fetch", "update_tier_commit",
           "update_tier_post", "delete_tier_commit", "create_policy_commit",
           "create_policy_reload", "read_policy_fetch", "delete_policy_commit"}
TierDocs == [name : TierNames, replicas : ReplicaArgs \cup {3},
             data_placement : Placements, pools : Seq(Pools)]

TypeOK ==
    /\ tiers \in [TierIds -> TierDocs \cup {NONE}]
    /\ policies \in [PolicyIds -> [name : PolicyNames, tiers : Seq(TierIds)] \cup {NONE}]
    /\ stats \in [NodePools -> Storages]
    /\ pc \in [Reqs -> Phases]
    /\ \A r \in Reqs : /\ reply[r].code \in Errors \cup {"none", "ok"}
                       /\ DOMAIN reply[r].storage \subseteq STORAGE_KEYS

\* A metric as a byte count, an absent metric counting as zero.
Metric(storage, k) == IF k \in DOMAIN storage THEN Bytes(storage[k]) ELSE 0

\* Sum of a metric over a list of pools, as the node monitor reports them.
PoolsSum(pools, k) == FoldLeft(LAMBDA acc, p : acc + Metric(stats[p], k), 0, pools)

\* The report get_tier_info gives for live tier t, with the live stats in
\* the shape it reads.
TierReport(t) == get_tier_info(tiers[t], Aggregate("groups", stats))

(***************************************************************************)
(* get_tier_info: the usable capacity ("real", after the redundancy        *)
(* factor and the placement reducer) never exceeds the raw free capacity   *)
(* of the same report, whatever the pools report and for either placement. *)
(***************************************************************************)
RealWithinRawFree ==
    \A t \in LiveTiers : Metric(TierReport(t), "real") <= Metric(TierReport(t), "free")

(***************************************************************************)
(* get_tier_info on a SPREAD tier: "real" is exactly the tier's node pools'*)
(* free bytes, summed, divided by replicas and rounded down (spec 4.1:     *)
(* bigint_factor scales losslessly), a pool that reports no free counting  *)
(* as zero.                                                                *)
(***************************************************************************)
SpreadRealIsShare ==
    \A t \in LiveTiers :
        tiers[t].data_placement = "SPREAD" =>
            Metric(TierReport(t), "real")
                = PoolsSum(NodePart(tiers[t].pools), "free") \div tiers[t].replicas

(***************************************************************************)
(* reduce_minimum, MIRROR's reducer, against its reference definition: for *)
(* every list of up to three of the sizes the pools report now, the scan   *)
(* from the sentinel returns the smallest byte count, normalised to a      *)
(* plain number below a petabyte or a {n, peta} object.                    *)
(***************************************************************************)
ReduceMinimumIsLeast ==
    \A vs \in BoundedSeq(UNION {{stats[p][k] : k \in DOMAIN stats[p]} : p \in NodePools}, 3) \ {<<>>} :
        LET least == Min({Bytes(v) : v \in Range(vs)})
        IN  reduce_minimum(vs) = Canonical(least % PETABYTE, least \div PETABYTE)

(***************************************************************************)
(* get_tier_info on a MIRROR tier: "real" is bounded by the smallest       *)
(* mirror, a pool that reports no free capacity counting as zero (spec     *)
(* 4.4 step 4: an unreachable pool contributes zero).                      *)
(***************************************************************************)
MirrorRealBoundedBySmallestPool ==
    \A t \in LiveTiers :
        tiers[t].data_placement = "MIRROR" =>
            \A p \in ToSet(NodePart(tiers[t].pools)) :
                Metric(TierReport(t), "real") * tiers[t].replicas <= Metric(stats[p], "free")

(* update_tier rejects exactly the requests that name a pool of the wrong  *)
(* class: a cloud pool in node_pools or a node pool in cloud_pools         *)
(* (spec 4.6).                                                             *)
(***************************************************************************)
WrongClass(args) ==
    \/ args.node_pools # NONE /\ \E i \in 1..Len(args.node_pools) : args.node_pools[i] \in CloudPools
    \/ args.cloud_pools # NONE /\ \E i \in 1..Len(args.cloud_pools) : args.cloud_pools[i] \in NodePools

UpdateValidationMatchesClassification ==
    \A r \in Reqs :
        /\ pc[r] = "update_tier_commit" => ~WrongClass(req[r].args)
        /\ reply[r].code = "ILLEGAL NODE POOLS LIST" => WrongClass(req[r].args)

(***************************************************************************)
(* update_tier changes only the pool class it names: when its update is    *)
(* committed, the node (cloud) pools it was not given are the ones the     *)
(* tier has at that moment (spec 4.6: node and cloud pools are updated     *)
(* independently).                                                         *)
(***************************************************************************)
UpdateKeepsUnnamedPools ==
    [][\A r \in Reqs :
        pc[r] = "update_tier_commit" /\ pc'[r] = "update_tier_post" =>
            LET a == req[r].args
                t == req[r].id
            IN  /\ a.node_pools = NONE => NodePart(tiers'[t].pools) = NodePart(tiers[t].pools)
                /\ a.cloud_pools = NONE => CloudPart(tiers'[t].pools) = CloudPart(tiers[t].pools)]_vars

(***************************************************************************)
(* A request that answers with an error has changed nothing (spec 7): no   *)
(* handler reports a failure after its make_changes has committed.         *)
(***************************************************************************)
AfterCommit == {"create_tier_reload", "update_tier_post", "create_policy_reload"}

ErrorOnlyBeforeCommit ==
    [][\A r \in Reqs : pc[r] \in AfterCommit => reply'[r].code \notin Errors]_vars

=============================================================================
