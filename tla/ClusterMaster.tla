---------------------------- MODULE ClusterMaster ----------------------------
(***************************************************************************)
(* src/server/bg_services/cluster_master.js with the worker registration   *)
(* of src/bg_workers/bg_workers_starter.js.                                *)
(*                                                                         *)
(* The scheduler runs background_worker every CLUSTER_MASTER_INTERVAL and  *)
(* waits for the promise it returns, so cycles do not overlap; a cycle is  *)
(* split at each await (MongoCtrl.is_master, send_master_update).  The     *)
(* delayed start of a promotion (delay_unblocking, not returned) is        *)
(* detached and may fire between any later steps.  hosted_agents exports   *)
(* only create_agent and remove_agent (hosted_agents.js:80-81), so         *)
(* hosted_agents.start() and .stop() throw a TypeError after the workers   *)
(* have been registered or removed.                                        *)
(*                                                                         *)
(* Not in the sources, modelled from their use: the background scheduler   *)
(* (a set of running worker names), the web server's handler of            *)
(* set_webserver_master_state (it sets system_store.is_cluster_master),    *)
(* and MongoDB's replica-set election (ismaster flips).                    *)
(***************************************************************************)
EXTENDS Naturals

CONSTANTS
    ClusterModes,     \* values get_local_cluster_info().is_clusterized may have
    SendStats,        \* config.central_stats.send_stats = 'true' /\ PHONE_HOME_BASE_URL
    ScrubberEnabled,  \* config.SCRUBBER_ENABLED
    LifecycleEnabled, \* config.LIFECYCLE_DISABLED # 'true'
    MAX_FLIPS,        \* bound on replica-set elections in a behaviour
    MAX_REJECTS,      \* bound on rejected MongoCtrl.is_master / web server calls
    MAX_DELAYED       \* bound on pending delayed starts (a cycle waits below it)

VARIABLES
    clusterized,  \* this server is part of a cluster (fixed)
    loaded,       \* system_store.is_finished_initial_load
    mongoMaster,  \* what MongoCtrl.is_master() would answer now
    flips,        \* elections so far
    rejects,      \* rejected calls so far
    isMaster,     \* the module's is_cluster_master
    storeMaster,  \* system_store.is_cluster_master, set by the web server RPC
    cyc,          \* the running cycle: "idle", "ask", "send", "nc_send"
    sendVal,      \* the value the awaited send_master_update carries
    delayed,      \* delayed starts not yet fired
    workers       \* names of the running background workers

vars == <<clusterized, loaded, mongoMaster, flips, rejects, isMaster, storeMaster,
          cyc, sendVal, delayed, workers>>

MASTER_BG_WORKERS ==
    {"scrubber", "cloud_sync_refresher", "system_server_stats_aggregator", "bucket_storage_fetch"}

\* The names run_master_workers registers under the configuration.
RunWorkers ==
    {"cloud_sync_refresher", "bucket_storage_fetch"}
    \cup (IF SendStats THEN {"system_server_stats_aggregator"} ELSE {})
    \cup (IF ScrubberEnabled THEN {"scrubber"} ELSE {})
    \cup (IF LifecycleEnabled THEN {"lifecycle"} ELSE {})

\* run_master_workers registers its workers, then hosted_agents.start() throws.
run_master_workers(ws) == ws \cup RunWorkers

\* remove_master_workers removes MASTER_BG_WORKERS, then hosted_agents.stop() throws.
remove_master_workers(ws) == ws \ MASTER_BG_WORKERS

\* What an awaited call may settle with: a rejection only while the bound allows.
Settles == IF rejects < MAX_REJECTS THEN BOOLEAN ELSE {TRUE}

\* Count a rejection.
Rejected(ok) == rejects' = IF ok THEN rejects ELSE rejects + 1

Init ==
    /\ clusterized \in ClusterModes
    /\ loaded = FALSE
    /\ mongoMaster \in BOOLEAN
    /\ flips = 0
    /\ rejects = 0
    /\ isMaster = FALSE
    /\ storeMaster = FALSE
    /\ cyc = "idle"
    /\ sendVal = FALSE
    /\ delayed = 0
    /\ workers = {}

FinishInitialLoad ==
    /\ ~loaded
    /\ loaded' = TRUE
    /\ UNCHANGED <<rejects, clusterized, mongoMaster, flips, isMaster, storeMaster, cyc, sendVal, delayed, workers>>

Election ==
    /\ flips < MAX_FLIPS
    /\ mongoMaster' = ~mongoMaster
    /\ flips' = flips + 1
    /\ UNCHANGED <<rejects, clusterized, loaded, isMaster, storeMaster, cyc, sendVal, delayed, workers>>

(***************************************************************************)
(* background_worker(): nothing before the initial load; in a cluster it   *)
(* asks MongoDB; otherwise, if not yet master, it sends send_master_update *)
(* (true); a non-cluster server that is master does nothing.               *)
(***************************************************************************)
background_worker ==
    /\ cyc = "idle" /\ loaded /\ delayed < MAX_DELAYED
    /\ \/ clusterized /\ cyc' = "ask"
       \/ ~clusterized /\ ~isMaster /\ cyc' = "nc_send"
    /\ UNCHANGED <<rejects, clusterized, loaded, mongoMaster, flips, isMaster, storeMaster, sendVal, delayed, workers>>

(***************************************************************************)
(* The answer of MongoCtrl.is_master().  A demotion calls                  *)
(* remove_master_workers, whose TypeError skips the rest of the .then and  *)
(* lands in the .catch: is_cluster_master = false, remove_master_workers   *)
(* again, which throws again, so no send_master_update is made.  A         *)
(* rejection lands in the same .catch.  A promotion schedules the delayed  *)
(* start; then the flag takes the answer and the update is sent.           *)
(***************************************************************************)
\* The .catch without its reset of is_cluster_master.
CatchKeepsFlag ==
    /\ UNCHANGED isMaster
    /\ workers' = remove_master_workers(remove_master_workers(workers))
    /\ cyc' = "idle"
    /\ UNCHANGED <<sendVal, delayed>>

CatchDemoted ==
    /\ isMaster' = FALSE
    /\ workers' = remove_master_workers(remove_master_workers(workers))
    /\ cyc' = "idle"
    /\ UNCHANGED <<sendVal, delayed>>

is_master_answer(ok) ==
    /\ cyc = "ask"
    /\ IF ~ok \/ (~mongoMaster /\ isMaster)
         THEN CatchDemoted
         ELSE /\ delayed' = IF mongoMaster /\ ~isMaster THEN delayed + 1 ELSE delayed
              /\ isMaster' = mongoMaster
              /\ sendVal' = mongoMaster
              /\ cyc' = "send"
              /\ UNCHANGED workers
    /\ Rejected(ok)
    /\ UNCHANGED <<clusterized, loaded, mongoMaster, flips, storeMaster>>

\* The cluster path's send_master_update settles; a rejection goes to the .catch.
send_master_update_settled(ok) ==
    /\ cyc = "send"
    /\ IF ok
         THEN /\ storeMaster' = sendVal
              /\ cyc' = "idle"
              /\ UNCHANGED <<isMaster, sendVal, delayed, workers>>
         ELSE /\ CatchDemoted
              /\ UNCHANGED storeMaster
    /\ Rejected(ok)
    /\ UNCHANGED <<clusterized, loaded, mongoMaster, flips>>

(***************************************************************************)
(* The non-cluster path: after send_master_update(true) resolves,          *)
(* run_master_workers registers the workers and throws before              *)
(* is_cluster_master = true; a rejection of the send skips both.           *)
(***************************************************************************)
nc_send_settled(ok) ==
    /\ cyc = "nc_send"
    /\ storeMaster' = (IF ok THEN TRUE ELSE storeMaster)
    /\ workers' = (IF ok THEN run_master_workers(workers) ELSE workers)
    /\ cyc' = "idle"
    /\ Rejected(ok)
    /\ UNCHANGED <<clusterized, loaded, mongoMaster, flips, isMaster, sendVal, delayed>>

\* The delayed start fires: it runs the workers if system_store.is_cluster_master.
DelayedStartFires ==
    /\ delayed > 0
    /\ delayed' = delayed - 1
    /\ workers' = IF storeMaster THEN run_master_workers(workers) ELSE workers
    /\ UNCHANGED <<rejects, clusterized, loaded, mongoMaster, flips, isMaster, storeMaster, cyc, sendVal>>

Settle == \E ok \in Settles : is_master_answer(ok) \/ send_master_update_settled(ok) \/ nc_send_settled(ok)

Next ==
    \/ FinishInitialLoad
    \/ Election
    \/ background_worker
    \/ Settle
    \/ DelayedStartFires

Spec == Init /\ [][Next]_vars

(***************************************************************************)
(* Fairness.  The scheduler keeps running the cycle, the initial load      *)
(* finishes, timers fire and awaited calls settle (weak fairness).         *)
(* Elections and rejections are finitely many (MAX_FLIPS, MAX_REJECTS):    *)
(* the liveness property is about what follows the last of them.           *)
(***************************************************************************)
FairSpec ==
    /\ Spec
    /\ WF_vars(FinishInitialLoad) /\ WF_vars(background_worker)
    /\ WF_vars(Settle) /\ WF_vars(DelayedStartFires)

(***************************************************************************)
(* Properties.                                                             *)
(***************************************************************************)

(***************************************************************************)
(* In a cluster, once the replica set stops changing, the server's         *)
(* is_cluster_master and the web server's system_store.is_cluster_master   *)
(* both settle on MongoDB's answer, across the TypeError of a demotion and *)
(* rejected calls.                                                         *)
(***************************************************************************)
MasterStateFollowsMongo ==
    clusterized => <>[](isMaster = mongoMaster /\ storeMaster = mongoMaster)

(***************************************************************************)
(* A server that is not the replica-set master, has acted on it            *)
(* (is_cluster_master false, no cycle running) and has no delayed start    *)
(* pending runs none of the master workers run_master_workers started.     *)
(***************************************************************************)
WorkersStopOnDemotion ==
    (clusterized /\ ~mongoMaster /\ ~isMaster /\ cyc = "idle" /\ delayed = 0)
        => workers \cap RunWorkers = {}

=============================================================================
