--------------------------- MODULE MCClusterMaster ---------------------------
(* ClusterMaster under the configurations the cfgs choose. *)
EXTENDS ClusterMaster

=============================================================================
