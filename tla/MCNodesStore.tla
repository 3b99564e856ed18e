---------------------------- MODULE MCNodesStore ----------------------------
EXTENDS NodesStore

CONSTANTS i1, i2

\* The monitor's full list, in a fixed order.
MC_ItemOrder == <<i1, i2>>

=============================================================================
