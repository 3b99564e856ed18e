---------------------------- MODULE MCTierServer ----------------------------
(***************************************************************************)
(* Model-checking instance of TierServer: two node pools and one cloud     *)
(* pool, sizes on a petabyte of 4 bytes (a double of 5 significant bits).  *)
(***************************************************************************)
EXTENDS TierServer

CONSTANTS n1, n2, c1, ta, tb

\* Pool lists a caller may send: the right class, the wrong class, empty.
MC_PoolListArgs == {<<>>, <<n1>>, <<n2>>, <<n1, n2>>, <<c1>>}
MC_CloudOnlyArgs == {<<>>, <<c1>>}
MC_NodeOnlyArgs == {<<n1>>, <<n1, n2>>}
MC_TierListArgs == {<<ta>>, <<ta, tb>>}
MC_OneTierList == {<<ta>>}
MC_TwoTierList == {<<ta, tb>>}
MC_NoCloudArgs == {<<>>}
MC_OneNodeArgs == {<<n1>>}

\* Reported sizes: zero, below a petabyte, and one past it (1 PB + 1).
MC_SIZES == {Num(0), Num(3), Obj(1, 1)}
MC_SIZES_SMALL == {Num(0), Num(2)}
MC_SIZES_ZERO == {Num(0)}

MC_KEYS == {"free", "total", "real"}
MC_FREE_KEYS == {"free", "real"}
=============================================================================
