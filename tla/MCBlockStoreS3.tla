--------------------------- MODULE MCBlockStoreS3 ---------------------------
(* Model values for BlockStoreS3: two block ids and two concurrent writes. *)
EXTENDS BlockStoreS3

CONSTANTS b1, b2, w1, w2

=============================================================================
