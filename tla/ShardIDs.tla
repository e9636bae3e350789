------------------------------ MODULE ShardIDs ------------------------------
(***************************************************************************)
(* The names of the shards, which the ring and the shard map share: the    *)
(* string that Ring.ShardFor returns is the one Map.Get is asked for.      *)
(***************************************************************************)
CONSTANT Shards     \* shard IDs
=============================================================================
