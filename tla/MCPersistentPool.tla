-------------------------- MODULE MCPersistentPool --------------------------
(* Instances of the worker pool for TLC: job sizes below and above the      *)
(* number of lanes, so that shards are empty and uneven.                    *)
EXTENDS PersistentPool

MCJobSizes == {1, 4}
=============================================================================
