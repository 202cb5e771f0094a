----------------------------- MODULE MCKVStore -----------------------------
(* Small instances of KVStore for TLC: the times to live callers give.       *)
EXTENDS KVStore

ForEverOrOne == {0, 1}
=============================================================================
