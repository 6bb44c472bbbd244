------------------------------ MODULE MCKVStore ------------------------------
(* KVStore on a few transactions, keys and tables. *)
EXTENDS KVStore, TLC

TxSymmetry == Permutations(Tx)
=============================================================================
