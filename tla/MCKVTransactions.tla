--------------------------- MODULE MCKVTransactions ---------------------------
(* KVTransactions on a few transactions and keys. *)
EXTENDS KVTransactions, TLC

TxSymmetry == Permutations(Tx) \cup Permutations(Keys)
=============================================================================
