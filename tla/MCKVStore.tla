----------------------------- MODULE MCKVStore -----------------------------
(***************************************************************************)
(* Small instances of KVStore for TLC: two transactions, the first shared   *)
(* by two goroutines.                                                      *)
(***************************************************************************)
EXTENDS KVStore, TLC

CONSTANTS t1, t2, w1, w2, w3

MCTxOf == (w1 :> t1) @@ (w2 :> t1) @@ (w3 :> t2)

=============================================================================
