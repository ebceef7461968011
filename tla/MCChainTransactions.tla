--------------------------- MODULE MCChainTransactions --------------------------
(* Instances of ChainTransactions for TLC. *)
EXTENDS ChainTransactionsLive

================================================================================
