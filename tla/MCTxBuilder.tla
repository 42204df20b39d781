---------------------------- MODULE MCTxBuilder ----------------------------
(* Two tasks on one account, free to build one and the same transaction and *)
(* free to build two that compete for one sequence number; the first calls  *)
(* again after whatever its first call has come to.                         *)
EXTENDS TxBuilder, TLC

CONSTANTS t1, t2, alice, transfer, approve

MCSource == (t1 :> alice @@ t2 :> alice)

MCOps == (t1 :> Operation @@ t2 :> Operation)

MCMaxCalls == (t1 :> 2 @@ t2 :> 1)
=============================================================================
