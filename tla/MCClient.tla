------------------------------ MODULE MCClient ------------------------------
(* A task that calls twice to set a cell, and a reader with one question of *)
(* any kind; two ledgers close after the first.                             *)
EXTENDS Client, TLC

CONSTANTS t1, r1, alice, k1, h1, h2

MCOperation == {[cell |-> k1, value |-> 1]}
MCSource == (t1 :> alice)
MCOps == (t1 :> MCOperation)
MCMaxCalls == (t1 :> 2)

MCQuestion ==
  {[kind |-> "read", cell |-> k1],
   [kind |-> "account_sequence", account |-> alice],
   [kind |-> "latest_ledger"],
   [kind |-> "wasm_hash_of"],
   [kind |-> "wasm_ttl", hash |-> h1]}
=============================================================================
