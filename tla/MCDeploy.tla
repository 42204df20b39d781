------------------------------ MODULE MCDeploy ------------------------------
(* Two tasks with one wasm and one account: the first has the rounds for a  *)
(* deploy_contract, or two single requests, the second for one request.     *)
EXTENDS Deploy, TLC

CONSTANTS t1, t2, alice, token

MCSource == (t1 :> alice @@ t2 :> alice)

MCOperation ==
  [kind : {"upload"}, wasm : Wasm] \cup
  [kind : {"create"}, wasm : Wasm, salt : Task \X {1, 2}]

MCOps == [t \in Task |-> Operation]
MCMaxCalls == (t1 :> 2 @@ t2 :> 1)
=============================================================================
