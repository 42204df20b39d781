------------------------------- MODULE MCTtl -------------------------------
(* Two tasks on one account.  The persistent entry may have expired or be   *)
(* about to; the temporary one may never have been.                         *)
EXTENDS Ttl, TLC

CONSTANTS t1, t2, alice, balance, nonce

MCSource == (t1 :> alice @@ t2 :> alice)

MCExtension == { [key |-> balance, to |-> 9], [key |-> nonce, to |-> 9] }

MCOperation == [kind : {"extend", "restore"}, key : Key, to : {9}]
=============================================================================
