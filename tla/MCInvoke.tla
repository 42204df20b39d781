------------------------------ MODULE MCInvoke ------------------------------
(* One account, two tasks.  The first sets one cell, each time to either of *)
(* two values, one of which the cell has to begin with, so that a skip can  *)
(* come before a timed-out write lands; the second sets its own cell or gets*)
(* in the first's way.                                                      *)
EXTENDS Invoke, TLC

CONSTANTS t1, t2, alice, k1, k2

Set(k, v) == [cell |-> k, value |-> v]

MCOperation == {Set(k1, 1), Set(k1, 2), Set(k2, 2)}
MCSource == (t1 :> alice @@ t2 :> alice)
MCOps == (t1 :> {Set(k1, 1), Set(k1, 2)} @@ t2 :> {Set(k1, 2), Set(k2, 2)})
MCMaxCalls == (t1 :> 2 @@ t2 :> 1)
=============================================================================
