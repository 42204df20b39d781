------------------------------ MODULE AwaitTx ------------------------------
(***************************************************************************)
(* What waiting for a transaction promises, with no clock and no loop: an  *)
(* answer is a snapshot of the ledger's verdict, a final verdict is handed *)
(* on as it is, and a wait is given up only on an answer that was still    *)
(* NotFound.  Poll implements it; TxBuilder builds on it.                  *)
(***************************************************************************)

VARIABLES status,     \* the ledger's verdict on the transaction
          response,   \* the last answer of getTransaction, "None" before one
          result      \* what the caller was told, "None" while it waits

vars == <<status, response, result>>

Verdicts  == {"NotFound", "Success", "Failed"}
Responses == Verdicts \cup {"None"}
Results   == {"None", "Ok", "TransactionFailed", "Timeout", "Rpc", "Panic"}

Init ==
  /\ status = "NotFound"
  /\ response = "None"
  /\ result = "None"

(* The ledger closes with the transaction in it, once. *)
Finalize ==
  /\ status = "NotFound"
  /\ status' \in {"Success", "Failed"}
  /\ UNCHANGED <<response, result>>

Ask ==
  /\ result = "None"
  /\ response \in {"None", "NotFound"}
  /\ response' = status
  /\ UNCHANGED <<status, result>>

Deliver ==
  /\ result = "None"
  /\ \/ response = "Success" /\ result' = "Ok"
     \/ response = "Failed" /\ result' = "TransactionFailed"
  /\ UNCHANGED <<status, response>>

GiveUp ==
  /\ result = "None"
  /\ \/ response = "NotFound" /\ result' = "Timeout"
     \/ response \in {"None", "NotFound"} /\ result' = "Rpc"
     \/ response = "None" /\ result' = "Panic"
  /\ UNCHANGED <<status, response>>

Next == Finalize \/ Ask \/ Deliver \/ GiveUp

Spec == Init /\ [][Next]_vars
=============================================================================
