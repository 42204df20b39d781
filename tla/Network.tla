------------------------------ MODULE Network ------------------------------
(***************************************************************************)
(* The Soroban network as the library meets it through its RPC node: the   *)
(* sequence number of each account, the transactions on their way to the   *)
(* node, those the node has queued, and the ledger's verdicts.  None of it *)
(* is code of the repository.                                              *)
(*                                                                         *)
(* A transaction is known by its hash, so it is its content: two tasks     *)
(* that build the same content have built the same transaction.            *)
(***************************************************************************)
EXTENDS Naturals

CONSTANTS Account, Operation

VARIABLES
  seq,         \* the sequence number each account has reached on the ledger
  wire,        \* submissions whose request failed and which may still arrive
  pending,     \* transactions the node has queued
  succeeded,   \* transactions on the ledger, by their outcome
  failed

netVars == <<seq, wire, pending, succeeded, failed>>

Tx == [source : Account, seq : Nat \ {0}, op : Operation]

NoTx == [source |-> "none"]

NetTypeOK ==
  /\ seq \in [Account -> Nat]
  /\ wire \subseteq Tx
  /\ pending \subseteq Tx
  /\ succeeded \subseteq Tx
  /\ failed \subseteq Tx

NetInit ==
  /\ seq = [a \in Account |-> 0]
  /\ wire = {}
  /\ pending = {}
  /\ succeeded = {}
  /\ failed = {}

Ledger == succeeded \cup failed

(* getTransaction *)
Status(x) ==
  IF x \in succeeded THEN "Success"
  ELSE IF x \in failed THEN "Failed" ELSE "NotFound"

(* sendTransaction queues a transaction that is next in its account's        *)
(* sequence when nothing else of that account is queued.  Everything else is *)
(* an ERROR, DUPLICATE or TRY_AGAIN_LATER, and so is a queue that is full.   *)
Admissible(x) ==
  /\ x.seq = seq[x.source] + 1
  /\ \A y \in pending : y.source # x.source

Receive(x) ==
  /\ \/ Admissible(x) /\ pending' = pending \cup {x}
     \/ pending' = pending
  /\ UNCHANGED <<seq, succeeded, failed>>

(* A request given up on by its sender reaches the node after all.           *)
Arrive(x) ==
  /\ x \in wire
  /\ wire' = wire \ {x}
  /\ Receive(x)

(* A ledger closes with x in it: the sequence number is used up whether the  *)
(* operation succeeds or not.                                                *)
Apply(x, ok) ==
  /\ x \in pending
  /\ x.seq = seq[x.source] + 1
  /\ seq' = [seq EXCEPT ![x.source] = x.seq]
  /\ pending' = pending \ {x}
  /\ succeeded' = IF ok THEN succeeded \cup {x} ELSE succeeded
  /\ failed' = IF ok THEN failed ELSE failed \cup {x}
  /\ UNCHANGED wire

(* The node drops a transaction it had queued: outbid, or too long in queue. *)
Evict(x) ==
  /\ x \in pending
  /\ pending' = pending \ {x}
  /\ UNCHANGED <<seq, wire, succeeded, failed>>
=============================================================================
