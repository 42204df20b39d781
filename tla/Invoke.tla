------------------------------- MODULE Invoke -------------------------------
(***************************************************************************)
(* invoke_contract (src/invoke.rs): simulate, skip the transaction         *)
(* when nothing would change, otherwise take a fee and prepare_and_send.   *)
(*                                                                         *)
(* The contract is a store of cells and the operations are its idempotent  *)
(* ones, "set this cell to this value" (the set-role call of the comment   *)
(* on InvokeOutcome).  The simulation reads the store when the node serves *)
(* it; the transaction writes it when the ledger applies it.               *)
(***************************************************************************)
EXTENDS TxBuilder

CONSTANTS
  Cell,
  Value,
  Unset     \* the value of a cell that was never written

ASSUME InvokeAssumption ==
  /\ Operation \subseteq [cell : Cell, value : Value]
  /\ Unset \in Value

VARIABLES
  store,
  overtaken  \* calls another write of whose cell has come in between (history)

cellVars == <<store, overtaken>>
invokeVars == <<vars, cellVars>>

InvokeLabels == BuilderLabels \cup {"simAccount", "simulate", "fee"}
InvokeKinds == Kinds \cup {"Xdr", "Skipped"}

InvokeTypeOK ==
  /\ NetTypeOK
  /\ store \in [Cell -> Value]
  /\ pc \in [Task -> InvokeLabels]
  /\ n \in [Task -> Nat]
  /\ tx \in [Task -> Tx \cup Draft \cup {NoTx}]
  /\ calls \subseteq
       [task : Task, n : Nat \ {0}, kind : InvokeKinds, tx : Tx \cup Draft]
  /\ overtaken \subseteq [task : Task, n : Nat \ {0}]

InvokeInit ==
  /\ Init
  /\ store = [k \in Cell |-> Unset]
  /\ overtaken = {}

-----------------------------------------------------------------------------

(* Client's build_signer, encoding the operation, and get_account of         *)
(* build_and_simulate.                                                       *)
SimulateAccount(t) ==
  /\ pc[t] = "simAccount"
  /\ \/ \E kind \in {"Signer", "Xdr", "Rpc"} : Return(t, kind)
     \/ Goto(t, "simulate") /\ UNCHANGED <<n, tx, calls>>
  /\ UNCHANGED <<netVars, cellVars>>

Changes(o) == store[o.cell] # o.value

(* Faulty variants of Simulate: its errors taken for a simulation without    *)
(* changes; the missing changes not looked at.                               *)
SimulateErrorAsSkip(t) ==
  /\ pc[t] = "simulate"
  /\ \/ Return(t, "Skipped")
     \/ Changes(tx[t].op) /\ Goto(t, "fee") /\ UNCHANGED <<n, tx, calls>>
  /\ UNCHANGED <<netVars, cellVars>>

SimulateNeverSkips(t) ==
  /\ pc[t] = "simulate"
  /\ \/ Return(t, "Simulation")
     \/ Goto(t, "fee") /\ UNCHANGED <<n, tx, calls>>
  /\ UNCHANGED <<netVars, cellVars>>

(* An error, of the call or in its answer, is the caller's; an answer with   *)
(* no state changes ends the call with nothing submitted.                    *)
Simulate(t) ==
  /\ pc[t] = "simulate"
  /\ \/ Return(t, "Simulation")
     \/ ~ Changes(tx[t].op) /\ Return(t, "Skipped")
     \/ Changes(tx[t].op) /\ Goto(t, "fee") /\ UNCHANGED <<n, tx, calls>>
  /\ UNCHANGED <<netVars, cellVars>>

(* recommended_inclusion_fee cannot fail the call: unwrap_or(MIN_BASE_FEE).  *)
TakeFee(t) ==
  /\ pc[t] = "fee"
  /\ Goto(t, "account")
  /\ UNCHANGED <<netVars, n, tx, calls, cellVars>>

Invocation(t) ==
  \/ SimulateAccount(t)
  \/ Simulate(t)
  \/ TakeFee(t)
  \/ Submission(t) /\ UNCHANGED cellVars

(* The calls whose simulation has seen that they would change their cell.    *)
Simulated ==
  {[task |-> c.task, n |-> c.n, entry |-> c.tx] :
     c \in {d \in calls : d.tx.seq # 0}}
  \cup
  {[task |-> t, n |-> n[t], entry |-> tx[t]] :
     t \in {u \in Task : pc[u] \notin {"idle", "simAccount", "simulate"}}}

(* Those among them for which x is another's write of their cell: a call of  *)
(* another task has sent it, or an earlier call of their own.                *)
OvertakenBy(x) ==
  {[task |-> s.task, n |-> s.n] :
     s \in {r \in Simulated :
              /\ r.entry.op.cell = x.op.cell
              /\ \E u \in Submitted :
                   u.entry = x /\ (u.task # r.task \/ u.n < r.n)}}

(* The ledger applies a transaction, and with it the operation if it is good.*)
Close ==
  \E x \in pending, ok \in BOOLEAN :
    /\ Apply(x, ok)
    /\ \/ /\ ok
          /\ store' = [store EXCEPT ![x.op.cell] = x.op.value]
          /\ overtaken' = overtaken \cup OvertakenBy(x)
       \/ ~ ok /\ UNCHANGED cellVars
    /\ UNCHANGED taskVars

BetweenLedgers ==
  \/ \E t \in Task : \E o \in Ops[t] :
       Begin(t, o, "simAccount") /\ UNCHANGED cellVars
  \/ \E t \in Task : Invocation(t)
  \/ \E t \in Task : Cancel(t) /\ UNCHANGED cellVars
  \/ \E x \in wire : Arrive(x) /\ UNCHANGED <<taskVars, cellVars>>
  \/ \E x \in pending : Evict(x) /\ UNCHANGED <<taskVars, cellVars>>

InvokeNext == BetweenLedgers \/ Close

InvokeSpec == InvokeInit /\ [][InvokeNext]_invokeVars

-----------------------------------------------------------------------------
(* Properties *)

Of(t, k) == {c \in calls : c.task = t /\ c.tx.op.cell = k}

(* t alone has ever called with an operation on cell k.                      *)
SoleWriter(t, k) ==
  \A u \in Task \ {t} :
    /\ Of(u, k) = {}
    /\ tx[u] # NoTx => tx[u].op.cell # k

(* Call u may land after call c for all that t knows when c has returned: its *)
(* end is unknown, and no landed call has settled it, c at the latest.       *)
LeftOpen(u, c) ==
  /\ u.kind \in Unknown
  /\ \A d \in calls :
       d.task = u.task /\ u.n < d.n /\ d.n <= c.n => d.kind \notin Landed

(* What the sole writer of a cell has been told is what the cell holds:      *)
(* after Executed or SkippedNoStateChange, and until its next call that may  *)
(* write it, the cell has the value it was set to.  All that can have come   *)
(* between is a transaction of its own, from a call with an unknown end that *)
(* was made later or that no landed call had settled by then: a skip settles *)
(* nothing, and a timed-out transaction may land after it.                   *)
ViewAgrees ==
  \A t \in Task, k \in Cell : SoleWriter(t, k) =>
    \A c \in Of(t, k) :
      /\ c.kind \in {"Ok", "Skipped"}
      /\ \A d \in Of(t, k) : d.n > c.n => d.kind # "Ok"
      /\ pc[t] # "idle" => tx[t].op.cell # k
      => \/ store[k] = c.tx.op.value
         \/ \E u \in Of(t, k) :
              LeftOpen(u, c) /\ u.tx \in succeeded /\ store[k] = u.tx.op.value

(* "Avoids paying for a submission that wouldn't do anything" (the comment   *)
(* on invoke_contract), races included: a transaction that succeeds and      *)
(* changes nothing has been overtaken.  Between its simulation and the ledger*)
(* that applies it its cell was written by another task, or by a transaction *)
(* an earlier call of its own had left open.                                 *)
PaysForChange ==
  [][\A x \in succeeded' \ succeeded : store' = store =>
       \A s \in Simulated :
         s.entry = x => [task |-> s.task, n |-> s.n] \in overtaken
    ]_invokeVars
=============================================================================
