----------------------------- MODULE TxBuilder -----------------------------
(***************************************************************************)
(* prepare_and_send (src/txbuilder.rs), called again and again by the      *)
(* tasks of a program.  Each task calls with one account; several tasks    *)
(* may share an account, and nothing in the library serialises them.       *)
(*                                                                         *)
(* The poll that ends a call is the loop of Poll without its clock: what   *)
(* AwaitTx promises is what is used of it.                                 *)
(***************************************************************************)
EXTENDS Network, FiniteSets

CONSTANTS
  Task,
  Source,     \* the account each task calls with
  Ops,        \* the operations each task calls with
  MaxCalls    \* bound: how many calls each task makes

ASSUME TxBuilderAssumption ==
  /\ Source \in [Task -> Account]
  /\ Ops \in [Task -> SUBSET Operation]
  /\ MaxCalls \in [Task -> Nat]

VARIABLES
  pc,      \* where each task's call is
  n,       \* the number of the call: 1 for the task's first
  tx,      \* its transaction, a draft until the call has built it
  calls    \* what every call that has returned told its caller (history)

taskVars == <<pc, n, tx, calls>>
vars == <<netVars, taskVars>>

BuilderLabels == {"idle", "account", "prepare", "sign", "send", "poll", "wait"}

Kinds == {"Ok", "TransactionFailed", "Timeout", "Rpc", "Panic", "Simulation",
          "Signer", "Cancelled"}

(* A draft has its operation and no number yet.                              *)
Draft == [source : Account, seq : {0}, op : Operation]

Call == [task : Task, n : Nat \ {0}, kind : Kinds, tx : Tx \cup Draft]

TypeOK ==
  /\ NetTypeOK
  /\ pc \in [Task -> BuilderLabels]
  /\ n \in [Task -> Nat]
  /\ tx \in [Task -> Tx \cup Draft \cup {NoTx}]
  /\ calls \subseteq Call

TaskInit ==
  /\ pc = [t \in Task |-> "idle"]
  /\ n = [t \in Task |-> 0]
  /\ tx = [t \in Task |-> NoTx]
  /\ calls = {}

Init == NetInit /\ TaskInit

-----------------------------------------------------------------------------
(* prepare_and_send *)

Goto(t, label) == pc' = [pc EXCEPT ![t] = label]

Return(t, kind) ==
  /\ Goto(t, "idle")
  /\ calls' = calls \cup
       {[task |-> t, n |-> n[t], kind |-> kind, tx |-> tx[t]]}
  /\ UNCHANGED <<n, tx>>

Begin(t, o, label) ==
  /\ pc[t] = "idle"
  /\ n[t] < MaxCalls[t]
  /\ Goto(t, label)
  /\ n' = [n EXCEPT ![t] = @ + 1]
  /\ tx' = [tx EXCEPT ![t] = [source |-> Source[t], seq |-> 0, op |-> o]]
  /\ UNCHANGED <<netVars, calls>>

(* Faulty variants of Build: the account's last number used once more; the   *)
(* account of the task's first call kept for the later ones.                 *)
BuildReusesSequence(t) == [tx[t] EXCEPT !.seq = seq[Source[t]]]

BuildKeepsAccount(t) ==
  LET numbers == {c.tx.seq : c \in {d \in calls : d.task = t /\ d.tx.seq # 0}}
  IN  [tx[t] EXCEPT !.seq = IF numbers = {} THEN seq[Source[t]] + 1
                            ELSE CHOOSE s \in numbers : TRUE]

(* TransactionBuilder::build takes the number after the account's.           *)
Build(t) == [tx[t] EXCEPT !.seq = seq[Source[t]] + 1]

GetAccount(t) ==
  /\ pc[t] = "account"
  /\ \/ /\ tx' = [tx EXCEPT ![t] = Build(t)]
        /\ Goto(t, "prepare")
        /\ UNCHANGED <<n, calls>>
     \/ Return(t, "Rpc")
  /\ UNCHANGED netVars

Prepare(t) ==
  /\ pc[t] = "prepare"
  /\ \/ Goto(t, "sign") /\ UNCHANGED <<n, tx, calls>>
     \/ Return(t, "Simulation")
  /\ UNCHANGED netVars

Sign(t) ==
  /\ pc[t] = "sign"
  /\ \/ Goto(t, "send") /\ UNCHANGED <<n, tx, calls>>
     \/ Return(t, "Signer")
  /\ UNCHANGED netVars

(* Faulty variant of Send: its transport errors reported as Prepare's.       *)
SendErrorAsSimulation(t) ==
  /\ pc[t] = "send"
  /\ \/ /\ Receive(tx[t])
        /\ Goto(t, "poll")
        /\ UNCHANGED <<wire, n, tx, calls>>
     \/ /\ wire' = wire \cup {tx[t]}
        /\ Return(t, "Simulation")
        /\ UNCHANGED <<seq, pending, succeeded, failed>>

(* The status in the node's answer is dropped, so a transaction the node     *)
(* turned away is waited for like any other.  A call that fails leaves the   *)
(* transaction on the wire: lost, or late.                                   *)
Send(t) ==
  /\ pc[t] = "send"
  /\ \/ /\ Receive(tx[t])
        /\ Goto(t, "poll")
        /\ UNCHANGED <<wire, n, tx, calls>>
     \/ /\ wire' = wire \cup {tx[t]}
        /\ Return(t, "Rpc")
        /\ UNCHANGED <<seq, pending, succeeded, failed>>

(* Faulty variants of Poll: a transaction not yet found reported as final;   *)
(* any final status reported as success; a wait that never gives up, not even*)
(* on an error.                                                              *)
PollOnce(t) ==
  /\ pc[t] \in {"poll", "wait"}
  /\ \/ Status(tx[t]) = "Success" /\ Return(t, "Ok")
     \/ Status(tx[t]) # "Success" /\ Return(t, "TransactionFailed")
  /\ UNCHANGED netVars

PollAnyVerdictIsOk(t) ==
  /\ pc[t] \in {"poll", "wait"}
  /\ \/ Status(tx[t]) # "NotFound" /\ Return(t, "Ok")
     \/ /\ Status(tx[t]) = "NotFound"
        /\ Goto(t, "wait")
        /\ UNCHANGED <<n, tx, calls>>
     \/ pc[t] = "wait" /\ Return(t, "Timeout")
  /\ UNCHANGED netVars

PollForever(t) ==
  /\ pc[t] \in {"poll", "wait"}
  /\ \/ Status(tx[t]) = "Success" /\ Return(t, "Ok")
     \/ Status(tx[t]) = "Failed" /\ Return(t, "TransactionFailed")
     \/ /\ Status(tx[t]) = "NotFound"
        /\ Goto(t, "wait")
        /\ UNCHANGED <<n, tx, calls>>
  /\ UNCHANGED netVars

(* One turn of the poll: a final answer ends it, NotFound goes round again   *)
(* or, once it has been seen, lets the timeout end it, and a failed call     *)
(* ends it at once.                                                          *)
Poll(t) ==
  /\ pc[t] \in {"poll", "wait"}
  /\ \/ Status(tx[t]) = "Success" /\ Return(t, "Ok")
     \/ Status(tx[t]) = "Failed" /\ Return(t, "TransactionFailed")
     \/ /\ Status(tx[t]) = "NotFound"
        /\ Goto(t, "wait")
        /\ UNCHANGED <<n, tx, calls>>
     \/ pc[t] = "wait" /\ Return(t, "Timeout")
     \/ Return(t, "Rpc")
     \/ pc[t] = "poll" /\ Return(t, "Panic")
  /\ UNCHANGED netVars

(* The caller gives the call up at one of its awaits: a timeout of its own   *)
(* around the future, or the end of its process.  A submission being made    *)
(* may have left.  Nothing is kept of the call.                              *)
Cancel(t) ==
  /\ pc[t] # "idle"
  /\ Return(t, "Cancelled")
  /\ \/ wire' = wire
     \/ pc[t] = "send" /\ wire' = wire \cup {tx[t]}
  /\ UNCHANGED <<seq, pending, succeeded, failed>>

Submission(t) == GetAccount(t) \/ Prepare(t) \/ Sign(t) \/ Send(t) \/ Poll(t)

-----------------------------------------------------------------------------

Environment ==
  \/ /\ \/ \E x \in wire : Arrive(x)
        \/ \E x \in pending, ok \in BOOLEAN : Apply(x, ok)
        \/ \E x \in pending : Evict(x)
  /\ UNCHANGED taskVars

Next ==
  \/ \E t \in Task : \E o \in Ops[t] : Begin(t, o, "account")
  \/ \E t \in Task : Submission(t) \/ Cancel(t)
  \/ Environment

Spec == Init /\ [][Next]_vars

(* A task that has called goes on: every await ends, and the poll's timeout  *)
(* comes (Poll's Returns).  Nothing is asked of the network.                 *)
FairSpec == Spec /\ \A t \in Task : WF_vars(Submission(t))

-----------------------------------------------------------------------------
(* Properties *)

Landed == {"Ok", "TransactionFailed"}               \* the ledger has decided
Unknown == {"Timeout", "Rpc", "Panic", "Cancelled"} \* it may have been sent

(* What a call tells its caller is what the ledger says, for good: an Ok is  *)
(* a transaction that succeeded, a TransactionFailed one that failed.        *)
ConfirmedOnLedger ==
  \A c \in calls :
    /\ c.kind = "Ok" => c.tx \in succeeded
    /\ c.kind = "TransactionFailed" => c.tx \in failed

(* Two confirmed calls of a task are two transactions: a confirmation is     *)
(* never that of an earlier call seen again, though the operations may be    *)
(* equal and the hash is all the poll has to go by.                          *)
FreshConfirmation ==
  \A c, d \in calls :
    c.task = d.task /\ c.n # d.n /\ c.kind \in Landed /\ d.kind \in Landed
      => c.tx # d.tx

(* Nothing lands that no call has sent: an operation whose call ended in a   *)
(* simulation or signer error can be corrected and tried again without its   *)
(* first form ever taking effect.                                            *)
OnlyWhatWasSent ==
  \A x \in Ledger \cup pending \cup wire :
    \/ \E t \in Task : pc[t] \in {"poll", "wait"} /\ tx[t] = x
    \/ \E c \in calls : c.kind \in Landed \cup Unknown /\ c.tx = x

(* A landed call settles what was left open before it: once the ledger has   *)
(* decided a later call of the task, no earlier call's transaction, timed    *)
(* out or lost on the way as it may be, can be applied any more.  The fresh  *)
(* account of every call makes it so.                                        *)
Settles ==
  [][\A c, d \in calls :
       /\ c.task = d.task /\ c.n < d.n
       /\ d.kind \in Landed
       /\ c.tx \in Ledger'
       => c.tx \in Ledger]_vars

(* The contents the calls may have submitted, and those they have built.     *)
Submitted ==
  {[task |-> c.task, n |-> c.n, entry |-> c.tx] :
     c \in {d \in calls : d.kind \in Landed \cup Unknown}}
  \cup
  {[task |-> t, n |-> n[t], entry |-> tx[t]] :
     t \in {u \in Task : pc[u] \in {"poll", "wait"}}}

Drafted ==
  {[task |-> c.task, n |-> c.n, entry |-> c.tx] : c \in calls}
  \cup {[task |-> t, n |-> n[t], entry |-> tx[t]] : t \in Task}

(* An entry of the ledger settles the calls that may have submitted it.  If  *)
(* there is none, it is the work of one that has built it and says otherwise.*)
Settled(ledger) ==
  {s \in Submitted \cup Drafted :
     /\ s.entry \in ledger
     /\ s \in Submitted \/ \A r \in Submitted : r.entry # s.entry}

Open == {t \in Task : pc[t] # "idle"}

ClassOf(kind) ==
  IF kind \in Landed THEN kind
  ELSE IF kind \in Unknown THEN "Unknown" ELSE "Refused"

Told == {[task |-> c.task, n |-> c.n, class |-> ClassOf(c.kind)] : c \in calls}

Promise == INSTANCE Outcome WITH
  Task   <- Task,
  n      <- n,
  open   <- Open,
  done   <- Settled(succeeded),
  failed <- Settled(failed),
  told   <- Told

(* The calls keep the promise of Outcome: the ledger settles a task's calls  *)
(* in the order they were made, a verdict told is the one that settled the   *)
(* call and is told to one call of the task, and a call whose caller was     *)
(* told Simulation or Signer is never settled.                               *)
ImplementsOutcome == Promise!Spec

(* Every call returns, whatever becomes of its transaction.                  *)
EveryCallReturns == \A t \in Task : pc[t] # "idle" ~> pc[t] = "idle"
=============================================================================
