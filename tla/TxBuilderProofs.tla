-------------------------- MODULE TxBuilderProofs --------------------------
(***************************************************************************)
(* For every number of tasks, however they share accounts: what a call     *)
(* reports is the ledger's, a confirmation is never an old one seen again, *)
(* nothing lands unsent, a landed call settles the calls before it; and so *)
(* the calls of prepare_and_send keep the promise of Outcome.              *)
(*                                                                         *)
(* The invariant leaves open what a call does before it fetches its account*)
(* and how a call may end besides: Deploy's and Invoke's proofs use it too.*)
(***************************************************************************)
EXTENDS TxBuilder, TLAPS

Built == {"prepare", "sign", "send", "poll", "wait"}   \* tx[t] is this call's

Early == {"simAccount", "simulate", "fee", "account"}  \* it is a draft

(* TypeOK with the labels and the kinds of end that a call has in Deploy and *)
(* Invoke besides.                                                           *)
AnyLabel == Built \cup Early \cup {"idle"}

AnyKind == Kinds \cup {"Xdr", "Skipped"}

Recorded == [task : Task, n : Nat \ {0}, kind : AnyKind, tx : Tx \cup Draft]

Typed ==
  /\ NetTypeOK
  /\ pc \in [Task -> AnyLabel]
  /\ n \in [Task -> Nat]
  /\ tx \in [Task -> Tx \cup Draft \cup {NoTx}]
  /\ calls \subseteq Recorded

(* A number is used up when it reaches the ledger, once.                     *)
LedgerInv ==
  /\ \A x \in Ledger : x.seq <= seq[x.source]
  /\ succeeded \cap failed = {}

(* A transaction is built with the number after its account's, which only    *)
(* grows afterwards.                                                         *)
BuiltInv ==
  \A t \in Task : pc[t] \in Built =>
    /\ tx[t] \in Tx
    /\ tx[t].source = Source[t]
    /\ tx[t].seq <= seq[Source[t]] + 1

CallInv ==
  \A c \in calls :
    /\ c.n <= n[c.task]
    /\ pc[c.task] # "idle" => c.n < n[c.task]
    /\ c.tx \in Tx => /\ c.tx.source = Source[c.task]
                      /\ c.tx.seq <= seq[Source[c.task]] + 1

(* The transaction in hand comes no earlier in the account's sequence than   *)
(* those of the task's past calls, and after those that have landed.         *)
CurrentInv ==
  \A c \in calls : pc[c.task] \in Built =>
    /\ c.tx \in Tx => c.tx.seq <= tx[c.task].seq
    /\ c.kind \in Landed => c.tx.seq < tx[c.task].seq

(* The same between two calls that have returned.                            *)
OrderInv ==
  \A c, d \in calls :
    c.task = d.task /\ c.n < d.n /\ d.tx \in Tx =>
      /\ c.tx \in Tx => c.tx.seq <= d.tx.seq
      /\ c.kind \in Landed => c.tx.seq < d.tx.seq

(* A call returns once.                                                      *)
OnceInv == \A c, d \in calls : c.task = d.task /\ c.n = d.n => c = d

Inv ==
  /\ Typed
  /\ LedgerInv
  /\ BuiltInv
  /\ CallInv
  /\ CurrentInv
  /\ OrderInv
  /\ OnceInv
  /\ ConfirmedOnLedger
  /\ OnlyWhatWasSent

(* What most steps keep whole, apart from the typing and the attribution.    *)
Order ==
  /\ LedgerInv /\ BuiltInv /\ CallInv /\ CurrentInv /\ OrderInv /\ OnceInv
  /\ ConfirmedOnLedger

USE TxBuilderAssumption DEF Landed, Unknown, Kinds, BuilderLabels, Built, Early, AnyLabel, AnyKind

LEMMA BuilderInit == Init => Inv
  BY DEF Init, NetInit, TaskInit, Inv, Typed, NetTypeOK, LedgerInv, BuiltInv,
     CallInv, CurrentInv, OrderInv, OnceInv, ConfirmedOnLedger, OnlyWhatWasSent,
     Ledger, Built

(* What a returning call adds to the history is typed.                       *)
LEMMA ReturnTypes ==
  ASSUME Typed, NEW t \in Task, NEW kind \in AnyKind, Return(t, kind),
         pc[t] # "idle", n[t] # 0, tx[t] # NoTx
  PROVE  /\ pc' \in [Task -> AnyLabel]
         /\ n' \in [Task -> Nat]
         /\ tx' \in [Task -> Tx \cup Draft \cup {NoTx}]
         /\ calls' \subseteq Recorded
  <1>1. n[t] \in Nat \ {0} /\ tx[t] \in Tx \cup Draft
    BY DEF Typed
  <1>2. [task |-> t, n |-> n[t], kind |-> kind, tx |-> tx[t]] \in Recorded
    BY <1>1 DEF Typed, Recorded
  <1>3. QED
    BY <1>2 DEF Return, Goto, Typed

(* A call that returns keeps the order: a landed one had its transaction in  *)
(* the ledger, and what the call had built is what the history records.      *)
LEMMA ReturnOrder ==
  ASSUME Typed, Order, NEW t \in Task, NEW kind \in AnyKind, Return(t, kind),
         pc[t] # "idle", UNCHANGED <<seq, succeeded, failed>>,
         tx[t] \in Tx => pc[t] \in Built,
         kind = "Ok" => pc[t] \in Built /\ tx[t] \in succeeded,
         kind = "TransactionFailed" => pc[t] \in Built /\ tx[t] \in failed
  PROVE  Order'
  <1> DEFINE r == [task |-> t, n |-> n[t], kind |-> kind, tx |-> tx[t]]
  <1> USE DEF Order
  <1>1. /\ calls' = calls \cup {r}
        /\ pc' = [pc EXCEPT ![t] = "idle"]
        /\ n' = n /\ tx' = tx /\ seq' = seq
        /\ succeeded' = succeeded /\ failed' = failed
    BY DEF Return, Goto
  <1>2. /\ r.task = t /\ r.n = n[t] /\ r.kind = kind /\ r.tx = tx[t]
    OBVIOUS
  <1>3. \A c \in calls : c.task \in Task /\ c.n \in Nat /\ n[c.task] \in Nat
    BY DEF Typed, Recorded
  <1>4. \A u \in Task : pc'[u] \in Built => u # t /\ pc[u] \in Built
    BY <1>1 DEF Typed, Built
  <1> HIDE DEF r
  <1>5. LedgerInv'
    BY <1>1 DEF LedgerInv, Ledger
  <1>6. BuiltInv'
    BY <1>1, <1>4 DEF BuiltInv
  <1>7. CallInv'
    <2>1. ASSUME NEW c \in calls
          PROVE  /\ c.n <= n[c.task]
                 /\ pc'[c.task] # "idle" => c.n < n[c.task]
                 /\ c.tx \in Tx => /\ c.tx.source = Source[c.task]
                                   /\ c.tx.seq <= seq[Source[c.task]] + 1
      BY <1>1, <1>3 DEF CallInv, Typed
    <2>2. /\ r.n <= n[t]
          /\ pc'[t] = "idle"
          /\ r.tx \in Tx => /\ r.tx.source = Source[t]
                            /\ r.tx.seq <= seq[Source[t]] + 1
      BY <1>1, <1>2 DEF BuiltInv, Typed
    <2>3. QED
      BY <2>1, <2>2, <1>1, <1>2 DEF CallInv
  <1>8. CurrentInv'
    BY <1>1, <1>2, <1>3, <1>4 DEF CurrentInv
  <1>9. OrderInv'
    <2>1. ASSUME NEW c \in calls, c.task = t, r.tx \in Tx
          PROVE  /\ c.tx \in Tx => c.tx.seq <= r.tx.seq
                 /\ c.kind \in Landed => c.tx.seq < r.tx.seq
      BY <2>1, <1>2 DEF CurrentInv
    <2>2. \A c \in calls : c.task = t => ~ (r.n < c.n)
      BY <1>2, <1>3 DEF CallInv, Typed
    <2>3. ~ (r.n < r.n)
      BY <1>2 DEF Typed
    <2>4. QED
      BY <2>1, <2>2, <2>3, <1>1, <1>2 DEF OrderInv
  <1>10. ConfirmedOnLedger'
    BY <1>1, <1>2 DEF ConfirmedOnLedger
  <1>11. OnceInv'
    <2>1. \A c \in calls : c.task = t => c.n # r.n
      BY <1>2, <1>3 DEF CallInv, Typed
    <2>2. QED
      BY <2>1, <1>1, <1>2 DEF OnceInv
  <1>12. QED
    BY <1>5, <1>6, <1>7, <1>8, <1>9, <1>10, <1>11

(* A step from one place in a call to the next keeps the order.              *)
LEMMA GotoOrder ==
  ASSUME Typed, Order, NEW t \in Task, NEW label \in Built, Goto(t, label),
         pc[t] \in Built, UNCHANGED <<seq, succeeded, failed, n, tx, calls>>
  PROVE  Order'
  BY DEF Order, Goto, Typed, Recorded, LedgerInv, BuiltInv, CallInv, CurrentInv,
     OrderInv, OnceInv, ConfirmedOnLedger, Ledger, Built

-----------------------------------------------------------------------------

(* A task in a call has the number of a call and at least a draft.           *)
CountInv == \A t \in Task : pc[t] # "idle" => n[t] # 0 /\ tx[t] # NoTx

(* A call that has not built its transaction holds a draft.                  *)
DraftInv ==
  \A t \in Task :
    /\ tx[t] \in Tx => pc[t] \in Built \cup {"idle"}
    /\ pc[t] \in Early => tx[t] \in Draft /\ tx[t].source = Source[t]

IndInv == Inv /\ CountInv /\ DraftInv

LEMMA NoTxIsNoTransaction == NoTx \notin Tx \cup Draft
  BY DEF NoTx, Tx, Draft

LEMMA DraftIsNoTransaction ==
  ASSUME NEW t \in Task, NEW o \in Operation
  PROVE  LET d == [source |-> Source[t], seq |-> 0, op |-> o]
         IN  d \in Draft /\ d \notin Tx /\ d.source = Source[t]
  BY DEF Draft, Tx

LEMMA IndInit == Init => IndInv
  BY BuilderInit, NoTxIsNoTransaction DEF IndInv, CountInv, DraftInv, Init, TaskInit

LEMMA BeginStep ==
  ASSUME IndInv, NEW t \in Task, NEW o \in Operation, NEW label \in Early,
         Begin(t, o, label)
  PROVE  IndInv'
  <1> USE DEF IndInv, Inv
  <1>1. /\ seq' = seq /\ wire' = wire /\ pending' = pending
        /\ succeeded' = succeeded /\ failed' = failed /\ calls' = calls
    BY DEF Begin, netVars
  <1>2. Typed'
    BY <1>1, DraftIsNoTransaction DEF Typed, NetTypeOK, Begin, Goto
  <1>3. \A u \in Task : pc'[u] \in Built => u # t /\ pc[u] \in Built
    BY DEF Begin, Goto, Typed, Built
  <1>4. LedgerInv' /\ ConfirmedOnLedger' /\ OrderInv' /\ OnceInv'
    BY <1>1 DEF LedgerInv, ConfirmedOnLedger, OrderInv, OnceInv, Ledger
  <1>5. BuiltInv'
    BY <1>1, <1>3 DEF BuiltInv, Begin, Typed
  <1>6. CallInv'
    <2>1. \A c \in calls : c.task \in Task /\ c.n \in Nat
      BY DEF Typed, Recorded
    <2>2. QED
      BY <1>1, <2>1 DEF CallInv, Begin, Goto, Typed
  <1>7. CurrentInv'
    <2>1. \A c \in calls : c.task \in Task
      BY DEF Typed, Recorded
    <2>2. QED
      BY <1>1, <1>3, <2>1 DEF CurrentInv, Begin, Typed
  <1>8. OnlyWhatWasSent'
    BY <1>1 DEF OnlyWhatWasSent, Ledger, Begin, Goto, Typed
  <1>9. CountInv' /\ DraftInv'
    BY NoTxIsNoTransaction, DraftIsNoTransaction
       DEF CountInv, DraftInv, Begin, Goto, Typed, Built
  <1>10. QED
    BY <1>2, <1>4, <1>5, <1>6, <1>7, <1>8, <1>9

(* A returning call keeps every transaction that is out attributed to a      *)
(* call, if the caller of one that has sent is not told it has not.          *)
LEMMA ReturnStep ==
  ASSUME IndInv, NEW t \in Task, NEW kind \in AnyKind, Return(t, kind),
         pc[t] # "idle", UNCHANGED <<seq, succeeded, failed, pending>>,
         \/ wire' = wire
         \/ kind \in Unknown /\ pc[t] = "send" /\ wire' = wire \cup {tx[t]},
         pc[t] \in {"poll", "wait"} => kind \in Landed \cup Unknown,
         kind = "Ok" => pc[t] \in Built /\ tx[t] \in succeeded,
         kind = "TransactionFailed" => pc[t] \in Built /\ tx[t] \in failed
  PROVE  IndInv'
  <1> USE DEF IndInv, Inv
  <1>1. n[t] # 0 /\ tx[t] # NoTx /\ (tx[t] \in Tx => pc[t] \in Built)
    BY DEF CountInv, DraftInv
  <1>2. Order
    BY DEF Order
  <1>3. Order'
    BY <1>1, <1>2, ReturnOrder
  <1>4. pc[t] = "send" => tx[t] \in Tx
    BY DEF BuiltInv, Built
  <1>5. Typed'
    BY <1>1, <1>4, ReturnTypes DEF Typed, NetTypeOK
  <1>6. OnlyWhatWasSent'
    <2> DEFINE r == [task |-> t, n |-> n[t], kind |-> kind, tx |-> tx[t]]
    <2>1. /\ calls' = calls \cup {r}
          /\ pc' = [pc EXCEPT ![t] = "idle"]
          /\ tx' = tx
      BY DEF Return, Goto
    <2>2. r.kind = kind /\ r.tx = tx[t]
      OBVIOUS
    <2> HIDE DEF r
    <2>3. ASSUME NEW x \in Ledger \cup pending \cup wire
          PROVE  \/ \E u \in Task : pc'[u] \in {"poll", "wait"} /\ tx'[u] = x
                 \/ \E c \in calls' : c.kind \in Landed \cup Unknown /\ c.tx = x
      <3>1. CASE \E c \in calls : c.kind \in Landed \cup Unknown /\ c.tx = x
        BY <2>1, <3>1
      <3>2. CASE \E u \in Task : pc[u] \in {"poll", "wait"} /\ tx[u] = x
        BY <2>1, <2>2, <3>2 DEF Typed
      <3>3. QED
        BY <2>3, <3>1, <3>2 DEF OnlyWhatWasSent
    <2>4. wire' # wire => r \in calls' /\ r.kind \in Unknown
      BY <2>1, <2>2
    <2>5. QED
      BY <2>2, <2>3, <2>4 DEF OnlyWhatWasSent, Ledger
  <1>7. CountInv' /\ DraftInv'
    BY DEF CountInv, DraftInv, Return, Goto, Typed
  <1>8. QED
    BY <1>3, <1>5, <1>6, <1>7 DEF Order

LEMMA GetAccountStep ==
  ASSUME IndInv, NEW t \in Task, GetAccount(t)
  PROVE  IndInv'
  <1> USE DEF IndInv, Inv
  <1>1. CASE Return(t, "Rpc")
    BY <1>1, ReturnStep DEF GetAccount, netVars
  <1>2. CASE /\ tx' = [tx EXCEPT ![t] = Build(t)]
             /\ Goto(t, "prepare")
             /\ UNCHANGED <<n, calls>>
    <2>1. UNCHANGED <<seq, wire, pending, succeeded, failed, calls, n>>
      BY <1>2 DEF GetAccount, netVars
    <2>2. /\ Build(t) \in Tx
          /\ Build(t).source = Source[t]
          /\ Build(t).seq = seq[Source[t]] + 1
      BY DEF Build, Draft, Tx, Typed, NetTypeOK, DraftInv, GetAccount
    <2>3. \A u \in Task : pc'[u] \in Built => u = t \/ (pc[u] \in Built /\ tx'[u] = tx[u])
      BY <1>2 DEF Goto, Typed, Built
    <2>4. Typed'
      BY <1>2, <2>1, <2>2 DEF Typed, NetTypeOK, Goto
    <2>5. LedgerInv' /\ ConfirmedOnLedger' /\ OrderInv' /\ OnceInv'
      BY <2>1 DEF LedgerInv, ConfirmedOnLedger, OrderInv, OnceInv, Ledger
    <2>6. BuiltInv'
      BY <1>2, <2>1, <2>2, <2>3 DEF BuiltInv, Typed, NetTypeOK
    <2>7. CallInv'
      BY <1>2, <2>1 DEF CallInv, Goto, Typed, Recorded, GetAccount
    <2>8. CurrentInv'
      <3>1. ASSUME NEW c \in calls, c.task = t
            PROVE  /\ c.tx \in Tx => c.tx.seq <= Build(t).seq
                   /\ c.kind \in Landed => c.tx.seq < Build(t).seq
        <4>1. c.tx \in Tx => c.tx.seq <= Build(t).seq
          BY <2>2, <3>1 DEF CallInv
        <4>2. c.kind \in Landed => c.tx \in Ledger /\ c.tx \in Tx
          BY DEF ConfirmedOnLedger, Ledger, Typed, NetTypeOK
        <4>3. c.kind \in Landed => c.tx.seq <= seq[Source[t]] /\ c.tx.seq \in Nat
          BY <3>1, <4>2 DEF LedgerInv, CallInv, Tx
        <4>4. QED
          BY <2>2, <4>1, <4>3 DEF Typed, NetTypeOK
      <3>2. \A c \in calls : c.task \in Task
        BY DEF Typed, Recorded
      <3>3. QED
        BY <1>2, <2>1, <2>3, <3>1, <3>2 DEF CurrentInv, Typed
    <2>9. OnlyWhatWasSent'
      <3>1. \A u \in Task : pc[u] \in {"poll", "wait"} =>
                 pc'[u] = pc[u] /\ tx'[u] = tx[u]
        BY <1>2 DEF GetAccount, Goto, Typed
      <3>2. QED
        BY <2>1, <3>1 DEF OnlyWhatWasSent, Ledger
    <2>10. CountInv' /\ DraftInv'
      <3>1. Build(t) # NoTx
        BY <2>2, NoTxIsNoTransaction
      <3>2. QED
        BY <1>2, <2>1, <3>1 DEF CountInv, DraftInv, Goto, Typed, Built, GetAccount
    <2>11. QED
      BY <2>4, <2>5, <2>6, <2>7, <2>8, <2>9, <2>10
  <1>3. QED
    BY <1>1, <1>2 DEF GetAccount

(* Going on within a call.  From send to poll the transaction may be queued; *)
(* the call then answers for it.                                             *)
LEMMA GotoStep ==
  ASSUME IndInv, NEW t \in Task, NEW label \in Built, Goto(t, label),
         pc[t] \in Built, pc[t] \in {"poll", "wait"} => label \in {"poll", "wait"},
         UNCHANGED <<seq, wire, succeeded, failed, n, tx, calls>>,
         \/ pending' = pending
         \/ label = "poll" /\ pending' = pending \cup {tx[t]}
  PROVE  IndInv'
  <1> USE DEF IndInv, Inv
  <1>1. Order'
    BY GotoOrder DEF Order
  <1>2. tx[t] \in Tx
    BY DEF BuiltInv
  <1>3. Typed'
    BY <1>2 DEF Typed, NetTypeOK, Goto, Built
  <1>4. OnlyWhatWasSent'
    <2>1. \A u \in Task : /\ tx'[u] = tx[u]
                          /\ pc[u] \in {"poll", "wait"} => pc'[u] \in {"poll", "wait"}
      BY DEF Goto, Typed
    <2>2. pending' # pending => pc'[t] \in {"poll", "wait"}
      BY DEF Goto, Typed
    <2>3. ASSUME NEW x \in Ledger \cup pending \cup wire
          PROVE  \/ \E u \in Task : pc'[u] \in {"poll", "wait"} /\ tx'[u] = x
                 \/ \E c \in calls' : c.kind \in Landed \cup Unknown /\ c.tx = x
      BY <2>1, <2>3 DEF OnlyWhatWasSent
    <2>4. QED
      BY <2>1, <2>2, <2>3 DEF OnlyWhatWasSent, Ledger
  <1>5. CountInv' /\ DraftInv'
    BY DEF CountInv, DraftInv, Goto, Typed, Built
  <1>6. QED
    BY <1>1, <1>3, <1>4, <1>5 DEF Order

LEMMA SubmissionStep ==
  ASSUME IndInv, NEW t \in Task, Submission(t)
  PROVE  IndInv'
  <1>1. CASE GetAccount(t)
    BY <1>1, GetAccountStep
  <1>2. CASE Prepare(t)
    <2>1. CASE Return(t, "Simulation")
      BY <1>2, <2>1, ReturnStep DEF Prepare, netVars
    <2>2. CASE Goto(t, "sign") /\ UNCHANGED <<n, tx, calls>>
      BY <1>2, <2>2, GotoStep DEF Prepare, netVars, Built
    <2>3. QED
      BY <1>2, <2>1, <2>2 DEF Prepare
  <1>3. CASE Sign(t)
    <2>1. CASE Return(t, "Signer")
      BY <1>3, <2>1, ReturnStep DEF Sign, netVars
    <2>2. CASE Goto(t, "send") /\ UNCHANGED <<n, tx, calls>>
      BY <1>3, <2>2, GotoStep DEF Sign, netVars, Built
    <2>3. QED
      BY <1>3, <2>1, <2>2 DEF Sign
  <1>4. CASE Send(t)
    <2>1. CASE /\ wire' = wire \cup {tx[t]}
               /\ Return(t, "Rpc")
               /\ UNCHANGED <<seq, pending, succeeded, failed>>
      BY <1>4, <2>1, ReturnStep DEF Send, Receive
    <2>2. CASE /\ Receive(tx[t])
               /\ Goto(t, "poll")
               /\ UNCHANGED <<wire, n, tx, calls>>
      BY <1>4, <2>2, GotoStep DEF Send, Receive, Built
    <2>3. QED
      BY <1>4, <2>1, <2>2 DEF Send
  <1>5. CASE Poll(t)
    <2>1. UNCHANGED <<seq, wire, pending, succeeded, failed>> /\ pc[t] \in Built
      BY <1>5 DEF Poll, netVars, Built
    <2>2. CASE Status(tx[t]) = "Success" /\ Return(t, "Ok")
      BY <1>5, <2>1, <2>2, ReturnStep DEF Poll, Status
    <2>3. CASE Status(tx[t]) = "Failed" /\ Return(t, "TransactionFailed")
      BY <1>5, <2>1, <2>3, ReturnStep DEF Poll, Status
    <2>4. CASE Goto(t, "wait") /\ UNCHANGED <<n, tx, calls>>
      BY <1>5, <2>1, <2>4, GotoStep DEF Poll, Built
    <2>5. CASE Return(t, "Timeout") \/ Return(t, "Rpc") \/ Return(t, "Panic")
      BY <1>5, <2>1, <2>5, ReturnStep DEF Poll
    <2>6. QED
      BY <1>5, <2>2, <2>3, <2>4, <2>5 DEF Poll
  <1>6. QED
    BY <1>1, <1>2, <1>3, <1>4, <1>5 DEF Submission

(* What a step of a call comes to for the modules built on it: the call      *)
(* returns, or goes on with the same operation.                              *)
LEMMA SubmissionShape ==
  ASSUME IndInv, NEW t \in Task, Submission(t)
  PROVE  /\ pc[t] # "idle" /\ pc[t] # "fee"
         /\ \/ \E kind \in Kinds : Return(t, kind)
            \/ /\ \E label \in Built : Goto(t, label)
               /\ n' = n /\ calls' = calls
               /\ \A u \in Task \ {t} : tx'[u] = tx[u]
               /\ tx'[t].op = tx[t].op
  <1>1. CASE GetAccount(t)
    <2>1. tx[t] \in Draft
      BY <1>1 DEF GetAccount, IndInv, DraftInv
    <2>2. Build(t).op = tx[t].op
      BY <2>1 DEF Build, Draft
    <2>3. QED
      BY <1>1, <2>2 DEF GetAccount, IndInv, Inv, Typed
  <1>2. CASE Prepare(t) \/ Sign(t) \/ Send(t) \/ Poll(t)
    BY <1>2 DEF Prepare, Sign, Send, Poll
  <1>3. QED
    BY <1>1, <1>2 DEF Submission

LEMMA CancelStep ==
  ASSUME IndInv, NEW t \in Task, Cancel(t)
  PROVE  IndInv'
  BY ReturnStep DEF Cancel

(* What the network does on its own: queues and drops transactions already   *)
(* out, and uses up the next number of an account for one of them.           *)
LEMMA EnvironmentStep ==
  ASSUME IndInv, Environment
  PROVE  IndInv'
  <1> USE DEF IndInv, Inv
  <1>1. UNCHANGED <<pc, n, tx, calls>>
    BY DEF Environment, taskVars
  <1> DEFINE Grows ==
        /\ \A a \in Account : seq[a] \in Nat /\ seq'[a] \in Nat /\ seq[a] <= seq'[a]
        /\ succeeded \subseteq succeeded' /\ failed \subseteq failed'
        /\ Ledger' \cup pending' \cup wire' \subseteq Ledger \cup pending \cup wire
        /\ NetTypeOK'
        /\ LedgerInv'
  <1>2. Grows
    <2>1. ASSUME NEW x \in wire, Arrive(x)
          PROVE  Grows
      BY <2>1 DEF Arrive, Receive, Typed, NetTypeOK, Ledger, LedgerInv
    <2>2. ASSUME NEW x \in pending, Evict(x)
          PROVE  Grows
      BY <2>2 DEF Evict, Typed, NetTypeOK, Ledger, LedgerInv
    <2>3. ASSUME NEW x \in pending, NEW ok \in BOOLEAN, Apply(x, ok)
          PROVE  Grows
      BY <2>3 DEF Apply, Typed, NetTypeOK, Ledger, LedgerInv, Tx
    <2>4. QED
      BY <2>1, <2>2, <2>3 DEF Environment
  <1>3. Typed'
    BY <1>1, <1>2 DEF Typed
  <1>4. BuiltInv'
    BY <1>1, <1>2 DEF BuiltInv, Tx
  <1>5. CallInv'
    BY <1>1, <1>2 DEF CallInv, Typed, Recorded, Tx
  <1>6. CurrentInv' /\ OrderInv' /\ OnceInv' /\ CountInv' /\ DraftInv'
    BY <1>1 DEF CurrentInv, OrderInv, OnceInv, CountInv, DraftInv
  <1>7. ConfirmedOnLedger' /\ OnlyWhatWasSent'
    BY <1>1, <1>2 DEF ConfirmedOnLedger, OnlyWhatWasSent
  <1>8. QED
    BY <1>2, <1>3, <1>4, <1>5, <1>6, <1>7

(* Between the places a call has before its account.                         *)
LEMMA EarlyStep ==
  ASSUME IndInv, NEW t \in Task, NEW label \in Early, Goto(t, label),
         pc[t] \in Early, UNCHANGED <<netVars, n, tx, calls>>
  PROVE  IndInv'
  <1> USE DEF IndInv, Inv
  <1>1. /\ pc' = [pc EXCEPT ![t] = label]
        /\ UNCHANGED <<seq, wire, pending, succeeded, failed, n, tx, calls>>
    BY DEF Goto, netVars
  <1>2. \A u \in Task : pc'[u] \in Built <=> pc[u] \in Built
    BY <1>1 DEF Typed
  <1>3. Typed'
    BY <1>1 DEF Typed, NetTypeOK
  <1>4. LedgerInv' /\ BuiltInv' /\ OrderInv' /\ OnceInv' /\ ConfirmedOnLedger'
    BY <1>1, <1>2 DEF LedgerInv, BuiltInv, OrderInv, OnceInv, ConfirmedOnLedger, Ledger
  <1>5. CallInv' /\ CurrentInv'
    BY <1>1, <1>2 DEF CallInv, CurrentInv, Typed, Recorded
  <1>6. OnlyWhatWasSent'
    BY <1>1 DEF OnlyWhatWasSent, Ledger, Typed
  <1>7. CountInv' /\ DraftInv'
    BY <1>1 DEF CountInv, DraftInv, Typed
  <1>8. QED
    BY <1>3, <1>4, <1>5, <1>6, <1>7

(* A step that leaves the tasks and the network alone.                       *)
LEMMA IdleStep == IndInv /\ UNCHANGED vars => IndInv'
  BY DEF vars, netVars, taskVars, IndInv, Inv, Typed, NetTypeOK, LedgerInv,
     BuiltInv, CallInv, CurrentInv, OrderInv, OnceInv, ConfirmedOnLedger,
     OnlyWhatWasSent, CountInv, DraftInv, Ledger

LEMMA OpsAreOperations == \A t \in Task : Ops[t] \subseteq Operation
  OBVIOUS

LEMMA IndStep == IndInv /\ [Next]_vars => IndInv'
  <1> SUFFICES ASSUME IndInv, [Next]_vars
               PROVE  IndInv'
    OBVIOUS
  <1>1. CASE \E t \in Task : \E o \in Ops[t] : Begin(t, o, "account")
    <2>1. PICK t \in Task : \E o \in Ops[t] : Begin(t, o, "account")
      BY <1>1
    <2>2. PICK o \in Ops[t] : Begin(t, o, "account")
      BY <2>1
    <2>3. o \in Operation /\ "account" \in Early
      BY OpsAreOperations
    <2>4. QED
      BY <2>2, <2>3, BeginStep
  <1>2. CASE \E t \in Task : Submission(t) \/ Cancel(t)
    BY <1>2, SubmissionStep, CancelStep
  <1>3. CASE Environment
    BY <1>3, EnvironmentStep
  <1>4. CASE UNCHANGED vars
    BY <1>4, IdleStep
  <1>5. QED
    BY <1>1, <1>2, <1>3, <1>4 DEF Next

LEMMA IndInvariant == Spec => []IndInv
  BY IndInit, IndStep, PTL DEF Spec

-----------------------------------------------------------------------------

(* prepare_and_send alone knows no other labels and no other ends.           *)
Named == pc \in [Task -> BuilderLabels] /\ \A c \in calls : c.kind \in Kinds

LEMMA TypedAndNamed == IndInv /\ Named => TypeOK
  BY DEF IndInv, Inv, Typed, Named, TypeOK, Recorded, Call

LEMMA NamedStep == IndInv /\ Named /\ [Next]_vars => Named'
  <1> SUFFICES ASSUME IndInv, Named, [Next]_vars
               PROVE  Named'
    OBVIOUS
  <1> USE DEF Named
  <1>1. ASSUME NEW t \in Task, NEW kind \in Kinds, Return(t, kind)
        PROVE  Named'
    BY <1>1 DEF Return, Goto
  <1>2. ASSUME NEW t \in Task, NEW label \in BuilderLabels, Goto(t, label),
               calls' = calls
        PROVE  Named'
    BY <1>2 DEF Goto
  <1>3. CASE \E t \in Task : \E o \in Ops[t] : Begin(t, o, "account")
    BY <1>2, <1>3 DEF Begin
  <1>4. CASE \E t \in Task : Submission(t) \/ Cancel(t)
    BY <1>1, <1>2, <1>4
       DEF Submission, GetAccount, Prepare, Sign, Send, Poll, Cancel
  <1>5. CASE Environment \/ UNCHANGED vars
    BY <1>5 DEF Environment, vars, taskVars
  <1>6. QED
    BY <1>3, <1>4, <1>5 DEF Next

LEMMA NamedInvariant == Spec => []Named
  <1>1. Init => Named
    BY DEF Init, TaskInit, Named
  <1>2. QED
    BY <1>1, NamedStep, IndInvariant, PTL DEF Spec

(* Type correctness of the tasks and of the network they share.              *)
THEOREM TypeCorrect == Spec => []TypeOK
  BY IndInvariant, NamedInvariant, TypedAndNamed, PTL

(* What a returned call reported stays what the ledger says.                 *)
THEOREM ReportsAreLedgers == Spec => []ConfirmedOnLedger
  BY IndInvariant, PTL DEF IndInv, Inv

(* Nothing is on the ledger, in the queue or on the wire that no call sent.  *)
THEOREM LandedWasSent == Spec => []OnlyWhatWasSent
  BY IndInvariant, PTL DEF IndInv, Inv

LEMMA OrderIsFresh == IndInv => FreshConfirmation
  <1> SUFFICES ASSUME IndInv, NEW c \in calls, NEW d \in calls, c.task = d.task,
                      c.n # d.n, c.kind \in Landed, d.kind \in Landed
               PROVE  c.tx # d.tx
    BY DEF FreshConfirmation
  <1> USE DEF IndInv, Inv
  <1>1. c.n \in Nat /\ d.n \in Nat
    BY DEF Typed, Recorded
  <1>2. c.tx \in Tx /\ d.tx \in Tx
    BY DEF ConfirmedOnLedger, Typed, NetTypeOK
  <1>3. c.tx.seq < d.tx.seq \/ d.tx.seq < c.tx.seq
    BY <1>1, <1>2 DEF OrderInv
  <1>4. QED
    BY <1>2, <1>3 DEF Tx

(* No two confirmations of a task are of one transaction.                    *)
THEOREM ConfirmationsAreFresh == Spec => []FreshConfirmation
  BY IndInvariant, OrderIsFresh, PTL

LEMMA LandedSettles ==
  ASSUME IndInv, [Next]_vars, NEW c \in calls, NEW d \in calls, c.task = d.task,
         c.n < d.n, d.kind \in Landed, c.tx \in Ledger'
  PROVE  c.tx \in Ledger
  <1> SUFFICES ASSUME c.tx \notin Ledger
               PROVE  FALSE
    OBVIOUS
  <1> USE DEF IndInv, Inv
  <1>1. PICK x \in pending, ok \in BOOLEAN : Apply(x, ok)
    BY DEF Next, Environment, Begin, Submission, GetAccount, Prepare, Sign, Send,
       Poll, Cancel, Receive, Arrive, Evict, vars, netVars, Ledger
  <1>2. c.tx = x /\ x \in Tx
    BY <1>1 DEF Apply, Ledger, Typed, NetTypeOK
  <1>3. c.tx.seq = seq[Source[c.task]] + 1
    BY <1>1, <1>2 DEF Apply, CallInv
  <1>4. d.tx \in Ledger /\ d.tx \in Tx
    BY DEF ConfirmedOnLedger, Ledger, Typed, NetTypeOK
  <1>5. c.tx.seq <= d.tx.seq
    BY <1>2, <1>4 DEF OrderInv
  <1>6. d.tx.seq <= seq[Source[c.task]]
    BY <1>4 DEF LedgerInv, CallInv
  <1>7. Source[c.task] \in Account
    BY DEF Typed, Recorded
  <1>8. QED
    BY <1>3, <1>4, <1>5, <1>6, <1>7 DEF Typed, NetTypeOK, Tx

LEMMA SettlesStep ==
  ASSUME IndInv, [Next]_vars
  PROVE  [\A c, d \in calls :
            /\ c.task = d.task /\ c.n < d.n
            /\ d.kind \in Landed
            /\ c.tx \in Ledger'
            => c.tx \in Ledger]_vars
  BY LandedSettles

(* A landed call closes the book on every earlier call of its task.          *)
THEOREM LandedCallSettles == Spec => Settles
  BY IndInvariant, SettlesStep, PTL DEF Spec, Settles

-----------------------------------------------------------------------------
(* The promise of Outcome                                                    *)
(*                                                                           *)
(* A call and its entry are the record [task, n, entry] of Submitted.  Its   *)
(* numbers follow the account's (SubmittedInOrder), which is why the ledger  *)
(* settles a task's calls in their order.                                    *)

(* Calls are settled by what they have submitted.                            *)
Settlement ==
  /\ Settled(succeeded) = {s \in Submitted : s.entry \in succeeded}
  /\ Settled(failed) = {s \in Submitted : s.entry \in failed}

(* The call a task is in.                                                    *)
Current(t) == [task |-> t, n |-> n[t], entry |-> tx[t]]

LEMMA SubmittedIs ==
  ASSUME NEW s
  PROVE  s \in Submitted <=>
           \/ \E c \in calls : /\ c.kind \in Landed \cup Unknown
                               /\ s = [task |-> c.task, n |-> c.n, entry |-> c.tx]
           \/ \E t \in Task : pc[t] \in {"poll", "wait"} /\ s = Current(t)
  BY DEF Submitted, Current

LEMMA SubmittedTyped ==
  ASSUME IndInv, NEW s \in Submitted
  PROVE  /\ s.task \in Task
         /\ s.n \in 1..n[s.task]
         /\ s.entry \in Tx \cup Draft
         /\ s.entry \in Tx => s.entry.source = Source[s.task]
         /\ s = [task |-> s.task, n |-> s.n, entry |-> s.entry]
  <1> USE DEF IndInv, Inv
  <1>1. ASSUME NEW c \in calls, s = [task |-> c.task, n |-> c.n, entry |-> c.tx]
        PROVE  /\ s.task \in Task
               /\ s.n \in 1..n[s.task]
               /\ s.entry \in Tx \cup Draft
               /\ s.entry \in Tx => s.entry.source = Source[s.task]
               /\ s = [task |-> s.task, n |-> s.n, entry |-> s.entry]
    BY <1>1 DEF Typed, Recorded, CallInv
  <1>2. ASSUME NEW t \in Task, pc[t] \in {"poll", "wait"}, s = Current(t)
        PROVE  /\ s.task \in Task
               /\ s.n \in 1..n[s.task]
               /\ s.entry \in Tx \cup Draft
               /\ s.entry \in Tx => s.entry.source = Source[s.task]
               /\ s = [task |-> s.task, n |-> s.n, entry |-> s.entry]
    BY <1>2 DEF Typed, BuiltInv, CountInv, Built, Current
  <1>3. QED
    BY <1>1, <1>2, SubmittedIs

(* Every entry of the ledger has been submitted by a call.                   *)
LEMMA OnlySubmissionsSettle == IndInv => Settlement
  <1> SUFFICES ASSUME IndInv, NEW x \in Ledger
               PROVE  \E r \in Submitted : r.entry = x
    BY DEF Settlement, Settled, Ledger
  <1>1. ASSUME NEW t \in Task, pc[t] \in {"poll", "wait"}, tx[t] = x
        PROVE  \E r \in Submitted : r.entry = x
    <2>1. Current(t) \in Submitted
      BY <1>1, SubmittedIs
    <2>2. Current(t).entry = x
      BY <1>1 DEF Current
    <2>3. QED
      BY <2>1, <2>2
  <1>2. ASSUME NEW c \in calls, c.kind \in Landed \cup Unknown, c.tx = x
        PROVE  \E r \in Submitted : r.entry = x
    <2> DEFINE r == [task |-> c.task, n |-> c.n, entry |-> c.tx]
    <2>1. r \in Submitted
      BY <1>2, SubmittedIs
    <2>2. r.entry = x
      BY <1>2
    <2>3. QED
      BY <2>1, <2>2
  <1>3. QED
    BY <1>1, <1>2 DEF IndInv, Inv, OnlyWhatWasSent

LEMMA OnlySubmissionsSettlePrime == IndInv' => Settlement'
  BY OnlySubmissionsSettle, PTL

(* A refused call has submitted nothing, and every other call of its number  *)
(* has told the same.                                                        *)
LEMMA SubmittedNotRefused ==
  ASSUME IndInv, NEW s \in Submitted
  PROVE  Promise!Answer(s.task, s.n, "Refused") \notin Told
  <1> USE DEF IndInv, Inv
  <1>1. SUFFICES ASSUME NEW c \in calls, c.task = s.task, c.n = s.n,
                        ClassOf(c.kind) = "Refused"
                 PROVE  FALSE
    BY DEF Told, Promise!Answer
  <1>2. c.kind \notin Landed \cup Unknown
    BY <1>1 DEF ClassOf
  <1>3. ASSUME NEW d \in calls, d.kind \in Landed \cup Unknown,
               s = [task |-> d.task, n |-> d.n, entry |-> d.tx]
        PROVE  FALSE
    BY <1>1, <1>2, <1>3 DEF OnceInv
  <1>4. ASSUME NEW t \in Task, pc[t] \in {"poll", "wait"}, s = Current(t)
        PROVE  FALSE
    BY <1>1, <1>4 DEF Current, CallInv, Typed, Recorded
  <1>5. QED
    BY <1>3, <1>4, SubmittedIs

LEMMA SubmittedInOrder ==
  ASSUME IndInv, NEW r \in Submitted, NEW s \in Submitted, r.task = s.task
  PROVE  /\ r.n = s.n => r = s
         /\ r.n < s.n /\ r.entry \in Tx /\ s.entry \in Tx => r.entry.seq <= s.entry.seq
  <1> USE DEF IndInv, Inv
  <1>1. ASSUME NEW c \in calls, NEW d \in calls,
               r = [task |-> c.task, n |-> c.n, entry |-> c.tx],
               s = [task |-> d.task, n |-> d.n, entry |-> d.tx]
        PROVE  /\ r.n = s.n => r = s
               /\ r.n < s.n /\ r.entry \in Tx /\ s.entry \in Tx => r.entry.seq <= s.entry.seq
    BY <1>1 DEF OnceInv, OrderInv
  <1>2. ASSUME NEW c \in calls, r = [task |-> c.task, n |-> c.n, entry |-> c.tx],
               NEW t \in Task, pc[t] \in {"poll", "wait"}, s = Current(t)
        PROVE  /\ r.n # s.n
               /\ r.entry \in Tx => r.entry.seq <= s.entry.seq
    BY <1>2 DEF Current, CurrentInv, CallInv, Built, Typed, Recorded
  <1>3. ASSUME NEW t \in Task, pc[t] \in {"poll", "wait"}, r = Current(t),
               NEW d \in calls, s = [task |-> d.task, n |-> d.n, entry |-> d.tx]
        PROVE  ~ (r.n < s.n) /\ r.n # s.n
    BY <1>3 DEF Current, CallInv, Typed, Recorded
  <1>4. ASSUME NEW t \in Task, pc[t] \in {"poll", "wait"}, r = Current(t),
               NEW u \in Task, pc[u] \in {"poll", "wait"}, s = Current(u)
        PROVE  r = s /\ ~ (r.n < s.n)
    BY <1>4 DEF Current, Typed
  <1>5. QED
    BY <1>1, <1>2, <1>3, <1>4, SubmittedIs
-----------------------------------------------------------------------------

(* The call in hand is its task's last, and has told nothing.                *)
LEMMA CurrentIsLast ==
  ASSUME IndInv, NEW t \in Task, pc[t] # "idle"
  PROVE  /\ n[t] \in 1..n[t]
         /\ \A r \in Submitted : r.task = t => r.n < n[t] \/ r = Current(t)
         /\ pc[t] \notin {"poll", "wait"} =>
              \A r \in Submitted : r.task = t => r.n < n[t]
         /\ \A class : Promise!Answer(t, n[t], class) \notin Told
  <1> USE DEF IndInv, Inv
  <1>1. n[t] \in 1..n[t]
    BY DEF CountInv, Typed
  <1>2. \A c \in calls : c.task = t => c.n < n[t]
    BY DEF CallInv
  <1>3. ASSUME NEW r \in Submitted, r.task = t
        PROVE  \/ r.n < n[t]
               \/ r = Current(t) /\ pc[t] \in {"poll", "wait"}
    BY <1>2, <1>3, SubmittedIs DEF Current
  <1>4. \A class : Promise!Answer(t, n[t], class) \notin Told
    <2>1. \A c \in calls : c.task = t => c.n # n[t]
      BY <1>2 DEF Typed, Recorded
    <2>2. QED
      BY <2>1 DEF Told, Promise!Answer
  <1>5. QED
    BY <1>1, <1>3, <1>4

LEMMA ReturnTells ==
  ASSUME IndInv, NEW t \in Task, NEW kind \in Kinds, Return(t, kind),
         pc[t] # "idle", pc[t] \in {"poll", "wait"} => kind \in Landed \cup Unknown
  PROVE  /\ t \in Open /\ Open' = Open \ {t} /\ n' = n
         /\ Told' = Told \cup {Promise!Answer(t, n[t], ClassOf(kind))}
         /\ Submitted' = IF kind \in Landed \cup Unknown
                          THEN Submitted \cup {Current(t)} ELSE Submitted
  <1> USE DEF IndInv, Inv
  <1> DEFINE c == [task |-> t, n |-> n[t], kind |-> kind, tx |-> tx[t]]
  <1>1. /\ calls' = calls \cup {c}
        /\ pc' = [pc EXCEPT ![t] = "idle"]
        /\ n' = n /\ tx' = tx
    BY DEF Return, Goto
  <1>2. c.task = t /\ c.n = n[t] /\ c.kind = kind /\ c.tx = tx[t]
    OBVIOUS
  <1> HIDE DEF c
  <1>3. t \in Open /\ Open' = Open \ {t}
    BY <1>1 DEF Open, Typed
  <1>4. Told' = Told \cup {Promise!Answer(t, n[t], ClassOf(kind))}
    BY <1>1, <1>2 DEF Told, Promise!Answer, ClassOf
  <1>5. \A u \in Task : pc'[u] \in {"poll", "wait"} <=>
                           u # t /\ pc[u] \in {"poll", "wait"}
    BY <1>1 DEF Typed
  <1>6. \A u \in Task : n'[u] = n[u] /\ tx'[u] = tx[u]
    BY <1>1
  <1>7. ASSUME kind \in Landed \cup Unknown
        PROVE  Submitted' = Submitted \cup {Current(t)}
    BY <1>1, <1>2, <1>5, <1>6, <1>7 DEF Submitted, Current
  <1>8. ASSUME kind \notin Landed \cup Unknown
        PROVE  Submitted' = Submitted
    BY <1>1, <1>2, <1>5, <1>6, <1>8 DEF Submitted, Current
  <1>9. QED
    BY <1>1, <1>3, <1>4, <1>7, <1>8

(* The call in hand joins those that may have submitted: if its content is   *)
(* on the ledger already, that settles it.                                   *)
LEMMA CurrentSettles ==
  ASSUME IndInv, Settlement, Settlement',
         NEW t \in Task, pc[t] # "idle", pc[t] \notin {"poll", "wait"},
         UNCHANGED <<n, succeeded, failed>>,
         Submitted' = Submitted \cup {Current(t)}
  PROVE  /\ Promise!Settling
         /\ \A s \in (Settled(succeeded)' \cup Settled(failed)')
                      \ (Settled(succeeded) \cup Settled(failed)) :
              s.task = t /\ s.n = n[t]
  <1>1. /\ Current(t).task = t /\ Current(t).n = n[t] /\ Current(t).entry = tx[t]
    BY DEF Current
  <1>2. /\ Settled(succeeded)' = Settled(succeeded) \cup
             (IF tx[t] \in succeeded THEN {Current(t)} ELSE {})
        /\ Settled(failed)' = Settled(failed) \cup
             (IF tx[t] \in failed THEN {Current(t)} ELSE {})
    BY <1>1 DEF Settlement
  <1>3. Promise!CanSettle(Current(t))
    BY <1>1, CurrentIsLast DEF Promise!CanSettle, Settlement
  <1>4. ~ (tx[t] \in succeeded /\ tx[t] \in failed)
    BY DEF IndInv, Inv, LedgerInv
  <1>5. /\ \A r \in Settled(succeeded) : r.entry \in succeeded
        /\ \A r \in Settled(failed) : r.entry \in failed
    BY DEF Settlement
  <1>6. Promise!Settling
    <2>1. CASE tx[t] \in succeeded
      <3>1. Promise!Settle(Settled(succeeded), Settled(succeeded)', Settled(failed))
        BY <1>1, <1>2, <1>3, <1>4, <1>5, <2>1 DEF Promise!Settle
      <3>2. Settled(failed)' = Settled(failed)
        BY <1>2, <1>4, <2>1
      <3>3. QED
        BY <3>1, <3>2 DEF Promise!Settling
    <2>2. CASE tx[t] \notin succeeded
      <3>1. Promise!Settle(Settled(failed), Settled(failed)', Settled(succeeded))
        BY <1>1, <1>2, <1>3, <1>4, <1>5, <2>2 DEF Promise!Settle
      <3>2. Settled(succeeded)' = Settled(succeeded)
        BY <1>2, <2>2
      <3>3. QED
        BY <3>1, <3>2 DEF Promise!Settling
    <2>3. QED
      BY <2>1, <2>2
  <1>7. QED
    BY <1>1, <1>2, <1>6
-----------------------------------------------------------------------------

LEMMA Quiet ==
  ASSUME Settlement, Settlement', UNCHANGED <<n, calls, succeeded, failed>>, Open' = Open,
         Submitted' = Submitted
  PROVE  UNCHANGED Promise!vars
  BY DEF Promise!vars, Settlement, Told

(* Promise!Next, from one of its actions.                                    *)
LEMMA TellIsNext ==
  ASSUME NEW t \in Task, NEW class \in {"Ok", "TransactionFailed", "Unknown", "Refused"},
         Promise!Tell(t, class)
  PROVE  Promise!Next
  BY DEF Promise!Next, Promise!Classes

LEMMA BeginIsNext ==
  ASSUME IndInv, Settlement, Settlement',
         NEW t \in Task, NEW o \in Ops[t], Begin(t, o, "account")
  PROVE  Promise!Next
  <1> USE DEF IndInv, Inv
  <1>1. /\ calls' = calls /\ succeeded' = succeeded /\ failed' = failed
        /\ n' = [n EXCEPT ![t] = @ + 1]
        /\ pc' = [pc EXCEPT ![t] = "account"]
        /\ pc[t] = "idle"
    BY DEF Begin, netVars, Goto
  <1>2. t \notin Open /\ Open' = Open \cup {t}
    BY <1>1 DEF Open, Typed
  <1>3. \A u \in Task : /\ pc'[u] \in {"poll", "wait"} <=> pc[u] \in {"poll", "wait"}
                        /\ pc[u] \in {"poll", "wait"} => n'[u] = n[u] /\ tx'[u] = tx[u]
    BY DEF Begin, Goto, Typed
  <1>4. Submitted' = Submitted
    BY <1>1, <1>3 DEF Submitted
  <1>5. Promise!Begin(t)
    BY <1>1, <1>2, <1>4 DEF Promise!Begin, Settlement, Told
  <1>6. QED
    BY <1>5 DEF Promise!Next

(* A call that has not submitted returns an error that says so.              *)
LEMMA ReturnRefused ==
  ASSUME IndInv, Settlement, Settlement',
         NEW t \in Task, NEW kind \in {"Simulation", "Signer"},
         Return(t, kind), pc[t] # "idle", pc[t] \notin {"poll", "wait"},
         UNCHANGED <<succeeded, failed>>
  PROVE  Promise!Next
  <1>1. /\ t \in Open /\ Open' = Open \ {t} /\ n' = n /\ Submitted' = Submitted
        /\ Told' = Told \cup {Promise!Answer(t, n[t], "Refused")}
    BY ReturnTells DEF ClassOf
  <1>2. \A s \in Settled(succeeded) \cup Settled(failed) : s.task = t => s.n # n[t]
    BY CurrentIsLast DEF Settlement
  <1>3. Promise!Tell(t, "Refused")
    BY <1>1, <1>2 DEF Promise!Tell, Settlement
  <1>4. QED
    BY <1>3, TellIsNext

(* A call may return without a verdict from anywhere.                        *)
LEMMA ReturnUnknown ==
  ASSUME IndInv, Settlement, Settlement',
         NEW t \in Task, NEW kind \in Unknown, Return(t, kind),
         pc[t] # "idle", UNCHANGED <<succeeded, failed>>
  PROVE  Promise!Next
  <1>1. /\ t \in Open /\ Open' = Open \ {t} /\ n' = n
        /\ Submitted' = Submitted \cup {Current(t)}
        /\ Told' = Told \cup {Promise!Answer(t, n[t], "Unknown")}
    BY ReturnTells DEF ClassOf
  <1>2. CASE pc[t] \in {"poll", "wait"}
    <2>1. Submitted' = Submitted
      BY <1>1, <1>2, SubmittedIs
    <2>2. /\ Settled(succeeded)' = Settled(succeeded)
          /\ Settled(failed)' = Settled(failed)
      BY <2>1 DEF Settlement
    <2>3. Promise!Settling
      BY <2>2 DEF Promise!Settling, Promise!Settle
    <2>4. Promise!Tell(t, "Unknown")
      BY <1>1, <2>2, <2>3 DEF Promise!Tell
    <2>5. QED
      BY <2>4, TellIsNext
  <1>3. CASE pc[t] \notin {"poll", "wait"}
    <2>1. Promise!Tell(t, "Unknown")
      BY <1>1, <1>3, CurrentSettles DEF Promise!Tell
    <2>2. QED
      BY <2>1, TellIsNext
  <1>4. QED
    BY <1>2, <1>3

(* The verdict of the ledger was reported to no other call of the task: a    *)
(* landed one has an earlier number.                                         *)
LEMMA ReturnLanded ==
  ASSUME IndInv, Settlement, Settlement',
         NEW t \in Task, NEW kind \in Landed, Return(t, kind),
         pc[t] \in {"poll", "wait"},
         kind = "Ok" => tx[t] \in succeeded,
         kind = "TransactionFailed" => tx[t] \in failed,
         UNCHANGED <<succeeded, failed>>
  PROVE  Promise!Next
  <1> USE DEF IndInv, Inv
  <1>1. /\ t \in Open /\ Open' = Open \ {t} /\ n' = n
        /\ Submitted' = Submitted \cup {Current(t)}
        /\ Told' = Told \cup {Promise!Answer(t, n[t], kind)}
    BY ReturnTells DEF ClassOf
  <1>2. Current(t) \in Submitted /\ Submitted' = Submitted
    BY <1>1, SubmittedIs
  <1>3. Current(t).task = t /\ Current(t).n = n[t] /\ Current(t).entry = tx[t]
    BY DEF Current
  <1>4. ASSUME NEW r \in Submitted, r.task = t, r.n # n[t], r.entry = tx[t]
        PROVE  /\ Promise!Answer(t, r.n, "Ok") \notin Told
               /\ Promise!Answer(t, r.n, "TransactionFailed") \notin Told
    <2>1. tx[t] \in Tx
      BY DEF BuiltInv, Built
    <2>2. PICK c \in calls : r = [task |-> c.task, n |-> c.n, entry |-> c.tx]
      BY <1>4, SubmittedIs DEF Current
    <2>3. c.task = t /\ c.n = r.n /\ c.tx = tx[t]
      BY <1>4, <2>2
    <2>4. c.kind \notin Landed
      BY <2>1, <2>3 DEF CurrentInv, Built, Tx
    <2>5. \A d \in calls : d.task = t /\ d.n = r.n => d = c
      BY <2>3 DEF OnceInv
    <2>6. QED
      BY <2>4, <2>5 DEF Told, ClassOf, Promise!Answer
  <1>5. /\ Settled(succeeded)' = Settled(succeeded)
        /\ Settled(failed)' = Settled(failed)
    BY <1>2 DEF Settlement
  <1>6. /\ tx[t] \in succeeded => Promise!Verdict(t, Settled(succeeded))
        /\ tx[t] \in failed => Promise!Verdict(t, Settled(failed))
    BY <1>2, <1>3, <1>4 DEF Promise!Verdict, Settlement
  <1>7. Promise!Tell(t, kind)
    BY <1>1, <1>5, <1>6 DEF Promise!Tell
  <1>8. QED
    BY <1>7, TellIsNext
-----------------------------------------------------------------------------

LEMMA GotoQuiet ==
  ASSUME IndInv, Settlement, Settlement',
         NEW t \in Task, NEW label \in Built, Goto(t, label), pc[t] \in Built,
         pc[t] \in {"poll", "wait"} <=> label \in {"poll", "wait"},
         UNCHANGED <<succeeded, failed, n, tx, calls>>
  PROVE  UNCHANGED Promise!vars
  <1> USE DEF IndInv, Inv
  <1>1. Open' = Open
    BY DEF Open, Goto, Typed, Built
  <1>2. \A u \in Task : pc'[u] \in {"poll", "wait"} <=> pc[u] \in {"poll", "wait"}
    BY DEF Goto, Typed
  <1>3. Submitted' = Submitted
    BY <1>2 DEF Submitted
  <1>4. QED
    BY <1>1, <1>3, Quiet

LEMMA BuildQuiet ==
  ASSUME IndInv, Settlement, Settlement',
         NEW t \in Task, pc[t] = "account", Goto(t, "prepare"),
         tx' = [tx EXCEPT ![t] = Build(t)], UNCHANGED <<netVars, n, calls>>
  PROVE  UNCHANGED Promise!vars
  <1> USE DEF IndInv, Inv
  <1>1. Open' = Open
    BY DEF Open, Goto, Typed
  <1>2. \A u \in Task : /\ pc'[u] \in {"poll", "wait"} <=> pc[u] \in {"poll", "wait"}
                        /\ pc[u] \in {"poll", "wait"} => tx'[u] = tx[u]
    BY DEF Goto, Typed
  <1>3. Submitted' = Submitted
    BY <1>2 DEF Submitted
  <1>4. QED
    BY <1>1, <1>3, Quiet DEF netVars

(* A call that submits what the ledger already holds is settled by it.       *)
LEMMA SendDecides ==
  ASSUME IndInv, Settlement, Settlement',
         NEW t \in Task, pc[t] = "send", Goto(t, "poll"),
         UNCHANGED <<succeeded, failed, n, tx, calls>>
  PROVE  Promise!Next
  <1> USE DEF IndInv, Inv
  <1>1. Open' = Open /\ Told' = Told
    BY DEF Open, Told, Goto, Typed
  <1>2. \A u \in Task : pc'[u] \in {"poll", "wait"} <=> pc[u] \in {"poll", "wait"} \/ u = t
    BY DEF Goto, Typed
  <1>3. Submitted' = Submitted \cup {Current(t)}
    BY <1>2 DEF Submitted, Current
  <1>4. Promise!Settling
    BY <1>3, CurrentSettles
  <1>5. QED
    BY <1>1, <1>4 DEF Promise!Next, Promise!Decide

LEMMA SubmissionPromised ==
  ASSUME IndInv, Settlement, Settlement',
         NEW t \in Task, Submission(t)
  PROVE  Promise!Next \/ UNCHANGED Promise!vars
  <1>1. CASE GetAccount(t)
    <2>1. CASE Return(t, "Rpc")
      BY <1>1, <2>1, ReturnUnknown DEF GetAccount, netVars
    <2>2. CASE tx' = [tx EXCEPT ![t] = Build(t)] /\ Goto(t, "prepare") /\ UNCHANGED <<n, calls>>
      BY <1>1, <2>2, BuildQuiet DEF GetAccount
    <2>3. QED
      BY <1>1, <2>1, <2>2 DEF GetAccount
  <1>2. CASE Prepare(t)
    <2>1. CASE Return(t, "Simulation")
      BY <1>2, <2>1, ReturnRefused DEF Prepare, netVars
    <2>2. CASE Goto(t, "sign") /\ UNCHANGED <<n, tx, calls>>
      BY <1>2, <2>2, GotoQuiet DEF Prepare, netVars, Built
    <2>3. QED
      BY <1>2, <2>1, <2>2 DEF Prepare
  <1>3. CASE Sign(t)
    <2>1. CASE Return(t, "Signer")
      BY <1>3, <2>1, ReturnRefused DEF Sign, netVars
    <2>2. CASE Goto(t, "send") /\ UNCHANGED <<n, tx, calls>>
      BY <1>3, <2>2, GotoQuiet DEF Sign, netVars, Built
    <2>3. QED
      BY <1>3, <2>1, <2>2 DEF Sign
  <1>4. CASE Send(t)
    <2>1. CASE Return(t, "Rpc") /\ UNCHANGED <<succeeded, failed>>
      BY <1>4, <2>1, ReturnUnknown DEF Send
    <2>2. CASE Receive(tx[t]) /\ Goto(t, "poll") /\ UNCHANGED <<n, tx, calls>>
      BY <1>4, <2>2, SendDecides DEF Send, Receive
    <2>3. QED
      BY <1>4, <2>1, <2>2 DEF Send
  <1>5. CASE Poll(t)
    <2>1. UNCHANGED <<succeeded, failed>> /\ pc[t] \in {"poll", "wait"}
      BY <1>5 DEF Poll, netVars
    <2>2. CASE Status(tx[t]) = "Success" /\ Return(t, "Ok")
      BY <2>1, <2>2, ReturnLanded DEF Status
    <2>3. CASE Status(tx[t]) = "Failed" /\ Return(t, "TransactionFailed")
      BY <2>1, <2>3, ReturnLanded DEF Status
    <2>4. CASE Goto(t, "wait") /\ UNCHANGED <<n, tx, calls>>
      BY <2>1, <2>4, GotoQuiet DEF Built
    <2>5. CASE Return(t, "Timeout") \/ Return(t, "Rpc") \/ Return(t, "Panic")
      BY <2>1, <2>5, ReturnUnknown
    <2>6. QED
      BY <1>5, <2>2, <2>3, <2>4, <2>5 DEF Poll
  <1>6. QED
    BY <1>1, <1>2, <1>3, <1>4, <1>5 DEF Submission

(* A ledger that closes with a transaction settles the calls that submitted  *)
(* it.  The number it takes is above those of all landed transactions, so    *)
(* the calls are no earlier than any that was settled before.                *)
LEMMA ApplyDecides ==
  ASSUME IndInv, Settlement, Settlement',
         UNCHANGED taskVars, NEW x \in pending, NEW ok \in BOOLEAN, Apply(x, ok)
  PROVE  Promise!Next
  <1> USE DEF IndInv, Inv
  <1>1. Open' = Open /\ Told' = Told /\ Submitted' = Submitted /\ n' = n
    BY DEF taskVars, Open, Told, Submitted
  <1>2. x \in Tx /\ x \notin Ledger /\ x.seq = seq[x.source] + 1
    BY DEF Apply, LedgerInv, Typed, NetTypeOK, Tx
  <1>3. ASSUME NEW s \in Submitted, s.entry = x
        PROVE  Promise!CanSettle(s)
    <2>1. s.n \in 1..n[s.task] /\ s.task \in Task /\ x.source = Source[s.task]
      BY <1>2, <1>3, SubmittedTyped
    <2>2. Promise!Answer(s.task, s.n, "Refused") \notin Told
      BY SubmittedNotRefused
    <2>3. ASSUME NEW r \in Settled(succeeded) \cup Settled(failed), r.task = s.task
          PROVE  r.n < s.n
      <3>1. r \in Submitted /\ r.entry \in Ledger /\ r.entry \in Tx
        BY DEF Settlement, Ledger, Typed, NetTypeOK
      <3>2. r.entry.source = x.source
        BY <2>1, <2>3, <3>1, SubmittedTyped
      <3>3. r.entry.seq <= seq[x.source]
        BY <3>1, <3>2 DEF LedgerInv
      <3>4. ~ (x.seq <= r.entry.seq)
        BY <1>2, <3>1, <3>3 DEF Typed, NetTypeOK, Tx
      <3>5. r.n # s.n
        BY <1>2, <1>3, <2>3, <3>1, SubmittedInOrder
      <3>6. ~ (s.n < r.n)
        BY <1>2, <1>3, <2>3, <3>1, <3>4, SubmittedInOrder
      <3>7. r.n \in Nat /\ s.n \in Nat
        BY <2>1, <2>3, <3>1, SubmittedTyped DEF Typed
      <3>8. QED
        BY <3>5, <3>6, <3>7
    <2>4. QED
      BY <2>1, <2>2, <2>3 DEF Promise!CanSettle
  <1>4. \A r \in Settled(succeeded) \cup Settled(failed) : r.entry # x
    BY <1>2 DEF Settlement, Ledger
  <1>5. CASE ok
    <2>1. succeeded' = succeeded \cup {x} /\ failed' = failed
      BY <1>5 DEF Apply
    <2>2. Settled(failed)' = Settled(failed)
      BY <1>1, <2>1 DEF Settlement
    <2>3. Promise!Settle(Settled(succeeded), Settled(succeeded)', Settled(failed))
      BY <1>1, <1>3, <1>4, <2>1 DEF Promise!Settle, Settlement
    <2>4. QED
      BY <1>1, <2>2, <2>3 DEF Promise!Next, Promise!Decide, Promise!Settling
  <1>6. CASE ~ ok
    <2>1. failed' = failed \cup {x} /\ succeeded' = succeeded
      BY <1>6 DEF Apply
    <2>2. Settled(succeeded)' = Settled(succeeded)
      BY <1>1, <2>1 DEF Settlement
    <2>3. Promise!Settle(Settled(failed), Settled(failed)', Settled(succeeded))
      BY <1>1, <1>3, <1>4, <2>1 DEF Promise!Settle, Settlement
    <2>4. QED
      BY <1>1, <2>2, <2>3 DEF Promise!Next, Promise!Decide, Promise!Settling
  <1>7. QED
    BY <1>5, <1>6

LEMMA EnvironmentPromised ==
  ASSUME IndInv, Settlement, Settlement',
         Environment
  PROVE  Promise!Next \/ UNCHANGED Promise!vars
  <1>1. UNCHANGED taskVars
    BY DEF Environment
  <1>2. Open' = Open /\ Submitted' = Submitted
    BY <1>1 DEF taskVars, Open, Submitted
  <1>3. CASE (\E x \in wire : Arrive(x)) \/ (\E x \in pending : Evict(x))
    BY <1>1, <1>2, <1>3, Quiet DEF taskVars, Arrive, Receive, Evict
  <1>4. CASE \E x \in pending, ok \in BOOLEAN : Apply(x, ok)
    BY <1>1, <1>4, ApplyDecides
  <1>5. QED
    BY <1>3, <1>4 DEF Environment

LEMMA StepPromised == IndInv /\ [Next]_vars => [Promise!Next]_(Promise!vars)
  <1> SUFFICES ASSUME IndInv, [Next]_vars
               PROVE  Promise!Next \/ UNCHANGED Promise!vars
    OBVIOUS
  <1> Settlement /\ Settlement'
    BY IndStep, OnlySubmissionsSettle, OnlySubmissionsSettlePrime
  <1>1. CASE \E t \in Task : \E o \in Ops[t] : Begin(t, o, "account")
    BY <1>1, BeginIsNext
  <1>2. CASE \E t \in Task : Submission(t)
    BY <1>2, SubmissionPromised
  <1>3. CASE \E t \in Task : Cancel(t)
    BY <1>3, ReturnUnknown DEF Cancel
  <1>4. CASE Environment
    BY <1>4, EnvironmentPromised
  <1>5. CASE UNCHANGED vars
    BY <1>5, Quiet DEF vars, netVars, taskVars, Open, Submitted
  <1>6. QED
    BY <1>1, <1>2, <1>3, <1>4, <1>5 DEF Next

LEMMA InitPromised == Init => Promise!Init
  BY DEF Init, NetInit, TaskInit, Promise!Init, Open, Settled, Submitted, Drafted, Told

(* The calls of prepare_and_send implement Outcome, however many tasks there *)
(* are and however they share accounts.                                      *)
THEOREM CallsKeepThePromise == Spec => ImplementsOutcome
  <1>1. Init => Promise!Init
    BY InitPromised
  <1>2. IndInv /\ [Next]_vars => [Promise!Next]_(Promise!vars)
    BY StepPromised
  <1>3. Spec => []IndInv
    BY IndInvariant
  <1>4. QED
    BY <1>1, <1>2, <1>3, PTL DEF Spec, ImplementsOutcome, Promise!Spec
=============================================================================
