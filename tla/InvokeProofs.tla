---------------------------- MODULE InvokeProofs ----------------------------
(***************************************************************************)
(* For any number of tasks on any cells: the sole writer of a cell has     *)
(* been told what the cell holds or has itself left open what changed it,  *)
(* and a submission that changes nothing was overtaken by another write.   *)
(***************************************************************************)
EXTENDS Invoke, TxBuilderProofs

(* The call in hand is one on cell k.                                        *)
Holds(t, k) == pc[t] # "idle" /\ tx[t].op.cell = k

(* The last transaction of an idle task is that of a call it has made.       *)
KeptInv ==
  \A t \in Task : pc[t] = "idle" /\ tx[t] # NoTx =>
    \E c \in calls : c.task = t /\ c.tx = tx[t]

(* The transaction in hand is the last word on its cell once it succeeds.    *)
WrittenInv ==
  \A t \in Task, k \in Cell :
    SoleWriter(t, k) /\ Holds(t, k) /\ tx[t] \in succeeded
      => store[k] = tx[t].op.value

(* A transaction that a call of t had left open explains what k holds.       *)
Explained(t, k, c) ==
  \E u \in Of(t, k) :
    LeftOpen(u, c) /\ u.tx \in succeeded /\ store[k] = u.tx.op.value

(* Until then the cell is as the last call that was Ok or skipped left it,   *)
(* or as a transaction left open at that call has since.                     *)
AgreedInv ==
  \A t \in Task, k \in Cell : SoleWriter(t, k) =>
    \A c \in Of(t, k) :
      /\ c.kind \in {"Ok", "Skipped"}
      /\ \A d \in Of(t, k) : d.n > c.n => d.kind # "Ok"
      /\ ~ (Holds(t, k) /\ tx[t] \in succeeded)
      => store[k] = c.tx.op.value \/ Explained(t, k, c)

(* What the simulation has seen would change something does so, unless the   *)
(* call has been overtaken or its number is used up.                         *)
Effective(t, m, entry) ==
  \/ [task |-> t, n |-> m] \in overtaken
  \/ entry \in Tx /\ entry.seq <= seq[entry.source]
  \/ Changes(entry.op)

ChangesInv ==
  /\ \A c \in calls : c.tx \in Tx => Effective(c.task, c.n, c.tx)
  /\ \A t \in Task : pc[t] \in Built \cup {"fee", "account"} =>
       Effective(t, n[t], tx[t])

OvertakenTyped == overtaken \subseteq [task : Task, n : Nat \ {0}]

StoreInv ==
  /\ store \in [Cell -> Value] /\ OvertakenTyped
  /\ KeptInv /\ WrittenInv /\ AgreedInv /\ ChangesInv

InvokeInv == IndInv /\ StoreInv

USE DEF Landed, Unknown, Kinds, BuilderLabels, Built, Early, AnyLabel, AnyKind,
        InvokeLabels, InvokeKinds

-----------------------------------------------------------------------------
(* Who writes a cell *)

LEMMA CallTypes ==
  ASSUME IndInv
  PROVE  \A c \in calls : /\ c.task \in Task /\ c.n \in Nat \ {0}
                          /\ c.tx \in Tx \cup Draft
                          /\ c.n <= n[c.task] /\ n[c.task] \in Nat
                          /\ pc[c.task] # "idle" => c.n < n[c.task]
  BY DEF IndInv, Inv, Typed, Recorded, CallInv

LEMMA LedgerTypes ==
  ASSUME IndInv
  PROVE  /\ Ledger \cup pending \cup wire \subseteq Tx
         /\ \A a \in Account : seq[a] \in Nat
         /\ \A x \in Tx : x.seq \in Nat /\ x.source \in Account /\ x # NoTx
         /\ succeeded \cap failed = {}
  BY DEF IndInv, Inv, Typed, NetTypeOK, Ledger, LedgerInv, Tx, NoTx

(* Of what is out on its cell, the sole writer has sent everything.          *)
LEMMA Senders ==
  ASSUME IndInv, NEW t \in Task, NEW k \in Cell, SoleWriter(t, k),
         NEW x \in Ledger \cup pending \cup wire, x.op.cell = k
  PROVE  \/ pc[t] \in {"poll", "wait"} /\ tx[t] = x
         \/ \E c \in Of(t, k) : c.kind \in Landed \cup Unknown /\ c.tx = x
  <1>1. CASE \E u \in Task : pc[u] \in {"poll", "wait"} /\ tx[u] = x
    <2>1. PICK u \in Task : pc[u] \in {"poll", "wait"} /\ tx[u] = x
      BY <1>1
    <2>2. x # NoTx
      BY LedgerTypes
    <2>3. u = t
      BY <2>1, <2>2 DEF SoleWriter
    <2>4. QED
      BY <2>1, <2>3
  <1>2. CASE \E c \in calls : c.kind \in Landed \cup Unknown /\ c.tx = x
    <2>1. PICK c \in calls : c.kind \in Landed \cup Unknown /\ c.tx = x
      BY <1>2
    <2>2. c \in Of(c.task, k) /\ c.task \in Task
      BY <2>1, CallTypes DEF Of
    <2>3. c.task = t
      BY <2>2 DEF SoleWriter
    <2>4. QED
      BY <2>1, <2>2, <2>3
  <1>3. QED
    BY <1>1, <1>2 DEF IndInv, Inv, OnlyWhatWasSent

(* What a call has built that has landed, or that one landed after it, comes *)
(* no later in the account's sequence than the ledger is.                    *)
LEMMA ClosedIsPast ==
  ASSUME IndInv, NEW c \in calls, c.tx \in Tx,
         \/ c.kind \in Landed
         \/ \E d \in calls : d.task = c.task /\ c.n < d.n /\ d.kind \in Landed
  PROVE  /\ c.tx.seq <= seq[c.tx.source]
         /\ pc[c.task] \in Built => c.tx.seq < tx[c.task].seq
  <1> USE DEF IndInv, Inv
  <1>1. ASSUME NEW d \in calls, d.kind \in Landed
        PROVE  d.tx \in Ledger /\ d.tx \in Tx /\ d.tx.seq <= seq[d.tx.source]
    BY <1>1 DEF ConfirmedOnLedger, Ledger, Typed, NetTypeOK, LedgerInv
  <1>2. c.tx.source = Source[c.task] /\ c.task \in Task
    BY CallTypes DEF CallInv
  <1>3. CASE c.kind \in Landed
    BY <1>1, <1>3 DEF CurrentInv
  <1>4. CASE \E d \in calls : d.task = c.task /\ c.n < d.n /\ d.kind \in Landed
    <2>1. PICK d \in calls : d.task = c.task /\ c.n < d.n /\ d.kind \in Landed
      BY <1>4
    <2>2. d.tx \in Tx /\ d.tx.seq <= seq[d.tx.source] /\ d.tx.source = c.tx.source
      BY <1>1, <1>2, <2>1 DEF CallInv
    <2>3. c.tx.seq <= d.tx.seq
      BY <2>1, <2>2 DEF OrderInv
    <2>4. pc[c.task] \in Built => d.tx.seq < tx[c.task].seq
      BY <2>1 DEF CurrentInv
    <2>5. /\ c.tx.seq \in Nat /\ d.tx.seq \in Nat /\ seq[c.tx.source] \in Nat
          /\ pc[c.task] \in Built => tx[c.task].seq \in Nat
      BY <1>2, <2>2, LedgerTypes DEF BuiltInv
    <2>6. QED
      BY <2>2, <2>3, <2>4, <2>5
  <1>5. QED
    BY <1>3, <1>4

(* What can still be applied on a sole writer's cell, or is in hand, is the  *)
(* transaction being waited for or that of a call nothing has settled.       *)
LEMMA InHandOrOpen ==
  ASSUME IndInv, NEW t \in Task, NEW k \in Cell, SoleWriter(t, k),
         NEW x \in Ledger \cup pending, x.op.cell = k,
         \/ x.seq = seq[x.source] + 1
         \/ pc[t] \in Built /\ tx[t] = x
  PROVE  \/ pc[t] \in {"poll", "wait"} /\ tx[t] = x
         \/ \E u \in Of(t, k) :
              /\ u.kind \in Unknown /\ u.tx = x
              /\ \A d \in calls : d.task = t /\ u.n < d.n => d.kind \notin Landed
  <1> SUFFICES ASSUME NEW c \in Of(t, k), c.kind \in Landed \cup Unknown, c.tx = x,
                      \/ c.kind \in Landed
                      \/ \E d \in calls : d.task = t /\ c.n < d.n /\ d.kind \in Landed
               PROVE  FALSE
    BY Senders
  <1>1. c \in calls /\ c.task = t /\ x \in Tx
    BY LedgerTypes DEF Of
  <1>2. /\ x.seq <= seq[x.source]
        /\ pc[t] \in Built => x.seq < tx[t].seq
    BY <1>1, ClosedIsPast
  <1>3. x.seq \in Nat /\ seq[x.source] \in Nat
    BY <1>1, LedgerTypes
  <1>4. QED
    BY <1>2, <1>3

LEMMA SimulatedIs ==
  ASSUME NEW s
  PROVE  s \in Simulated <=>
           \/ \E c \in calls : /\ c.tx.seq # 0
                               /\ s = [task |-> c.task, n |-> c.n, entry |-> c.tx]
           \/ \E t \in Task : /\ pc[t] \notin {"idle", "simAccount", "simulate"}
                              /\ s = Current(t)
  BY DEF Simulated, Current

(* Whoever of a task has sent x first overtakes the calls of other tasks, and*)
(* the task's own later ones.                                                *)
LEMMA Overtakes ==
  ASSUME NEW s \in Simulated, NEW u \in Submitted, NEW x,
         s.entry.op.cell = x.op.cell, u.entry = x, u.task # s.task \/ u.n < s.n
  PROVE  [task |-> s.task, n |-> s.n] \in OvertakenBy(x)
  BY DEF OvertakenBy

(* A sole writer has been one from the start: no task forgets a cell.        *)
LEMMA WriterStays ==
  ASSUME IndInv, calls \subseteq calls',
         \A u \in Task : tx[u] # NoTx =>
           \/ tx'[u] # NoTx /\ tx'[u].op = tx[u].op
           \/ \E c \in calls' : c.task = u /\ c.tx = tx[u],
         NEW t \in Task, NEW k \in Cell, SoleWriter(t, k)'
  PROVE  SoleWriter(t, k)
  BY DEF SoleWriter, Of

-----------------------------------------------------------------------------
(* Steps of the calls *)

LEMMA InvokeStarts == InvokeInit => InvokeInv
  <1> SUFFICES ASSUME InvokeInit
               PROVE  InvokeInv
    OBVIOUS
  <1>1. IndInv
    BY IndInit DEF InvokeInit
  <1>2. store \in [Cell -> Value] /\ OvertakenTyped
    BY InvokeAssumption DEF InvokeInit, OvertakenTyped
  <1>3. KeptInv /\ WrittenInv /\ AgreedInv /\ ChangesInv
    BY DEF InvokeInit, Init, TaskInit, KeptInv, WrittenInv, AgreedInv, ChangesInv,
       Holds, Of
  <1>4. QED
    BY <1>1, <1>2, <1>3 DEF InvokeInv, StoreInv

(* A call that goes on.  It gets to its fee past a simulation that has seen  *)
(* it would change the cell, and to its number for a new transaction.        *)
LEMMA GoOnStep ==
  ASSUME IndInv, StoreInv, NEW t \in Task, NEW label \in AnyLabel \ {"idle"},
         Goto(t, label), pc[t] # "idle",
         \A u \in Task \ {t} : tx'[u] = tx[u],
         tx'[t].op = tx[t].op, tx'[t] # NoTx,
         \/ tx'[t] = tx[t]
         \/ tx[t] \notin Ledger /\ tx'[t] \notin Ledger /\ tx[t] \notin Tx,
         \/ label \in {"simAccount", "simulate"}
         \/ pc[t] \in Built \cup {"fee", "account"}
         \/ Changes(tx[t].op),
         UNCHANGED <<n, calls, cellVars, seq, succeeded, failed>>
  PROVE  StoreInv'
  <1> USE DEF StoreInv, cellVars
  <1>1. pc' = [pc EXCEPT ![t] = label] /\ pc \in [Task -> AnyLabel]
    BY DEF Goto, IndInv, Inv, Typed
  <1>2. \A u \in Task : /\ pc'[u] = "idle" <=> pc[u] = "idle"
                        /\ tx'[u].op = tx[u].op
                        /\ u # t => pc'[u] = pc[u] /\ tx'[u] = tx[u]
    BY <1>1
  <1>3. \A u \in Task, k \in Cell : SoleWriter(u, k)' => SoleWriter(u, k)
    BY <1>2, WriterStays
  <1>4. \A u \in Task, k \in Cell : Holds(u, k)' <=> Holds(u, k)
    BY <1>2 DEF Holds
  <1>5. \A u \in Task : /\ tx'[u] \in succeeded <=> tx[u] \in succeeded
                        /\ tx'[u] \in Ledger <=> tx[u] \in Ledger
    BY <1>2 DEF Ledger
  <1>6. KeptInv'
    BY <1>1, <1>2 DEF KeptInv
  <1>7. WrittenInv'
    BY <1>2, <1>3, <1>4, <1>5 DEF WrittenInv
  <1>8. AgreedInv'
    <2> SUFFICES ASSUME NEW u \in Task, NEW k \in Cell, SoleWriter(u, k),
                        NEW c \in Of(u, k),
                        c.kind \in {"Ok", "Skipped"},
                        \A d \in Of(u, k) : d.n > c.n => d.kind # "Ok",
                        ~ (Holds(u, k) /\ tx[u] \in succeeded)
                 PROVE  (store[k] = c.tx.op.value \/ Explained(u, k, c))'
      BY <1>3, <1>4, <1>5 DEF AgreedInv, Of
    <2>1. store[k] = c.tx.op.value \/ Explained(u, k, c)
      BY DEF AgreedInv
    <2>2. QED
      BY <2>1 DEF Explained, Of, LeftOpen
  <1>9. ChangesInv'
    <2>1. \A c \in calls' : (c.tx \in Tx => Effective(c.task, c.n, c.tx))'
      BY DEF ChangesInv, Effective, Changes
    <2>2. ASSUME NEW u \in Task, pc'[u] \in Built \cup {"fee", "account"}
          PROVE  Effective(u, n[u], tx[u])'
      <3>1. CASE u = t /\ pc[t] \notin Built \cup {"fee", "account"}
        BY <1>1, <1>2, <2>2, <3>1 DEF Effective, Changes
      <3>2. CASE pc[u] \in Built \cup {"fee", "account"}
        <4>1. Effective(u, n[u], tx[u])
          BY <3>2 DEF ChangesInv
        <4>2. tx'[u] = tx[u] \/ tx[u] \notin Tx
          BY <1>2
        <4>3. QED
          BY <1>2, <4>1, <4>2 DEF Effective, Changes
      <3>3. QED
        BY <1>2, <2>2, <3>1, <3>2
    <2>3. QED
      BY <2>1, <2>2 DEF ChangesInv
  <1>10. OvertakenTyped'
    BY DEF OvertakenTyped
  <1>11. QED
    BY <1>6, <1>7, <1>8, <1>9, <1>10

LEMMA BeginKeeps ==
  ASSUME IndInv, StoreInv, NEW t \in Task, NEW o \in Operation,
         Begin(t, o, "simAccount"), UNCHANGED cellVars
  PROVE  StoreInv'
  <1> USE DEF StoreInv, cellVars
  <1>1. /\ pc' = [pc EXCEPT ![t] = "simAccount"] /\ pc[t] = "idle"
        /\ tx' = [tx EXCEPT ![t] = [source |-> Source[t], seq |-> 0, op |-> o]]
        /\ \A u \in Task : u # t => n'[u] = n[u]
        /\ UNCHANGED <<calls, seq, succeeded, failed>>
        /\ pc \in [Task -> AnyLabel] /\ tx \in [Task -> Tx \cup Draft \cup {NoTx}]
    BY DEF Begin, Goto, netVars, IndInv, Inv, Typed
  <1>2. tx'[t] \in Draft /\ tx'[t] \notin Tx /\ tx'[t] # NoTx
    BY <1>1, DraftIsNoTransaction, NoTxIsNoTransaction
  <1>3. \A u \in Task : u # t => pc'[u] = pc[u] /\ tx'[u] = tx[u]
    BY <1>1
  <1>4. \A u \in Task, k \in Cell : SoleWriter(u, k)' => SoleWriter(u, k)
    <2>1. tx[t] # NoTx => \E c \in calls : c.task = t /\ c.tx = tx[t]
      BY <1>1 DEF KeptInv
    <2>2. QED
      BY <1>1, <1>3, <2>1, WriterStays
  <1>5. tx'[t] \notin succeeded /\ pc'[t] = "simAccount"
    BY <1>1, <1>2, LedgerTypes DEF Ledger
  <1>6. \A u \in Task, k \in Cell : u # t => Holds(u, k)' = Holds(u, k)
    BY <1>3 DEF Holds
  <1>7. \A k \in Cell : ~ Holds(t, k)
    BY <1>1 DEF Holds
  <1>8. KeptInv'
    BY <1>1, <1>3, <1>5 DEF KeptInv
  <1>9. WrittenInv'
    BY <1>1, <1>3, <1>4, <1>5, <1>6 DEF WrittenInv
  <1>10. AgreedInv'
    <2> SUFFICES ASSUME NEW u \in Task, NEW k \in Cell, SoleWriter(u, k),
                        NEW c \in Of(u, k),
                        c.kind \in {"Ok", "Skipped"},
                        \A d \in Of(u, k) : d.n > c.n => d.kind # "Ok",
                        ~ (Holds(u, k) /\ tx[u] \in succeeded)
                 PROVE  (store[k] = c.tx.op.value \/ Explained(u, k, c))'
      BY <1>1, <1>3, <1>4, <1>6, <1>7 DEF AgreedInv, Of
    <2>1. store[k] = c.tx.op.value \/ Explained(u, k, c)
      BY DEF AgreedInv
    <2>2. QED
      BY <1>1, <2>1 DEF Explained, Of, LeftOpen
  <1>11. ChangesInv'
    BY <1>1, <1>3, <1>5 DEF ChangesInv, Effective, Changes
  <1>12. OvertakenTyped'
    BY DEF OvertakenTyped
  <1>13. QED
    BY <1>8, <1>9, <1>10, <1>11, <1>12

(* A call that returns has left its cell as the last Ok or skipped one did,  *)
(* unless it is that one, or leaves open what it has done.                   *)
LEMMA ReturnKeeps ==
  ASSUME IndInv, StoreInv, NEW t \in Task, NEW kind \in AnyKind, Return(t, kind),
         pc[t] # "idle", UNCHANGED <<cellVars, seq, succeeded, failed>>,
         pc[t] \in {"poll", "wait"} => kind \in Landed \cup Unknown,
         kind = "Ok" => tx[t] \in succeeded,
         kind = "TransactionFailed" => tx[t] \in failed,
         kind = "Skipped" => ~ Changes(tx[t].op)
  PROVE  StoreInv'
  <1> DEFINE r == [task |-> t, n |-> n[t], kind |-> kind, tx |-> tx[t]]
  <1> USE DEF StoreInv, cellVars
  <1>1. /\ pc' = [pc EXCEPT ![t] = "idle"] /\ pc \in [Task -> AnyLabel]
        /\ calls' = calls \cup {r} /\ UNCHANGED <<n, tx>>
    BY DEF Return, Goto, IndInv, Inv, Typed
  <1>2. r.task = t /\ r.n = n[t] /\ r.kind = kind /\ r.tx = tx[t]
    OBVIOUS
  <1> HIDE DEF r
  <1>3. \A u \in Task, k \in Cell : SoleWriter(u, k)' => SoleWriter(u, k)
    BY <1>1, WriterStays
  <1>4. /\ \A k \in Cell : ~ Holds(t, k)'
        /\ \A u \in Task, k \in Cell : u # t => Holds(u, k)' = Holds(u, k)
        /\ \A u \in Task, k \in Cell : u # t => Of(u, k)' = Of(u, k)
    BY <1>1, <1>2 DEF Holds, Of
  <1>5. \A c \in calls : c.task = t => c.n < n[t] /\ c.n \in Nat /\ n[t] \in Nat
    BY CallTypes
  <1>6. KeptInv'
    BY <1>1, <1>2 DEF KeptInv
  <1>7. WrittenInv'
    BY <1>1, <1>3, <1>4 DEF WrittenInv
  <1>8. ChangesInv'
    <2>1. r.tx \in Tx => pc[t] \in Built
      BY <1>2 DEF IndInv, DraftInv
    <2>2. r.tx \in Tx => Effective(r.task, r.n, r.tx)
      BY <1>2, <2>1 DEF ChangesInv
    <2>3. ASSUME NEW c \in calls', c.tx \in Tx
          PROVE  Effective(c.task, c.n, c.tx)'
      BY <1>1, <2>2, <2>3 DEF ChangesInv, Effective, Changes
    <2>4. ASSUME NEW u \in Task, pc'[u] \in Built \cup {"fee", "account"}
          PROVE  Effective(u, n[u], tx[u])'
      BY <1>1, <2>4 DEF ChangesInv, Effective, Changes
    <2>5. QED
      BY <2>3, <2>4 DEF ChangesInv
  <1>9. AgreedInv'
    <2> SUFFICES ASSUME NEW u \in Task, NEW k \in Cell, SoleWriter(u, k),
                        NEW c \in Of(u, k)', c.kind \in {"Ok", "Skipped"},
                        \A d \in Of(u, k)' : d.n > c.n => d.kind # "Ok",
                        ~ (Holds(u, k) /\ tx[u] \in succeeded)'
                 PROVE  (store[k] = c.tx.op.value \/ Explained(u, k, c))'
      BY <1>1, <1>3 DEF AgreedInv
    <2>1. CASE u # t
      <3>1. store[k] = c.tx.op.value \/ Explained(u, k, c)
        BY <1>1, <1>4, <2>1 DEF AgreedInv
      <3>2. ASSUME NEW v \in Of(u, k), LeftOpen(v, c)
            PROVE  LeftOpen(v, c)'
        BY <1>1, <1>2, <2>1, <3>2 DEF LeftOpen, Of
      <3>3. Explained(u, k, c) => Explained(u, k, c)'
        BY <1>1, <1>4, <2>1, <3>2 DEF Explained
      <3>4. QED
        BY <3>1, <3>3
    <2>2. CASE u = t /\ c = r
      <3>1. tx[t].op.cell = k /\ Holds(t, k)
        BY <1>2, <2>2 DEF Of, Holds
      <3>2. CASE kind = "Ok"
        BY <1>2, <2>2, <3>1, <3>2 DEF WrittenInv
      <3>3. CASE kind = "Skipped"
        BY <1>2, <2>2, <3>1, <3>3 DEF Changes
      <3>4. QED
        BY <1>2, <2>2, <3>2, <3>3
    <2>3. CASE u = t /\ c # r
      <3>1. /\ c \in calls /\ c \in Of(t, k) /\ c.n < n[t] /\ c.n \in Nat /\ n[t] \in Nat
            /\ Of(t, k) \subseteq Of(t, k)'
        BY <1>1, <1>5, <2>3 DEF Of
      <3>2. ASSUME NEW v \in calls, LeftOpen(v, c)
            PROVE  LeftOpen(v, c)'
        BY <1>1, <1>2, <3>1, <3>2 DEF LeftOpen
      <3>3. CASE ~ (Holds(t, k) /\ tx[t] \in succeeded)
        <4>1. store[k] = c.tx.op.value \/ Explained(t, k, c)
          BY <2>3, <3>1, <3>3 DEF AgreedInv
        <4>2. Explained(t, k, c) => Explained(t, k, c)'
          BY <1>1, <3>1, <3>2 DEF Explained, Of
        <4>3. QED
          BY <2>3, <4>1, <4>2
      <3>4. CASE Holds(t, k) /\ tx[t] \in succeeded
        <4>1. r \in Of(t, k)' /\ r.n > c.n
          BY <1>1, <1>2, <3>1, <3>4 DEF Of, Holds
        <4>2. kind \notin Landed
          BY <1>2, <2>3, <3>4, <4>1, LedgerTypes
        <4>3. store[k] = tx[t].op.value
          BY <2>3, <3>4 DEF WrittenInv
        <4>4. \A d \in calls : d.task = t => d.n \in Nat
          BY <1>5
        <4>5. CASE kind \in Unknown
          <5>1. PICK q \in calls' : q = r
            BY <1>1
          <5>2. LeftOpen(q, c)'
            BY <1>1, <1>2, <1>5, <3>1, <4>5, <5>1 DEF LeftOpen
          <5>3. /\ q \in Of(t, k)' /\ q.tx = tx[t]
                /\ tx[t] \in succeeded' /\ store'[k] = tx[t].op.value
            BY <1>2, <3>4, <4>1, <4>3, <5>1
          <5>4. Explained(t, k, c)'
            BY <5>2, <5>3 DEF Explained
          <5>5. QED
            BY <2>3, <5>4
        <4>6. CASE kind \notin Unknown
          <5>1. pc[t] \in Built /\ pc[t] \notin {"poll", "wait"}
            BY <3>4, <4>2, <4>6, LedgerTypes DEF Ledger, IndInv, DraftInv
          <5>2. tx[t] \in Ledger /\ tx[t].op.cell = k
            BY <3>4 DEF Ledger, Holds
          <5>3. PICK v \in Of(t, k) :
                  /\ v.kind \in Unknown /\ v.tx = tx[t]
                  /\ \A d \in calls : d.task = t /\ v.n < d.n => d.kind \notin Landed
            BY <2>3, <5>1, <5>2, InHandOrOpen
          <5>4. LeftOpen(v, c) /\ v \in calls
            BY <5>3 DEF LeftOpen, Of
          <5>5. v \in Of(t, k)' /\ LeftOpen(v, c)'
            BY <3>1, <3>2, <5>4
          <5>6. QED
            BY <1>1, <2>3, <3>4, <4>3, <5>3, <5>5 DEF Explained
        <4>7. QED
          BY <4>5, <4>6
      <3>5. QED
        BY <3>3, <3>4
    <2>4. QED
      BY <1>1, <1>4, <2>1, <2>2, <2>3
  <1>10. OvertakenTyped'
    BY DEF OvertakenTyped
  <1>11. QED
    BY <1>6, <1>7, <1>8, <1>9, <1>10

-----------------------------------------------------------------------------
(* Steps of the network *)

(* Whoever has simulated a write of x's cell and is not overtaken by x has   *)
(* built x itself, or a transaction before it.                               *)
LEMMA NotOvertaken ==
  ASSUME IndInv, NEW x \in pending, NEW s \in Simulated,
         s.entry.op.cell = x.op.cell,
         [task |-> s.task, n |-> s.n] \notin OvertakenBy(x),
         x.seq = seq[x.source] + 1
  PROVE  s.entry \in Tx /\ s.entry.source = x.source /\ s.entry.seq <= x.seq
  <1> USE DEF IndInv, Inv
  <1>1. PICK u \in Submitted : u.entry = x
    <2>1. CASE \E t \in Task : pc[t] \in {"poll", "wait"} /\ tx[t] = x
      <3>1. PICK t \in Task : pc[t] \in {"poll", "wait"} /\ tx[t] = x
        BY <2>1
      <3>2. Current(t) \in Submitted /\ Current(t).entry = x
        BY <3>1, SubmittedIs DEF Current
      <3>3. QED
        BY <3>2
    <2>2. CASE \E c \in calls : c.kind \in Landed \cup Unknown /\ c.tx = x
      <3>1. PICK c \in calls : c.kind \in Landed \cup Unknown /\ c.tx = x
        BY <2>2
      <3>2. [task |-> c.task, n |-> c.n, entry |-> c.tx] \in Submitted
        BY <3>1, SubmittedIs
      <3>3. QED
        BY <3>1, <3>2
    <2>3. QED
      BY <2>1, <2>2 DEF OnlyWhatWasSent
  <1>2. u.task = s.task /\ ~ (u.n < s.n)
    BY <1>1, Overtakes
  <1>3. x \in Tx /\ x.seq \in Nat /\ seq[x.source] \in Nat
    BY LedgerTypes
  <1>4. CASE \E t \in Task : pc[t] \in {"poll", "wait"} /\ u = Current(t)
    <2>1. PICK t \in Task : pc[t] \in {"poll", "wait"} /\ u = Current(t)
      BY <1>4
    <2>2. u.task = t /\ u.n = n[t] /\ tx[t] = x /\ x.source = Source[t] /\ s.task = t
      BY <1>1, <1>2, <2>1 DEF Current, BuiltInv
    <2>3. CASE s = Current(t)
      BY <1>3, <2>2, <2>3 DEF Current
    <2>4. ASSUME NEW c \in calls, c.tx.seq # 0,
                 s = [task |-> c.task, n |-> c.n, entry |-> c.tx]
          PROVE  s.entry \in Tx /\ s.entry.source = x.source /\ s.entry.seq <= x.seq
      <3>1. c.tx \in Tx /\ c.task = t
        BY <2>2, <2>4, CallTypes DEF Draft
      <3>2. QED
        BY <2>1, <2>2, <2>4, <3>1 DEF CallInv, CurrentInv
    <2>5. QED
      BY <2>2, <2>3, <2>4, SimulatedIs DEF Current
  <1>5. CASE \E c \in calls : /\ c.kind \in Landed \cup Unknown
                             /\ u = [task |-> c.task, n |-> c.n, entry |-> c.tx]
    <2>1. PICK c \in calls : /\ c.kind \in Landed \cup Unknown
                            /\ u = [task |-> c.task, n |-> c.n, entry |-> c.tx]
      BY <1>5
    <2>2. /\ c.tx = x /\ c.task = s.task /\ ~ (c.n < s.n) /\ c.n \in Nat
          /\ x.source = Source[c.task]
      BY <1>1, <1>2, <1>3, <2>1, CallTypes DEF CallInv
    <2>3. ASSUME NEW t \in Task, s = Current(t),
                 pc[t] \notin {"idle", "simAccount", "simulate"}
          PROVE  FALSE
      BY <2>2, <2>3, CallTypes DEF Current
    <2>4. ASSUME NEW d \in calls, d.tx.seq # 0,
                 s = [task |-> d.task, n |-> d.n, entry |-> d.tx]
          PROVE  s.entry \in Tx /\ s.entry.source = x.source /\ s.entry.seq <= x.seq
      <3>1. d.tx \in Tx /\ d.task = c.task /\ d.n \in Nat
        BY <2>2, <2>4, CallTypes DEF Draft
      <3>2. CASE d.n < c.n
        BY <1>3, <2>2, <2>4, <3>1, <3>2 DEF CallInv, OrderInv
      <3>3. CASE d.n = c.n
        <4>1. d = c
          BY <3>1, <3>3 DEF OnceInv
        <4>2. s.entry = x
          BY <2>2, <2>4, <4>1
        <4>3. QED
          BY <1>3, <4>2
      <3>4. QED
        BY <2>2, <2>4, <3>1, <3>2, <3>3
    <2>5. QED
      BY <2>3, <2>4, SimulatedIs
  <1>6. QED
    <2>1. \/ \E c \in calls : /\ c.kind \in Landed \cup Unknown
                            /\ u = [task |-> c.task, n |-> c.n, entry |-> c.tx]
          \/ \E t \in Task : pc[t] \in {"poll", "wait"} /\ u = Current(t)
      BY SubmittedIs
    <2>2. QED
      BY <1>4, <1>5, <2>1

LEMMA CloseKeeps ==
  ASSUME IndInv, StoreInv, Close
  PROVE  StoreInv'
  <1> USE DEF StoreInv
  <1>1. PICK x \in pending, ok \in BOOLEAN :
          /\ Apply(x, ok)
          /\ \/ /\ ok
                /\ store' = [store EXCEPT ![x.op.cell] = x.op.value]
                /\ overtaken' = overtaken \cup OvertakenBy(x)
             \/ ~ ok /\ UNCHANGED cellVars
          /\ UNCHANGED taskVars
    BY DEF Close
  <1> USE DEF cellVars
  <1>2. UNCHANGED <<pc, n, tx, calls>>
    BY <1>1 DEF taskVars
  <1>3. /\ x \in Tx /\ x.seq = seq[x.source] + 1
        /\ succeeded' = IF ok THEN succeeded \cup {x} ELSE succeeded
        /\ Ledger' = Ledger \cup {x}
    BY <1>1, LedgerTypes DEF Apply, Ledger
  <1>4. x.op.cell \in Cell /\ x.op.value \in Value
    BY <1>3, InvokeAssumption DEF Tx
  <1>5. store' \in [Cell -> Value]
    BY <1>1, <1>4
  <1>6. \A k \in Cell : store'[k] = IF ok /\ k = x.op.cell THEN x.op.value ELSE store[k]
    BY <1>1, <1>4
  <1>7. \A u \in Task, k \in Cell : /\ SoleWriter(u, k)' <=> SoleWriter(u, k)
                                    /\ Holds(u, k)' <=> Holds(u, k)
                                    /\ Of(u, k)' = Of(u, k)
    BY <1>2 DEF SoleWriter, Holds, Of
  <1>8. KeptInv'
    BY <1>2 DEF KeptInv
  <1>9. WrittenInv'
    <2> SUFFICES ASSUME NEW t \in Task, NEW k \in Cell, SoleWriter(t, k), Holds(t, k),
                        tx[t] \in succeeded', ~ (ok /\ x = tx[t])
                 PROVE  store'[k] = tx[t].op.value
      <3>1. ASSUME NEW t \in Task, NEW k \in Cell, Holds(t, k), ok, x = tx[t]
            PROVE  store'[k] = tx[t].op.value
        BY <1>6, <3>1 DEF Holds
      <3>2. QED
        BY <1>2, <1>7, <3>1 DEF WrittenInv
    <2>1. tx[t] \in succeeded /\ store[k] = tx[t].op.value
      BY <1>3 DEF WrittenInv
    <2> SUFFICES ASSUME ok, x.op.cell = k
                 PROVE  FALSE
      BY <1>6, <2>1
    <2>2. tx[t] \in Tx /\ pc[t] \in Built
      BY <2>1, LedgerTypes DEF Ledger, Holds, IndInv, DraftInv
    <2>3. tx[t].seq <= seq[tx[t].source] /\ tx[t].source = Source[t]
      BY <2>2, <2>1 DEF IndInv, Inv, LedgerInv, Ledger, BuiltInv
    <2>4. PICK c \in Of(t, k) : c.kind \in Landed \cup Unknown /\ c.tx = x
      BY <1>1, Senders
    <2>5. x.seq <= tx[t].seq /\ x.source = Source[t]
      BY <1>3, <2>2, <2>4 DEF Of, IndInv, Inv, CurrentInv, CallInv
    <2>6. x.seq \in Nat /\ tx[t].seq \in Nat /\ seq[Source[t]] \in Nat
      BY <1>3, <2>2, <2>5, LedgerTypes
    <2>7. QED
      BY <1>3, <2>3, <2>5, <2>6
  <1>10. AgreedInv'
    <2> SUFFICES ASSUME NEW t \in Task, NEW k \in Cell, SoleWriter(t, k),
                        NEW c \in Of(t, k),
                        c.kind \in {"Ok", "Skipped"},
                        \A d \in Of(t, k) : d.n > c.n => d.kind # "Ok",
                        ~ (Holds(t, k) /\ tx[t] \in succeeded')
                 PROVE  (store[k] = c.tx.op.value \/ Explained(t, k, c))'
      BY <1>2, <1>7 DEF AgreedInv
    <2>1. \A u \in Of(t, k) : LeftOpen(u, c) => LeftOpen(u, c)'
      BY <1>2 DEF LeftOpen
    <2>2. CASE ok /\ x.op.cell = k
      <3>1. ~ (pc[t] \in {"poll", "wait"} /\ tx[t] = x)
        BY <1>3, <2>2 DEF Holds
      <3>2. PICK u \in Of(t, k) :
              /\ u.kind \in Unknown /\ u.tx = x
              /\ \A d \in calls : d.task = t /\ u.n < d.n => d.kind \notin Landed
        BY <1>3, <2>2, <3>1, InHandOrOpen
      <3>3. LeftOpen(u, c)
        BY <3>2 DEF LeftOpen, Of
      <3>4. QED
        BY <1>3, <1>6, <1>7, <2>1, <2>2, <3>2, <3>3 DEF Explained
    <2>3. CASE ~ (ok /\ x.op.cell = k)
      <3>1. store'[k] = store[k] /\ succeeded \subseteq succeeded'
        BY <1>3, <1>6, <2>3
      <3>2. store[k] = c.tx.op.value \/ Explained(t, k, c)
        BY <3>1 DEF AgreedInv
      <3>3. QED
        BY <1>7, <2>1, <3>1, <3>2 DEF Explained
    <2>4. QED
      BY <2>2, <2>3
  <1>11. ChangesInv'
    <2>1. /\ seq' = [seq EXCEPT ![x.source] = x.seq]
          /\ \A a \in Account : seq[a] \in Nat /\ seq'[a] \in Nat /\ seq[a] <= seq'[a]
          /\ x.source \in Account /\ seq'[x.source] = x.seq
      <3>1. seq' = [seq EXCEPT ![x.source] = x.seq] /\ seq \in [Account -> Nat]
        BY <1>1 DEF Apply, IndInv, Inv, Typed, NetTypeOK
      <3>2. x.source \in Account /\ x.seq \in Nat
        BY <1>3, LedgerTypes
      <3>3. QED
        BY <1>3, <3>1, <3>2
    <2>2. \A y \in Tx : y.source \in Account /\ y.seq \in Nat
      BY LedgerTypes
    <2>3. ASSUME NEW s \in Simulated, s.entry.op.cell \in Cell,
                 Effective(s.task, s.n, s.entry)
          PROVE  \/ [task |-> s.task, n |-> s.n] \in overtaken'
                 \/ s.entry \in Tx /\ s.entry.seq <= seq'[s.entry.source]
                 \/ store'[s.entry.op.cell] # s.entry.op.value
      <3>1. CASE ok /\ s.entry.op.cell = x.op.cell
        BY <1>1, <1>3, <2>1, <3>1, NotOvertaken
      <3>2. CASE ~ (ok /\ s.entry.op.cell = x.op.cell)
        BY <1>1, <1>6, <2>1, <2>2, <2>3, <3>2 DEF Effective, Changes
      <3>3. QED
        BY <3>1, <3>2
    <2>4. \A y \in Tx \cup Draft : y.op.cell \in Cell
      BY InvokeAssumption DEF Tx, Draft
    <2>5. ASSUME NEW c \in calls', c.tx \in Tx
          PROVE  Effective(c.task, c.n, c.tx)'
      <3> DEFINE s == [task |-> c.task, n |-> c.n, entry |-> c.tx]
      <3>1. c \in calls /\ c.tx.seq # 0 /\ Effective(c.task, c.n, c.tx)
        BY <1>2, <2>5 DEF ChangesInv, Tx
      <3>2. s \in Simulated
        BY <3>1, SimulatedIs
      <3>3. s.task = c.task /\ s.n = c.n /\ s.entry = c.tx
        OBVIOUS
      <3> HIDE DEF s
      <3>4. QED
        BY <2>3, <2>4, <2>5, <3>1, <3>2, <3>3 DEF Effective, Changes
    <2>6. ASSUME NEW t \in Task, pc'[t] \in Built \cup {"fee", "account"}
          PROVE  Effective(t, n[t], tx[t])'
      <3> DEFINE s == Current(t)
      <3>1. pc[t] = pc'[t] /\ Effective(t, n[t], tx[t])
        BY <1>2, <2>6 DEF ChangesInv
      <3>2. s \in Simulated
        BY <2>6, <3>1, SimulatedIs
      <3>3. s.task = t /\ s.n = n[t] /\ s.entry = tx[t]
        BY DEF Current
      <3>4. tx[t] \in Tx \cup Draft
        BY <2>6, <3>1 DEF IndInv, CountInv, Inv, Typed
      <3> HIDE DEF s
      <3>5. QED
        BY <1>2, <2>3, <2>4, <3>1, <3>2, <3>3, <3>4 DEF Effective, Changes
    <2>7. QED
      BY <2>5, <2>6 DEF ChangesInv
  <1>12. OvertakenTyped'
    <2>1. \A s \in Simulated : s.task \in Task /\ s.n \in Nat \ {0}
      <3>1. \A c \in calls : c.task \in Task /\ c.n \in Nat \ {0}
        BY CallTypes
      <3>2. \A t \in Task : pc[t] # "idle" => n[t] \in Nat \ {0}
        BY DEF IndInv, CountInv, Inv, Typed
      <3>3. QED
        BY <3>1, <3>2, SimulatedIs DEF Current
    <2>2. OvertakenBy(x) \subseteq [task : Task, n : Nat \ {0}]
      BY <2>1 DEF OvertakenBy
    <2>3. QED
      BY <1>1, <2>2 DEF OvertakenTyped
  <1>13. QED
    BY <1>5, <1>8, <1>9, <1>10, <1>11, <1>12

LEMMA StillStore ==
  StoreInv /\ UNCHANGED <<taskVars, cellVars, seq, succeeded, failed>> => StoreInv'
  BY DEF taskVars, cellVars, StoreInv, OvertakenTyped, KeptInv, WrittenInv, AgreedInv,
     ChangesInv, Holds, Of, SoleWriter, Explained, LeftOpen, Effective, Changes

-----------------------------------------------------------------------------
(* Every step *)

LEMMA SubmissionKeeps ==
  ASSUME IndInv, StoreInv, NEW t \in Task, Submission(t), UNCHANGED cellVars
  PROVE  StoreInv'
  <1>1. CASE GetAccount(t)
    <2>1. /\ pc[t] = "account" /\ UNCHANGED <<seq, succeeded, failed>>
          /\ tx[t] \in Draft /\ tx[t].source = Source[t]
          /\ tx \in [Task -> Tx \cup Draft \cup {NoTx}]
      BY <1>1 DEF GetAccount, netVars, IndInv, DraftInv, Inv, Typed
    <2>2. CASE Return(t, "Rpc")
      BY <2>1, <2>2, ReturnKeeps
    <2>3. CASE /\ tx' = [tx EXCEPT ![t] = Build(t)]
               /\ Goto(t, "prepare")
               /\ UNCHANGED <<n, calls>>
      <3>1. /\ tx'[t] = Build(t) /\ \A u \in Task \ {t} : tx'[u] = tx[u]
            /\ seq[Source[t]] \in Nat
        BY <2>1, <2>3, LedgerTypes, TxBuilderAssumption
      <3>2. Build(t) \in Tx /\ Build(t).source = Source[t] /\ Build(t).op = tx[t].op
            /\ Build(t).seq = seq[Source[t]] + 1
        BY <2>1, <3>1 DEF Build, Draft, Tx
      <3>3. Build(t) \notin Ledger
        BY <3>1, <3>2 DEF IndInv, Inv, LedgerInv
      <3>4. tx[t] \notin Ledger /\ tx[t] \notin Tx
        BY <2>1, LedgerTypes DEF Draft, Tx
      <3>5. Build(t) # NoTx
        BY <3>2, NoTxIsNoTransaction
      <3>6. QED
        BY <2>1, <2>3, <3>1, <3>2, <3>3, <3>4, <3>5, GoOnStep
    <2>4. QED
      BY <1>1, <2>2, <2>3 DEF GetAccount
  <1>2. CASE Prepare(t) \/ Sign(t) \/ Send(t) \/ Poll(t)
    <2>1. pc[t] \in Built /\ UNCHANGED <<seq, succeeded, failed>>
      BY <1>2 DEF Prepare, Sign, Send, Poll, Receive, netVars
    <2>2. ASSUME NEW kind \in Kinds, Return(t, kind),
                 pc[t] \in {"poll", "wait"} => kind \in Landed \cup Unknown,
                 kind = "Ok" => Status(tx[t]) = "Success",
                 kind = "TransactionFailed" => Status(tx[t]) = "Failed"
          PROVE  StoreInv'
      BY <2>1, <2>2, ReturnKeeps DEF Status
    <2>3. ASSUME NEW label \in Built, Goto(t, label), UNCHANGED <<n, tx, calls>>
          PROVE  StoreInv'
      <3>1. tx[t] # NoTx /\ pc[t] # "idle"
        BY <2>1 DEF IndInv, CountInv
      <3>2. /\ tx'[t] = tx[t] /\ \A u \in Task \ {t} : tx'[u] = tx[u]
            /\ label \in AnyLabel \ {"idle"}
            /\ UNCHANGED <<n, calls, cellVars, seq, succeeded, failed>>
        BY <2>1, <2>3
      <3>3. QED
        BY <2>1, <2>3, <3>1, <3>2, GoOnStep
    <2>4. CASE Prepare(t)
      BY <2>2, <2>3, <2>4 DEF Prepare
    <2>5. CASE Sign(t)
      BY <2>2, <2>3, <2>5 DEF Sign
    <2>6. CASE Send(t)
      BY <2>2, <2>3, <2>6 DEF Send
    <2>7. CASE Poll(t)
      BY <2>2, <2>3, <2>7 DEF Poll
    <2>8. QED
      BY <1>2, <2>4, <2>5, <2>6, <2>7
  <1>3. QED
    BY <1>1, <1>2 DEF Submission

(* What comes before the submission returns an error, or skips it where it   *)
(* would change nothing, or goes on where it would.                          *)
LEMMA EarlyKeeps ==
  ASSUME InvokeInv, NEW t \in Task,
         SimulateAccount(t) \/ Simulate(t) \/ TakeFee(t)
  PROVE  InvokeInv'
  <1> USE DEF InvokeInv
  <1>1. /\ pc[t] \in {"simAccount", "simulate", "fee"}
        /\ UNCHANGED <<netVars, cellVars>>
        /\ UNCHANGED <<seq, wire, pending, succeeded, failed>>
    BY DEF SimulateAccount, Simulate, TakeFee, netVars
  <1>2. ASSUME NEW kind \in {"Signer", "Xdr", "Rpc", "Simulation", "Skipped"},
               Return(t, kind), kind = "Skipped" => ~ Changes(tx[t].op)
        PROVE  InvokeInv'
    <2>1. IndInv'
      BY <1>1, <1>2, ReturnStep
    <2>2. StoreInv'
      BY <1>1, <1>2, ReturnKeeps
    <2>3. QED
      BY <2>1, <2>2
  <1>3. ASSUME NEW label \in {"simulate", "fee", "account"}, Goto(t, label),
               UNCHANGED <<n, tx, calls>>,
               label = "simulate" \/ pc[t] = "fee" \/ Changes(tx[t].op)
        PROVE  InvokeInv'
    <2>1. IndInv'
      BY <1>1, <1>3, EarlyStep
    <2>2. /\ tx'[t] = tx[t] /\ tx'[t] # NoTx /\ pc[t] # "idle"
          /\ \A u \in Task \ {t} : tx'[u] = tx[u]
          /\ label \in AnyLabel \ {"idle"}
          /\ UNCHANGED <<n, calls, cellVars, seq, succeeded, failed>>
      BY <1>1, <1>3 DEF IndInv, CountInv
    <2>3. \/ label \in {"simAccount", "simulate"}
          \/ pc[t] \in Built \cup {"fee", "account"}
          \/ Changes(tx[t].op)
      BY <1>3
    <2>4. StoreInv'
      BY <1>3, <2>2, <2>3, GoOnStep
    <2>5. QED
      BY <2>1, <2>4
  <1>4. CASE SimulateAccount(t)
    BY <1>2, <1>3, <1>4 DEF SimulateAccount
  <1>5. CASE Simulate(t)
    BY <1>2, <1>3, <1>5 DEF Simulate
  <1>6. CASE TakeFee(t)
    BY <1>3, <1>6 DEF TakeFee
  <1>7. QED
    BY <1>4, <1>5, <1>6

LEMMA InvokeStep == InvokeInv /\ [InvokeNext]_invokeVars => InvokeInv'
  <1> SUFFICES ASSUME InvokeInv, [InvokeNext]_invokeVars
               PROVE  InvokeInv'
    OBVIOUS
  <1> USE DEF InvokeInv
  <1>1. CASE \E t \in Task : \E o \in Ops[t] : Begin(t, o, "simAccount") /\ UNCHANGED cellVars
    <2>1. PICK t \in Task : \E o \in Ops[t] : Begin(t, o, "simAccount") /\ UNCHANGED cellVars
      BY <1>1
    <2>2. PICK o \in Ops[t] : Begin(t, o, "simAccount") /\ UNCHANGED cellVars
      BY <2>1
    <2>3. o \in Operation
      BY OpsAreOperations
    <2>4. IndInv'
      BY <2>2, <2>3, BeginStep
    <2>5. StoreInv'
      BY <2>2, <2>3, BeginKeeps
    <2>6. QED
      BY <2>4, <2>5
  <1>2. CASE \E t \in Task : Invocation(t)
    <2>1. PICK t \in Task : Invocation(t)
      BY <1>2
    <2>2. CASE SimulateAccount(t) \/ Simulate(t) \/ TakeFee(t)
      BY <2>2, EarlyKeeps
    <2>3. CASE Submission(t) /\ UNCHANGED cellVars
      BY <2>3, SubmissionStep, SubmissionKeeps
    <2>4. QED
      BY <2>1, <2>2, <2>3 DEF Invocation
  <1>3. CASE \E t \in Task : Cancel(t) /\ UNCHANGED cellVars
    <2>1. PICK t \in Task : Cancel(t) /\ UNCHANGED cellVars
      BY <1>3
    <2>2. Return(t, "Cancelled") /\ pc[t] # "idle" /\ UNCHANGED <<seq, succeeded, failed>>
      BY <2>1 DEF Cancel
    <2>3. StoreInv'
      BY <2>1, <2>2, ReturnKeeps
    <2>4. QED
      BY <2>1, <2>3, CancelStep
  <1>4. CASE \/ \E x \in wire : Arrive(x) /\ UNCHANGED <<taskVars, cellVars>>
             \/ \E x \in pending : Evict(x) /\ UNCHANGED <<taskVars, cellVars>>
    <2>1. UNCHANGED <<taskVars, cellVars, seq, succeeded, failed>>
      BY <1>4 DEF Arrive, Evict, Receive
    <2>2. Environment
      BY <1>4 DEF Environment
    <2>3. QED
      BY <2>1, <2>2, EnvironmentStep, StillStore
  <1>5. CASE Close
    <2>1. Environment
      BY <1>5 DEF Close, Environment
    <2>2. QED
      BY <1>5, <2>1, EnvironmentStep, CloseKeeps
  <1>6. CASE UNCHANGED invokeVars
    BY <1>6, IdleStep, StillStore DEF invokeVars, vars, netVars
  <1>7. QED
    BY <1>1, <1>2, <1>3, <1>4, <1>5, <1>6 DEF InvokeNext, BetweenLedgers

LEMMA InvokeInvariant == InvokeSpec => []InvokeInv
  BY InvokeStarts, InvokeStep, PTL DEF InvokeSpec

-----------------------------------------------------------------------------

LEMMA InvokeTyped == InvokeInv => InvokeTypeOK
  BY DEF InvokeInv, StoreInv, OvertakenTyped, IndInv, Inv, Typed, Recorded, InvokeTypeOK

(* Type correctness of the calls, the network they share and the contract.   *)
THEOREM InvokeTypeCorrect == InvokeSpec => []InvokeTypeOK
  BY InvokeTyped, InvokeInvariant, PTL

(* What the sole writer of a cell was told last is what the cell holds, past *)
(* timeouts, lost submissions and calls given up, or what a call of its own  *)
(* that was still open has made of it.                                       *)
THEOREM ViewsAgree == InvokeSpec => []ViewAgrees
  <1>1. InvokeInv => ViewAgrees
    BY DEF InvokeInv, StoreInv, AgreedInv, Explained, Holds, ViewAgrees
  <1>2. QED
    BY <1>1, InvokeInvariant, PTL

(* Only a close adds to what has succeeded.  What it adds has the number     *)
(* after its account's, so what its calls have seen in their simulation still*)
(* holds, unless they have been overtaken.                                   *)
LEMMA PaysStep ==
  ASSUME InvokeInv, [InvokeNext]_invokeVars, NEW x \in succeeded' \ succeeded,
         store' = store, NEW s \in Simulated, s.entry = x
  PROVE  [task |-> s.task, n |-> s.n] \in overtaken
  <1> USE DEF InvokeInv, StoreInv
  <1>1. Close
    BY DEF InvokeNext, BetweenLedgers, Invocation, Begin, SimulateAccount, Simulate,
       TakeFee, Submission, GetAccount, Prepare, Sign, Send, Poll, Cancel, Receive,
       Arrive, Evict, invokeVars, vars, netVars
  <1>2. /\ x \in pending /\ x.seq = seq[x.source] + 1
        /\ store' = [store EXCEPT ![x.op.cell] = x.op.value]
    <2>1. PICK y \in pending, ok \in BOOLEAN :
            /\ Apply(y, ok)
            /\ ok => store' = [store EXCEPT ![y.op.cell] = y.op.value]
      BY <1>1 DEF Close
    <2>2. x = y /\ ok
      BY <2>1 DEF Apply
    <2>3. QED
      BY <2>1, <2>2 DEF Apply
  <1>3. x \in Tx /\ x.seq \in Nat /\ seq[x.source] \in Nat /\ x.op.cell \in Cell
    BY <1>2, LedgerTypes, InvokeAssumption DEF Tx
  <1>4. ~ Changes(x.op)
    BY <1>2, <1>3 DEF Changes
  <1>5. Effective(s.task, s.n, s.entry)
    <2>1. CASE \E c \in calls : s = [task |-> c.task, n |-> c.n, entry |-> c.tx]
      BY <1>3, <2>1 DEF ChangesInv
    <2>2. CASE \E t \in Task : /\ pc[t] \notin {"idle", "simAccount", "simulate"}
                              /\ s = Current(t)
      BY <2>2 DEF ChangesInv, Current, IndInv, Inv, Typed
    <2>3. QED
      BY <2>1, <2>2, SimulatedIs
  <1>6. QED
    BY <1>2, <1>3, <1>4, <1>5 DEF Effective

(* No submission that succeeds changes nothing, but one that another write of*)
(* its cell has overtaken since its simulation.                              *)
THEOREM SubmissionsChange == InvokeSpec => PaysForChange
  <1>1. ASSUME InvokeInv, [InvokeNext]_invokeVars
        PROVE  [\A x \in succeeded' \ succeeded : store' = store =>
                  \A s \in Simulated :
                    s.entry = x => [task |-> s.task, n |-> s.n] \in overtaken
               ]_invokeVars
    BY <1>1, PaysStep
  <1>2. QED
    BY <1>1, InvokeInvariant, PTL DEF InvokeSpec, PaysForChange
=============================================================================
