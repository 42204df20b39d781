----------------------------- MODULE TtlProofs -----------------------------
(***************************************************************************)
(* For any number of tasks, accounts and entries, and however long the     *)
(* ledger goes on: a call restores and then extends, its retry finds the   *)
(* entry restored, an error that is not from the network leaves nothing    *)
(* open, and an extension that was executed holds.                         *)
(***************************************************************************)
EXTENDS Ttl, SequenceTheorems, TLAPS

Built == {"prepare", "sign", "send", "poll", "wait"}   \* tx[t] has its number
Sent == {"send", "poll", "wait"}                       \* and its signature

Refused == {"Simulation", "Signer", "Xdr", "InvalidAddress"}

(* A number is used up when it reaches the ledger.                           *)
LedgerInv == \A x \in Ledger : x.seq <= seq[x.source]

(* An extension that was applied to a live entry holds: a time to live is    *)
(* never made shorter.                                                       *)
ExtendedInv ==
  \A x \in succeeded \ lapsed :
    x.op.kind = "extend" => live[x.op.key] >= x.op.to

(* The leg of a call, the label it is at and its transaction go together.    *)
LegInv(t) ==
  /\ tx[t].source = Source[t]
  /\ tx[t].op.kind = IF leg[t] = "restore" THEN "restore" ELSE "extend"
  /\ pc[t] \in Built => tx[t] \in Tx
  /\ leg[t] = "restore" => pc[t] # "prepare"
  /\ pc[t] = "start" => leg[t] = "extend"
  /\ result[t] # "None" => pc[t] = "done"
  /\ result[t] = "Executed" => tx[t] \in succeeded /\ leg[t] # "restore"

(* What has been signed by then: in the first leg nothing or its own         *)
(* transaction, in the retry the succeeded restoration before it.            *)
FirstSigned(t) ==
  LET s == signed[t] IN
  leg[t] # "retry" =>
    /\ s = << >> \/ s = <<tx[t]>>
    /\ pc[t] \in Sent => s = <<tx[t]>>
    /\ pc[t] \notin Sent \cup {"done"} \/ result[t] \in Refused => s = << >>

RetrySigned(t) ==
  LET s == signed[t] IN
  leg[t] = "retry" =>
    /\ Len(s) = 1 \/ Len(s) = 2
    /\ s[1].op.kind = "restore" /\ s[1] \in succeeded /\ s[1].source = Source[t]
    /\ pc[t] \in {"prepare", "sign"} => s[1].seq < tx[t].seq
    /\ pc[t] \notin Sent \cup {"done"} \/ result[t] \in Refused => Len(s) = 1
    /\ Len(s) = 2 => s[2].op.kind = "extend" /\ s[1].seq < s[2].seq

(* The entry of a call that had to restore it was expired, and has another   *)
(* time to live once the restoration has succeeded.                          *)
FoundInv(t) ==
  LET k == tx[t].op.key IN
  /\ leg[t] # "extend" =>
       k \in Persistent /\ 0 < found[t] /\ found[t] < ledger /\ found[t] <= live[k]
  /\ leg[t] = "restore" /\ pc[t] \in Built /\ tx[t] \in succeeded
       => found[t] < live[k]
  /\ leg[t] = "retry" => found[t] < live[k]

CallInv(t) == LegInv(t) /\ FirstSigned(t) /\ RetrySigned(t) /\ FoundInv(t)

IndInv == TypeOK /\ LedgerInv /\ ExtendedInv /\ \A t \in Task : CallInv(t)

-----------------------------------------------------------------------------
(* The operators of the model *)

LEMMA SignedAppend ==
  ASSUME NEW S, NEW s \in Seq(S), NEW x \in S
  PROVE  /\ Append(s, x) \in Seq(S)
         /\ Len(Append(s, x)) = Len(s) + 1
         /\ s = << >> => Append(s, x) = <<x>>
         /\ Len(s) = 1 => Append(s, x)[1] = s[1] /\ Append(s, x)[2] = x
  <1>1. Append(s, x) \in Seq(S) /\ Len(Append(s, x)) = Len(s) + 1
    OBVIOUS
  <1>2. s = << >> => Append(s, x) = <<x>>
    OBVIOUS
  <1>3. ASSUME Len(s) = 1
        PROVE  Append(s, x)[1] = s[1] /\ Append(s, x)[2] = x
    <2>1. Append(s, x)[1] = s[1]
      BY <1>3, AppendProperties, 1 \in 1..Len(s)
    <2>2. Append(s, x)[Len(s) + 1] = x
      BY AppendProperties
    <2>4. Len(s) + 1 = 2
      BY <1>3
    <2>3. QED
      BY <2>1, <2>2, <2>4
  <1>4. QED
    BY <1>1, <1>2, <1>3

USE TtlAssumption DEF Labels, Legs, Results, Built, Sent, Refused

LEMMA OperationIs ==
  Operation = [kind : {"extend", "restore"}, key : Key, to : {e.to : e \in Extension}]
  /\ \A o \in Operation : o.key \in Key /\ o.to \in Nat
  OBVIOUS

LEMMA TxKind ==
  ASSUME NEW x \in Tx \cup Draft, NEW kind \in {"extend", "restore"}
  PROVE  LET y == [x EXCEPT !.op.kind = kind]
         IN  /\ y \in Tx \cup Draft
             /\ y.source = x.source /\ y.seq = x.seq
             /\ y.op.kind = kind /\ y.op.key = x.op.key /\ y.op.to = x.op.to
  BY DEF Tx, Draft

LEMMA TxNumber ==
  ASSUME NEW x \in Tx \cup Draft, NEW m \in Nat \ {0}
  PROVE  LET y == [x EXCEPT !.seq = m]
         IN  y \in Tx /\ y.source = x.source /\ y.seq = m /\ y.op = x.op
  BY DEF Tx, Draft

(* What is applied to an entry never makes its time to live shorter; an      *)
(* extension of a live one reaches its ledger, and an entry that has expired *)
(* or been restored since is not left as it was by a restoration.            *)
LEMMA EffectGrows ==
  ASSUME TypeOK, NEW o \in Operation
  PROVE  /\ Effect(o) \in [Key -> Nat]
         /\ \A k \in Key : live[k] <= Effect(o)[k]
         /\ o.kind = "extend" /\ Live(o.key) => Effect(o)[o.key] >= o.to
         /\ \A m \in Nat :
              /\ o.kind = "restore" /\ o.key \in Persistent
              /\ 0 < m /\ m < ledger /\ m <= live[o.key]
              => m < Effect(o)[o.key]
  BY OperationIs DEF TypeOK, Effect, Live, Archived

-----------------------------------------------------------------------------
(* Steps of the calls *)

CallTypes ==
  /\ pc \in [Task -> Labels]
  /\ leg \in [Task -> Legs]
  /\ tx \in [Task -> Tx \cup Draft]
  /\ signed \in [Task -> Seq(Tx)]
  /\ found \in [Task -> Nat]
  /\ result \in [Task -> Results]

(* A step of one call leaves the ledger, the entries and the other calls     *)
(* alone.                                                                    *)
LEMMA OneCall ==
  ASSUME IndInv, NEW t \in Task, CallTypes', CallInv(t)',
         UNCHANGED <<seq, succeeded, failed, entryVars>>,
         pending' \subseteq Tx, wire' \subseteq Tx,
         \A u \in Task \ {t} :
           /\ pc'[u] = pc[u] /\ leg'[u] = leg[u] /\ tx'[u] = tx[u]
           /\ signed'[u] = signed[u] /\ found'[u] = found[u]
           /\ result'[u] = result[u]
  PROVE  IndInv'
  <1>1. TypeOK'
    BY DEF IndInv, TypeOK, NetTypeOK, CallTypes, entryVars
  <1>2. LedgerInv' /\ ExtendedInv'
    BY DEF IndInv, LedgerInv, ExtendedInv, Ledger, entryVars
  <1>3. \A u \in Task \ {t} : CallInv(u)'
    BY DEF IndInv, CallInv, LegInv, FirstSigned, RetrySigned, FoundInv, entryVars
  <1>4. QED
    BY <1>1, <1>2, <1>3 DEF IndInv

LEMMA TtlInit == Init => IndInv
  <1> SUFFICES ASSUME Init
               PROVE  IndInv
    OBVIOUS
  <1>1. PICK e \in [Task -> Extension] :
          tx = [t \in Task |-> [source |-> Source[t], seq |-> 0, op |-> Extend(e[t])]]
    BY DEF Init
  <1>2. \A t \in Task : Extend(e[t]) \in Operation /\ Extend(e[t]).kind = "extend"
    BY DEF Extend
  <1>3. \A t \in Task : /\ tx[t] \in Draft
                        /\ tx[t].source = Source[t] /\ tx[t].op.kind = "extend"
    BY <1>1, <1>2 DEF Draft
  <1>4. TypeOK
    <2>1. NetTypeOK
      BY DEF Init, NetInit, NetTypeOK
    <2>2. tx \in [Task -> Tx \cup Draft]
      BY <1>1, <1>3
    <2>3. \A t \in Task : << >> \in Seq(Tx)
      OBVIOUS
    <2>4. signed \in [Task -> Seq(Tx)]
      BY <2>3 DEF Init
    <2>5. live \in [Key -> Nat]
      BY DEF Init
    <2>6. QED
      BY <2>1, <2>2, <2>4, <2>5 DEF Init, TypeOK
  <1>5. \A t \in Task : CallInv(t)
    BY <1>3 DEF Init, CallInv, LegInv, FirstSigned, RetrySigned, FoundInv
  <1>6. QED
    BY <1>4, <1>5 DEF IndInv, Init, NetInit, LedgerInv, ExtendedInv, Ledger

(* A call returns: what it has signed and where it stands stay.              *)
LEMMA ReturnStep ==
  ASSUME IndInv, NEW t \in Task, NEW r \in Results \ {"None"}, Return(t, r),
         pc[t] # "done",
         UNCHANGED <<seq, succeeded, failed, entryVars>>,
         pending' = pending,
         \/ wire' = wire
         \/ pc[t] = "send" /\ wire' = wire \cup {tx[t]},
         r \in Refused => pc[t] \notin Sent,
         r = "Executed" => tx[t] \in succeeded /\ leg[t] # "restore"
  PROVE  IndInv'
  <1> USE DEF IndInv, CallInv
  <1>1. /\ pc' = [pc EXCEPT ![t] = "done"] /\ result' = [result EXCEPT ![t] = r]
        /\ leg' = leg /\ tx' = tx /\ signed' = signed /\ found' = found
    BY DEF Return, Goto
  <1>2. CallTypes'
    BY <1>1 DEF TypeOK, CallTypes
  <1>3. pending' \subseteq Tx /\ wire' \subseteq Tx
    BY DEF LegInv, TypeOK, NetTypeOK
  <1>4. LegInv(t)'
    BY <1>1 DEF LegInv, TypeOK, entryVars
  <1>5. FirstSigned(t)'
    BY <1>1 DEF FirstSigned, TypeOK
  <1>6. RetrySigned(t)'
    BY <1>1 DEF RetrySigned, TypeOK
  <1>7. FoundInv(t)'
    BY <1>1 DEF FoundInv, TypeOK, entryVars
  <1>8. QED
    BY <1>1, <1>2, <1>3, <1>4, <1>5, <1>6, <1>7, OneCall DEF TypeOK

(* The call goes on within its leg with the same transaction: from here to   *)
(* its signature it keeps what it has signed.                                *)
LEMMA GotoStep ==
  ASSUME IndInv, NEW t \in Task, NEW label \in Labels \ {"start", "done"},
         Goto(t, label), UNCHANGED <<leg, tx, signed, found, result>>,
         UNCHANGED <<seq, wire, succeeded, failed, entryVars>>,
         pending' \subseteq Tx,
         pc[t] \in Built => label \in Built,
         pc[t] \notin Built => label = "account",
         pc[t] # "done",
         label = "account" => pc[t] = "start",
         label = "prepare" => leg[t] # "restore",
         label \in Sent <=> pc[t] \in Sent
  PROVE  IndInv'
  <1> USE DEF IndInv, CallInv
  <1>1. pc' = [pc EXCEPT ![t] = label]
    BY DEF Goto
  <1>2. CallTypes' /\ wire' \subseteq Tx
    BY <1>1 DEF TypeOK, CallTypes, NetTypeOK
  <1>3. LegInv(t)'
    BY <1>1 DEF LegInv, TypeOK, entryVars
  <1>4. FirstSigned(t)'
    BY <1>1 DEF FirstSigned, TypeOK
  <1>5. RetrySigned(t)'
    BY <1>1 DEF RetrySigned, TypeOK
  <1>6. FoundInv(t)'
    BY <1>1 DEF FoundInv, TypeOK, entryVars
  <1>7. QED
    BY <1>1, <1>2, <1>3, <1>4, <1>5, <1>6, OneCall DEF TypeOK

LEMMA StartStep ==
  ASSUME IndInv, NEW t \in Task, Start(t)
  PROVE  IndInv'
  <1>1. CASE Goto(t, "account") /\ UNCHANGED <<leg, tx, signed, found, result>>
    BY <1>1, GotoStep DEF Start, FormKey, netVars, IndInv, TypeOK, NetTypeOK
  <1>2. CASE \E r \in {"Signer", "InvalidAddress", "Xdr"} : Return(t, r)
    <2>1. PICK r \in {"Signer", "InvalidAddress", "Xdr"} : Return(t, r)
      BY <1>2
    <2>2. /\ UNCHANGED <<seq, wire, pending, succeeded, failed, entryVars>>
          /\ pc[t] = "start"
      BY DEF Start, FormKey, netVars
    <2>3. QED
      BY <2>1, <2>2, ReturnStep
  <1>3. QED
    BY <1>1, <1>2 DEF Start, FormKey

(* The number is the next of an account fetched after the leg before it has  *)
(* reached the ledger, if there was one.                                     *)
LEMMA GetAccountStep ==
  ASSUME IndInv, NEW t \in Task, GetAccount(t)
  PROVE  IndInv'
  <1>1. CASE \E r \in {"Rpc", "Xdr"} : Return(t, r)
    <2>1. PICK r \in {"Rpc", "Xdr"} : Return(t, r)
      BY <1>1
    <2>2. /\ UNCHANGED <<seq, wire, pending, succeeded, failed, entryVars>>
          /\ pc[t] = "account"
      BY DEF GetAccount, netVars
    <2>3. QED
      BY <2>1, <2>2, ReturnStep
  <1>2. CASE /\ tx' = [tx EXCEPT ![t].seq = Number(t)]
             /\ Goto(t, IF leg[t] = "restore" THEN "sign" ELSE "prepare")
             /\ UNCHANGED <<leg, signed, found, result>>
    <2> USE DEF IndInv, CallInv
    <2>1. /\ Number(t) \in Nat \ {0} /\ Number(t) = seq[Source[t]] + 1
      BY DEF Number, TypeOK, NetTypeOK
    <2>2. /\ tx'[t] \in Tx /\ tx'[t].source = tx[t].source
          /\ tx'[t].seq = Number(t) /\ tx'[t].op = tx[t].op
      BY <1>2, <2>1, TxNumber DEF TypeOK
    <2>3. /\ UNCHANGED <<netVars, entryVars>>
          /\ pc' = [pc EXCEPT ![t] = IF leg[t] = "restore" THEN "sign" ELSE "prepare"]
          /\ pc[t] = "account"
      BY <1>2 DEF GetAccount, Goto
    <2>4. CallTypes' /\ pending' \subseteq Tx /\ wire' \subseteq Tx
      BY <1>2, <2>2, <2>3 DEF TypeOK, CallTypes, NetTypeOK, netVars
    <2>5. tx'[t] \notin Ledger
      BY <2>1, <2>2 DEF LedgerInv, LegInv, TypeOK, NetTypeOK
    <2>6. LegInv(t)'
      BY <1>2, <2>2, <2>3 DEF LegInv, TypeOK
    <2>7. FirstSigned(t)'
      BY <1>2, <2>3 DEF FirstSigned, LegInv, TypeOK
    <2>8. RetrySigned(t)'
      <3>1. ASSUME leg[t] = "retry"
            PROVE  signed[t][1].seq <= seq[signed[t][1].source]
        BY <3>1 DEF RetrySigned, LedgerInv, Ledger
      <3>2. ASSUME leg[t] = "retry"
            PROVE  signed[t][1].seq < Number(t)
        <4>1. signed[t][1].source = Source[t] /\ signed[t][1] \in Tx
          BY <3>2 DEF RetrySigned, TypeOK, NetTypeOK
        <4>2. signed[t][1].seq \in Nat
          BY <4>1 DEF Tx
        <4>3. seq[Source[t]] \in Nat
          BY DEF TypeOK, NetTypeOK
        <4>4. QED
          BY <2>1, <3>1, <3>2, <4>1, <4>2, <4>3
      <3>3. QED
        BY <1>2, <2>1, <2>2, <2>3, <3>2 DEF RetrySigned, TypeOK, netVars
    <2>9. FoundInv(t)'
      BY <1>2, <2>2, <2>3, <2>5 DEF FoundInv, TypeOK, Ledger, netVars, entryVars
    <2>10. QED
      BY <1>2, <2>3, <2>4, <2>6, <2>7, <2>8, <2>9, OneCall DEF TypeOK, netVars
  <1>3. QED
    BY <1>1, <1>2 DEF GetAccount

(* An expired entry sends the call to its restoration, which remembers what  *)
(* the entry had expired with.                                               *)
LEMMA PrepareStep ==
  ASSUME IndInv, NEW t \in Task, Prepare(t)
  PROVE  IndInv'
  <1> DEFINE k == tx[t].op.key
  <1>1. /\ UNCHANGED <<seq, wire, pending, succeeded, failed, entryVars>>
        /\ pc[t] = "prepare"
    BY DEF Prepare, netVars
  <1>2. CASE Goto(t, "sign") /\ UNCHANGED <<leg, tx, signed, found, result>>
    BY <1>1, <1>2, GotoStep DEF IndInv, TypeOK, NetTypeOK
  <1>3. CASE Return(t, "Simulation")
    BY <1>1, <1>3, ReturnStep
  <1>4. CASE /\ leg[t] = "extend" /\ Archived(k)
             /\ NextLeg(t, "restore", "restore")
             /\ found' = [found EXCEPT ![t] = live[k]]
    <2> USE DEF IndInv, CallInv
    <2>1. /\ pc' = [pc EXCEPT ![t] = "account"]
          /\ leg' = [leg EXCEPT ![t] = "restore"]
          /\ signed' = signed /\ result' = result
      BY <1>4 DEF NextLeg, Goto
    <2>2. /\ tx'[t] \in Tx \cup Draft /\ tx'[t].source = tx[t].source
          /\ tx'[t].op.kind = "restore" /\ tx'[t].op.key = k
      BY <1>4, TxKind DEF NextLeg, TypeOK
    <2>3. tx' = [tx EXCEPT ![t] = tx'[t]]
      BY <1>4 DEF NextLeg, TypeOK
    <2>4. /\ k \in Key /\ k \in Persistent /\ live[k] \in Nat
          /\ 0 < live[k] /\ live[k] < ledger
      BY <1>4, OperationIs DEF Archived, Live, TypeOK, Tx, Draft
    <2>5. CallTypes' /\ pending' \subseteq Tx /\ wire' \subseteq Tx
      BY <1>1, <1>4, <2>1, <2>2, <2>3, <2>4 DEF TypeOK, CallTypes, NetTypeOK
    <2>6. LegInv(t)'
      BY <1>1, <2>1, <2>2 DEF LegInv, TypeOK
    <2>7. FirstSigned(t)' /\ RetrySigned(t)'
      BY <1>1, <1>4, <2>1 DEF FirstSigned, RetrySigned, LegInv, TypeOK
    <2>8. FoundInv(t)'
      BY <1>1, <1>4, <2>1, <2>2, <2>4 DEF FoundInv, TypeOK, entryVars
    <2>9. QED
      BY <1>1, <1>4, <2>1, <2>3, <2>5, <2>6, <2>7, <2>8, OneCall DEF TypeOK
  <1>5. QED
    BY <1>2, <1>3, <1>4 DEF Prepare

LEMMA SignStep ==
  ASSUME IndInv, NEW t \in Task, Sign(t)
  PROVE  IndInv'
  <1>1. /\ UNCHANGED <<seq, wire, pending, succeeded, failed, entryVars>>
        /\ pc[t] = "sign"
    BY DEF Sign, netVars
  <1>2. CASE Return(t, "Signer")
    BY <1>1, <1>2, ReturnStep
  <1>3. CASE /\ signed' = [signed EXCEPT ![t] = Append(@, tx[t])]
             /\ Goto(t, "send")
             /\ UNCHANGED <<leg, tx, found, result>>
    <2> USE DEF IndInv, CallInv
    <2>1. /\ tx[t] \in Tx /\ signed[t] \in Seq(Tx)
          /\ signed'[t] = Append(signed[t], tx[t])
          /\ pc' = [pc EXCEPT ![t] = "send"]
      BY <1>1, <1>3 DEF LegInv, TypeOK, Goto
    <2>2. signed'[t] \in Seq(Tx)
      BY <2>1, SignedAppend
    <2>3. CallTypes' /\ pending' \subseteq Tx /\ wire' \subseteq Tx
      BY <1>1, <1>3, <2>1, <2>2 DEF TypeOK, CallTypes, NetTypeOK
    <2>4. LegInv(t)'
      BY <1>1, <1>3, <2>1 DEF LegInv, TypeOK
    <2>5. FirstSigned(t)'
      <3>1. leg[t] # "retry" => signed[t] = << >>
        BY <1>1 DEF FirstSigned
      <3>2. leg[t] # "retry" => signed'[t] = <<tx[t]>>
        BY <2>1, <3>1, SignedAppend
      <3>3. QED
        BY <1>1, <1>3, <2>1, <3>2 DEF FirstSigned, LegInv, TypeOK
    <2>6. RetrySigned(t)'
      <3>1. ASSUME leg[t] = "retry"
            PROVE  /\ Len(signed'[t]) = 2 /\ signed'[t][1] = signed[t][1]
                   /\ signed'[t][2] = tx[t]
                   /\ signed[t][1].seq < tx[t].seq
        <4>1. Len(signed[t]) = 1 /\ signed[t][1].seq < tx[t].seq
          BY <1>1, <3>1 DEF RetrySigned
        <4>2. QED
          BY <2>1, <4>1, SignedAppend
      <3>2. /\ leg'[t] = leg[t] /\ pc'[t] = "send" /\ result'[t] = "None"
            /\ leg[t] = "retry" => tx[t].op.kind = "extend"
        BY <1>1, <1>3, <2>1 DEF LegInv, TypeOK
      <3>3. QED
        BY <1>1, <3>1, <3>2 DEF RetrySigned
    <2>7. FoundInv(t)'
      BY <1>1, <1>3, <2>1 DEF FoundInv, TypeOK, entryVars
    <2>8. QED
      BY <1>1, <1>3, <2>1, <2>3, <2>4, <2>5, <2>6, <2>7, OneCall DEF TypeOK
  <1>4. QED
    BY <1>2, <1>3 DEF Sign

LEMMA SendStep ==
  ASSUME IndInv, NEW t \in Task, Send(t)
  PROVE  IndInv'
  <1>1. UNCHANGED entryVars /\ pc[t] = "send"
    BY DEF Send
  <1>2. tx[t] \in Tx
    BY <1>1 DEF IndInv, CallInv, LegInv
  <1>3. CASE /\ Receive(tx[t])
             /\ Goto(t, "poll")
             /\ UNCHANGED <<wire, leg, tx, signed, found, result>>
    BY <1>1, <1>2, <1>3, GotoStep DEF Receive, IndInv, TypeOK, NetTypeOK
  <1>4. CASE /\ wire' = wire \cup {tx[t]}
             /\ Return(t, "Rpc")
             /\ UNCHANGED <<seq, pending, succeeded, failed>>
    BY <1>1, <1>4, ReturnStep
  <1>5. QED
    BY <1>3, <1>4 DEF Send

(* A confirmed restoration is the call's first signature, and has given the  *)
(* entry another time to live; the retry starts from there.                  *)
LEMMA ConfirmedStep ==
  ASSUME IndInv, NEW t \in Task, Confirmed(t), tx[t] \in succeeded,
         pc[t] \in {"poll", "wait"},
         UNCHANGED <<seq, wire, pending, succeeded, failed, entryVars>>
  PROVE  IndInv'
  <1>1. CASE leg[t] # "restore"
    BY <1>1, ReturnStep DEF Confirmed
  <1>2. CASE leg[t] = "restore"
    <2> USE DEF IndInv, CallInv
    <2>1. /\ pc' = [pc EXCEPT ![t] = "account"]
          /\ leg' = [leg EXCEPT ![t] = "retry"]
          /\ signed' = signed /\ result' = result /\ found' = found
      BY <1>2 DEF Confirmed, NextLeg, Goto
    <2> NextLeg(t, "retry", "extend")
      BY <1>2 DEF Confirmed
    <2>2. /\ tx'[t] \in Tx \cup Draft /\ tx'[t].source = tx[t].source
          /\ tx'[t].op.kind = "extend" /\ tx'[t].op.key = tx[t].op.key
      BY TxKind DEF NextLeg, TypeOK
    <2>3. tx' = [tx EXCEPT ![t] = tx'[t]]
      BY DEF NextLeg, TypeOK
    <2>4. CallTypes' /\ pending' \subseteq Tx /\ wire' \subseteq Tx
      BY <2>1, <2>2, <2>3 DEF TypeOK, CallTypes, NetTypeOK
    <2>5. LegInv(t)'
      BY <2>1, <2>2 DEF LegInv, TypeOK
    <2>6. FirstSigned(t)'
      BY <2>1 DEF FirstSigned, TypeOK
    <2>7. RetrySigned(t)'
      <3>1. /\ signed'[t] = <<tx[t]>> /\ tx[t].op.kind = "restore"
            /\ tx[t].source = Source[t]
        BY <1>2, <2>1 DEF FirstSigned, LegInv
      <3>2. pc'[t] = "account" /\ Len(signed'[t]) = 1 /\ signed'[t][1] = tx[t]
        BY <2>1, <3>1 DEF TypeOK
      <3>3. QED
        BY <3>1, <3>2 DEF RetrySigned
    <2>8. FoundInv(t)'
      BY <1>2, <2>1, <2>2 DEF FoundInv, TypeOK, entryVars
    <2>9. QED
      BY <2>1, <2>3, <2>4, <2>5, <2>6, <2>7, <2>8, OneCall DEF TypeOK
  <1>3. QED
    BY <1>1, <1>2

LEMMA PollStep ==
  ASSUME IndInv, NEW t \in Task, Poll(t)
  PROVE  IndInv'
  <1>1. /\ UNCHANGED <<seq, wire, pending, succeeded, failed, entryVars>>
        /\ pc[t] \in {"poll", "wait"}
    BY DEF Poll, netVars
  <1>2. CASE Status(tx[t]) = "Success" /\ Confirmed(t)
    BY <1>1, <1>2, ConfirmedStep DEF Status
  <1>3. CASE \/ Return(t, "TransactionFailed") \/ Return(t, "Timeout")
             \/ Return(t, "Rpc") \/ Return(t, "Panic")
    BY <1>1, <1>3, ReturnStep
  <1>4. CASE Goto(t, "wait") /\ UNCHANGED <<leg, tx, signed, found, result>>
    BY <1>1, <1>4, GotoStep DEF IndInv, TypeOK, NetTypeOK
  <1>5. QED
    BY <1>2, <1>3, <1>4 DEF Poll

LEMMA CancelStep ==
  ASSUME IndInv, NEW t \in Task, Cancel(t)
  PROVE  IndInv'
  BY ReturnStep DEF Cancel

-----------------------------------------------------------------------------
(* Steps of the network and of time *)

(* Neither numbers nor verdicts nor times to live are taken back, so what    *)
(* the calls rely on stays.                                                  *)
LEMMA NetworkStep ==
  ASSUME IndInv, UNCHANGED callVars, NetTypeOK', LedgerInv', ExtendedInv',
         ledger' \in 1..MaxLedger, ledger <= ledger',
         live' \in [Key -> Nat], \A k \in Key : live[k] <= live'[k],
         lapsed' \subseteq Tx, succeeded \subseteq succeeded',
         \A t \in Task :
           /\ leg[t] = "restore" /\ pc[t] \in Built
           /\ tx[t] \in succeeded' \ succeeded
           => found[t] < live'[tx[t].op.key]
  PROVE  IndInv'
  <1> USE DEF IndInv, CallInv, callVars
  <1>1. TypeOK'
    BY DEF TypeOK
  <1>2. ASSUME NEW t \in Task
        PROVE  CallInv(t)'
    <2>1. LegInv(t)'
      BY DEF LegInv
    <2>2. FirstSigned(t)' /\ RetrySigned(t)'
      BY DEF FirstSigned, RetrySigned
    <2>3. tx[t].op.key \in Key
      BY OperationIs DEF TypeOK, Tx, Draft
    <2>4. FoundInv(t)'
      BY <2>3 DEF FoundInv, TypeOK
    <2>5. QED
      BY <2>1, <2>2, <2>4
  <1>3. QED
    BY <1>1, <1>2

LEMMA CloseStep ==
  ASSUME IndInv, Close
  PROVE  IndInv'
  <1> USE DEF IndInv, CallInv
  <1>1. PICK x \in pending, ok \in BOOLEAN :
          /\ Apply(x, ok)
          /\ live' = IF ok THEN Effect(x.op) ELSE live
          /\ lapsed' = IF ok /\ x.op.kind = "extend" /\ ~ Live(x.op.key)
                       THEN lapsed \cup {x} ELSE lapsed
          /\ UNCHANGED <<ledger, callVars>>
    BY DEF Close
  <1>2. /\ x \in Tx /\ x.op \in Operation /\ x.op.key \in Key
        /\ x.seq = seq[x.source] + 1
    BY <1>1, OperationIs DEF Apply, TypeOK, NetTypeOK, Tx
  <1>3. live' \in [Key -> Nat] /\ \A k \in Key : live[k] <= live'[k]
    BY <1>1, <1>2, EffectGrows DEF TypeOK
  <1>4. NetTypeOK' /\ LedgerInv'
    BY <1>1, <1>2 DEF Apply, TypeOK, NetTypeOK, LedgerInv, Ledger, Tx
  <1>5. succeeded' = IF ok THEN succeeded \cup {x} ELSE succeeded
    BY <1>1 DEF Apply
  <1>6. lapsed' \subseteq Tx /\ lapsed \subseteq lapsed'
    BY <1>1, <1>2 DEF TypeOK
  <1>7. ExtendedInv'
    <2> SUFFICES ASSUME NEW y \in succeeded', y \notin lapsed', y.op.kind = "extend"
                 PROVE  live'[y.op.key] >= y.op.to
      BY DEF ExtendedInv
    <2>1. y.op.key \in Key /\ y.op.to \in Nat
      BY <1>4, OperationIs DEF NetTypeOK, Tx
    <2>2. CASE y \in succeeded
      BY <1>3, <1>6, <2>1, <2>2 DEF ExtendedInv, TypeOK
    <2>3. CASE y \notin succeeded
      BY <1>1, <1>2, <1>5, <2>3, EffectGrows
    <2>4. QED
      BY <2>2, <2>3
  <1>8. ASSUME NEW t \in Task, leg[t] = "restore", tx[t] \in succeeded' \ succeeded
        PROVE  found[t] < live'[tx[t].op.key]
    <2>1. tx[t] = x /\ ok
      BY <1>5, <1>8
    <2>2. /\ x.op.kind = "restore" /\ x.op.key \in Persistent
          /\ 0 < found[t] /\ found[t] < ledger /\ found[t] <= live[x.op.key]
      BY <1>8, <2>1 DEF LegInv, FoundInv
    <2>3. QED
      BY <1>1, <1>2, <2>1, <2>2, EffectGrows DEF TypeOK
  <1>9. QED
    BY <1>1, <1>3, <1>4, <1>5, <1>6, <1>7, <1>8, NetworkStep DEF TypeOK

LEMMA QueueStep ==
  ASSUME IndInv, UNCHANGED <<entryVars, callVars>>,
         \/ \E x \in wire : Arrive(x)
         \/ \E x \in pending : Evict(x)
  PROVE  IndInv'
  <1>1. /\ UNCHANGED <<seq, succeeded, failed, ledger, live, lapsed>>
        /\ wire' \subseteq Tx /\ pending' \subseteq Tx
    BY DEF Arrive, Receive, Evict, entryVars, IndInv, TypeOK, NetTypeOK
  <1>2. NetTypeOK' /\ LedgerInv' /\ ExtendedInv'
    BY <1>1 DEF IndInv, TypeOK, NetTypeOK, LedgerInv, ExtendedInv, Ledger
  <1>3. QED
    BY <1>1, <1>2, NetworkStep DEF IndInv, TypeOK

LEMMA NextLedgerStep ==
  ASSUME IndInv, NextLedger
  PROVE  IndInv'
  <1>1. /\ UNCHANGED <<seq, wire, pending, succeeded, failed, live, lapsed>>
        /\ ledger' \in 1..MaxLedger /\ ledger <= ledger'
    BY DEF NextLedger, netVars, IndInv, TypeOK
  <1>2. NetTypeOK' /\ LedgerInv' /\ ExtendedInv'
    BY <1>1 DEF IndInv, TypeOK, NetTypeOK, LedgerInv, ExtendedInv, Ledger
  <1>3. QED
    BY <1>1, <1>2, NetworkStep DEF NextLedger, IndInv, TypeOK

LEMMA TtlStep == IndInv /\ [Next]_vars => IndInv'
  <1> SUFFICES ASSUME IndInv, [Next]_vars
               PROVE  IndInv'
    OBVIOUS
  <1>1. CASE \E t \in Task : Extending(t) \/ Cancel(t)
    BY <1>1, StartStep, GetAccountStep, PrepareStep, SignStep, SendStep, PollStep,
       CancelStep DEF Extending
  <1>2. CASE Close
    BY <1>2, CloseStep
  <1>3. CASE NextLedger
    BY <1>3, NextLedgerStep
  <1>4. CASE \/ \E x \in wire : Arrive(x) /\ UNCHANGED <<entryVars, callVars>>
             \/ \E x \in pending : Evict(x) /\ UNCHANGED <<entryVars, callVars>>
    BY <1>4, QueueStep
  <1>5. CASE UNCHANGED vars
    BY <1>5 DEF vars, netVars, entryVars, callVars, IndInv, CallInv, TypeOK, NetTypeOK,
       LedgerInv, ExtendedInv, LegInv, FirstSigned, RetrySigned, FoundInv, Ledger
  <1>6. QED
    BY <1>1, <1>2, <1>3, <1>4, <1>5 DEF Next

LEMMA TtlInvariant == Spec => []IndInv
  BY TtlInit, TtlStep, PTL DEF Spec

-----------------------------------------------------------------------------

(* Type correctness of the calls, the entries and the network.               *)
THEOREM TtlTypeCorrect == Spec => []TypeOK
  BY TtlInvariant, PTL DEF IndInv

LEMMA SignedInOrder == IndInv => RestoreThenExtend
  <1> SUFFICES ASSUME IndInv, NEW t \in Task
               PROVE  LET s == signed[t] IN
                      /\ Len(s) <= 2
                      /\ Len(s) = 2 =>
                           /\ s[1].op.kind = "restore" /\ s[2].op.kind = "extend"
                           /\ s[1] \in succeeded
                           /\ s[1].seq < s[2].seq
    BY DEF RestoreThenExtend
  <1>1. CASE leg[t] # "retry"
    <2>1. signed[t] = << >> \/ signed[t] = <<tx[t]>>
      BY <1>1 DEF IndInv, CallInv, FirstSigned
    <2>2. Len(<< >>) = 0 /\ Len(<<tx[t]>>) = 1 /\ 0 <= 2 /\ 1 <= 2 /\ 0 # 2 /\ 1 # 2
      OBVIOUS
    <2>3. QED
      BY <2>1, <2>2, Zenon
  <1>2. CASE leg[t] = "retry"
    <2>1. Len(signed[t]) = 1 \/ Len(signed[t]) = 2
      BY <1>2 DEF IndInv, CallInv, RetrySigned
    <2>2. 1 <= 2 /\ 2 <= 2
      OBVIOUS
    <2>3. Len(signed[t]) <= 2
      BY <2>1, <2>2, Zenon
    <2>4. QED
      BY <1>2, <2>3 DEF IndInv, CallInv, RetrySigned
  <1>3. QED
    BY <1>1, <1>2

(* A call signs an extension, a restoration, or a restoration that succeeds  *)
(* and after it an extension with a later number (extend_ledger_key_ttl).    *)
THEOREM RestoresThenExtends == Spec => []RestoreThenExtend
  BY TtlInvariant, SignedInOrder, PTL

LEMMA RestoredWhenRetried == IndInv => RetryFindsRestored
  BY DEF IndInv, CallInv, FoundInv, RetryFindsRestored

(* The retry extends an entry that has another time to live than the one it  *)
(* was found expired with, whichever call restored it.                       *)
THEOREM RetriesFindRestored == Spec => []RetryFindsRestored
  BY TtlInvariant, RestoredWhenRetried, PTL

LEMMA NothingOpenWhenRefused == IndInv => RefusedLeavesNothingOpen
  <1> SUFFICES ASSUME IndInv, NEW t \in Task, result[t] \in Refused
               PROVE  /\ Len(signed[t]) <= 1
                      /\ \A i \in DOMAIN signed[t] :
                           /\ signed[t][i].op.kind = "restore"
                           /\ signed[t][i] \in succeeded
    BY DEF RefusedLeavesNothingOpen
  <1>1. CASE leg[t] # "retry"
    BY <1>1 DEF IndInv, CallInv, FirstSigned
  <1>2. CASE leg[t] = "retry"
    <2>1. Len(signed[t]) = 1 /\ signed[t] \in Seq(Tx)
      BY <1>2 DEF IndInv, CallInv, RetrySigned, TypeOK
    <2>2. signed[t][1].op.kind = "restore" /\ signed[t][1] \in succeeded
      BY <1>2 DEF IndInv, CallInv, RetrySigned
    <2>3. QED
      BY <2>1, <2>2
  <1>3. QED
    BY <1>1, <1>2

(* A call refused before or between its submissions has left none undecided. *)
THEOREM RefusalsLeaveNothingOpen == Spec => []RefusedLeavesNothingOpen
  BY TtlInvariant, NothingOpenWhenRefused, PTL

LEMMA ExecutedIsExtended == IndInv => ExecutedExtends
  BY DEF IndInv, CallInv, LegInv, ExtendedInv, ExecutedExtends

(* Executed is an extension in force, if its entry was live when the ledger  *)
(* got to it.                                                                *)
THEOREM ExecutionsExtend == Spec => []ExecutedExtends
  BY TtlInvariant, ExecutedIsExtended, PTL
=============================================================================
