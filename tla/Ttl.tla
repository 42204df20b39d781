-------------------------------- MODULE Ttl --------------------------------
(***************************************************************************)
(* Client::extend_ttl and its siblings, down to extend_ledger_key_ttl      *)
(* (src/client.rs, src/ttl.rs): extend an entry's time to live, or         *)
(* restore the archived entry first and then extend it, with one signer.   *)
(*                                                                         *)
(* Each task makes one call.  Time is the number of the ledger in progress;*)
(* an entry is live up to its live-until ledger.                           *)
(***************************************************************************)
EXTENDS Network, Sequences

CONSTANTS
  Task,
  Source,      \* the account each task calls with
  Key,
  Persistent,  \* the keys of persistent entries; the others are temporary
  Extension,   \* the extensions a task may ask for: a key and a ledger
  FirstLive,   \* the live-until ledgers the entries start with, 0 for none
  MinTtl,      \* ledgers for which a restored entry is live
  MaxLedger    \* bound: the last ledger

ASSUME TtlAssumption ==
  /\ Source \in [Task -> Account]
  /\ Persistent \subseteq Key
  /\ Extension \subseteq [key : Key, to : Nat]
  /\ Operation = [kind : {"extend", "restore"}, key : Key, to : {e.to : e \in Extension}]
  /\ FirstLive \subseteq Nat
  /\ MinTtl \in Nat
  /\ MaxLedger \in Nat \ {0}

VARIABLES
  ledger,   \* the ledger in progress
  live,     \* the live-until ledger of each entry, 0 for one that never was
  lapsed,   \* extensions applied when the entry had expired (history)
  pc,       \* where each task's call is
  leg,      \* which of its transactions the call is at
  tx,       \* that transaction
  signed,   \* those the call's signer has signed, in order
  found,    \* the live-until ledger it found its entry expired with (history)
  result    \* what the call has told its caller, "None" before

entryVars == <<ledger, live, lapsed>>
callVars == <<pc, leg, tx, signed, found, result>>
vars == <<netVars, entryVars, callVars>>

Labels == {"start", "account", "prepare", "sign", "send", "poll", "wait", "done"}
Legs == {"extend", "restore", "retry"}
Results == {"None", "Executed", "TransactionFailed", "Timeout", "Rpc", "Panic",
            "Simulation", "Signer", "Xdr", "InvalidAddress", "Cancelled"}

Draft == [source : Account, seq : {0}, op : Operation]

TypeOK ==
  /\ NetTypeOK
  /\ ledger \in 1..MaxLedger
  /\ live \in [Key -> Nat]
  /\ lapsed \subseteq Tx
  /\ pc \in [Task -> Labels]
  /\ leg \in [Task -> Legs]
  /\ tx \in [Task -> Tx \cup Draft]
  /\ signed \in [Task -> Seq(Tx)]
  /\ found \in [Task -> Nat]
  /\ result \in [Task -> Results]

Extend(e) == [kind |-> "extend", key |-> e.key, to |-> e.to]

Init ==
  /\ NetInit
  /\ ledger = 1
  /\ live \in [Key -> FirstLive]
  /\ lapsed = {}
  /\ pc = [t \in Task |-> "start"]
  /\ leg = [t \in Task |-> "extend"]
  /\ \E e \in [Task -> Extension] :
       tx = [t \in Task |-> [source |-> Source[t], seq |-> 0, op |-> Extend(e[t])]]
  /\ signed = [t \in Task |-> << >>]
  /\ found = [t \in Task |-> 0]
  /\ result = [t \in Task |-> "None"]

Live(k) == ledger <= live[k]
Archived(k) == k \in Persistent /\ live[k] # 0 /\ ~ Live(k)

-----------------------------------------------------------------------------
(* The call *)

Goto(t, label) == pc' = [pc EXCEPT ![t] = label]

Return(t, r) ==
  /\ Goto(t, "done")
  /\ result' = [result EXCEPT ![t] = r]
  /\ UNCHANGED <<leg, tx, signed, found>>

(* The next leg is another transaction, with an operation of its own.        *)
NextLeg(t, l, kind) ==
  /\ Goto(t, "account")
  /\ leg' = [leg EXCEPT ![t] = l]
  /\ tx' = [tx EXCEPT ![t].op.kind = kind]
  /\ UNCHANGED <<signed, result>>

(* The entry's key from the address or the hash, and its footprint.          *)
FormKey(t) ==
  \/ Goto(t, "account") /\ UNCHANGED <<leg, tx, signed, found, result>>
  \/ \E r \in {"InvalidAddress", "Xdr"} : Return(t, r)

(* build_signer and, for an entry of a contract's storage, mapping_entry_key.*)
Start(t) ==
  /\ pc[t] = "start"
  /\ \/ \E r \in {"Signer", "Xdr"} : Return(t, r)
     \/ FormKey(t)
  /\ UNCHANGED <<netVars, entryVars>>

(* Faulty variants of Number: the account's last number used once more; the  *)
(* number of an earlier leg kept, its account fetched once and for all.      *)
NumberReused(t) == seq[Source[t]]

NumberKept(t) == IF tx[t].seq = 0 THEN seq[Source[t]] + 1 ELSE tx[t].seq

Number(t) == seq[Source[t]] + 1

(* get_account and build_transaction.  The restore transaction is final as   *)
(* it is built, from the preamble the simulation handed back.                *)
GetAccount(t) ==
  /\ pc[t] = "account"
  /\ \/ /\ tx' = [tx EXCEPT ![t].seq = Number(t)]
        /\ Goto(t, IF leg[t] = "restore" THEN "sign" ELSE "prepare")
        /\ UNCHANGED <<leg, signed, found, result>>
     \/ \E r \in {"Rpc", "Xdr"} : Return(t, r)
  /\ UNCHANGED <<netVars, entryVars>>

(* The simulation finds the entry live, archived, or not at all.  An archived*)
(* entry is restored on the first attempt only.                              *)
Prepare(t) ==
  LET k == tx[t].op.key IN
  /\ pc[t] = "prepare"
  /\ \/ Live(k) /\ Goto(t, "sign") /\ UNCHANGED <<leg, tx, signed, found, result>>
     \/ /\ leg[t] = "extend" /\ Archived(k)
        /\ NextLeg(t, "restore", "restore")
        /\ found' = [found EXCEPT ![t] = live[k]]
     \/ Return(t, "Simulation")
  /\ UNCHANGED <<netVars, entryVars>>

Sign(t) ==
  /\ pc[t] = "sign"
  /\ \/ /\ signed' = [signed EXCEPT ![t] = Append(@, tx[t])]
        /\ Goto(t, "send")
        /\ UNCHANGED <<leg, tx, found, result>>
     \/ Return(t, "Signer")
  /\ UNCHANGED <<netVars, entryVars>>

Send(t) ==
  /\ pc[t] = "send"
  /\ \/ /\ Receive(tx[t])
        /\ Goto(t, "poll")
        /\ UNCHANGED <<wire, leg, tx, signed, found, result>>
     \/ /\ wire' = wire \cup {tx[t]}
        /\ Return(t, "Rpc")
        /\ UNCHANGED <<seq, pending, succeeded, failed>>
  /\ UNCHANGED entryVars

(* A confirmed restore goes on to the retry; a confirmed extension is done.  *)
Confirmed(t) ==
  IF leg[t] = "restore"
  THEN NextLeg(t, "retry", "extend") /\ UNCHANGED found
  ELSE Return(t, "Executed")

(* Faulty variants of Poll: the restore not waited for; any final status     *)
(* taken for success; a wait that never gives up, not even on an error.      *)
PollSkipsRestore(t) ==
  /\ pc[t] \in {"poll", "wait"}
  /\ \/ (Status(tx[t]) = "Success" \/ leg[t] = "restore") /\ Confirmed(t)
     \/ Status(tx[t]) = "Failed" /\ Return(t, "TransactionFailed")
     \/ /\ Status(tx[t]) = "NotFound"
        /\ Goto(t, "wait")
        /\ UNCHANGED <<leg, tx, signed, found, result>>
     \/ pc[t] = "wait" /\ Return(t, "Timeout")
  /\ UNCHANGED <<netVars, entryVars>>

PollAnyVerdictIsOk(t) ==
  /\ pc[t] \in {"poll", "wait"}
  /\ \/ Status(tx[t]) # "NotFound" /\ Confirmed(t)
     \/ /\ Status(tx[t]) = "NotFound"
        /\ Goto(t, "wait")
        /\ UNCHANGED <<leg, tx, signed, found, result>>
     \/ pc[t] = "wait" /\ Return(t, "Timeout")
  /\ UNCHANGED <<netVars, entryVars>>

PollForever(t) ==
  /\ pc[t] \in {"poll", "wait"}
  /\ \/ Status(tx[t]) = "Success" /\ Confirmed(t)
     \/ Status(tx[t]) = "Failed" /\ Return(t, "TransactionFailed")
     \/ /\ Status(tx[t]) = "NotFound"
        /\ Goto(t, "wait")
        /\ UNCHANGED <<leg, tx, signed, found, result>>
  /\ UNCHANGED <<netVars, entryVars>>

Poll(t) ==
  /\ pc[t] \in {"poll", "wait"}
  /\ \/ Status(tx[t]) = "Success" /\ Confirmed(t)
     \/ Status(tx[t]) = "Failed" /\ Return(t, "TransactionFailed")
     \/ /\ Status(tx[t]) = "NotFound"
        /\ Goto(t, "wait")
        /\ UNCHANGED <<leg, tx, signed, found, result>>
     \/ pc[t] = "wait" /\ Return(t, "Timeout")
     \/ Return(t, "Rpc")
     \/ pc[t] = "poll" /\ Return(t, "Panic")
  /\ UNCHANGED <<netVars, entryVars>>

(* The caller gives the call up at an await, in either of its legs.          *)
Cancel(t) ==
  /\ pc[t] # "done"
  /\ Return(t, "Cancelled")
  /\ \/ wire' = wire
     \/ pc[t] = "send" /\ wire' = wire \cup {tx[t]}
  /\ UNCHANGED <<seq, pending, succeeded, failed, entryVars>>

Extending(t) ==
  Start(t) \/ GetAccount(t) \/ Prepare(t) \/ Sign(t) \/ Send(t) \/ Poll(t)

-----------------------------------------------------------------------------
(* The network, with what the two operations do to an entry.  An extension   *)
(* skips an entry that is not live when it is applied, and succeeds.         *)

Effect(o) ==
  IF o.kind = "extend" /\ Live(o.key) /\ live[o.key] < o.to
  THEN [live EXCEPT ![o.key] = o.to]
  ELSE IF o.kind = "restore" /\ Archived(o.key)
  THEN [live EXCEPT ![o.key] = ledger + MinTtl]
  ELSE live

Close ==
  \E x \in pending, ok \in BOOLEAN :
    /\ Apply(x, ok)
    /\ live' = IF ok THEN Effect(x.op) ELSE live
    /\ lapsed' = IF ok /\ x.op.kind = "extend" /\ ~ Live(x.op.key)
                 THEN lapsed \cup {x} ELSE lapsed
    /\ UNCHANGED <<ledger, callVars>>

NextLedger ==
  /\ ledger < MaxLedger
  /\ ledger' = ledger + 1
  /\ UNCHANGED <<netVars, live, lapsed, callVars>>

Next ==
  \/ \E t \in Task : Extending(t) \/ Cancel(t)
  \/ Close
  \/ NextLedger
  \/ \E x \in wire : Arrive(x) /\ UNCHANGED <<entryVars, callVars>>
  \/ \E x \in pending : Evict(x) /\ UNCHANGED <<entryVars, callVars>>

Spec == Init /\ [][Next]_vars

(* A call goes on until it returns; nothing is asked of the network.         *)
FairSpec == Spec /\ \A t \in Task : WF_vars(Extending(t))

-----------------------------------------------------------------------------
(* Properties *)

(* A call signs an extension, or a restoration, or a restoration and then an *)
(* extension, no more; the second transaction comes after the first in the   *)
(* account's sequence and only once the first is on the ledger ("a fresh     *)
(* account", the comment in extend_ledger_key_ttl).                          *)
RestoreThenExtend ==
  \A t \in Task :
    LET s == signed[t] IN
    /\ Len(s) <= 2
    /\ Len(s) = 2 =>
         /\ s[1].op.kind = "restore" /\ s[2].op.kind = "extend"
         /\ s[1] \in succeeded
         /\ s[1].seq < s[2].seq

(* The retry comes with the entry restored: whoever of several calls has     *)
(* restored it, it does not have the time to live it expired with.           *)
RetryFindsRestored ==
  \A t \in Task :
    leg[t] = "retry" =>
      tx[t].op.key \in Persistent /\ found[t] < live[tx[t].op.key]

(* An error that is not from the network leaves nothing open: all the call   *)
(* has signed by then is a restoration, and that has succeeded.  So it may   *)
(* be called again at once, though not as if it had had no effect.           *)
RefusedLeavesNothingOpen ==
  \A t \in Task :
    result[t] \in {"Simulation", "Signer", "Xdr", "InvalidAddress"} =>
      /\ Len(signed[t]) <= 1
      /\ \A i \in DOMAIN signed[t] :
           signed[t][i].op.kind = "restore" /\ signed[t][i] \in succeeded

(* Executed means the entry was extended, if it was still live when the      *)
(* ledger got to the transaction; no later step takes the extension back.    *)
ExecutedExtends ==
  \A t \in Task :
    result[t] = "Executed" /\ tx[t] \notin lapsed
      => live[tx[t].op.key] >= tx[t].op.to

(* The comment on extend_ttl, ttl.rs:196-197: after Executed the entry       *)
(* "stays live at least until ledger extend_to".                             *)
StaysLive ==
  \A t \in Task : result[t] = "Executed" => live[tx[t].op.key] >= tx[t].op.to

(* signer/mod.rs:54-55: a signer is built "for exactly one signing operation"*)
(* and anew "for every transaction".                                         *)
OneSigningPerSigner == \A t \in Task : Len(signed[t]) <= 1

(* Every call returns, the restored ones too.                                *)
EveryExtensionReturns == \A t \in Task : <>(pc[t] = "done")
=============================================================================
