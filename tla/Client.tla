------------------------------- MODULE Client -------------------------------
(***************************************************************************)
(* The questions a Client answers without submitting anything (src/        *)
(* client.rs, src/read.rs, and the lookups of src/ttl.rs), asked by readers*)
(* while the tasks of Invoke write and the ledger moves on.                *)
(*                                                                         *)
(* The node serves a request from the ledger it is at; the answer reaches  *)
(* its reader later, when other ledgers may have closed.                   *)
(***************************************************************************)
EXTENDS Invoke

CONSTANTS
  Reader,
  Question,      \* what readers ask
  MaxQuestions,  \* bound: how many questions each reader asks
  Hash,          \* wasm hashes
  Asset,         \* the executable of a contract that is not a wasm
  NoInstance,    \* instead of an executable: no instance entry, or archived
  None,          \* Rust's None
  Lifetime,      \* ledgers for which wasm code that is extended lives
  MaxLedger      \* bound: the last ledger

ASSUME ClientAssumption ==
  /\ Question \subseteq
       [kind : {"read"}, cell : Cell]
       \cup [kind : {"account_sequence"}, account : Account]
       \cup [kind : {"latest_ledger", "wasm_hash_of"}]
       \cup [kind : {"wasm_ttl"}, hash : Hash]
  /\ MaxQuestions \in Nat
  /\ Lifetime \in Nat
  /\ MaxLedger \in Nat \ {0}
  /\ NoInstance \notin Hash

VARIABLES
  ledger,    \* the number of the last ledger
  runs,      \* the executable of the contract
  live,      \* the live-until ledger of each wasm code entry, 0 for none
  at,        \* where each reader is
  asked,     \* its question, and what has been the truth about it since
             \* (history)
  reply,     \* what the node has said to its last request
  count,     \* how many questions it has asked
  answers    \* what they have come to (history)

worldVars == <<ledger, runs, live>>
readerVars == <<at, asked, reply, count, answers>>
clientVars == <<invokeVars, worldVars, readerVars>>

Executable == Hash \cup {Asset, NoInstance}
Active == {"account", "ask", "served"}   \* where a reader has a question
ReaderLabels == Active \cup {"none", "failed", "open"}
Errors == {"Rpc", "Xdr", "Simulation", "MissingReturnValue"}
Nobody == [kind |-> "nothing"]

Fact == Value \cup Nat \cup Hash \cup {None}
Reply ==
  [is : {"value"}, value : Fact \cup {Asset}] \cup [is : {"absent", "failed"}]
Result == [ok : {TRUE}, value : Fact] \cup [ok : {FALSE}, error : Errors]

ClientTypeOK ==
  /\ InvokeTypeOK
  /\ ledger \in 1 .. MaxLedger
  /\ runs \in Executable
  /\ live \in [Hash -> Nat]
  /\ at \in [Reader -> ReaderLabels]
  /\ asked \in [Reader -> [question : Question \cup {Nobody}, held : SUBSET Fact]]
  /\ reply \in [Reader -> Reply]
  /\ count \in [Reader -> 0 .. MaxQuestions]
  /\ answers \subseteq
       [reader : Reader, n : 1 .. MaxQuestions, question : Question,
        held : SUBSET Fact, result : Result]
  /\ \A a \in answers : a.n <= count[a.reader]

ClientInit ==
  /\ InvokeInit
  /\ ledger = 1
  /\ runs \in Executable
  /\ live = [h \in Hash |-> 0]
  /\ at = [r \in Reader |-> "none"]
  /\ asked = [r \in Reader |-> [question |-> Nobody, held |-> {}]]
  /\ reply = [r \in Reader |-> [is |-> "absent"]]
  /\ count = [r \in Reader |-> 0]
  /\ answers = {}

-----------------------------------------------------------------------------
(* The node *)

Has(v) == [is |-> "value", value |-> v]
Absent == [is |-> "absent"]
Failed == [is |-> "failed"]

(* What the node says of the ledger it is at; an archived entry is not there.*)
(* A simulation that fails has no result.                                    *)
Says(q) ==
  IF q.kind = "read" THEN {Has(store[q.cell]), Absent}
  ELSE IF q.kind = "account_sequence" THEN {Has(seq[q.account])}
  ELSE IF q.kind = "latest_ledger" THEN {Has(ledger)}
  ELSE IF q.kind = "wasm_hash_of"
  THEN {IF runs = NoInstance THEN Absent ELSE Has(runs)}
  ELSE {IF live[q.hash] >= ledger THEN Has(live[q.hash]) ELSE Absent}

-----------------------------------------------------------------------------
(* The client: what it makes of the node's last reply *)

Ok(v) == [ok |-> TRUE, value |-> v]
Error(e) == [ok |-> FALSE, error |-> e]

read_contract(said) ==
  IF said = Failed THEN Error("Simulation")
  ELSE IF said = Absent THEN Error("MissingReturnValue") ELSE Ok(said.value)

(* Faulty variant of account_sequence: "the value the next transaction must  *)
(* use", taken at its word.                                                  *)
NextSequence(said) ==
  IF said = Failed THEN Error("Rpc") ELSE Ok(said.value + 1)

account_sequence(said) ==
  IF said = Failed THEN Error("Rpc") ELSE Ok(said.value)

latest_ledger(said) ==
  IF said = Failed THEN Error("Rpc") ELSE Ok(said.value)

(* Faulty variant of wasm_hash_of: whatever the contract runs for its wasm.  *)
WhateverItRuns(said) ==
  IF said = Failed THEN Error("Rpc")
  ELSE IF said = Absent THEN Ok(None) ELSE Ok(said.value)

wasm_hash_of(said) ==
  IF said = Failed THEN Error("Rpc")
  ELSE IF said = Absent \/ said.value \notin Hash THEN Ok(None)
  ELSE Ok(said.value)

(* Faulty variant of live_until_ledger: an error that passes for an absence. *)
LiveUntilOrNone(said) ==
  IF said \in {Failed, Absent} THEN Ok(None) ELSE Ok(said.value)

live_until_ledger(said) ==
  IF said = Failed THEN Error("Rpc")
  ELSE IF said = Absent THEN Ok(None) ELSE Ok(said.value)

AnswerTo(q, said) ==
  IF q.kind = "read" THEN read_contract(said)
  ELSE IF q.kind = "account_sequence" THEN account_sequence(said)
  ELSE IF q.kind = "latest_ledger" THEN latest_ledger(said)
  ELSE IF q.kind = "wasm_hash_of" THEN wasm_hash_of(said)
  ELSE live_until_ledger(said)

(* What an answer is to say: the state of the ledger, None for a contract    *)
(* that runs no wasm and for code that is not there.                         *)
Truth(q) ==
  IF q.kind = "read" THEN store[q.cell]
  ELSE IF q.kind = "account_sequence" THEN seq[q.account]
  ELSE IF q.kind = "latest_ledger" THEN ledger
  ELSE IF q.kind = "wasm_hash_of" THEN (IF runs \in Hash THEN runs ELSE None)
  ELSE IF live[q.hash] >= ledger THEN live[q.hash] ELSE None

Move(r, label) == at' = [at EXCEPT ![r] = label]

(* Client::new: the server, the factory, its public key.  Each may fail, and *)
(* there is no client then, nor another try by this reader.                  *)
Connect(r) ==
  /\ at[r] = "none"
  /\ \E end \in {"open", "failed"} : Move(r, end)
  /\ UNCHANGED <<asked, reply, count, answers>>

Ask(r, q) ==
  /\ at[r] = "open"
  /\ count[r] < MaxQuestions
  /\ count' = [count EXCEPT ![r] = @ + 1]
  /\ asked' = [asked EXCEPT ![r] = [question |-> q, held |-> {Truth(q)}]]
  /\ Move(r, IF q.kind = "read" THEN "account" ELSE "ask")
  /\ UNCHANGED <<reply, answers>>

Answer(r, answer) ==
  /\ Move(r, "open")
  /\ answers' = answers \cup
       {[reader |-> r, n |-> count[r], question |-> asked[r].question,
         held |-> asked[r].held, result |-> answer]}
  /\ UNCHANGED <<asked, reply, count>>

(* The operation is encoded, and build_and_simulate gets the account of the  *)
(* client's public key first.                                                *)
ReadAccount(r) ==
  /\ at[r] = "account"
  /\ \/ Move(r, "ask") /\ UNCHANGED <<asked, reply, count, answers>>
     \/ \E e \in {"Xdr", "Rpc"} : Answer(r, Error(e))

(* The request gets to the node or fails; its answer is on the way.          *)
Serve(r) ==
  /\ at[r] = "ask"
  /\ \E said \in Says(asked[r].question) \cup {Failed} :
       reply' = [reply EXCEPT ![r] = said]
  /\ Move(r, "served")
  /\ UNCHANGED <<asked, count, answers>>

Finish(r) ==
  /\ at[r] = "served"
  /\ Answer(r, AnswerTo(asked[r].question, reply[r]))

(* The reader gives the question up at one of its awaits.                    *)
Abandon(r) ==
  /\ at[r] \in Active
  /\ Move(r, "open")
  /\ UNCHANGED <<asked, reply, count, answers>>

Reading(r) ==
  \/ Connect(r)
  \/ \E q \in Question : Ask(r, q)
  \/ ReadAccount(r) \/ Serve(r) \/ Finish(r) \/ Abandon(r)

-----------------------------------------------------------------------------
(* The world *)

(* A ledger closes, with a transaction of a task, with a change of the       *)
(* contract's instance or of its code by somebody else, or empty.            *)
CloseLedger ==
  /\ ledger < MaxLedger
  /\ ledger' = ledger + 1
  /\ \/ Close /\ UNCHANGED <<runs, live>>
     \/ runs' \in Executable /\ UNCHANGED <<invokeVars, live>>
     \/ \E h \in Hash :
          /\ live' = [live EXCEPT ![h] = ledger + Lifetime]
          /\ UNCHANGED <<invokeVars, runs>>
  /\ asked' = [r \in Reader |->
       IF at[r] \in Active
       THEN [asked[r] EXCEPT
              !.held = @ \cup {Truth(q)' : q \in {asked[r].question}}]
       ELSE asked[r]]
  /\ UNCHANGED <<at, reply, count, answers>>

ClientNext ==
  \/ \E r \in Reader : Reading(r) /\ UNCHANGED <<invokeVars, worldVars>>
  \/ BetweenLedgers /\ UNCHANGED <<worldVars, readerVars>>
  \/ CloseLedger

ClientSpec == ClientInit /\ [][ClientNext]_clientVars

-----------------------------------------------------------------------------
(* Properties *)

(* An answer was true of some ledger between the question and its return, so *)
(* a question asked after a call was told that it has landed sees what it    *)
(* did, and answers never run backwards.  A None is an absence, never a      *)
(* request that failed.                                                      *)
AnswersHeld == \A a \in answers : a.result.ok => a.result.value \in a.held

(* The way out of an unknown outcome: once account_sequence has answered     *)
(* with the number of a call's transaction or a later one, the ledger has    *)
(* decided the call, by that transaction or against it.                      *)
SequenceSettles ==
  [][\A c \in calls, a \in answers :
       /\ a.question.kind = "account_sequence" /\ a.result.ok
       /\ a.question.account = c.tx.source
       /\ 0 < c.tx.seq /\ c.tx.seq <= a.result.value
       /\ c.tx \in Ledger'
       => c.tx \in Ledger]_clientVars
=============================================================================
