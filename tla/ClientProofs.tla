---------------------------- MODULE ClientProofs ----------------------------
(***************************************************************************)
(* For any number of readers and tasks and however many ledgers close      *)
(* between a request and its answer: an answer was true of some ledger     *)
(* since the question, and an account's sequence settles what it has       *)
(* passed.  To the calls of Invoke the readers are not there.              *)
(***************************************************************************)
EXTENDS Client, InvokeProofs

(* Of an active reader's question, what is true now has been since asked.    *)
HeldInv ==
  \A r \in Reader : at[r] \in Active =>
    /\ asked[r].question \in Question
    /\ count[r] >= 1
    /\ Truth(asked[r].question) \in asked[r].held

(* What the client will make of the node's reply was true when it was sent.  *)
ServedInv ==
  \A r \in Reader : at[r] = "served" =>
    LET answer == AnswerTo(asked[r].question, reply[r])
    IN  answer \in Result /\ (answer.ok => answer.value \in asked[r].held)

(* The sequence of an account has not been higher than it is.                *)
NotHigher(question, held) ==
  question.kind = "account_sequence" =>
    \A v \in held : v \in Nat /\ v <= seq[question.account]

NumbersInv ==
  /\ \A r \in Reader : at[r] \in Active => NotHigher(asked[r].question, asked[r].held)
  /\ \A a \in answers : NotHigher(a.question, a.held)

ClientTyped ==
  /\ ledger \in 1 .. MaxLedger
  /\ runs \in Executable
  /\ live \in [Hash -> Nat]
  /\ at \in [Reader -> ReaderLabels]
  /\ asked \in [Reader -> [question : Question \cup {Nobody}, held : SUBSET Fact]]
  /\ reply \in [Reader -> Reply]
  /\ count \in [Reader -> 0 .. MaxQuestions]
  /\ answers \subseteq
       [reader : Reader, n : 1 .. MaxQuestions, question : Question,
        held : SUBSET Fact, result : Result]
  /\ \A a \in answers : a.n <= count[a.reader]

ReadersInv == ClientTyped /\ HeldInv /\ ServedInv /\ AnswersHeld /\ NumbersInv

ClientInv == InvokeInv /\ ReadersInv

-----------------------------------------------------------------------------
(* The calls *)

(* To the calls, every step of the client's world is one of theirs or none.  *)
LEMMA CallsStep == [ClientNext]_clientVars => [InvokeNext]_invokeVars
  BY DEF ClientNext, CloseLedger, InvokeNext, clientVars

(* Between two ledgers the calls change nothing a reader may ask about.      *)
LEMMA BetweenKeeps == BetweenLedgers => UNCHANGED <<store, seq, succeeded, failed>>
  BY DEF BetweenLedgers, Invocation, Begin, SimulateAccount, Simulate, TakeFee,
     Submission, GetAccount, Prepare, Sign, Send, Poll, Cancel, Receive, Arrive, Evict,
     netVars, cellVars

(* A ledger takes an account's sequence further.                             *)
LEMMA CloseAdvances ==
  ASSUME IndInv, Close
  PROVE  \A a \in Account : seq[a] <= seq'[a] /\ seq[a] \in Nat /\ seq'[a] \in Nat
  <1>1. PICK x \in pending, ok \in BOOLEAN : Apply(x, ok)
    BY DEF Close
  <1>2. x \in Tx /\ seq \in [Account -> Nat] /\ x.source \in Account /\ x.seq \in Nat
    BY LedgerTypes DEF IndInv, Inv, Typed, NetTypeOK
  <1>3. x.seq = seq[x.source] + 1 /\ seq' = [seq EXCEPT ![x.source] = x.seq]
    BY <1>1 DEF Apply
  <1>4. QED
    BY <1>2, <1>3

-----------------------------------------------------------------------------
(* Questions *)

LEMMA Questions ==
  ASSUME NEW q \in Question
  PROVE  /\ q.kind \in {"read", "account_sequence", "latest_ledger", "wasm_hash_of",
                        "wasm_ttl"}
         /\ q.kind = "read" => q.cell \in Cell
         /\ q.kind = "account_sequence" => q.account \in Account
         /\ q.kind = "wasm_ttl" => q.hash \in Hash
  <1>1. \/ q \in [kind : {"read"}, cell : Cell]
        \/ q \in [kind : {"account_sequence"}, account : Account]
        \/ q \in [kind : {"latest_ledger", "wasm_hash_of"}]
        \/ q \in [kind : {"wasm_ttl"}, hash : Hash]
    BY ClientAssumption
  <1>2. QED
    BY <1>1

LEMMA TruthIsFact ==
  ASSUME InvokeInv, ClientTyped, NEW q \in Question
  PROVE  Truth(q) \in Fact
  <1>1. store \in [Cell -> Value] /\ \A a \in Account : seq[a] \in Nat
    BY LedgerTypes DEF InvokeInv, StoreInv
  <1>2. QED
    BY <1>1, Questions DEF Truth, Fact, ClientTyped

(* What the client makes of what the node says is the truth or an error.     *)
LEMMA SaysTheTruth ==
  ASSUME InvokeInv, ClientTyped, NEW q \in Question, NEW said \in Says(q) \cup {Failed}
  PROVE  /\ said \in Reply
         /\ AnswerTo(q, said) \in Result
         /\ AnswerTo(q, said).ok => AnswerTo(q, said).value = Truth(q)
  <1>1. \A v : Has(v).is = "value" /\ Has(v).value = v /\ Has(v) # Failed /\ Has(v) # Absent
    BY DEF Has, Failed, Absent
  <1>2. Absent # Failed /\ Absent \in Reply /\ Failed \in Reply
    BY DEF Absent, Failed, Reply
  <1>3. \A v \in Fact : /\ Ok(v) \in Result /\ Ok(v).ok /\ Ok(v).value = v
                        /\ Has(v) \in Reply
    BY DEF Ok, Has, Result, Reply
  <1>4. \A e \in Errors : Error(e) \in Result /\ ~ Error(e).ok
    BY DEF Error, Result
  <1>5. Truth(q) \in Fact
    BY TruthIsFact
  <1>6. {"Rpc", "Simulation", "MissingReturnValue"} \subseteq Errors
    BY DEF Errors
  <1>7. CASE said = Failed
    BY <1>2, <1>4, <1>6, <1>7
       DEF AnswerTo, read_contract, account_sequence, latest_ledger, wasm_hash_of,
           live_until_ledger
  <1>8. CASE said # Failed /\ q.kind = "read"
    <2>1. said \in {Has(Truth(q)), Absent}
      BY <1>8 DEF Says, Truth
    <2>2. QED
      BY <1>1, <1>2, <1>3, <1>4, <1>5, <1>6, <1>8, <2>1 DEF AnswerTo, read_contract
  <1>9. CASE said # Failed /\ q.kind = "account_sequence"
    <2>1. said = Has(Truth(q))
      BY <1>9 DEF Says, Truth
    <2>2. QED
      BY <1>1, <1>3, <1>5, <1>9, <2>1 DEF AnswerTo, account_sequence
  <1>10. CASE said # Failed /\ q.kind = "latest_ledger"
    <2>1. said = Has(Truth(q))
      BY <1>10 DEF Says, Truth
    <2>2. QED
      BY <1>1, <1>3, <1>5, <1>10, <2>1 DEF AnswerTo, latest_ledger
  <1>11. CASE said # Failed /\ q.kind = "wasm_hash_of"
    <2>1. /\ said = IF runs = NoInstance THEN Absent ELSE Has(runs)
          /\ Truth(q) = IF runs \in Hash THEN runs ELSE None
          /\ runs \in Hash \cup {Asset, NoInstance}
      BY <1>11 DEF Says, Truth, ClientTyped, Executable
    <2>2. said \in Reply
      <3>1. \A v \in Fact \cup {Asset} : Has(v) \in Reply
        BY DEF Has, Reply
      <3>2. QED
        BY <1>2, <2>1, <3>1 DEF Fact
    <2>3. AnswerTo(q, said) = Ok(Truth(q))
      BY <1>1, <1>11, <2>1, ClientAssumption DEF AnswerTo, wasm_hash_of
    <2>4. QED
      BY <1>3, <1>5, <2>2, <2>3
  <1>12. CASE said # Failed /\ q.kind = "wasm_ttl"
    <2>1. /\ said = IF live[q.hash] >= ledger THEN Has(live[q.hash]) ELSE Absent
          /\ Truth(q) = IF live[q.hash] >= ledger THEN live[q.hash] ELSE None
      BY <1>12 DEF Says, Truth
    <2>2. QED
      BY <1>1, <1>2, <1>3, <1>5, <1>12, <2>1 DEF AnswerTo, live_until_ledger
  <1>13. QED
    BY <1>7, <1>8, <1>9, <1>10, <1>11, <1>12, Questions

-----------------------------------------------------------------------------
(* Steps of a reader *)

LEMMA ClientStarts == ClientInit => ClientInv
  <1> SUFFICES ASSUME ClientInit
               PROVE  ClientInv
    OBVIOUS
  <1>1. InvokeInv
    BY InvokeStarts DEF ClientInit
  <1>2. ClientTyped
    BY ClientAssumption DEF ClientInit, ClientTyped, ReaderLabels, Reply
  <1>3. HeldInv /\ ServedInv /\ AnswersHeld /\ NumbersInv
    BY DEF ClientInit, HeldInv, ServedInv, AnswersHeld, NumbersInv, Active
  <1>4. QED
    BY <1>1, <1>2, <1>3 DEF ClientInv, ReadersInv

(* A reader moves and learns nothing new but what the node may have said.    *)
LEMMA MoveStep ==
  ASSUME InvokeInv, ReadersInv, NEW r \in Reader, NEW label \in ReaderLabels,
         Move(r, label), label \in Active => at[r] \in Active,
         UNCHANGED <<invokeVars, worldVars, asked, count, answers>>,
         \/ label # "served" /\ reply' = reply
         \/ /\ at[r] = "ask" /\ label = "served"
            /\ \E said \in Says(asked[r].question) \cup {Failed} :
                 reply' = [reply EXCEPT ![r] = said]
  PROVE  ReadersInv'
  <1> USE DEF ReadersInv
  <1>1. /\ at' = [at EXCEPT ![r] = label] /\ at \in [Reader -> ReaderLabels]
        /\ reply \in [Reader -> Reply]
        /\ UNCHANGED <<store, seq, ledger, runs, live, asked, count, answers>>
    BY DEF Move, ClientTyped, invokeVars, cellVars, vars, netVars, worldVars
  <1>2. \A u \in Reader : u # r => at'[u] = at[u] /\ reply'[u] = reply[u]
    BY <1>1
  <1>3. /\ at'[r] = label
        /\ \A q : Truth(q)' = Truth(q)
    BY <1>1 DEF Truth
  <1>4. HeldInv'
    BY <1>1, <1>2, <1>3 DEF HeldInv
  <1>5. NumbersInv' /\ AnswersHeld'
    BY <1>1, <1>2, <1>3 DEF NumbersInv, NotHigher, AnswersHeld
  <1>6. CASE label # "served" /\ reply' = reply
    <2>1. ClientTyped'
      BY <1>1, <1>6 DEF ClientTyped
    <2>2. ServedInv'
      BY <1>1, <1>2, <1>3, <1>6 DEF ServedInv
    <2>3. QED
      BY <1>4, <1>5, <2>1, <2>2
  <1>7. CASE /\ at[r] = "ask" /\ label = "served"
             /\ \E said \in Says(asked[r].question) \cup {Failed} :
                  reply' = [reply EXCEPT ![r] = said]
    <2>1. PICK said \in Says(asked[r].question) \cup {Failed} :
            reply' = [reply EXCEPT ![r] = said]
      BY <1>7
    <2>2. /\ asked[r].question \in Question
          /\ Truth(asked[r].question) \in asked[r].held
      BY <1>7 DEF HeldInv, Active
    <2>3. /\ said \in Reply
          /\ AnswerTo(asked[r].question, said) \in Result
          /\ AnswerTo(asked[r].question, said).ok =>
               AnswerTo(asked[r].question, said).value = Truth(asked[r].question)
      BY <2>2, SaysTheTruth
    <2>4. ClientTyped'
      BY <1>1, <2>1, <2>3 DEF ClientTyped
    <2>5. reply'[r] = said
      BY <1>1, <2>1
    <2>6. ServedInv'
      <3> SUFFICES ASSUME NEW u \in Reader, at'[u] = "served"
                   PROVE  LET answer == AnswerTo(asked[u].question, reply'[u])
                          IN  answer \in Result /\ (answer.ok => answer.value \in asked[u].held)
        BY <1>1 DEF ServedInv
      <3>1. CASE u = r
        BY <2>2, <2>3, <2>5, <3>1
      <3>2. CASE u # r
        BY <1>2, <3>2 DEF ServedInv
      <3>3. QED
        BY <3>1, <3>2
    <2>7. QED
      BY <1>4, <1>5, <2>4, <2>6
  <1>8. QED
    BY <1>6, <1>7

LEMMA AskStep ==
  ASSUME InvokeInv, ReadersInv, NEW r \in Reader, NEW q \in Question, Ask(r, q),
         UNCHANGED <<invokeVars, worldVars>>
  PROVE  ReadersInv'
  <1> USE DEF ReadersInv
  <1> DEFINE label == IF q.kind = "read" THEN "account" ELSE "ask"
             question == [question |-> q, held |-> {Truth(q)}]
  <1>1. /\ at' = [at EXCEPT ![r] = label] /\ at \in [Reader -> ReaderLabels]
        /\ asked' = [asked EXCEPT ![r] = question]
        /\ count' = [count EXCEPT ![r] = @ + 1] /\ count[r] < MaxQuestions
        /\ UNCHANGED <<store, seq, ledger, runs, live, reply, answers>>
    BY DEF Ask, Move, ClientTyped, invokeVars, cellVars, vars, netVars, worldVars
  <1>2. label \in {"account", "ask"} /\ label \in ReaderLabels
    BY DEF ReaderLabels, Active
  <1> HIDE DEF label
  <1>3. Truth(q) \in Fact /\ \A p : Truth(p)' = Truth(p)
    BY <1>1, TruthIsFact DEF Truth
  <1>4. question.question = q /\ question.held = {Truth(q)}
        /\ question \in [question : Question \cup {Nobody}, held : SUBSET Fact]
    BY <1>3
  <1> HIDE DEF question
  <1>5. /\ asked \in [Reader -> [question : Question \cup {Nobody}, held : SUBSET Fact]]
        /\ count \in [Reader -> 0 .. MaxQuestions] /\ MaxQuestions \in Nat
    BY ClientAssumption DEF ClientTyped
  <1>6. /\ at'[r] = label /\ asked'[r] = question
        /\ count'[r] = count[r] + 1 /\ count[r] \in 0 .. MaxQuestions
        /\ \A u \in Reader : u # r => /\ at'[u] = at[u] /\ asked'[u] = asked[u]
                                      /\ count'[u] = count[u]
    BY <1>1, <1>5
  <1>7. ClientTyped'
    <2>1. count' \in [Reader -> 0 .. MaxQuestions]
      BY <1>1, <1>5, <1>6
    <2>2. \A a \in answers' : a.n <= count'[a.reader]
      <3> SUFFICES ASSUME NEW a \in answers
                   PROVE  a.n <= count'[a.reader]
        BY <1>1
      <3>1. a.reader \in Reader /\ a.n \in 1 .. MaxQuestions /\ a.n <= count[a.reader]
        BY DEF ClientTyped
      <3>2. QED
        BY <1>5, <1>6, <3>1
    <2>3. QED
      BY <1>1, <1>2, <1>4, <2>1, <2>2 DEF ClientTyped
  <1>8. HeldInv'
    BY <1>1, <1>3, <1>4, <1>5, <1>6 DEF HeldInv
  <1>9. ServedInv'
    BY <1>1, <1>2, <1>6 DEF ServedInv
  <1>10. AnswersHeld'
    BY <1>1 DEF AnswersHeld
  <1>11. NumbersInv'
    <2>1. NotHigher(q, {Truth(q)})
      BY Questions, LedgerTypes DEF NotHigher, Truth, InvokeInv
    <2>2. QED
      BY <1>1, <1>4, <1>6, <2>1 DEF NumbersInv, NotHigher
  <1>12. QED
    BY <1>7, <1>8, <1>9, <1>10, <1>11

LEMMA AnswerStep ==
  ASSUME InvokeInv, ReadersInv, NEW r \in Reader, NEW answer \in Result,
         Answer(r, answer), at[r] \in Active,
         answer.ok => answer.value \in asked[r].held,
         UNCHANGED <<invokeVars, worldVars>>
  PROVE  ReadersInv'
  <1> USE DEF ReadersInv
  <1> DEFINE a == [reader |-> r, n |-> count[r], question |-> asked[r].question,
                   held |-> asked[r].held, result |-> answer]
  <1>1. /\ at' = [at EXCEPT ![r] = "open"] /\ at \in [Reader -> ReaderLabels]
        /\ answers' = answers \cup {a}
        /\ UNCHANGED <<store, seq, ledger, runs, live, asked, reply, count>>
    BY DEF Answer, Move, ClientTyped, invokeVars, cellVars, vars, netVars, worldVars
  <1>2. /\ a.reader = r /\ a.n = count[r] /\ a.question = asked[r].question
        /\ a.held = asked[r].held /\ a.result = answer
    OBVIOUS
  <1>3. /\ asked[r].question \in Question /\ count[r] \in 1 .. MaxQuestions
        /\ asked[r].held \in SUBSET Fact
    BY ClientAssumption DEF HeldInv, ClientTyped
  <1>4. a \in [reader : Reader, n : 1 .. MaxQuestions, question : Question,
               held : SUBSET Fact, result : Result]
    BY <1>3
  <1> HIDE DEF a
  <1>5. at'[r] = "open" /\ \A u \in Reader : u # r => at'[u] = at[u]
    BY <1>1
  <1>6. ClientTyped'
    <2>1. a.n <= count[a.reader]
      BY <1>2, <1>3
    <2>2. at' \in [Reader -> ReaderLabels]
      BY <1>1 DEF ReaderLabels
    <2>3. QED
      BY <1>1, <1>4, <2>1, <2>2 DEF ClientTyped
  <1>7. \A q : Truth(q)' = Truth(q)
    BY <1>1 DEF Truth
  <1>8. HeldInv' /\ ServedInv'
    BY <1>1, <1>5, <1>7 DEF HeldInv, ServedInv, Active
  <1>9. AnswersHeld'
    BY <1>1, <1>2 DEF AnswersHeld
  <1>10. NumbersInv'
    BY <1>1, <1>2, <1>5 DEF NumbersInv, NotHigher, Active
  <1>11. QED
    BY <1>6, <1>8, <1>9, <1>10

LEMMA ReadingStep ==
  ASSUME InvokeInv, ReadersInv, NEW r \in Reader, Reading(r),
         UNCHANGED <<invokeVars, worldVars>>
  PROVE  ReadersInv'
  <1> USE DEF ReaderLabels, Active
  <1>1. CASE Connect(r)
    <2>1. PICK label \in {"open", "failed"} : Move(r, label)
      BY <1>1 DEF Connect
    <2>2. QED
      BY <1>1, <2>1, MoveStep DEF Connect
  <1>2. CASE \E q \in Question : Ask(r, q)
    BY <1>2, AskStep
  <1>3. CASE ReadAccount(r)
    <2>1. CASE Move(r, "ask") /\ UNCHANGED <<asked, reply, count, answers>>
      BY <1>3, <2>1, MoveStep DEF ReadAccount
    <2>2. CASE \E e \in {"Xdr", "Rpc"} : Answer(r, Error(e))
      <3>1. PICK e \in {"Xdr", "Rpc"} : Answer(r, Error(e))
        BY <2>2
      <3>2. Error(e) \in Result /\ ~ Error(e).ok
        BY DEF Error, Result, Errors
      <3>3. QED
        BY <1>3, <3>1, <3>2, AnswerStep DEF ReadAccount
    <2>3. QED
      BY <1>3, <2>1, <2>2 DEF ReadAccount
  <1>4. CASE Serve(r)
    BY <1>4, MoveStep DEF Serve
  <1>5. CASE Finish(r)
    <2>1. /\ at[r] = "served"
          /\ Answer(r, AnswerTo(asked[r].question, reply[r]))
      BY <1>5 DEF Finish
    <2>2. /\ AnswerTo(asked[r].question, reply[r]) \in Result
          /\ AnswerTo(asked[r].question, reply[r]).ok =>
               AnswerTo(asked[r].question, reply[r]).value \in asked[r].held
      BY <2>1 DEF ReadersInv, ServedInv
    <2>3. QED
      BY <2>1, <2>2, AnswerStep
  <1>6. CASE Abandon(r)
    BY <1>6, MoveStep DEF Abandon
  <1>7. QED
    BY <1>1, <1>2, <1>3, <1>4, <1>5, <1>6 DEF Reading

-----------------------------------------------------------------------------
(* Steps of the world *)

LEMMA BetweenStep ==
  ASSUME InvokeInv, ReadersInv, BetweenLedgers \/ UNCHANGED invokeVars,
         UNCHANGED <<worldVars, readerVars>>
  PROVE  ReadersInv'
  <1>1. UNCHANGED <<store, seq>>
    BY BetweenKeeps DEF invokeVars, cellVars, vars, netVars
  <1>2. UNCHANGED <<ledger, runs, live, at, asked, reply, count, answers>>
    BY DEF worldVars, readerVars
  <1>3. \A q : Truth(q)' = Truth(q)
    BY <1>1, <1>2 DEF Truth
  <1>4. QED
    BY <1>1, <1>2, <1>3
       DEF ReadersInv, ClientTyped, HeldInv, ServedInv, AnswersHeld, NumbersInv, NotHigher

(* A close adds to what has been true of every open question.                *)
LEMMA CloseLedgerStep ==
  ASSUME InvokeInv, InvokeInv', ReadersInv, CloseLedger
  PROVE  ReadersInv'
  <1> USE DEF ReadersInv
  <1>1. /\ UNCHANGED <<at, reply, count, answers>>
        /\ ledger' = ledger + 1 /\ ledger < MaxLedger /\ MaxLedger \in Nat
        /\ asked' = [r \in Reader |->
             IF at[r] \in Active
             THEN [asked[r] EXCEPT
                    !.held = @ \cup {Truth(q)' : q \in {asked[r].question}}]
             ELSE asked[r]]
    BY ClientAssumption DEF CloseLedger
  <1>2. ClientTyped
    OBVIOUS
  <1>3. runs' \in Executable /\ live' \in [Hash -> Nat] /\ ledger' \in 1 .. MaxLedger
    <2>1. runs' \in Executable
      BY DEF CloseLedger, ClientTyped
    <2>2. live' \in [Hash -> Nat]
      <3>1. ledger + Lifetime \in Nat
        BY ClientAssumption DEF ClientTyped
      <3>2. QED
        BY <3>1 DEF CloseLedger, ClientTyped
    <2>3. ledger' \in 1 .. MaxLedger
      BY <1>1 DEF ClientTyped
    <2>4. QED
      BY <2>1, <2>2, <2>3
  <1>4. \A a \in Account : seq[a] <= seq'[a] /\ seq[a] \in Nat /\ seq'[a] \in Nat
    <2>1. CASE Close
      BY <2>1, CloseAdvances DEF InvokeInv
    <2>2. CASE UNCHANGED invokeVars
      <3>1. seq' = seq /\ \A a \in Account : seq[a] \in Nat
        BY <2>2, LedgerTypes DEF InvokeInv, invokeVars, cellVars, vars, netVars
      <3>2. QED
        BY <3>1
    <2>3. QED
      BY <2>1, <2>2 DEF CloseLedger
  <1>5. ASSUME NEW q \in Question
        PROVE  Truth(q)' \in Fact
    <2>1. store' \in [Cell -> Value]
      BY DEF InvokeInv, StoreInv
    <2>2. QED
      BY <1>3, <1>4, <2>1, Questions DEF Truth, Fact
  <1>6. ASSUME NEW r \in Reader, at[r] \in Active, NEW q, q = asked[r].question
        PROVE  /\ asked'[r].question = q /\ q \in Question
               /\ asked'[r].held = asked[r].held \cup {Truth(q)'}
               /\ asked'[r] \in [question : Question \cup {Nobody}, held : SUBSET Fact]
    <2>1. asked[r] \in [question : Question \cup {Nobody}, held : SUBSET Fact]
      BY <1>2 DEF ClientTyped
    <2>3. q \in Question /\ Truth(q)' \in Fact
      BY <1>5, <1>6 DEF HeldInv
    <2>4. asked'[r] = [asked[r] EXCEPT !.held = @ \cup {Truth(q)'}]
      BY <1>1, <1>6
    <2>5. ASSUME NEW v, v \in Fact, asked'[r] = [asked[r] EXCEPT !.held = @ \cup {v}]
          PROVE  /\ asked'[r].question = q
                 /\ asked'[r].held = asked[r].held \cup {v}
                 /\ asked'[r] \in [question : Question \cup {Nobody}, held : SUBSET Fact]
      BY <1>6, <2>1, <2>5
    <2>6. QED
      BY <2>3, <2>4, <2>5
  <1>7. ASSUME NEW r \in Reader, at[r] \notin Active
        PROVE  asked'[r] = asked[r]
    BY <1>1, <1>7
  <1>8. ClientTyped'
    <2>1. asked' \in [Reader -> [question : Question \cup {Nobody}, held : SUBSET Fact]]
      <3>1. ASSUME NEW r \in Reader
            PROVE  asked'[r] \in [question : Question \cup {Nobody}, held : SUBSET Fact]
        <4>1. CASE at[r] \in Active
          BY <1>6, <4>1
        <4>2. CASE at[r] \notin Active
          BY <1>2, <1>7, <4>2 DEF ClientTyped
        <4>3. QED
          BY <4>1, <4>2
      <3>2. asked' = [r \in Reader |-> asked'[r]]
        BY <1>1
      <3>3. QED
        BY <3>1, <3>2
    <2>2. QED
      BY <1>1, <1>2, <1>3, <2>1 DEF ClientTyped
  <1>9. HeldInv'
    <2> SUFFICES ASSUME NEW r \in Reader, at[r] \in Active
                 PROVE  /\ asked'[r].question \in Question
                        /\ count[r] >= 1
                        /\ Truth(asked[r].question)' \in asked'[r].held
      BY <1>1, <1>6 DEF HeldInv
    <2>1. QED
      BY <1>6 DEF HeldInv
  <1>10. ServedInv'
    <2> SUFFICES ASSUME NEW r \in Reader, at[r] = "served"
                 PROVE  LET answer == AnswerTo(asked'[r].question, reply[r])
                        IN  answer \in Result /\ (answer.ok => answer.value \in asked'[r].held)
      BY <1>1 DEF ServedInv
    <2>1. QED
      BY <1>6 DEF ServedInv, Active
  <1>11. AnswersHeld'
    BY <1>1 DEF AnswersHeld
  <1>12. NumbersInv'
    <2>1. ASSUME NEW q \in Question, NEW held, NotHigher(q, held)
          PROVE  q.kind = "account_sequence" =>
                   \A v \in held \cup {Truth(q)'} : v \in Nat /\ v <= seq'[q.account]
      BY <1>4, <2>1, Questions DEF NotHigher, Truth
    <2>2. ASSUME NEW r \in Reader, at[r] \in Active
          PROVE  asked'[r].question.kind = "account_sequence" =>
                   \A v \in asked'[r].held :
                     v \in Nat /\ v <= seq'[asked'[r].question.account]
      BY <1>6, <2>1, <2>2 DEF NumbersInv
    <2>3. ASSUME NEW a \in answers
          PROVE  a.question.kind = "account_sequence" =>
                   \A v \in a.held : v \in Nat /\ v <= seq'[a.question.account]
      BY <1>2, <2>1 DEF NumbersInv, ClientTyped
    <2>4. QED
      BY <1>1, <2>2, <2>3 DEF NumbersInv, NotHigher
  <1>13. QED
    BY <1>8, <1>9, <1>10, <1>11, <1>12

LEMMA ClientStep == ClientInv /\ [ClientNext]_clientVars => ClientInv'
  <1> SUFFICES ASSUME ClientInv, [ClientNext]_clientVars
               PROVE  ClientInv'
    OBVIOUS
  <1> USE DEF ClientInv
  <1>1. InvokeInv'
    BY CallsStep, InvokeStep
  <1>2. CASE \E r \in Reader : Reading(r) /\ UNCHANGED <<invokeVars, worldVars>>
    BY <1>1, <1>2, ReadingStep
  <1>3. CASE BetweenLedgers /\ UNCHANGED <<worldVars, readerVars>>
    BY <1>1, <1>3, BetweenStep
  <1>4. CASE CloseLedger
    BY <1>1, <1>4, CloseLedgerStep
  <1>5. CASE UNCHANGED clientVars
    BY <1>1, <1>5, BetweenStep DEF clientVars
  <1>6. QED
    BY <1>2, <1>3, <1>4, <1>5 DEF ClientNext

LEMMA ClientInvariant == ClientSpec => []ClientInv
  BY ClientStarts, ClientStep, PTL DEF ClientSpec

-----------------------------------------------------------------------------

(* The calls beside the questions are Invoke's, so all that is proved of     *)
(* them holds here.                                                          *)
THEOREM CallsAreInvokes == ClientSpec => InvokeSpec
  <1>1. ClientInit => InvokeInit
    BY DEF ClientInit
  <1>2. QED
    BY <1>1, CallsStep, PTL DEF ClientSpec, InvokeSpec

(* Type correctness of the calls, the ledger, the readers and their answers. *)
THEOREM ClientTypeCorrect == ClientSpec => []ClientTypeOK
  <1>1. ClientInv => ClientTypeOK
    BY InvokeTyped DEF ClientInv, ReadersInv, ClientTyped, ClientTypeOK
  <1>2. QED
    BY <1>1, ClientInvariant, PTL

(* An answer was true of some ledger between the question and its return.    *)
THEOREM AnswersAreTrue == ClientSpec => []AnswersHeld
  <1>1. ClientInv => AnswersHeld
    BY DEF ClientInv, ReadersInv
  <1>2. QED
    BY <1>1, ClientInvariant, PTL

(* What an account's sequence has passed cannot be applied any more.         *)
LEMMA PassedIsSettled ==
  ASSUME ClientInv, [ClientNext]_clientVars, NEW c \in calls, NEW a \in answers,
         a.question.kind = "account_sequence", a.result.ok,
         a.question.account = c.tx.source,
         0 < c.tx.seq, c.tx.seq <= a.result.value, c.tx \in Ledger'
  PROVE  c.tx \in Ledger
  <1> USE DEF ClientInv, ReadersInv
  <1> SUFFICES ASSUME c.tx \notin Ledger
               PROVE  FALSE
    OBVIOUS
  <1>1. Close
    <2>1. ~ UNCHANGED <<succeeded, failed>>
      BY DEF Ledger
    <2>2. QED
      BY <2>1, BetweenKeeps
         DEF ClientNext, CloseLedger, clientVars, invokeVars, cellVars, vars, netVars
  <1>2. c.tx \in pending /\ c.tx.seq = seq[c.tx.source] + 1
    BY <1>1 DEF Close, Apply, Ledger
  <1>3. c.tx \in Tx /\ c.tx.seq \in Nat /\ seq[c.tx.source] \in Nat
    BY <1>2, LedgerTypes DEF InvokeInv
  <1>4. a.result.value \in Nat /\ a.result.value <= seq[c.tx.source]
    BY DEF AnswersHeld, NumbersInv, NotHigher
  <1>5. QED
    BY <1>2, <1>3, <1>4

(* Once account_sequence has answered with the number of a call's            *)
(* transaction or a later one, the ledger has decided the call.              *)
THEOREM SequencesSettle == ClientSpec => SequenceSettles
  <1>1. ASSUME ClientInv, [ClientNext]_clientVars
        PROVE  [\A c \in calls, a \in answers :
                 /\ a.question.kind = "account_sequence" /\ a.result.ok
                 /\ a.question.account = c.tx.source
                 /\ 0 < c.tx.seq /\ c.tx.seq <= a.result.value
                 /\ c.tx \in Ledger'
                 => c.tx \in Ledger]_clientVars
    BY <1>1, PassedIsSettled
  <1>2. QED
    BY <1>1, ClientInvariant, PTL DEF ClientSpec, SequenceSettles
=============================================================================
