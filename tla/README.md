# stellar-rust-client: specifications

TLA+ models of `stellar-rust-client`, a Rust library that builds, simulates,
signs, submits and awaits Soroban transactions, with the TLC runs that check
them on small instances and the proofs that hold for every instance. Paths such
as `src/poll.rs` are relative to the repository.

The library is small, and almost all of it is asynchronous calls to an RPC node
that may answer late, not at all, or about somebody else's transaction. What is
hard about it is what a *returned value* allows a caller to conclude about the
*ledger*, so that is what nearly all of the properties are about.

## The system

| component | state | operations | what makes it correct |
|---|---|---|---|
| `poll` | deadline, last answer | `poll_transaction_status`: ask, sleep, ask again | the verdict is the ledger's; no early or blind timeout; it ends |
| `txbuilder` | the account fetched, the transaction in hand | `prepare_and_send` (get account, build, prepare, sign, send, poll); `build_and_simulate` | reports are the ledger's and the call's own; nothing lands unsent; a later landed call settles earlier ones; together: the promise of `Outcome` |
| `invoke` | none beyond a call | `invoke_contract`: simulate, skip or take a fee and submit | a skip and an execution both mean that the state is as asked; no needless payment but for a race |
| `deploy` | none beyond a call | `upload_wasm`, `create_contract_instance`, `deploy_contract` | Ok is deployed; every instance is one request's |
| `ttl` | none beyond a call | three extend calls over one core, with restore and retry; queries; key builders | legs in order; Executed is an extension; an error of its own leaves nothing open; a key names its entry and no other |
| `fee` | none | `recommended_inclusion_fee`; the restore fee in `ttl` | no bid under the floor, short or wrapped |
| `client` | server, network, signer factory, public key, poll configuration; all constant after construction | a method per operation, each building its own signer; four questions and `read_contract` | a signer per transaction; an answer was true while it was under way; an absence is not an error |
| `signer` | the secret and its public key | `build_signer`, `sign` | no signer outlives its use |
| `read` | none | `read_contract`: simulate | as the questions of `client`; it submits nothing |
| `utils` | none | conversions between native values and `ScVal` | a value survives the round trip; a decoder reads all of what it accepts |
| `error`, `config`, `wasm`, `lib` | none | error kinds, constants, a file read, re-exports | |

**How they interact.** `Client` methods call `deploy`, `invoke`, `ttl` and
`read`. `deploy` and `invoke` call `fee` and then `prepare_and_send`; `ttl` has
a submission of its own (its transactions carry a footprint, and a restore is
not simulated). Every submission ends in `poll`. There are no callbacks, locks,
channels or background tasks and nothing is persisted: concurrency is that of
the program, which may run any number of calls at once on one `Client` (its
methods take `&self`) or several. Calls of one account meet in the account's
sequence number, in the node's queue and in the ledger.

**What is hard.** Two calls that build the same sequence number or even the
same transaction; a `sendTransaction` that fails in transport and arrives all
the same; a node's refusal, which the code does not look at; a timeout while
the transaction is still on its way, and the caller's retry; a caller that
drops a call's future at any of its awaits (the default poll lasts an hour, so
a program is likely to have timeouts of its own); state read by a
simulation and changed before the ledger applies the transaction; requests of
two transactions that fail between them or after them.

## Modules

    AwaitTx  <-- implemented by --  Poll          PollProofs
       .
       .  (its promise, used in Poll(t) below)
       .
    Outcome  <-- implemented by --  TxBuilder     TxBuilderProofs
       .                                            ^
    Network <-- TxBuilder <-- Invoke <-- Client   InvokeProofs <-- ClientProofs
       ^            ^-------- Deploy              DeployProofs
       ^--- Ttl                                   TtlProofs
    Fee                                           FeeProofs
    Utils                                         UtilsProofs

An arrow without a label is EXTENDS. A module of proofs extends the module it is
about; `InvokeProofs` and `DeployProofs` extend `TxBuilderProofs` too, and
`ClientProofs` extends `InvokeProofs`, as the models do.

| module | code | correspondence |
|---|---|---|
| `AwaitTx` | what `src/poll.rs` promises | the transaction's status, the last answer, the result; no clock |
| `Poll` | `src/poll.rs`, `PollConfig` in `src/config.rs` | `Enter` computes the deadline, `RequestFails` is `?`, `React` the loop's condition, check and `match`, `Sleep`/`Wake` the pause. `Answer`, `Finalize`, `Tick` are the node, the ledger and the clock |
| `Network` | external | the node's queue, the ledger's verdicts, sequence numbers, and requests whose transport failed (`wire`) |
| `TxBuilder` | `src/txbuilder.rs`, `src/error.rs` | one action per `await` of `prepare_and_send`; tasks call it again and again, `calls` records what each call returned and what it had built |
| `Outcome` | what `prepare_and_send` promises | calls, which of them the ledger has settled and how, and what their callers were told; no transactions, steps or network |
| `Invoke` | `src/invoke.rs`, `build_and_simulate`, `Client::invoke_contract` | the steps before a submission; the submission is `TxBuilder`'s `Submission` |
| `Deploy` | `src/deploy.rs`, three methods of `src/client.rs` | `StartUpload`/`EndUpload` and `StartCreate`/`EndCreate` around the submission; `deploy_contract` runs both |
| `Ttl` | `src/ttl.rs`, three methods of `src/client.rs` | `leg` says whether a call is at its first extension, the restore, or the retry; ledgers pass and entries expire |
| `Client` | `Client::new` and the read-only methods of `src/client.rs`, `src/read.rs`, `wasm_hash_of` and `live_until_ledger` in `src/ttl.rs` | `Ask`, then `Serve` when the node answers and `Finish` when the answer is in; one operator per question says what is made of the answer. `Invoke` is the program that writes meanwhile |
| `Utils` | `src/utils.rs`, the builders of `ScVal` keys (`instance_key`, `mapping_entry_key`) and the hash conversions of `src/ttl.rs` | one operator per conversion; the scalars that are moved unchanged share `encode` and `decode`. The behaviour is a program that encodes a value, or receives one, and decodes it |
| `Fee` | `src/fee.rs`, `restore_entry` in `src/ttl.rs`, `unwrap_or` in its callers | functions on integers of a width that is a constant |

A step of the library is everything between two awaits. A transaction is its
content (account, sequence number, operation), as its hash is: two tasks that
build the same content have built the same transaction, and the poll, which
has only the hash, cannot tell them apart. In `TxBuilder`, `Invoke`, `Deploy`
and `Ttl` the poll has no clock: a turn of the loop reads the status, and the
timeout may end it once `NotFound` has been seen. That is what `AwaitTx` allows
and what `Poll` is shown to implement.

A call may be abandoned at each of its awaits (`Cancel`, `CancelRequest`,
`Abandon`): Rust drops the future, and nothing in the library runs afterwards.
If `sendTransaction` was under way, the request may have left. That is also
what a crash of the program leaves behind, for the library persists nothing.

A definition whose comment calls it a *faulty variant* is not part of a
specification. Each is what a plausible mistake would make of the definition
after it, and is there to show that a property depends on the code it is about.

### What is assumed of the network

- A node queues a transaction that is next in its account's sequence if it has
  no other of that account; it may refuse any, and drop any that it has queued.
- A transaction whose request failed in transport reaches the node later,
  once, or never (it may stay on the wire for good).
- The ledger applies a transaction only at its sequence number, uses the number
  up whether the operation succeeds or fails, and never takes a verdict back.
- A simulation sees the ledger as it is when the node serves it; it may fail at
  any time.
- A successful extension skips an entry that is no longer live; a restoration
  of an entry that is live does nothing, and succeeds.
- The ledger of an extension is a ledger number, as `src/ttl.rs:196-197` and
  `tests/write_extend_ttl.rs:60-93` have it.
- All requests of a program go to one node, and it does not go back to an
  earlier ledger. Behind a load balancer neither `AnswersHeld` nor the order of
  a task's sequence numbers would hold.
- The SDK draws a salt for a contract created without one (`create_contract`
  is given `None`), so every create makes another contract.
- An `ScVal` that a program receives is one the XDR types can hold: a symbol is
  not longer than theirs and an address is one (`TextVal` in `Utils`). The
  decoders do not look at either, and do not have to.

## Runs

Where a run is expected to fail it is named with the sentence of the
repository it contradicts.

| run | what it shows | bounds |
|---|---|---|
| `poll` | `VerdictSound`, `TimeoutSound`, `ReturnsInTime`, `Returns`, `KnownVerdictDelivered`, and that `Poll` implements `AwaitTx` | five configurations: ordinary, no interval, interval longer than the timeout, no timeout, a timeout the clock cannot represent; latency 2, overshoot 1 |
| `poll_ceiling` | violated: README.md:128-129, "a 60-minute ceiling". The loop sleeps a whole interval across the deadline and asks again | the same |
| `txbuilder` | `ConfirmedOnLedger`, `FreshConfirmation`, `OnlyWhatWasSent`, `Settles`, `EveryCallReturns`, and that `TxBuilder` implements `Outcome` | two tasks of one account, two operations, two calls of the one and one of the other |
| `invoke` | `ViewAgrees`, `PaysForChange` | a task with two calls and one with one call, two cells, two values, one of which a cell has before it is written |
| `deploy` | `OkIsDeployed`, `InstancesAccounted` | one task with two rounds, one with one; one wasm |
| `ttl` | `RestoreThenExtend`, `RetryFindsRestored`, `RefusedLeavesNothingOpen`, `ExecutedExtends`, `EveryExtensionReturns` | two calls, a persistent and a temporary entry, first live-until ledgers 0 (none), 1, 2; four ledgers |
| `ttl_stays_live` | violated: src/ttl.rs:196-197, "so it stays live at least until ledger `extend_to`". The entry may expire after the simulation | as `ttl` |
| `ttl_signer` | violated: src/signer/mod.rs:54-55, "for exactly one signing operation". Restore and retry sign with one signer | as `ttl` |
| `fee` | `NeverUnderbids`, `RestorationIsPaid` | fees of four bits, floor 3, every report from -1 to 17, resource fees around every end |
| `utils` | `RoundTrip`, `NothingIsCoerced`, `PartsAreTheNumber`, `KeyReadsBack` | halves of two bits, so that a 128-bit integer has four, and all of them; symbols of three bytes; hashes of two bytes of two digits; vectors of three elements, of every variant and with misfits |
| `utils_bare_key` | violated: src/ttl.rs:188-189, "this is just the bare symbol key", and src/client.rs:123-124, "pass an empty `details` for a bare-symbol key". The key without fields is a vec of one symbol, which is a unit variant's and not a bare symbol | as `utils` |
| `client` | `AnswersHeld`, `SequenceSettles` | a task that calls twice, a reader with one question of any kind, a contract that is replaced by others, two ledger closes |

Every run also checks its module's one type invariant where it checks safety.
No run checks for deadlock: a call that has returned, or a program that makes
no further call, stops, and the bounds on calls and ledgers stop the rest.

**Why the bounds are enough.** What the properties of `TxBuilder` relate is a
pair of calls, of one task or of two, and a transaction; the interference
possible for a pair is all there with two tasks of one account. Two calls of
a task are what a retry takes, and two operations are what it takes for equal
and different content. Accounts do not interact, so one is the interesting
case; the proofs have any number. In `Invoke` a second call is a retry, and the
other task is either in the way or, on a cell of its own, only in the sequence.
A cell begins with one of the two values, so that a task may ask for the other,
time out, ask for the first, be told that nothing changes, and then see the
timed-out write land: the race that `ViewAgrees` has to allow and no more.
`Deploy` needs two rounds for `deploy_contract` and one rival. In `Ttl`, four
ledgers let an entry be live, expire under the call, be restored with a time to
live of one ledger and expire once more. In `Fee`, sixteen values of a fee have
the same ends as 2^32. The second task of `txbuilder` calls once: a rival that
retries as well adds no kind of pair, and the safety properties and the
refinement are proved for any number of calls. In `Utils`, a half of two bits
has all the ends and carries that one of 64 has, and `UtilsProofs` has any
width. In `Client` one question is all that the properties look at: they relate
it to the ledger and to the calls of the task, and two ledger closes let one
come between a question and its service and another between that and the
answer. Tasks, accounts, operations, cells, keys and hashes are model values. No
run uses symmetry: the tasks differ in what they may do, or the run checks
liveness.

**Fairness.** `Poll`: weak fairness of the function's own steps and of the
clock; the executor runs a task that is ready, a request ends (with an answer
or an error) within the latency, and time passes. In `TxBuilder` and `Ttl`: weak fairness
of each task's steps, which is the same assumption with the timeout's coming as
`Poll`'s `Returns` has it. Nothing is asked of the network: the liveness
properties hold for a transaction that is never included.

## Proofs

TLAPS proves the following for every value of the constants that satisfies the
named assumptions: any configuration, latency and clock (`PollAssumption`), any
sets of tasks, accounts and operations with any number of calls
(`TxBuilderAssumption`), on any cells (`InvokeAssumption`), for any requests and
wasms (`DeployAssumption`), with any readers, questions and hashes
(`ClientAssumption`), any entries, extensions and times to live
(`TtlAssumption`), any fee width and floor (`FeeAssumption`), any width of
words, digits, symbols and hashes (`UtilsAssumption`). The bounds on ledgers,
calls and questions are constants like the others, so the theorems hold for any.

- `PollProofs`: `TypeCorrect`, `VerdictIsLedgers`, `TimeoutIsJustified`,
  `WaitIsBounded`, `PollImplementsAwaitTx`. None of the properties is inductive,
  because none says where the clock may stand. `PollInv` adds it: `ClockInv`
  bounds the clock in each state by the timer and, since a sleep begins only
  before the deadline, the timer by the deadline and one interval; `AnswerInv`
  says that an answer is the ledger's unless it is a `NotFound` no older than
  the request in hand. `PollImplementsAwaitTx` maps each step to a step of
  `AwaitTx` or a stutter, from the same invariant.
- `TxBuilderProofs`: `TypeCorrect`, `ReportsAreLedgers`, `LandedWasSent`,
  `ConfirmationsAreFresh`, `LandedCallSettles`. The argument is about sequence
  numbers. What is on the ledger is not above its account's number
  (`LedgerInv`); what a call has built is above the number its account had, so
  it comes after everything of the task that has landed (`CurrentInv`), and so
  does a returned call that has landed after those before it (`OrderInv`).
  `FreshConfirmation` follows: two landed calls have different numbers. So does
  `Settles`: an earlier call's transaction has a number that is used up. The
  attribution of what is queued, under way or on the ledger to a call that sent
  it (`OnlyWhatWasSent`) is inductive with the typing and with the drafts'
  having no number (`DraftInv`).
  The invariant (`IndInv`) leaves open what a call does before it fetches its
  account and what further ends a call may have, so that `Deploy`, `Invoke` and
  `Client`, whose submissions are `TxBuilder`'s, start from it and add only what
  is theirs.
  `CallsKeepThePromise` says that every step of `TxBuilder` maps to a step of
  `Outcome` or a stutter. An await that does not return stutters, and so do
  requests on the wire; `Begin` is `Begin`; a return is `Tell`, which carries the
  settlement with it if the submission failed or was abandoned and somebody
  else's equal transaction is on the ledger already; a ledger close settles, in
  one step, every call that submitted that transaction (`Decide`). What is needed
  of `TxBuilder` is the same invariant: calls are settled in order because their
  numbers follow the account's (`SubmittedInOrder`), and a refused call is not
  settled because it has submitted nothing (`SubmittedNotRefused`) and every
  entry of the ledger is somebody's submission (`OnlySubmissionsSettle`).
- `InvokeProofs`: `InvokeTypeCorrect`, `ViewsAgree`, `SubmissionsChange`. `ViewAgrees`
  speaks of a task between its calls and is not inductive: a skip is told true
  because the simulation, steps before, saw the cell as asked, and nothing
  of the task's came in between but what an earlier call had left open. `StoreInv`
  carries this through a call: a transaction of the sole writer that has succeeded
  is the last word on its cell (`WrittenInv`), until then the last call that was
  Ok or skipped is, or a transaction that was open when that call returned
  (`AgreedInv`), and what a simulation found to be a change still is one until
  the ledger has it or it is overtaken (`ChangesInv`). `overtaken` is a history
  variable that no step reads: the calls that have passed their simulation and
  whose cell somebody else's transaction, or an earlier one of their own, has
  written since. `SubmissionsChange` needs no sole writer: a transaction that
  changes nothing has no sender but those overtaken. That nothing else of the
  task's is out on the cell (`Senders`, `InHandOrOpen`, `ClosedIsPast`) and that
  what is applied belongs to a call that simulated it (`SimulatedIs`,
  `NotOvertaken`) is `OnlyWhatWasSent` and the order of sequence numbers, from
  `TxBuilderProofs`.
- `DeployProofs`: `DeployTypeCorrect`, `OkDeploys`, `InstancesAreAccounted`. A
  request is one or two calls of `prepare_and_send`, and its end says something
  of both. `Rounds` says which of the task's calls are the request's
  (`RequestInv`, `RecordInv`, `PastInv`), that the transaction in hand and the
  rounds recorded are those the step asks for (`HandInv`, `RoundInv`), that an
  upload before a create was Ok (`RoundInv`), that a create carries the name of
  its call as salt (`SaltInv`), and what an end says of the last round
  (`EndInv`), and that no round is outside a request, in progress or ended
  (`CoverInv`). An instance on the ledger was sent by the one call its salt names,
  which is why a request makes no more than one and why none is nobody's: a task
  with two contracts has asked twice, and neither request said that it was
  refused.
- `TtlProofs`: `TtlTypeCorrect`, `RestoresThenExtends`, `RetriesFindRestored`,
  `RefusalsLeaveNothingOpen`, `ExecutionsExtend`. The properties look at what a
  call has signed, and what that may be depends on its leg and step:
  `FirstSigned` has it before the retry, `RetrySigned` in it, where the restoration's
  number is under the one in hand because it is on the ledger and the retry's
  number was taken later (`LedgerInv`). `FoundInv` follows the entry: expired when
  the call first simulated, with a later live-until ledger once a restoration has
  succeeded, whoever's it was. `found` is a variable of the model that no step
  reads; it records what that simulation saw. `ExtendedInv` says that a time to
  live is never made shorter, of everything on the ledger and not only of what
  some call reports.
- `ClientProofs`: `CallsAreInvokes`, `ClientTypeCorrect`, `AnswersAreTrue`,
  `SequencesSettle`. A step of a reader stutters for the calls, and a ledger close
  is the calls' own or none, so all of `InvokeProofs` holds here. A question's
  answer was true because what is true now has been among what was true since it
  was asked, through every step (`HeldInv`), and what the node says when it
  serves it is what is true then (`ServedInv`). `SequencesSettle` needs that an
  account's sequence is never read higher than it is (`NumbersInv`): a ledger
  takes only the next number, so a transaction at or under one that was read
  cannot be what it takes.
- `UtilsProofs`: `ConversionsTypeCorrect`, `DecodersReadAll`, `EncodingsRoundTrip`,
  `PartsAreRead`, `KeysReadBack`. The proofs are arithmetic first: a number's bit
  pattern is its high half's pattern times the word plus its low half, and the
  sign goes with the high half; both are proved from parts to number and back.
  Vectors follow element by element, the hex form digit by digit. `EncodeUndoesDecode`
  has one case for each sort of decoder. The behaviour is two steps, so the inductive
  invariant only says that what was coded and answered are the operators' results,
  and that what was coded is of the types.
- `FeeProofs`: `BidIsAFee`, `BidsAtLeastTheFloor`, `RestorationBidCovers`. The
  two saturating steps of the restore fee are one clamped sum
  (`RestoreFeeIsClampedSum`).

Every type invariant, safety invariant and action property of the passing runs,
and both refinements, have a theorem.

**Only model-checked:** liveness, which is out of this prover's reach (`Returns`
and `KnownVerdictDelivered` of `Poll`, `EveryCallReturns` of `TxBuilder`,
`EveryExtensionReturns` of `Ttl`), and the four runs that show a sentence of the
repository violated.

## Not modelled

- The content of simulations, footprints, results and messages, and fees as
  part of a transaction: no property tells them apart. Whether a fee suffices
  for inclusion is the network's choice in every model.
- What a signer holds in memory and for how long: no operation reads it, and a
  model could only repeat that a value is dropped at the end of its scope.
  `ttl_signer` shows where `Client` signs twice with one signer.
- The free functions of `src/deploy.rs`, `src/invoke.rs` and `src/ttl.rs` as a
  program may call them without a `Client`: the models have `Client`'s methods,
  which build a signer and call them. The steps and errors of
  `deploy::deploy_contract` (src/deploy.rs:112-131), which `Client` does not call,
  are those of `Client::deploy_contract`, but both its transactions are signed
  with the one signer it is given, the second case of a signer used twice.
- In `Utils`: vectors of vectors, addresses other than accounts and contracts,
  and the XDR limit of 2^32 - 1 elements or bytes. In `Client`: the wording of
  errors, and a node that says of an entry that it lives without saying until
  when (the code takes it for an absent one).
- That a footprint holds the one key the caller named
  (`extend_footprint_data`): the models extend the key itself.
- `NetworkConfig`, `wasm`, `lib`: constants, one file read, re-exports.
- The programs under `tests/`, which call the library against a live network.

## Plan

In this order, the most important first:

1. `Poll` and `AwaitTx`, `Network` and `TxBuilder`, with their proofs; `Fee`
   with its proofs; `Invoke`, `Deploy`, `Ttl`. *(Done.)*
2. `Outcome` and its refinement with proof; abandoned calls everywhere; `Utils`
   with its proofs; `Client`. *(Done.)*
3. Proofs for `Ttl`, `Deploy` (by lifting `TxBuilderProofs`), `Invoke`, `Client`
   and `NothingIsCoerced` of `Utils`. *(Done.)*
4. `ViewAgrees` and `PaysForChange` with the races they are about in them, every
   instance of `Deploy` accounted for, across requests. *(Done.)*
5. What would say more: an abstract specification of `invoke_contract`, a cell
   that is set or found set, with `Invoke` shown to implement it.

One divergence has no run. src/fee.rs:28-29 says that
`recommended_inclusion_fee` "Falls back to `MIN_BASE_FEE` if the network reports
something lower or unparsable". On a report that does not parse it returns an
error (src/fee.rs:38), and it is its callers that fall back (`unwrap_or`);
`NeverUnderbids` is about the fee they bid.
