-------------------------------- MODULE Poll --------------------------------
(***************************************************************************)
(* poll_transaction_status (src/poll.rs) against a clock: one wait for     *)
(* one transaction, from the call to its return.  The node answers and the *)
(* ledger closes whenever they like within the bounds the constants name.  *)
(* Time counts from the call; it stops when the function has returned.     *)
(***************************************************************************)
EXTENDS Naturals

CONSTANTS
  Config,    \* the PollConfig values a Client may hold
  Latency,   \* longest time from issuing getTransaction to acting on its answer
  Lag,       \* longest time a sleep overshoots its wake-up time
  ClockMax   \* the last instant the platform's clock can represent

ASSUME PollAssumption ==
  /\ Config \subseteq [interval : Nat, timeout : Nat]
  /\ Latency \in Nat \ {0}
  /\ Lag \in Nat \ {0}
  /\ ClockMax \in Nat

VARIABLES
  cfg,        \* the PollConfig of this call
  now,        \* the clock
  pc,         \* where the function is
  deadline,   \* now + cfg.timeout, computed once at entry
  timer,      \* when the request was issued, or when the sleep is due
  response,   \* the status in the last answer
  result,     \* the value returned
  status,     \* the node's knowledge of the transaction
  finalAt     \* when that knowledge became final (history)

vars == <<cfg, now, pc, deadline, timer, response, result, status, finalAt>>

Abstract == INSTANCE AwaitTx

Labels == {"start", "request", "answered", "sleep", "done"}

TypeOK ==
  /\ cfg \in Config
  /\ now \in Nat
  /\ pc \in Labels
  /\ deadline \in Nat
  /\ timer \in Nat
  /\ response \in Abstract!Responses
  /\ result \in Abstract!Results
  /\ status \in Abstract!Verdicts
  /\ finalAt \in Nat

Init ==
  /\ cfg \in Config
  /\ now = 0
  /\ pc = "start"
  /\ deadline = 0
  /\ timer = 0
  /\ response = "None"
  /\ result = "None"
  /\ status = "NotFound"
  /\ finalAt = 0

-----------------------------------------------------------------------------
(* The function *)

Return(r) ==
  /\ pc' = "done"
  /\ result' = r
  /\ UNCHANGED <<cfg, now, deadline, timer, response, status, finalAt>>

(* Instant + Duration panics when the sum is not representable. *)
Enter ==
  /\ pc = "start"
  /\ IF now + cfg.timeout > ClockMax
     THEN Return("Panic")
     ELSE /\ deadline' = now + cfg.timeout
          /\ timer' = now
          /\ pc' = "request"
          /\ UNCHANGED <<cfg, now, response, result, status, finalAt>>

(* Faulty variant of RequestFails: a transport error taken for a timeout.    *)
RequestFailsAsTimeout ==
  /\ pc = "request"
  /\ Return("Timeout")

(* `?` on getTransaction: one failed call ends the wait. *)
RequestFails ==
  /\ pc = "request"
  /\ Return("Rpc")

(* Faulty variants of Sleep: the deadline computed again on every iteration; *)
(* the pause derived from the time left, which can be negative.              *)
SleepRearmed ==
  /\ timer' = now + cfg.interval
  /\ deadline' = now + cfg.timeout
  /\ pc' = "sleep"
  /\ UNCHANGED <<cfg, now, response, result, status, finalAt>>

SleepRemaining ==
  /\ timer' = deadline - now - cfg.interval
  /\ pc' = "sleep"
  /\ UNCHANGED <<cfg, now, deadline, response, result, status, finalAt>>

Sleep ==
  /\ timer' = now + cfg.interval
  /\ pc' = "sleep"
  /\ UNCHANGED <<cfg, now, deadline, response, result, status, finalAt>>

(* Faulty variants of React: the deadline checked before the answer is read; *)
(* every final status taken for success; a failed status not matched at all. *)
ReactDeadlineFirst ==
  /\ pc = "answered"
  /\ \/ now >= deadline /\ Return("Timeout")
     \/ now < deadline /\ response = "NotFound" /\ Sleep
     \/ now < deadline /\ response = "Success" /\ Return("Ok")
     \/ now < deadline /\ response = "Failed" /\ Return("TransactionFailed")

ReactAnyAnswerIsSuccess ==
  /\ pc = "answered"
  /\ \/ response = "NotFound" /\ now >= deadline /\ Return("Timeout")
     \/ response = "NotFound" /\ now < deadline /\ Sleep
     \/ response # "NotFound" /\ Return("Ok")

ReactIgnoreFailed ==
  /\ pc = "answered"
  /\ \/ response = "NotFound" /\ now >= deadline /\ Return("Timeout")
     \/ response = "NotFound" /\ now < deadline /\ Sleep
     \/ response = "Success" /\ Return("Ok")

(* The loop's condition, its deadline check, and the match after it. *)
React ==
  /\ pc = "answered"
  /\ \/ response = "NotFound" /\ now >= deadline /\ Return("Timeout")
     \/ response = "NotFound" /\ now < deadline /\ Sleep
     \/ response = "Success" /\ Return("Ok")
     \/ response = "Failed" /\ Return("TransactionFailed")

Wake ==
  /\ pc = "sleep"
  /\ now >= timer
  /\ timer' = now
  /\ pc' = "request"
  /\ UNCHANGED <<cfg, now, deadline, response, result, status, finalAt>>

-----------------------------------------------------------------------------
(* Its environment *)

(* The node evaluates the request at some instant while it is in flight. *)
Answer ==
  /\ pc = "request"
  /\ response' = status
  /\ pc' = "answered"
  /\ UNCHANGED <<cfg, now, deadline, timer, result, status, finalAt>>

Finalize ==
  /\ status = "NotFound"
  /\ status' \in {"Success", "Failed"}
  /\ finalAt' = now
  /\ UNCHANGED <<cfg, now, pc, deadline, timer, response, result>>

(* Time never runs past the latest instant at which a pending await ends. *)
Tick ==
  /\ \/ pc \in {"request", "answered"} /\ now < timer + Latency
     \/ pc = "sleep" /\ now < timer + Lag
  /\ now' = now + 1
  /\ UNCHANGED <<cfg, pc, deadline, timer, response, result, status, finalAt>>

Step == Enter \/ RequestFails \/ Answer \/ React \/ Wake

Next == Step \/ Finalize \/ Tick

Spec == Init /\ [][Next]_vars

(* The executor runs the task, every call ends within Latency, and the clock *)
(* advances.  The ledger owes the transaction nothing.                       *)
FairSpec == Spec /\ WF_vars(Step) /\ WF_vars(Tick)

-----------------------------------------------------------------------------
(* Properties *)

(* A verdict handed to the caller is the ledger's own: Ok only for a         *)
(* transaction that succeeded, TransactionFailed only for one that failed.   *)
VerdictSound ==
  /\ result = "Ok" => status = "Success"
  /\ result = "TransactionFailed" => status = "Failed"

(* Timeout is neither early nor blind: it comes once the timeout has passed, *)
(* and a transaction final more than Latency before that is never timed out. *)
TimeoutSound ==
  result = "Timeout" =>
    /\ now >= cfg.timeout
    /\ status # "NotFound" => finalAt + Latency >= cfg.timeout

(* A wait ends at most one interval (with its overshoot) and one call after  *)
(* its timeout, whatever the ledger and the node do.                         *)
ReturnsInTime == now <= cfg.timeout + cfg.interval + Lag + Latency

(* README.md:129 calls the timeout a ceiling: no wait lasts longer than the  *)
(* timeout, one overshoot and the call then in flight.  The code sleeps a    *)
(* whole interval across it.                                                 *)
Ceiling == now <= cfg.timeout + Lag + Latency

(* Every wait returns, also for a transaction the ledger never includes.     *)
Returns == <>(pc = "done")

(* A verdict that is final before the call is made is what it returns,       *)
(* whatever the PollConfig, a timeout of zero included, unless the call      *)
(* itself fails.  The panic of the deadline's sum takes the verdict's place  *)
(* only for a timeout the clock cannot represent.                            *)
KnownVerdictDelivered ==
  [](pc = "start" /\ status # "NotFound" =>
       <>(\/ result = "Rpc"
          \/ result = "Panic" /\ cfg.timeout > ClockMax
          \/ result = IF status = "Success" THEN "Ok" ELSE "TransactionFailed"))

(* Poll implements the promise of AwaitTx.                                   *)
ImplementsAwaitTx == Abstract!Spec
=============================================================================
