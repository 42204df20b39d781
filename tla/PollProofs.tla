----------------------------- MODULE PollProofs -----------------------------
(***************************************************************************)
(* For every PollConfig and every bound on latency and overshoot, a wait   *)
(* reports the ledger's verdict, times out neither early nor blind, ends   *)
(* within its bound, and implements AwaitTx.                               *)
(***************************************************************************)
EXTENDS Poll, TLAPS

(* Where the clock can be, by the await the function is in.  The timer is    *)
(* what ties the clock to the deadline: the loop goes to sleep only before   *)
(* the deadline, so no request is issued later than one interval after it.   *)
ClockInv ==
  /\ pc = "start" => now = 0
  /\ pc # "start" /\ result # "Panic" => deadline = cfg.timeout
  /\ pc \in {"request", "answered"} =>
       /\ timer <= now
       /\ now <= timer + Latency
       /\ timer <= cfg.timeout + cfg.interval + Lag
  /\ pc = "sleep" =>
       /\ timer < cfg.timeout + cfg.interval
       /\ now <= timer + Lag

(* What the last answer says about the ledger.  A NotFound answer is at most *)
(* as old as the request that is still in hand.                              *)
AnswerInv ==
  /\ finalAt <= now
  /\ pc = "done" <=> result # "None"
  /\ pc = "start" => response = "None"
  /\ pc = "request" => response \in {"None", "NotFound"}
  /\ pc = "sleep" => response = "NotFound"
  /\ pc = "answered" =>
       /\ response # "None"
       /\ response # "NotFound" => status = response
       /\ response = "NotFound" /\ status # "NotFound" => finalAt >= timer

PollInv ==
  /\ TypeOK
  /\ ClockInv
  /\ AnswerInv
  /\ VerdictSound
  /\ TimeoutSound
  /\ ReturnsInTime

USE DEF Labels, Abstract!Responses, Abstract!Results, Abstract!Verdicts

LEMMA PollInit == Init => PollInv
  BY PollAssumption
  DEF Init, PollInv, TypeOK, ClockInv, AnswerInv, VerdictSound, TimeoutSound,
      ReturnsInTime

LEMMA PollStep == PollInv /\ [Next]_vars => PollInv'
  <1> SUFFICES ASSUME PollInv, [Next]_vars
               PROVE  PollInv'
    OBVIOUS
  <1> USE PollAssumption DEF PollInv
  <1>0. cfg.interval \in Nat /\ cfg.timeout \in Nat
    BY DEF TypeOK
  <1>1. CASE Enter
    BY <1>0, <1>1 DEF Enter, Return, TypeOK, ClockInv, AnswerInv, VerdictSound,
       TimeoutSound, ReturnsInTime
  <1>2. CASE RequestFails
    BY <1>0, <1>2 DEF RequestFails, Return, TypeOK, ClockInv, AnswerInv,
       VerdictSound, TimeoutSound, ReturnsInTime
  <1>3. CASE Answer
    BY <1>0, <1>3 DEF Answer, TypeOK, ClockInv, AnswerInv, VerdictSound,
       TimeoutSound, ReturnsInTime
  <1>4. CASE React
    <2>1. CASE response = "NotFound" /\ now >= deadline /\ Return("Timeout")
      BY <1>0, <1>4, <2>1 DEF React, Return, TypeOK, ClockInv, AnswerInv,
         VerdictSound, TimeoutSound, ReturnsInTime
    <2>2. CASE response = "NotFound" /\ now < deadline /\ Sleep
      BY <1>0, <1>4, <2>2 DEF React, Sleep, TypeOK, ClockInv, AnswerInv,
         VerdictSound, TimeoutSound, ReturnsInTime
    <2>3. CASE response = "Success" /\ Return("Ok")
      BY <1>0, <1>4, <2>3 DEF React, Return, TypeOK, ClockInv, AnswerInv,
         VerdictSound, TimeoutSound, ReturnsInTime
    <2>4. CASE response = "Failed" /\ Return("TransactionFailed")
      BY <1>0, <1>4, <2>4 DEF React, Return, TypeOK, ClockInv, AnswerInv,
         VerdictSound, TimeoutSound, ReturnsInTime
    <2>5. QED
      BY <1>4, <2>1, <2>2, <2>3, <2>4 DEF React
  <1>5. CASE Wake
    BY <1>0, <1>5 DEF Wake, TypeOK, ClockInv, AnswerInv, VerdictSound,
       TimeoutSound, ReturnsInTime
  <1>6. CASE Finalize
    BY <1>0, <1>6 DEF Finalize, TypeOK, ClockInv, AnswerInv, VerdictSound,
       TimeoutSound, ReturnsInTime
  <1>7. CASE Tick
    BY <1>0, <1>7 DEF Tick, TypeOK, ClockInv, AnswerInv, VerdictSound,
       TimeoutSound, ReturnsInTime
  <1>8. CASE UNCHANGED vars
    BY <1>8 DEF vars, TypeOK, ClockInv, AnswerInv, VerdictSound, TimeoutSound,
       ReturnsInTime
  <1>9. QED
    BY <1>1, <1>2, <1>3, <1>4, <1>5, <1>6, <1>7, <1>8 DEF Next, Step

LEMMA PollInvariant == Spec => []PollInv
  BY PollInit, PollStep, PTL DEF Spec

(* Type correctness of the wait, for every configuration.                    *)
THEOREM TypeCorrect == Spec => []TypeOK
  BY PollInvariant, PTL DEF PollInv

(* A wait that returns Ok or TransactionFailed reports what the ledger says. *)
THEOREM VerdictIsLedgers == Spec => []VerdictSound
  BY PollInvariant, PTL DEF PollInv

(* No wait times out before its timeout, nor on a transaction that was final *)
(* more than one call's latency before it.                                   *)
THEOREM TimeoutIsJustified == Spec => []TimeoutSound
  BY PollInvariant, PTL DEF PollInv

(* No wait outlasts timeout + interval + overshoot + latency.                *)
THEOREM WaitIsBounded == Spec => []ReturnsInTime
  BY PollInvariant, PTL DEF PollInv

-----------------------------------------------------------------------------

LEMMA AbstractInit == Init => Abstract!Init
  BY DEF Init, Abstract!Init

LEMMA AbstractStep == PollInv /\ [Next]_vars => [Abstract!Next]_(Abstract!vars)
  <1> SUFFICES ASSUME PollInv, [Next]_vars
               PROVE  [Abstract!Next]_(Abstract!vars)
    OBVIOUS
  <1> USE DEF Abstract!Next, Abstract!vars
  <1>1. CASE Enter
    BY <1>1 DEF PollInv, AnswerInv, Enter, Return, Abstract!GiveUp
  <1>2. CASE RequestFails
    BY <1>2 DEF PollInv, AnswerInv, RequestFails, Return, Abstract!GiveUp
  <1>3. CASE Answer
    BY <1>3 DEF PollInv, AnswerInv, Answer, Abstract!Ask
  <1>4. CASE React
    BY <1>4 DEF PollInv, AnswerInv, React, Return, Sleep, Abstract!GiveUp,
       Abstract!Deliver
  <1>5. CASE Wake
    BY <1>5 DEF Wake
  <1>6. CASE Finalize
    BY <1>6 DEF Finalize, Abstract!Finalize
  <1>7. CASE Tick
    BY <1>7 DEF Tick
  <1>8. CASE UNCHANGED vars
    BY <1>8 DEF vars
  <1>9. QED
    BY <1>1, <1>2, <1>3, <1>4, <1>5, <1>6, <1>7, <1>8 DEF Next, Step

(* The timed loop implements the abstract wait: every step of it is a step   *)
(* of AwaitTx or leaves status, answer and result alone.                     *)
THEOREM PollImplementsAwaitTx == Spec => ImplementsAwaitTx
  BY AbstractInit, AbstractStep, PollInvariant, PTL
  DEF Spec, Abstract!Spec, ImplementsAwaitTx
=============================================================================
