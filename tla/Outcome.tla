------------------------------- MODULE Outcome -------------------------------
(***************************************************************************)
(* What prepare_and_send (src/txbuilder.rs) promises the tasks that call   *)
(* it, whatever becomes of requests and transactions on the way.           *)
(*                                                                         *)
(* The ledger makes entries, each with one verdict, and an entry settles   *)
(* every call that has submitted its content: calls of several tasks, or   *)
(* one task's retries.  The calls of a task are settled in their order.  A *)
(* caller is told the verdict that settled its call, that its call has     *)
(* been refused, or nothing it can rely on.                                *)
(***************************************************************************)
EXTENDS Naturals

CONSTANT Task

VARIABLES
  n,         \* how many calls each task has begun
  open,      \* the tasks whose last call has not returned
  done,      \* the calls settled by an entry that succeeded, each with it
  failed,    \* the calls settled by an entry that failed
  told       \* what the calls that have returned told their callers

vars == <<n, open, done, failed, told>>

Classes == {"Ok", "TransactionFailed", "Unknown", "Refused"}

Init ==
  /\ n = [t \in Task |-> 0]
  /\ open = {}
  /\ done = {}
  /\ failed = {}
  /\ told = {}

Answer(t, i, class) == [task |-> t, n |-> i, class |-> class]

Begin(t) ==
  /\ t \notin open
  /\ open' = open \cup {t}
  /\ n' = [n EXCEPT ![t] = @ + 1]
  /\ UNCHANGED <<done, failed, told>>

(* A call can be settled once it has begun, if it has not been refused and   *)
(* no later call of its task has been settled before.                        *)
CanSettle(s) ==
  /\ s.n \in 1..n[s.task]
  /\ Answer(s.task, s.n, "Refused") \notin told
  /\ \A r \in done \cup failed : r.task = s.task => r.n < s.n

(* One entry of the ledger settles calls.                                    *)
Settle(before, after, others) ==
  LET new == after \ before IN
  /\ before \subseteq after
  /\ \A s \in new :
       /\ CanSettle(s)
       /\ \A r \in new : r.entry = s.entry
       /\ \A r \in others : r.entry # s.entry

Settling ==
  \/ failed' = failed /\ Settle(done, done', failed)
  \/ done' = done /\ Settle(failed, failed', done)

Decide == Settling /\ UNCHANGED <<n, open, told>>

(* The call is settled with that verdict, and its entry has been reported to *)
(* no other call of the task.                                                *)
Verdict(t, settled) ==
  \E s \in settled :
    /\ s.task = t /\ s.n = n[t]
    /\ \A r \in settled :
         r.task = t /\ r.n # s.n /\ r.entry = s.entry =>
           /\ Answer(t, r.n, "Ok") \notin told
           /\ Answer(t, r.n, "TransactionFailed") \notin told

(* The call returns.  Unknown may be the last of a call and its settlement   *)
(* at once: content that is on the ledger by another's hand, submitted again.*)
Tell(t, class) ==
  /\ t \in open
  /\ open' = open \ {t}
  /\ told' = told \cup {Answer(t, n[t], class)}
  /\ n' = n
  /\ \/ class = "Ok" /\ Verdict(t, done) /\ UNCHANGED <<done, failed>>
     \/ class = "TransactionFailed" /\ Verdict(t, failed) /\ UNCHANGED <<done, failed>>
     \/ /\ class = "Refused"
        /\ \A s \in done \cup failed : s.task = t => s.n # n[t]
        /\ UNCHANGED <<done, failed>>
     \/ /\ class = "Unknown"
        /\ Settling
        /\ \A s \in (done' \cup failed') \ (done \cup failed) : s.task = t /\ s.n = n[t]

Next ==
  \/ \E t \in Task : Begin(t)
  \/ \E t \in Task, class \in Classes : Tell(t, class)
  \/ Decide

Spec == Init /\ [][Next]_vars
=============================================================================
