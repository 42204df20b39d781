---------------------------- MODULE DeployProofs ----------------------------
(***************************************************************************)
(* For every number of tasks, whatever they ask for and however their      *)
(* rounds end: an Ok is on the ledger, and every contract on the ledger is *)
(* accounted for by the one request that may have made it.                 *)
(***************************************************************************)
EXTENDS Deploy, TxBuilderProofs, FiniteSetTheorems

UploadOf(t) == [kind |-> "upload", wasm |-> request[t].wasm]

CreateOf(t, i) == [kind |-> "create", wasm |-> request[t].wasm, salt |-> <<t, i>>]

(* Which round a step of a request is, counted from its first.               *)
RequestInv ==
  \A t \in Task :
    /\ pc[t] # "idle" => step[t] \in {"uploading", "creating"}
    /\ step[t] # "none" =>
         LET first == request[t].first IN
         /\ request[t] \in Requests
         /\ step[t] \in {"upload", "uploading"} => request[t].what # "create"
         /\ step[t] \in {"create", "creating"} => request[t].what # "upload"
         /\ step[t] = "upload" => n[t] + 1 = first
         /\ step[t] = "uploading" => n[t] = first
         /\ step[t] = "create" =>
              IF request[t].what = "deploy" THEN n[t] = first ELSE n[t] + 1 = first
         /\ step[t] = "creating" =>
              IF request[t].what = "deploy" THEN n[t] = first + 1 ELSE n[t] = first

(* The transaction in hand is the one the step is for.                       *)
HandInv ==
  \A t \in Task : pc[t] # "idle" =>
    tx[t].op = IF step[t] = "uploading" THEN UploadOf(t) ELSE CreateOf(t, n[t])

(* The rounds of the request in progress: the one that has just returned is  *)
(* of the kind the step says, and one before it is an upload that was Ok.    *)
RoundInv ==
  \A c \in calls :
    LET t == c.task IN
    step[t] # "none" /\ c.n >= request[t].first =>
      /\ c.tx.op.wasm = request[t].wasm
      /\ c.n = n[t] /\ step[t] # "create" =>
           c.tx.op.kind = IF step[t] = "uploading" THEN "upload" ELSE "create"
      /\ c.n < n[t] \/ step[t] = "create" => c.kind = "Ok" /\ c.tx.op.kind = "upload"

(* There is a call for each of those rounds.                                 *)
RecordInv ==
  \A t \in Task :
    /\ pc[t] = "idle" /\ step[t] \in {"uploading", "creating"} =>
         \E c \in calls : c.task = t /\ c.n = n[t]
    /\ step[t] \in {"create", "creating"} /\ request[t].what = "deploy" =>
         \E c \in calls : c.task = t /\ c.n = request[t].first

(* A contract is named by the call that makes it.                            *)
SaltInv ==
  \A c \in calls :
    c.tx.op.kind = "create" => c.tx.op.salt[1] = c.task /\ c.tx.op.salt[2] = c.n

(* A request that has ended is past: the task's later calls are another's.   *)
PastInv ==
  \A o \in outcomes :
    /\ o.last <= n[o.task]
    /\ step[o.task] # "none" => o.last < request[o.task].first

(* How a request has ended is how its last round has, but for the return     *)
(* value; the rounds before were uploads that were Ok.                       *)
EndInv ==
  \A o \in outcomes :
    /\ o.step \notin {"uploading", "creating"} =>
         o.end \notin {"Ok", "MissingReturnValue"}
    /\ \A c \in RoundsOf(o) :
         /\ c.tx.op.wasm = o.request.wasm
         /\ c.tx.op.kind = "create" => c.n = o.last /\ o.step = "creating"
         /\ c.n < o.last => c.kind = "Ok"
         /\ c.n = o.last /\ o.step \in {"uploading", "creating"} =>
              \/ o.end = c.kind
              \/ c.kind = "Ok" /\ o.end \in {"MissingReturnValue", "Xdr"}
    /\ o.end = "Ok" /\ o.request.what = "deploy" =>
         \E c, d \in RoundsOf(o) :
           /\ c.n < d.n /\ d.n = o.last
           /\ c.tx.op.kind = "upload" /\ d.tx.op.kind = "create"

(* Every round is of the request in progress or of one that has ended.       *)
Covered(c) ==
  \/ step[c.task] # "none" /\ c.n >= request[c.task].first
  \/ \E o \in outcomes : o.task = c.task /\ o.request.first <= c.n /\ c.n <= o.last

CoverInv == \A c \in calls : Covered(c)

RequestTypes ==
  /\ pc \in [Task -> BuilderLabels \cup {"fee"}]
  /\ \A c \in calls : c.kind \in Kinds
  /\ step \in [Task -> Steps]
  /\ request \in [Task -> Requests \cup {NoRequest}]
  /\ outcomes \subseteq Outcome

Rounds ==
  /\ RequestTypes
  /\ RequestInv /\ HandInv /\ RoundInv /\ RecordInv /\ SaltInv
  /\ PastInv /\ EndInv /\ CoverInv

DeployInv == IndInv /\ Rounds

USE DEF Landed, Unknown, Kinds, BuilderLabels, Built, Early, AnyLabel, AnyKind, Steps, Ends

-----------------------------------------------------------------------------
(* The rounds *)

LEMMA CallTypes ==
  ASSUME IndInv
  PROVE  \A c \in calls : /\ c.task \in Task /\ c.n \in Nat \ {0}
                          /\ c.n <= n[c.task] /\ n[c.task] \in Nat
                          /\ pc[c.task] # "idle" => c.n < n[c.task]
  BY DEF IndInv, Inv, Typed, Recorded, CallInv

LEMMA OutcomeTypes ==
  ASSUME outcomes \subseteq Outcome
  PROVE  \A o \in outcomes :
           /\ o.task \in Task /\ o.last \in Nat
           /\ o.request \in Requests /\ o.request.first \in Nat \ {0}
  BY DEF Outcome, Requests

LEMMA DeployStarts == DeployInit => DeployInv
  <1> SUFFICES ASSUME DeployInit
               PROVE  DeployInv
    OBVIOUS
  <1>1. IndInv
    BY IndInit DEF DeployInit
  <1>2. Rounds
    BY DEF DeployInit, Init, TaskInit, Rounds, RequestTypes, RequestInv, HandInv,
       RoundInv, RecordInv, SaltInv, PastInv, EndInv, CoverInv
  <1>3. QED
    BY <1>1, <1>2 DEF DeployInv

(* A call that goes on keeps its number, its operation and the history.      *)
LEMMA GoOnStep ==
  ASSUME Rounds, IndInv, NEW t \in Task,
         NEW label \in BuilderLabels \cup {"fee"}, Goto(t, label),
         pc[t] # "idle", label # "idle", n' = n, calls' = calls,
         \A u \in Task \ {t} : tx'[u] = tx[u], tx'[t].op = tx[t].op,
         UNCHANGED requestVars
  PROVE  Rounds'
  <1> USE DEF Rounds, requestVars
  <1>1. pc' = [pc EXCEPT ![t] = label] /\ UNCHANGED <<step, request, outcomes>>
    BY DEF Goto
  <1>2. RequestTypes'
    BY <1>1 DEF RequestTypes
  <1>3. \A u \in Task : /\ pc'[u] = "idle" <=> pc[u] = "idle"
                        /\ tx'[u].op = tx[u].op
    BY <1>1 DEF RequestTypes
  <1>4. RequestInv' /\ HandInv'
    BY <1>1, <1>3 DEF RequestInv, HandInv, UploadOf, CreateOf
  <1>5. RoundInv' /\ RecordInv' /\ SaltInv' /\ PastInv'
    BY <1>1, <1>3 DEF RoundInv, RecordInv, SaltInv, PastInv
  <1>6. EndInv' /\ CoverInv'
    BY <1>1 DEF EndInv, RoundsOf, CoverInv, Covered
  <1>7. QED
    BY <1>2, <1>4, <1>5, <1>6

(* A round that returns is the last of its request so far.                   *)
LEMMA RoundReturns ==
  ASSUME Rounds, IndInv, NEW t \in Task, NEW kind \in Kinds, Return(t, kind),
         pc[t] # "idle", UNCHANGED requestVars
  PROVE  Rounds'
  <1> DEFINE r == [task |-> t, n |-> n[t], kind |-> kind, tx |-> tx[t]]
  <1> USE DEF Rounds, requestVars
  <1>1. /\ pc' = [pc EXCEPT ![t] = "idle"] /\ calls' = calls \cup {r}
        /\ UNCHANGED <<n, tx, step, request, outcomes>>
    BY DEF Return, Goto
  <1>2. r.task = t /\ r.n = n[t] /\ r.kind = kind /\ r.tx = tx[t]
    OBVIOUS
  <1> HIDE DEF r
  <1>3. \A c \in calls : /\ c.task \in Task /\ c.n \in Nat
                         /\ c.task = t => c.n < n[t]
    BY CallTypes
  <1>4. RequestTypes'
    BY <1>1, <1>2 DEF RequestTypes
  <1>5. /\ step[t] \in {"uploading", "creating"} /\ request[t] \in Requests
        /\ n[t] >= request[t].first /\ n[t] \in Nat /\ request[t].first \in Nat
        /\ tx[t].op = IF step[t] = "uploading" THEN UploadOf(t) ELSE CreateOf(t, n[t])
    BY DEF RequestInv, HandInv, IndInv, Inv, Typed, Requests
  <1>6. /\ tx[t].op.wasm = request[t].wasm
        /\ tx[t].op.kind = IF step[t] = "uploading" THEN "upload" ELSE "create"
        /\ tx[t].op.kind = "create" => tx[t].op.salt[1] = t /\ tx[t].op.salt[2] = n[t]
    BY <1>5 DEF UploadOf, CreateOf
  <1>7. RequestInv' /\ HandInv'
    BY <1>1 DEF RequestInv, HandInv, UploadOf, CreateOf, RequestTypes
  <1>8. RoundInv'
    <2>1. ASSUME NEW c \in calls
          PROVE  LET u == c.task IN
                 step[u] # "none" /\ c.n >= request[u].first =>
                   /\ c.tx.op.wasm = request[u].wasm
                   /\ c.n = n[u] /\ step[u] # "create" =>
                        c.tx.op.kind = IF step[u] = "uploading" THEN "upload" ELSE "create"
                   /\ c.n < n[u] \/ step[u] = "create" =>
                        c.kind = "Ok" /\ c.tx.op.kind = "upload"
      BY DEF RoundInv
    <2>2. r.n = n[t] /\ ~ (n[t] < n[t]) /\ step[t] # "create"
      BY <1>2, <1>5
    <2>3. QED
      BY <1>1, <1>2, <1>6, <2>1, <2>2 DEF RoundInv
  <1>9. RecordInv'
    BY <1>1, <1>2 DEF RecordInv, RequestTypes
  <1>10. SaltInv'
    BY <1>1, <1>2, <1>6 DEF SaltInv
  <1>11. PastInv'
    BY <1>1 DEF PastInv
  <1>12. EndInv'
    <2>1. ASSUME NEW o \in outcomes
          PROVE  RoundsOf(o)' = RoundsOf(o)
      <3>1. o.task = t => o.last < n[t]
        BY <1>5, OutcomeTypes DEF PastInv, RequestTypes
      <3>2. ~ (r.task = o.task /\ o.request.first <= r.n /\ r.n <= o.last)
        BY <1>2, <1>5, <3>1, OutcomeTypes DEF RequestTypes
      <3>3. QED
        BY <1>1, <3>2 DEF RoundsOf
    <2>2. QED
      BY <1>1, <2>1 DEF EndInv
  <1>13. CoverInv'
    BY <1>1, <1>2, <1>5 DEF CoverInv, Covered
  <1>14. QED
    BY <1>4, <1>7, <1>8, <1>9, <1>10, <1>11, <1>12, <1>13

-----------------------------------------------------------------------------
(* The requests *)

LEMMA AskStep ==
  ASSUME Rounds, IndInv, NEW t \in Task, NEW what \in Request, NEW w \in Wasm,
         Ask(t, what, w)
  PROVE  Rounds'
  <1> USE DEF Rounds
  <1>1. /\ UNCHANGED <<pc, n, tx, calls, outcomes>> /\ step[t] = "none"
        /\ step' = [step EXCEPT ![t] = IF what = "create" THEN "create" ELSE "upload"]
        /\ request' = [request EXCEPT ![t] =
                         [what |-> what, wasm |-> w, first |-> n[t] + 1]]
    BY DEF Ask, vars, taskVars
  <1>2. n[t] \in Nat /\ what \in {"upload", "create", "deploy"}
    BY DeployAssumption DEF IndInv, Inv, Typed
  <1>3. /\ request'[t] \in Requests /\ request'[t].first = n[t] + 1
        /\ request'[t].what = what
    BY <1>1, <1>2 DEF RequestTypes, Requests
  <1>4. RequestTypes'
    BY <1>1, <1>2, <1>3 DEF RequestTypes
  <1>5. pc[t] = "idle"
    BY <1>1 DEF RequestInv
  <1>6. RequestInv'
    BY <1>1, <1>2, <1>3, <1>5 DEF RequestInv, RequestTypes
  <1>7. HandInv'
    BY <1>1, <1>5 DEF HandInv, UploadOf, CreateOf, RequestTypes
  <1>8. \A c \in calls : c.task = t => ~ (c.n >= n[t] + 1)
    BY <1>2, CallTypes
  <1>9. RoundInv'
    BY <1>1, <1>3, <1>8, CallTypes DEF RoundInv, RequestTypes
  <1>10. RecordInv'
    BY <1>1, <1>2, <1>3 DEF RecordInv, RequestTypes
  <1>11. SaltInv'
    BY <1>1 DEF SaltInv
  <1>12. PastInv'
    BY <1>1, <1>2, <1>3, OutcomeTypes DEF PastInv, RequestTypes
  <1>13. EndInv'
    BY <1>1 DEF EndInv, RoundsOf
  <1>14. CoverInv'
    <2>1. \A c \in calls : c.task \in Task
      BY CallTypes
    <2>2. \A u \in Task : u # t => step'[u] = step[u] /\ request'[u] = request[u]
      BY <1>1 DEF RequestTypes
    <2>3. QED
      BY <1>1, <2>1, <2>2 DEF CoverInv, Covered
  <1>15. QED
    BY <1>4, <1>6, <1>7, <1>9, <1>10, <1>11, <1>12, <1>13, <1>14

(* The next round, the request's first or the create of a deploy_contract.   *)
LEMMA StartRound ==
  ASSUME Rounds, IndInv, NEW t \in Task, NEW o,
         NEW going \in {"uploading", "creating"}, Begin(t, o, "fee"),
         step' = [step EXCEPT ![t] = going], UNCHANGED <<request, outcomes>>,
         IF going = "uploading"
         THEN step[t] = "upload" /\ o = UploadOf(t)
         ELSE step[t] = "create" /\ o = CreateOf(t, n[t] + 1)
  PROVE  Rounds'
  <1> USE DEF Rounds
  <1>1. /\ pc' = [pc EXCEPT ![t] = "fee"] /\ calls' = calls
        /\ n' = [n EXCEPT ![t] = @ + 1]
        /\ tx' = [tx EXCEPT ![t] = [source |-> Source[t], seq |-> 0, op |-> o]]
    BY DEF Begin, Goto
  <1>2. /\ n[t] \in Nat /\ n'[t] = n[t] + 1 /\ tx'[t].op = o
        /\ request[t] \in Requests /\ request[t].first \in Nat \ {0}
    BY <1>1 DEF IndInv, Inv, Typed, RequestInv, Requests
  <1>3. \A u \in Task \ {t} : /\ pc'[u] = pc[u] /\ n'[u] = n[u] /\ tx'[u] = tx[u]
                              /\ step'[u] = step[u]
    BY <1>1 DEF RequestTypes, IndInv, Inv, Typed
  <1>4. RequestTypes'
    BY <1>1 DEF RequestTypes
  <1>5. RequestInv'
    BY <1>1, <1>2, <1>3 DEF RequestInv, RequestTypes
  <1>6. HandInv'
    BY <1>1, <1>2, <1>3 DEF HandInv, UploadOf, CreateOf, RequestTypes
  <1>7. RoundInv'
    <2>1. ASSUME NEW c \in calls, c.task = t, c.n >= request[t].first
          PROVE  /\ c.tx.op.wasm = request[t].wasm
                 /\ c.n < n[t] + 1 /\ c.n # n[t] + 1
                 /\ c.kind = "Ok" /\ c.tx.op.kind = "upload"
      <3>1. c.n \in Nat /\ c.n <= n[t]
        BY <2>1, CallTypes
      <3>2. step[t] = "create"
        BY <1>2, <2>1, <3>1 DEF RequestInv
      <3>3. QED
        BY <1>2, <2>1, <3>1, <3>2 DEF RoundInv
    <2>2. ASSUME NEW c \in calls, c.task # t
          PROVE  /\ c.task \in Task \ {t}
                 /\ step'[c.task] = step[c.task] /\ n'[c.task] = n[c.task]
      BY <1>3, <2>2, CallTypes
    <2>3. QED
      BY <1>1, <1>2, <2>1, <2>2 DEF RoundInv, RequestTypes
  <1>8. RecordInv'
    BY <1>1, <1>2, <1>3 DEF RecordInv, RequestTypes
  <1>9. SaltInv'
    BY <1>1 DEF SaltInv
  <1>10. PastInv'
    BY <1>1, <1>2, <1>3, OutcomeTypes DEF PastInv, RequestTypes
  <1>11. EndInv'
    BY <1>1 DEF EndInv, RoundsOf
  <1>12. CoverInv'
    <2>1. \A c \in calls : c.task \in Task
      BY CallTypes
    <2>2. \A u \in Task : step[u] # "none" => step'[u] # "none"
      BY <1>1 DEF RequestTypes
    <2>3. QED
      BY <1>1, <2>1, <2>2 DEF CoverInv, Covered
  <1>13. QED
    BY <1>4, <1>5, <1>6, <1>7, <1>8, <1>9, <1>10, <1>11, <1>12

(* deploy_contract goes on to its create once its upload is Ok.              *)
LEMMA UploadedStep ==
  ASSUME Rounds, IndInv, NEW t \in Task, step[t] = "uploading", pc[t] = "idle",
         Returned(t) = "Ok", request[t].what = "deploy",
         step' = [step EXCEPT ![t] = "create"], UNCHANGED <<vars, request, outcomes>>
  PROVE  Rounds'
  <1> USE DEF Rounds
  <1>1. UNCHANGED <<pc, n, tx, calls>>
    BY DEF vars, taskVars
  <1>2. /\ n[t] = request[t].first /\ n[t] \in Nat
        /\ \E c \in calls : c.task = t /\ c.n = n[t]
    BY DEF RequestInv, RecordInv, IndInv, Inv, Typed
  <1>3. RequestTypes' /\ RequestInv' /\ HandInv' /\ SaltInv' /\ PastInv' /\ EndInv'
    BY <1>1, <1>2 DEF RequestTypes, RequestInv, HandInv, UploadOf, CreateOf, SaltInv,
       PastInv, EndInv, RoundsOf
  <1>4. RoundInv'
    <2>1. ASSUME NEW c \in calls, c.task = t, c.n >= request[t].first
          PROVE  c.n = n[t] /\ c.kind = "Ok" /\ c.tx.op.kind = "upload"
      <3>1. c.n = n[t]
        BY <1>2, <2>1, CallTypes
      <3>2. \A d \in calls : d.task = t /\ d.n = n[t] => d = c
        BY <2>1, <3>1 DEF IndInv, Inv, OnceInv
      <3>3. Returned(t) = c.kind
        BY <2>1, <3>1, <3>2 DEF Returned
      <3>4. QED
        BY <2>1, <3>1, <3>3 DEF RoundInv
    <2>2. \A c \in calls : c.task # t => step'[c.task] = step[c.task]
      BY CallTypes DEF RequestTypes
    <2>3. QED
      BY <1>1, <2>1, <2>2 DEF RoundInv, RequestTypes
  <1>5. RecordInv'
    BY <1>1, <1>2 DEF RecordInv, RequestTypes
  <1>6. CoverInv'
    <2>1. \A c \in calls : c.task \in Task
      BY CallTypes
    <2>2. \A u \in Task : step[u] # "none" => step'[u] # "none"
      BY DEF RequestTypes
    <2>3. QED
      BY <1>1, <2>1, <2>2 DEF CoverInv, Covered
  <1>7. QED
    BY <1>3, <1>4, <1>5, <1>6

(* A request ends, in a round that is given up or between two rounds: in its *)
(* record the rounds are what the request has seen of them.                  *)
LEMMA FinishStep ==
  ASSUME Rounds, IndInv, NEW t \in Task, NEW end \in Ends, Finish(t, end),
         step[t] # "none", UNCHANGED <<n, tx>>,
         \/ pc[t] = "idle" /\ UNCHANGED <<pc, calls>>
         \/ pc[t] # "idle" /\ Return(t, end) /\ end \in Kinds,
         step[t] \notin {"uploading", "creating"} =>
           end \notin {"Ok", "MissingReturnValue"},
         \A c \in calls :
           c.task = t /\ c.n = n[t] /\ step[t] \in {"uploading", "creating"} =>
             \/ end = c.kind
             \/ c.kind = "Ok" /\ end \in {"MissingReturnValue", "Xdr"},
         end = "Ok" => /\ pc[t] = "idle"
                       /\ request[t].what = "deploy" => step[t] = "creating"
  PROVE  Rounds'
  <1> DEFINE r == [task |-> t, n |-> n[t], kind |-> end, tx |-> tx[t]]
             o == [task |-> t, request |-> request[t], step |-> step[t],
                   last |-> n[t], end |-> end]
  <1> USE DEF Rounds
  <1>1. /\ pc' = [pc EXCEPT ![t] = "idle"]
        /\ step' = [step EXCEPT ![t] = "none"]
        /\ request' = request /\ n' = n /\ tx' = tx
        /\ calls \subseteq calls' /\ calls' \subseteq calls \cup {r}
        /\ r \in calls' \ calls => pc[t] # "idle" /\ end \in Kinds
        /\ outcomes \subseteq outcomes' /\ outcomes' \subseteq outcomes \cup {o}
        /\ o \in outcomes' \ outcomes => request[t].first <= n[t]
        /\ request[t].first <= n[t] => o \in outcomes'
    <2>1. pc' = [pc EXCEPT ![t] = "idle"]
      BY DEF Return, Goto, RequestTypes
    <2>2. /\ calls \subseteq calls' /\ calls' \subseteq calls \cup {r}
          /\ r \in calls' \ calls => pc[t] # "idle" /\ end \in Kinds
      BY DEF Return
    <2>3. outcomes' = outcomes \cup {p \in {o} : p.request.first <= p.last}
      BY DEF Finish
    <2>4. o.request.first = request[t].first /\ o.last = n[t]
      OBVIOUS
    <2> HIDE DEF o
    <2>5. /\ outcomes \subseteq outcomes' /\ outcomes' \subseteq outcomes \cup {o}
          /\ o \in outcomes' \ outcomes => request[t].first <= n[t]
          /\ request[t].first <= n[t] => o \in outcomes'
      BY <2>3, <2>4
    <2>6. QED
      BY <2>1, <2>2, <2>5 DEF Finish
  <1>2. /\ r.task = t /\ r.n = n[t] /\ r.kind = end /\ r.tx = tx[t]
        /\ o.task = t /\ o.request = request[t] /\ o.step = step[t]
        /\ o.last = n[t] /\ o.end = end
    OBVIOUS
  <1>3. /\ request[t] \in Requests /\ n[t] \in Nat
        /\ request[t].first \in Nat \ {0}
    BY DEF RequestInv, Requests, IndInv, Inv, Typed
  <1>4. o \in Outcome
    BY <1>3 DEF Outcome, RequestTypes
  <1> HIDE DEF r, o
  <1>5. RequestTypes'
    BY <1>1, <1>2, <1>4 DEF RequestTypes
  <1>6. RequestInv'
    BY <1>1 DEF RequestInv, RequestTypes
  <1>7. HandInv'
    BY <1>1 DEF HandInv, UploadOf, CreateOf, RequestTypes
  <1>8. pc[t] # "idle" =>
          /\ step[t] \in {"uploading", "creating"} /\ n[t] >= request[t].first
          /\ tx[t].op.wasm = request[t].wasm
          /\ tx[t].op.kind = IF step[t] = "uploading" THEN "upload" ELSE "create"
          /\ tx[t].op.kind = "create" => tx[t].op.salt[1] = t /\ tx[t].op.salt[2] = n[t]
    <2>1. pc[t] # "idle" =>
            /\ step[t] \in {"uploading", "creating"} /\ n[t] >= request[t].first
            /\ tx[t].op = IF step[t] = "uploading" THEN UploadOf(t) ELSE CreateOf(t, n[t])
      BY <1>3 DEF RequestInv, HandInv
    <2>2. QED
      BY <2>1 DEF UploadOf, CreateOf
  <1>9. \A c \in calls' : c.task \in Task /\ c.n \in Nat /\ c.n <= n[c.task]
    BY <1>1, <1>2, <1>3, CallTypes
  <1>10. RoundInv'
    <2>1. \A u \in Task \ {t} : step'[u] = step[u]
      BY <1>1 DEF RequestTypes
    <2>2. \A c \in calls' : c.task # t => c \in calls
      BY <1>1, <1>2
    <2>3. step'[t] = "none"
      BY <1>1 DEF RequestTypes
    <2>4. QED
      BY <1>1, <1>9, <2>1, <2>2, <2>3 DEF RoundInv
  <1>11. RecordInv'
    BY <1>1 DEF RecordInv, RequestTypes
  <1>12. SaltInv'
    BY <1>1, <1>2, <1>8 DEF SaltInv
  <1>13. PastInv'
    BY <1>1, <1>2, <1>3, OutcomeTypes DEF PastInv, RequestTypes
  <1>14. ASSUME NEW c \in calls', c.task = t, request[t].first <= c.n
         PROVE  /\ c.tx.op.wasm = request[t].wasm
                /\ c.tx.op.kind = "create" => c.n = n[t] /\ step[t] = "creating"
                /\ c.n < n[t] => c.kind = "Ok" /\ c.tx.op.kind = "upload"
                /\ c.n = n[t] /\ step[t] \in {"uploading", "creating"} =>
                     /\ c.tx.op.kind = IF step[t] = "uploading" THEN "upload" ELSE "create"
                     /\ \/ end = c.kind
                        \/ c.kind = "Ok" /\ end \in {"MissingReturnValue", "Xdr"}
    <2>1. CASE c \in calls
      <3>1. c.n \in Nat /\ c.n <= n[t]
        BY <1>9, <1>14
      <3>2. step[t] = "upload" => ~ (c.n >= request[t].first)
        BY <1>3, <3>1 DEF RequestInv
      <3>3. step[t] \in {"uploading", "create", "creating"}
        BY <1>3, <1>14, <3>1, <3>2 DEF RequestTypes
      <3>4. QED
        BY <1>3, <1>14, <2>1, <3>1, <3>3 DEF RoundInv
    <2>2. CASE c = r /\ r \notin calls
      <3>1. /\ c.n = n[t] /\ c.kind = end /\ c.tx = tx[t] /\ ~ (n[t] < n[t])
            /\ pc[t] # "idle"
        BY <1>1, <1>2, <1>3, <2>2
      <3>2. QED
        BY <1>8, <3>1
    <2>3. QED
      BY <1>1, <2>1, <2>2
  <1>15. EndInv'
    <2>1. ASSUME NEW p \in outcomes
          PROVE  RoundsOf(p)' = RoundsOf(p)
      <3>1. p.task = t => p.last < request[t].first
        BY DEF PastInv
      <3>2. r \in calls' \ calls =>
              ~ (r.task = p.task /\ p.request.first <= r.n /\ r.n <= p.last)
        BY <1>1, <1>2, <1>3, <1>8, <3>1, OutcomeTypes DEF RequestTypes
      <3>3. QED
        BY <1>1, <3>2 DEF RoundsOf
    <2>2. ASSUME NEW q, q = o
          PROVE  /\ \A c \in RoundsOf(q)' : /\ c \in calls' /\ c.task = t
                                            /\ request[t].first <= c.n /\ c.n <= n[t]
                 /\ \A c \in calls' : c.task = t /\ request[t].first <= c.n
                      => c \in RoundsOf(q)'
      BY <1>2, <1>9, <2>2 DEF RoundsOf
    <2>3. ASSUME NEW q, q = o, end = "Ok", request[t].what = "deploy"
          PROVE  \E c, d \in RoundsOf(q)' :
                   /\ c.n < d.n /\ d.n = q.last
                   /\ c.tx.op.kind = "upload" /\ d.tx.op.kind = "create"
      <3>1. /\ step[t] = "creating" /\ n[t] = request[t].first + 1 /\ pc[t] = "idle"
        BY <2>3 DEF RequestInv
      <3>2. PICK d \in calls : d.task = t /\ d.n = n[t]
        BY <3>1 DEF RecordInv
      <3>3. PICK c \in calls : c.task = t /\ c.n = request[t].first
        BY <2>3, <3>1 DEF RecordInv
      <3>4. c \in RoundsOf(q)' /\ d \in RoundsOf(q)' /\ c.n < d.n
        BY <1>1, <1>3, <2>2, <2>3, <3>1, <3>2, <3>3
      <3>5. c.tx.op.kind = "upload" /\ d.tx.op.kind = "create"
        BY <1>1, <1>3, <1>14, <3>1, <3>2, <3>3
      <3>6. QED
        BY <1>2, <2>3, <3>2, <3>4, <3>5
    <2>4. ASSUME NEW q, q = o
          PROVE  /\ q.step \notin {"uploading", "creating"} =>
                      q.end \notin {"Ok", "MissingReturnValue"}
                 /\ \A c \in RoundsOf(q)' :
                      /\ c.tx.op.wasm = q.request.wasm
                      /\ c.tx.op.kind = "create" => c.n = q.last /\ q.step = "creating"
                      /\ c.n < q.last => c.kind = "Ok"
                      /\ c.n = q.last /\ q.step \in {"uploading", "creating"} =>
                           \/ q.end = c.kind
                           \/ c.kind = "Ok" /\ q.end \in {"MissingReturnValue", "Xdr"}
      BY <1>2, <1>14, <2>2, <2>4
    <2>5. QED
      BY <1>1, <1>2, <2>1, <2>3, <2>4 DEF EndInv
  <1>16. CoverInv'
    <2>1. ASSUME NEW c \in calls', c.task = t, c.n >= request[t].first
          PROVE  \E p \in outcomes' :
                   p.task = c.task /\ p.request.first <= c.n /\ c.n <= p.last
      <3>1. c.n <= n[t] /\ c.n \in Nat
        BY <1>9, <2>1
      <3>2. o \in outcomes'
        BY <1>1, <1>3, <2>1, <3>1
      <3>3. QED
        BY <1>2, <1>3, <2>1, <3>1, <3>2
    <2>2. ASSUME NEW c \in calls', ~ (c.task = t /\ c.n >= request[t].first)
          PROVE  Covered(c) /\ c.task \in Task
      <3>1. c = r => c \in calls
        BY <1>1, <1>2, <1>8, <2>2
      <3>2. QED
        BY <1>1, <1>9, <2>2, <3>1 DEF CoverInv
    <2>3. \A u \in Task : u # t => step'[u] = step[u]
      BY <1>1 DEF RequestTypes
    <2>4. QED
      BY <1>1, <2>1, <2>2, <2>3 DEF CoverInv, Covered
  <1>17. QED
    BY <1>5, <1>6, <1>7, <1>10, <1>11, <1>12, <1>13, <1>15, <1>16

(* A request that ends between its rounds.                                   *)
LEMMA EndStep ==
  ASSUME Rounds, IndInv, NEW t \in Task, NEW end \in Ends, End(t, end),
         step[t] # "none", pc[t] = "idle",
         step[t] \notin {"uploading", "creating"} =>
           end \notin {"Ok", "MissingReturnValue"},
         step[t] \in {"uploading", "creating"} =>
           \/ end = Returned(t)
           \/ Returned(t) = "Ok" /\ end \in {"MissingReturnValue", "Xdr"},
         end = "Ok" /\ request[t].what = "deploy" => step[t] = "creating"
  PROVE  IndInv' /\ Rounds'
  <1>1. UNCHANGED <<pc, n, tx, calls>> /\ Finish(t, end) /\ IndInv'
    BY IdleStep DEF End, vars, taskVars
  <1>2. ASSUME NEW c \in calls, c.task = t, c.n = n[t]
        PROVE  Returned(t) = c.kind
    <2>1. \A d \in calls : d.task = t /\ d.n = n[t] => d = c
      BY <1>2 DEF IndInv, Inv, OnceInv
    <2>2. QED
      BY <1>2, <2>1 DEF Returned
  <1>3. QED
    BY <1>1, <1>2, FinishStep

LEMMA NextCall ==
  ASSUME IndInv, NEW t \in Task, n[t] < MaxCalls[t]
  PROVE  n[t] + 1 \in 1..MaxCalls[t]
  <1>1. n[t] \in Nat
    BY DEF IndInv, Inv, Typed
  <1>2. MaxCalls[t] \in Nat
    BY TxBuilderAssumption
  <1>3. QED
    BY <1>1, <1>2

LEMMA StartUploadStep ==
  ASSUME Rounds, IndInv, NEW t \in Task, StartUpload(t)
  PROVE  IndInv' /\ Rounds'
  <1>1. step[t] = "upload" /\ pc[t] = "idle" /\ request[t].wasm \in Wasm
    BY DEF StartUpload, Rounds, RequestInv, Requests
  <1>2. CASE \E end \in {"Signer", "Xdr"} : End(t, end)
    BY <1>1, <1>2, EndStep
  <1>3. CASE /\ Begin(t, UploadOf(t), "fee")
             /\ step' = [step EXCEPT ![t] = "uploading"]
             /\ UNCHANGED <<request, outcomes>>
    <2>1. n[t] + 1 \in 1..MaxCalls[t]
      BY <1>3, NextCall DEF Begin
    <2>2. UploadOf(t) \in Operation
      BY <1>1, <2>1, DeployAssumption DEF UploadOf
    <2>3. IndInv'
      BY <1>3, <2>2, BeginStep
    <2>4. Rounds'
      BY <1>1, <1>3, StartRound
    <2>5. QED
      BY <2>3, <2>4
  <1>4. QED
    BY <1>2, <1>3 DEF StartUpload, UploadOf

LEMMA StartCreateStep ==
  ASSUME Rounds, IndInv, NEW t \in Task, StartCreate(t)
  PROVE  IndInv' /\ Rounds'
  <1>1. step[t] = "create" /\ pc[t] = "idle" /\ request[t].wasm \in Wasm
    BY DEF StartCreate, Rounds, RequestInv, Requests
  <1>2. CASE \E end \in {"Signer", "Xdr"} : End(t, end)
    BY <1>1, <1>2, EndStep
  <1>3. CASE /\ Begin(t, CreateOf(t, n[t] + 1), "fee")
             /\ step' = [step EXCEPT ![t] = "creating"]
             /\ UNCHANGED <<request, outcomes>>
    <2>1. n[t] + 1 \in 1..MaxCalls[t]
      BY <1>3, NextCall DEF Begin
    <2>2. CreateOf(t, n[t] + 1) \in Operation
      BY <1>1, <2>1, DeployAssumption DEF CreateOf
    <2>3. IndInv'
      BY <1>3, <2>2, BeginStep
    <2>4. Rounds'
      BY <1>1, <1>3, StartRound
    <2>5. QED
      BY <2>3, <2>4
  <1>4. QED
    BY <1>2, <1>3 DEF StartCreate, CreateOf

LEMMA TakeFeeStep ==
  ASSUME Rounds, IndInv, NEW t \in Task, TakeFee(t)
  PROVE  IndInv' /\ Rounds'
  <1>1. IndInv'
    BY EarlyStep DEF TakeFee
  <1>2. /\ pc[t] = "fee" /\ Goto(t, "account") /\ UNCHANGED <<n, tx, calls>>
        /\ UNCHANGED requestVars
    BY DEF TakeFee
  <1>3. QED
    BY <1>1, <1>2, GoOnStep

LEMMA RoundStep ==
  ASSUME Rounds, IndInv, NEW t \in Task, Round(t)
  PROVE  IndInv' /\ Rounds'
  <1>1. Submission(t) /\ UNCHANGED requestVars
    BY DEF Round
  <1>2. IndInv'
    BY <1>1, SubmissionStep
  <1>3. CASE \E kind \in Kinds : Return(t, kind)
    BY <1>1, <1>2, <1>3, SubmissionShape, RoundReturns
  <1>4. CASE /\ \E label \in Built : Goto(t, label)
             /\ n' = n /\ calls' = calls
             /\ \A u \in Task \ {t} : tx'[u] = tx[u]
             /\ tx'[t].op = tx[t].op
    <2>1. PICK label \in Built : Goto(t, label)
      BY <1>4
    <2>2. pc[t] # "idle" /\ label \in BuilderLabels \cup {"fee"} /\ label # "idle"
      BY <1>1, SubmissionShape
    <2>3. QED
      BY <1>1, <1>2, <1>4, <2>1, <2>2, GoOnStep
  <1>5. QED
    BY <1>1, <1>3, <1>4, SubmissionShape

LEMMA EndRoundStep ==
  ASSUME Rounds, IndInv, NEW t \in Task, EndUpload(t) \/ EndCreate(t)
  PROVE  IndInv' /\ Rounds'
  <1>1. step[t] \in {"uploading", "creating"} /\ pc[t] = "idle"
    BY DEF EndUpload, EndCreate
  <1>2. Returned(t) \in Kinds
    <2>1. \E c \in calls : c.task = t /\ c.n = n[t]
      BY <1>1 DEF Rounds, RecordInv
    <2>2. (CHOOSE c \in calls : c.task = t /\ c.n = n[t]) \in calls
      BY <2>1
    <2>3. QED
      BY <2>2 DEF Returned, Rounds, RequestTypes
  <1>3. CASE Returned(t) # "Ok" /\ End(t, Returned(t))
    BY <1>1, <1>2, <1>3, EndStep
  <1>4. CASE /\ Returned(t) = "Ok"
             /\ \E end \in {"MissingReturnValue", "Xdr"} : End(t, end)
    BY <1>1, <1>4, EndStep
  <1>5. CASE /\ Returned(t) = "Ok" /\ End(t, "Ok")
             /\ request[t].what = "upload" \/ step[t] = "creating"
    BY <1>1, <1>5, EndStep
  <1>6. CASE /\ step[t] = "uploading" /\ Returned(t) = "Ok" /\ request[t].what = "deploy"
             /\ step' = [step EXCEPT ![t] = "create"]
             /\ UNCHANGED <<vars, request, outcomes>>
    BY <1>1, <1>6, UploadedStep, IdleStep
  <1>7. QED
    BY <1>3, <1>4, <1>5, <1>6 DEF EndUpload, EndCreate

LEMMA CancelRequestStep ==
  ASSUME Rounds, IndInv, NEW t \in Task, CancelRequest(t)
  PROVE  IndInv' /\ Rounds'
  <1>1. CASE Cancel(t) /\ Finish(t, "Cancelled")
    <2>1. IndInv' /\ pc[t] # "idle" /\ Return(t, "Cancelled") /\ UNCHANGED <<n, tx>>
      BY <1>1, CancelStep DEF Cancel, Return
    <2>2. step[t] \in {"uploading", "creating"}
      BY <2>1 DEF Rounds, RequestInv
    <2>3. \A c \in calls : ~ (c.task = t /\ c.n = n[t])
      BY <2>1, CallTypes
    <2>4. QED
      BY <1>1, <2>1, <2>2, <2>3, FinishStep
  <1>2. CASE step[t] \in {"upload", "create"} /\ End(t, "Cancelled")
    <2>1. pc[t] = "idle"
      BY <1>2 DEF Rounds, RequestInv
    <2>2. QED
      BY <1>2, <2>1, EndStep
  <1>3. QED
    BY <1>1, <1>2 DEF CancelRequest

(* Nothing of the requests is on the network's side.                         *)
LEMMA StillRounds == Rounds /\ UNCHANGED <<taskVars, requestVars>> => Rounds'
  BY DEF taskVars, requestVars, Rounds, RequestTypes, RequestInv, HandInv, UploadOf,
     CreateOf, RoundInv, RecordInv, SaltInv, PastInv, EndInv, RoundsOf, CoverInv, Covered

LEMMA DeployStep == DeployInv /\ [DeployNext]_deployVars => DeployInv'
  <1> SUFFICES ASSUME IndInv, Rounds, [DeployNext]_deployVars
               PROVE  IndInv' /\ Rounds'
    BY DEF DeployInv
  <1>1. CASE \E t \in Task, what \in Request, w \in Wasm : Ask(t, what, w)
    BY <1>1, AskStep, IdleStep DEF Ask
  <1>2. CASE \E t \in Task : Deploying(t) \/ CancelRequest(t)
    BY <1>2, StartUploadStep, StartCreateStep, TakeFeeStep, RoundStep, EndRoundStep,
       CancelRequestStep DEF Deploying
  <1>3. CASE Environment /\ UNCHANGED requestVars
    BY <1>3, EnvironmentStep, StillRounds DEF Environment
  <1>4. CASE UNCHANGED deployVars
    BY <1>4, IdleStep, StillRounds DEF deployVars, vars
  <1>5. QED
    BY <1>1, <1>2, <1>3, <1>4 DEF DeployNext

LEMMA DeployInvariant == DeploySpec => []DeployInv
  BY DeployStarts, DeployStep, PTL DEF DeploySpec

-----------------------------------------------------------------------------

LEMMA RoundsAreTyped == DeployInv => DeployTypeOK
  BY DEF DeployInv, IndInv, Inv, Typed, Recorded, Rounds, RequestTypes, DeployTypeOK,
     Call

(* Type correctness of the requests and of the rounds they make.             *)
THEOREM DeployTypeCorrect == DeploySpec => []DeployTypeOK
  BY DeployInvariant, RoundsAreTyped, PTL

LEMMA OkRounds == DeployInv => OkIsDeployed
  <1> SUFFICES ASSUME DeployInv, NEW o \in outcomes,
                      o.end \in {"Ok", "MissingReturnValue"}
               PROVE  /\ \A c \in RoundsOf(o) :
                           c.tx \in succeeded /\ c.tx.op.wasm = o.request.wasm
                      /\ o.end = "Ok" /\ o.request.what = "deploy" =>
                           \E c, d \in RoundsOf(o) :
                             /\ c.tx \in Uploaded /\ d.tx \in Instances
                             /\ c.tx.seq < d.tx.seq
    BY DEF OkIsDeployed
  <1> USE DEF DeployInv, Rounds, IndInv, Inv
  <1>1. \A c \in RoundsOf(o) : /\ c \in calls /\ c.n \in Nat /\ c.n <= o.last
                               /\ c.task = o.task /\ c.kind \in Kinds
    BY CallTypes DEF RoundsOf, RequestTypes
  <1>2. \A c \in RoundsOf(o) : c.kind = "Ok" /\ c.tx.op.wasm = o.request.wasm
    <2>1. o.step \in {"uploading", "creating"} /\ o.last \in Nat
      BY OutcomeTypes DEF EndInv, RequestTypes
    <2>2. QED
      BY <1>1, <2>1 DEF EndInv
  <1>3. \A c \in RoundsOf(o) : c.tx \in succeeded /\ c.tx \in Tx
    BY <1>1, <1>2 DEF ConfirmedOnLedger, Typed, NetTypeOK
  <1>4. ASSUME o.end = "Ok", o.request.what = "deploy"
        PROVE  \E c, d \in RoundsOf(o) :
                 /\ c.tx \in Uploaded /\ d.tx \in Instances
                 /\ c.tx.seq < d.tx.seq
    <2>1. PICK c \in RoundsOf(o), d \in RoundsOf(o) :
                 c.n < d.n /\ c.tx.op.kind = "upload" /\ d.tx.op.kind = "create"
      BY <1>4 DEF EndInv
    <2>2. c.tx \in Uploaded /\ d.tx \in Instances
      BY <1>3, <2>1 DEF Uploaded, Instances
    <2>3. c.tx.seq < d.tx.seq
      BY <1>1, <1>2, <1>3, <2>1 DEF OrderInv
    <2>4. QED
      BY <2>2, <2>3
  <1>5. QED
    BY <1>2, <1>3, <1>4

(* What a request that is Ok promises is on the ledger, in its order.        *)
THEOREM OkDeploys == DeploySpec => []OkIsDeployed
  BY DeployInvariant, OkRounds, PTL

(* A contract on the ledger is of the call its salt names.                   *)
LEMMA InstanceOf ==
  ASSUME DeployInv, NEW x \in Instances
  PROVE  \/ \E c \in calls : /\ c.kind \in {"Ok"} \cup Unknown /\ c.tx = x
                             /\ x.op.salt[1] = c.task /\ x.op.salt[2] = c.n
         \/ \E u \in Task : /\ pc[u] # "idle" /\ tx[u] = x
                            /\ x.op.salt[1] = u /\ x.op.salt[2] = n[u]
  <1> USE DEF DeployInv, Rounds, IndInv, Inv
  <1>1. x \in succeeded /\ x \in Ledger /\ x \notin failed /\ x.op.kind = "create"
    BY DEF Instances, Ledger, LedgerInv
  <1>2. CASE \E c \in calls : c.kind \in Landed \cup Unknown /\ c.tx = x
    BY <1>1, <1>2 DEF SaltInv, ConfirmedOnLedger
  <1>3. CASE \E u \in Task : pc[u] \in {"poll", "wait"} /\ tx[u] = x
    <2>1. PICK u \in Task : pc[u] \in {"poll", "wait"} /\ tx[u] = x
      BY <1>3
    <2>2. x.op = IF step[u] = "uploading" THEN UploadOf(u) ELSE CreateOf(u, n[u])
      BY <2>1 DEF HandInv
    <2>3. x.op.salt[1] = u /\ x.op.salt[2] = n[u]
      BY <1>1, <2>2 DEF UploadOf, CreateOf
    <2>4. QED
      BY <2>1, <2>3
  <1>4. QED
    BY <1>1, <1>2, <1>3 DEF OnlyWhatWasSent

(* It is the create in progress, or a round of a request that has ended.     *)
LEMMA InstanceIsSomebodys ==
  ASSUME DeployInv, NEW x \in Instances
  PROVE  LET t == x.op.salt[1]  i == x.op.salt[2]
         IN  \/ step[t] = "creating" /\ i = n[t]
             \/ \E o \in outcomes : o.task = t /\ i \in o.request.first..o.last
  <1> USE DEF DeployInv, Rounds, IndInv, Inv
  <1>1. ASSUME NEW c \in calls, c.tx = x, x.op.salt[1] = c.task, x.op.salt[2] = c.n
        PROVE  \/ step[c.task] = "creating" /\ c.n = n[c.task]
               \/ \E o \in outcomes : o.task = c.task /\ c.n \in o.request.first..o.last
    <2>1. c.task \in Task /\ c.n \in Nat /\ c.n <= n[c.task] /\ n[c.task] \in Nat
      BY CallTypes
    <2>2. c.tx.op.kind = "create"
      BY <1>1 DEF Instances
    <2>3. CASE step[c.task] # "none" /\ c.n >= request[c.task].first
      <3>1. ~ (c.n < n[c.task]) /\ step[c.task] # "create"
        BY <2>2, <2>3 DEF RoundInv
      <3>2. c.n = n[c.task]
        BY <2>1, <3>1
      <3>3. step[c.task] # "uploading"
        BY <2>2, <2>3, <3>1, <3>2 DEF RoundInv
      <3>4. step[c.task] # "upload"
        BY <2>1, <2>3 DEF RequestInv
      <3>5. QED
        BY <2>1, <2>3, <3>1, <3>2, <3>3, <3>4 DEF RequestTypes
    <2>4. CASE \E o \in outcomes :
                 o.task = c.task /\ o.request.first <= c.n /\ c.n <= o.last
      BY <2>1, <2>4, OutcomeTypes DEF RequestTypes
    <2>5. QED
      BY <2>3, <2>4 DEF CoverInv, Covered
  <1>2. ASSUME NEW u \in Task, pc[u] # "idle", tx[u] = x
        PROVE  step[u] = "creating"
    <2>1. x.op.kind = "create" /\ step[u] \in {"uploading", "creating"}
      BY <1>2 DEF Instances, RequestInv
    <2>2. x.op = IF step[u] = "uploading" THEN UploadOf(u) ELSE CreateOf(u, n[u])
      BY <1>2 DEF HandInv
    <2>3. QED
      BY <2>1, <2>2 DEF UploadOf
  <1>3. QED
    BY <1>1, <1>2, InstanceOf

LEMMA InstancesCounted == DeployInv => InstancesAccounted
  <1> SUFFICES ASSUME DeployInv, NEW o \in outcomes
               PROVE  LET made == {x \in Instances :
                                     /\ x.op.salt[1] = o.task
                                     /\ x.op.salt[2] \in o.request.first..o.last}
                      IN  /\ Cardinality(made) <= 1
                          /\ made # {} =>
                               /\ o.step = "creating"
                               /\ o.end \in Unknown \cup {"Ok", "MissingReturnValue", "Xdr"}
    BY InstanceIsSomebodys DEF InstancesAccounted
  <1> DEFINE made == {x \in Instances : /\ x.op.salt[1] = o.task
                                        /\ x.op.salt[2] \in o.request.first..o.last}
  <1> USE DEF DeployInv, Rounds, IndInv, Inv
  <1>1. /\ o.last \in Nat /\ o.request.first \in Nat
        /\ o.last <= n[o.task]
        /\ pc[o.task] # "idle" => o.last < n[o.task]
    <2>1. /\ o.task \in Task /\ o.last \in Nat /\ o.request.first \in Nat
          /\ o.last <= n[o.task] /\ n[o.task] \in Nat
      BY OutcomeTypes DEF RequestTypes, PastInv, Typed
    <2>2. ASSUME pc[o.task] # "idle"
          PROVE  o.last < n[o.task]
      <3>1. /\ step[o.task] \in {"uploading", "creating"}
            /\ n[o.task] >= request[o.task].first
            /\ request[o.task].first \in Nat
        BY <2>1, <2>2 DEF RequestInv, Requests
      <3>2. o.last < request[o.task].first
        BY <3>1 DEF PastInv
      <3>3. QED
        BY <2>1, <3>1, <3>2
    <2>3. QED
      BY <2>1, <2>2
  <1>2. ASSUME NEW x \in made
        PROVE  \E c \in RoundsOf(o) : /\ c.kind \in {"Ok"} \cup Unknown /\ c.tx = x
                                      /\ c.n = o.last /\ o.step = "creating"
    <2>1. PICK c \in calls : /\ c.kind \in {"Ok"} \cup Unknown /\ c.tx = x
                             /\ x.op.salt[1] = c.task /\ x.op.salt[2] = c.n
      BY <1>1, <1>2, InstanceOf
    <2>2. c \in RoundsOf(o)
      BY <1>1, <1>2, <2>1 DEF RoundsOf
    <2>3. c.tx.op.kind = "create"
      BY <1>2, <2>1 DEF Instances
    <2>4. QED
      BY <2>1, <2>2, <2>3 DEF EndInv
  <1>3. \A c, d \in RoundsOf(o) : c.n = o.last /\ d.n = o.last => c = d
    BY DEF RoundsOf, OnceInv
  <1>4. \A x, y \in made : x = y
    BY <1>2, <1>3
  <1>5. Cardinality(made) <= 1
    <2> HIDE DEF made
    <2>1. CASE made = {}
      <3>1. Cardinality(made) = 0
        BY <2>1, FS_EmptySet
      <3>2. QED
        BY <3>1
    <2>2. CASE made # {}
      <3>1. PICK x \in made : TRUE
        BY <2>2
      <3>2. made = {x}
        BY <1>4
      <3>3. Cardinality(made) = 1
        BY <3>2, FS_Singleton
      <3>4. QED
        BY <3>3
    <2>3. QED
      BY <2>1, <2>2
  <1>6. ASSUME made # {}
        PROVE  /\ o.step = "creating"
               /\ o.end \in Unknown \cup {"Ok", "MissingReturnValue", "Xdr"}
    <2>1. PICK c \in RoundsOf(o) : /\ c.kind \in {"Ok"} \cup Unknown
                                   /\ c.n = o.last /\ o.step = "creating"
      BY <1>2, <1>6
    <2>2. o.end = c.kind \/ o.end \in {"MissingReturnValue", "Xdr"}
      BY <2>1 DEF EndInv
    <2>3. QED
      BY <2>1, <2>2
  <1>7. QED
    BY <1>5, <1>6

(* Every contract is of one request, in progress or ended; none makes two,   *)
(* and one that says it was refused has made none.                           *)
THEOREM InstancesAreAccounted == DeploySpec => []InstancesAccounted
  BY DeployInvariant, InstancesCounted, PTL
=============================================================================
