------------------------------- MODULE Deploy -------------------------------
(***************************************************************************)
(* Client::upload_wasm, create_contract_instance and deploy_contract       *)
(* (src/client.rs over src/deploy.rs).  A request is one or two            *)
(* rounds of prepare_and_send.  A round is a call of TxBuilder; this module*)
(* is what happens around it: the signer and the operation before, the     *)
(* return value after, and the second round of deploy_contract.            *)
(*                                                                         *)
(* The salt of a create operation is left to the SDK, which draws one, so  *)
(* every attempt makes another contract: the round is its salt.            *)
(***************************************************************************)
EXTENDS TxBuilder

CONSTANTS
  Wasm,
  Request    \* what a task may be asked for

ASSUME DeployAssumption ==
  /\ Request \subseteq {"upload", "create", "deploy"}
  /\ \A t \in Task, w \in Wasm : \A i \in 1..MaxCalls[t] :
       /\ [kind |-> "upload", wasm |-> w] \in Operation
       /\ [kind |-> "create", wasm |-> w, salt |-> <<t, i>>] \in Operation

VARIABLES
  step,       \* where each task is around its rounds
  request,    \* what it has been asked for last: what, which wasm, and the
              \* number of the first round
  outcomes    \* what the requests have come to (history)

requestVars == <<step, request, outcomes>>
deployVars == <<vars, requestVars>>

Steps == {"none", "upload", "uploading", "create", "creating"}
Ends == Kinds \cup {"MissingReturnValue", "Xdr"}

NoRequest == [what |-> "none"]

Requests == [what : Request, wasm : Wasm, first : Nat \ {0}]

Outcome == [task : Task, request : Requests, step : Steps \ {"none"},
            last : Nat, end : Ends]

DeployTypeOK ==
  /\ NetTypeOK
  /\ pc \in [Task -> BuilderLabels \cup {"fee"}]
  /\ n \in [Task -> Nat]
  /\ tx \in [Task -> Tx \cup Draft \cup {NoTx}]
  /\ calls \subseteq Call
  /\ step \in [Task -> Steps]
  /\ request \in [Task -> Requests \cup {NoRequest}]
  /\ outcomes \subseteq Outcome

DeployInit ==
  /\ Init
  /\ step = [t \in Task |-> "none"]
  /\ request = [t \in Task |-> NoRequest]
  /\ outcomes = {}

Uploaded == {x \in succeeded : x.op.kind = "upload"}
Instances == {x \in succeeded : x.op.kind = "create"}

-----------------------------------------------------------------------------

Ask(t, what, w) ==
  /\ step[t] = "none"
  /\ n[t] + (IF what = "deploy" THEN 2 ELSE 1) <= MaxCalls[t]
  /\ step' = [step EXCEPT ![t] = IF what = "create" THEN "create" ELSE "upload"]
  /\ request' = [request EXCEPT ![t] =
                   [what |-> what, wasm |-> w, first |-> n[t] + 1]]
  /\ UNCHANGED <<vars, outcomes>>

(* A request that has ended before its first round leaves no record.         *)
Finish(t, end) ==
  LET o == [task |-> t, request |-> request[t], step |-> step[t], last |-> n[t],
            end |-> end]
  IN  /\ step' = [step EXCEPT ![t] = "none"]
      /\ outcomes' = outcomes \cup {p \in {o} : p.request.first <= p.last}
      /\ UNCHANGED request

End(t, end) == Finish(t, end) /\ UNCHANGED vars

(* build_signer for this transaction alone, the operation, and the round.    *)
StartUpload(t) ==
  /\ step[t] = "upload"
  /\ \/ \E end \in {"Signer", "Xdr"} : End(t, end)
     \/ /\ Begin(t, [kind |-> "upload", wasm |-> request[t].wasm], "fee")
        /\ step' = [step EXCEPT ![t] = "uploading"]
        /\ UNCHANGED <<request, outcomes>>

StartCreate(t) ==
  /\ step[t] = "create"
  /\ \/ \E end \in {"Signer", "Xdr"} : End(t, end)
     \/ /\ Begin(t, [kind |-> "create", wasm |-> request[t].wasm,
                     salt |-> <<t, n[t] + 1>>], "fee")
        /\ step' = [step EXCEPT ![t] = "creating"]
        /\ UNCHANGED <<request, outcomes>>

(* recommended_inclusion_fee cannot fail the round: unwrap_or(MIN_BASE_FEE). *)
TakeFee(t) ==
  /\ pc[t] = "fee"
  /\ Goto(t, "account")
  /\ UNCHANGED <<netVars, n, tx, calls, requestVars>>

(* A contract cannot be simulated into being from code that is not there.    *)
Round(t) ==
  /\ Submission(t)
  /\ pc[t] = "prepare" /\ pc'[t] = "sign" /\ tx[t].op.kind = "create" =>
       \E x \in Uploaded : x.op.wasm = tx[t].op.wasm
  /\ UNCHANGED requestVars

(* What prepare_and_send has returned to the step that called it.            *)
Returned(t) ==
  LET c == CHOOSE c \in calls : c.task = t /\ c.n = n[t] IN c.kind

(* Faulty variants: deploy_contract going on when its upload has timed out;  *)
(* a timed-out create tried again within the request.                        *)
EndUploadIgnoringTimeout(t) ==
  /\ step[t] = "uploading" /\ pc[t] = "idle"
  /\ \/ Returned(t) \notin {"Ok", "Timeout"} /\ End(t, Returned(t))
     \/ /\ Returned(t) \in {"Ok", "Timeout"} /\ request[t].what = "deploy"
        /\ step' = [step EXCEPT ![t] = "create"]
        /\ UNCHANGED <<vars, request, outcomes>>

EndCreateRetrying(t) ==
  /\ step[t] = "creating" /\ pc[t] = "idle"
  /\ \/ Returned(t) # "Timeout" /\ End(t, Returned(t))
     \/ /\ Returned(t) = "Timeout"
        /\ step' = [step EXCEPT ![t] = "create"]
        /\ UNCHANGED <<vars, request, outcomes>>

(* `?` on the round, then the return value: a transaction that has succeeded *)
(* may still fail the request, for want of a value or for one of a type that *)
(* is not expected.                                                          *)
EndUpload(t) ==
  /\ step[t] = "uploading" /\ pc[t] = "idle"
  /\ \/ Returned(t) # "Ok" /\ End(t, Returned(t))
     \/ Returned(t) = "Ok" /\ \E end \in {"MissingReturnValue", "Xdr"} : End(t, end)
     \/ Returned(t) = "Ok" /\ request[t].what = "upload" /\ End(t, "Ok")
     \/ /\ Returned(t) = "Ok" /\ request[t].what = "deploy"
        /\ step' = [step EXCEPT ![t] = "create"]
        /\ UNCHANGED <<vars, request, outcomes>>

EndCreate(t) ==
  /\ step[t] = "creating" /\ pc[t] = "idle"
  /\ \/ Returned(t) # "Ok" /\ End(t, Returned(t))
     \/ Returned(t) = "Ok" /\ \E end \in {"Ok", "MissingReturnValue", "Xdr"} : End(t, end)

(* The caller gives the request up, in a round or while its signer is built. *)
CancelRequest(t) ==
  \/ Cancel(t) /\ Finish(t, "Cancelled")
  \/ step[t] \in {"upload", "create"} /\ End(t, "Cancelled")

Deploying(t) ==
  \/ StartUpload(t)
  \/ StartCreate(t)
  \/ TakeFee(t)
  \/ Round(t)
  \/ EndUpload(t)
  \/ EndCreate(t)

DeployNext ==
  \/ \E t \in Task, what \in Request, w \in Wasm : Ask(t, what, w)
  \/ \E t \in Task : Deploying(t) \/ CancelRequest(t)
  \/ Environment /\ UNCHANGED requestVars

DeploySpec == DeployInit /\ [][DeployNext]_deployVars

-----------------------------------------------------------------------------
(* Properties *)

(* The rounds of a request, as calls of prepare_and_send.                    *)
RoundsOf(o) == {c \in calls : c.task = o.task /\ o.request.first <= c.n /\ c.n <= o.last}

(* What a request that is Ok promises is on the ledger, and it is this       *)
(* request's own: its transactions have all succeeded, a create is an        *)
(* instance of the wasm asked for, and deploy_contract's upload is there     *)
(* before its create.  Lacking only its return value, a request has still    *)
(* been carried out as far as it got.                                        *)
OkIsDeployed ==
  \A o \in outcomes : o.end \in {"Ok", "MissingReturnValue"} =>
    /\ \A c \in RoundsOf(o) : c.tx \in succeeded /\ c.tx.op.wasm = o.request.wasm
    /\ o.end = "Ok" /\ o.request.what = "deploy" =>
         \E c, d \in RoundsOf(o) :
           /\ c.tx \in Uploaded /\ d.tx \in Instances
           /\ c.tx.seq < d.tx.seq

(* Every contract on the ledger is somebody's, and a request makes no more   *)
(* than one: it is the create in progress of its task, or that of one request*)
(* that has ended, in its create and with a result that says it was made or  *)
(* may have been.  So a contract made again, by a retry, is never one more   *)
(* than the results allow for: a request that failed in its upload, or that  *)
(* says its create was refused, has made none.                               *)
InstancesAccounted ==
  /\ \A x \in Instances :
       LET t == x.op.salt[1]  i == x.op.salt[2]
       IN  \/ step[t] = "creating" /\ i = n[t]
           \/ \E o \in outcomes : o.task = t /\ i \in o.request.first..o.last
  /\ \A o \in outcomes :
       LET made == {x \in Instances : /\ x.op.salt[1] = o.task
                                     /\ x.op.salt[2] \in o.request.first..o.last}
       IN  /\ Cardinality(made) <= 1
           /\ made # {} =>
                /\ o.step = "creating"
                /\ o.end \in Unknown \cup {"Ok", "MissingReturnValue", "Xdr"}
=============================================================================
