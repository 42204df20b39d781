-------------------------------- MODULE Fee --------------------------------
(***************************************************************************)
(* What the library bids: recommended_inclusion_fee (src/fee.rs) with      *)
(* the fallback of its callers, and the fee of a restore transaction       *)
(* (restore_entry in src/ttl.rs).  Fees are u32, resource fees i64.        *)
(***************************************************************************)
EXTENDS Integers

CONSTANTS
  MIN_BASE_FEE,
  U32Max,        \* u32::MAX
  Report,        \* what get_fee_stats may come to
  ResourceFee    \* what the node may ask for a restoration

(* A report is a p90 that is a number or is not, if the call gets through.   *)
ASSUME FeeAssumption ==
  /\ U32Max \in Nat
  /\ MIN_BASE_FEE \in 1..U32Max
  /\ Report \subseteq [reached : BOOLEAN, number : BOOLEAN, p90 : Int]
  /\ ResourceFee \subseteq Int

VARIABLES
  bidder,     \* who bids: nobody yet, a deploy or invoke, or a restoration
  report,     \* the report the fee was taken from
  resource,   \* the resource fee it had to cover
  answer,     \* what recommended_inclusion_fee returned
  bid         \* the fee the transaction is built with

vars == <<bidder, report, resource, answer, bid>>

larger(a, b) == IF a < b THEN b ELSE a
smaller(a, b) == IF a < b THEN a ELSE b

Failure == [ok |-> FALSE, fee |-> 0]

TypeOK ==
  /\ bidder \in {"nobody", "submission", "restoration"}
  /\ report \in Report
  /\ resource \in ResourceFee
  /\ answer \in [ok : BOOLEAN, fee : 0..U32Max]
  /\ bid \in 0..U32Max

Init ==
  /\ bidder = "nobody"
  /\ report \in Report
  /\ resource \in ResourceFee
  /\ answer = Failure
  /\ bid = 0

(* str::parse::<u32> *)
Parses(r) == r.number /\ r.p90 \in 0..U32Max

(* Faulty variant of Recommended: the report taken as it is.                 *)
RecommendedUnclamped(r) ==
  IF r.reached /\ Parses(r) THEN [ok |-> TRUE, fee |-> r.p90] ELSE Failure

Recommended(r) ==
  IF r.reached /\ Parses(r)
  THEN [ok |-> TRUE, fee |-> larger(r.p90, MIN_BASE_FEE)]
  ELSE Failure

(* unwrap_or(MIN_BASE_FEE) *)
InclusionFee(a) == IF a.ok THEN a.fee ELSE MIN_BASE_FEE

(* u32::try_from(x).unwrap_or(u32::MAX), for an x that is not negative.      *)
Narrow(x) == IF x <= U32Max THEN x ELSE U32Max

(* Faulty variant of SaturatingAdd. *)
PlainAdd(a, b) == a + b

(* u32::saturating_add *)
SaturatingAdd(a, b) == smaller(a + b, U32Max)

(* Faulty variant of RestoreFee: the cast and the sum wrap.                  *)
RestoreFeeWraps(r) == (MIN_BASE_FEE + (r % (U32Max + 1))) % (U32Max + 1)

RestoreFee(r) == SaturatingAdd(MIN_BASE_FEE, Narrow(larger(r, 0)))

BidForSubmission ==
  /\ bidder = "nobody"
  /\ bidder' = "submission"
  /\ answer' = Recommended(report)
  /\ bid' = InclusionFee(answer')
  /\ UNCHANGED <<report, resource>>

BidForRestoration ==
  /\ bidder = "nobody"
  /\ bidder' = "restoration"
  /\ bid' = RestoreFee(resource)
  /\ UNCHANGED <<report, resource, answer>>

Next == BidForSubmission \/ BidForRestoration

Spec == Init /\ [][Next]_vars

-----------------------------------------------------------------------------
(* Properties *)

(* "Never bid below this regardless of what the network's fee stats report"  *)
(* (MIN_BASE_FEE): no bid is under the floor, whatever the report says and   *)
(* whether there is one; a report above the floor is bid in full.            *)
NeverUnderbids ==
  /\ bidder # "nobody" => bid >= MIN_BASE_FEE
  /\ bidder = "submission" /\ report.reached /\ Parses(report) => bid >= report.p90

(* A restoration pays the floor and all the node asks for it, up to the most *)
(* a fee can be; asked for too much, it bids that most and does not wrap.    *)
RestorationIsPaid ==
  bidder = "restoration" =>
    \/ bid = U32Max /\ MIN_BASE_FEE + resource > U32Max
    \/ bid >= MIN_BASE_FEE /\ bid >= MIN_BASE_FEE + resource
=============================================================================
