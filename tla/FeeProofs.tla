----------------------------- MODULE FeeProofs -----------------------------
(***************************************************************************)
(* For every width of the fee, every floor and every report: a bid is a    *)
(* fee, is not under the floor, and pays for the restoration it is for.    *)
(***************************************************************************)
EXTENDS Fee, TLAPS

FeeInv == TypeOK /\ NeverUnderbids /\ RestorationIsPaid

(* Clamping from below and from above: the sum of a floor and a signed       *)
(* amount, in two steps that each saturate, is the clamped sum.              *)
LEMMA RestoreFeeIsClampedSum ==
  ASSUME NEW r \in Int
  PROVE  /\ RestoreFee(r) \in MIN_BASE_FEE..U32Max
         /\ RestoreFee(r) = smaller(MIN_BASE_FEE + larger(r, 0), U32Max)
  BY FeeAssumption DEF RestoreFee, SaturatingAdd, Narrow, larger, smaller

LEMMA RecommendedIsAtLeastFloor ==
  ASSUME NEW r \in Report
  PROVE  /\ Recommended(r) \in [ok : BOOLEAN, fee : 0..U32Max]
         /\ InclusionFee(Recommended(r)) \in MIN_BASE_FEE..U32Max
         /\ r.reached /\ Parses(r) => InclusionFee(Recommended(r)) >= r.p90
  <1>1. MIN_BASE_FEE \in 1..U32Max /\ U32Max \in Nat
    BY FeeAssumption
  <1>2. CASE r.reached /\ Parses(r)
    BY <1>1, <1>2 DEF Recommended, InclusionFee, Parses, larger
  <1>3. CASE ~ (r.reached /\ Parses(r))
    BY <1>1, <1>3 DEF Recommended, InclusionFee, Failure
  <1>4. QED
    BY <1>2, <1>3

LEMMA FeeInit == Init => FeeInv
  BY FeeAssumption
  DEF Init, FeeInv, TypeOK, NeverUnderbids, RestorationIsPaid, Failure

LEMMA FeeStep == FeeInv /\ [Next]_vars => FeeInv'
  <1> SUFFICES ASSUME FeeInv, [Next]_vars
               PROVE  FeeInv'
    OBVIOUS
  <1> USE DEF FeeInv
  <1>1. CASE BidForSubmission
    <2>1. report \in Report
      BY DEF TypeOK
    <2>2. /\ bidder' = "submission" /\ report' = report /\ resource' = resource
          /\ answer' \in [ok : BOOLEAN, fee : 0..U32Max]
          /\ bid' \in MIN_BASE_FEE..U32Max
          /\ report.reached /\ Parses(report) => bid' >= report.p90
      BY <1>1, <2>1, RecommendedIsAtLeastFloor DEF BidForSubmission
    <2>3. QED
      BY <2>2, FeeAssumption DEF TypeOK, NeverUnderbids, RestorationIsPaid, Parses
  <1>2. CASE BidForRestoration
    <2>1. resource \in Int
      BY FeeAssumption DEF TypeOK
    <2>2. /\ bid' \in MIN_BASE_FEE..U32Max
          /\ bid' = smaller(MIN_BASE_FEE + larger(resource, 0), U32Max)
      BY <1>2, <2>1, RestoreFeeIsClampedSum DEF BidForRestoration
    <2>3. /\ bidder' = "restoration" /\ report' = report /\ resource' = resource
          /\ answer' = answer
      BY <1>2 DEF BidForRestoration
    <2>4. TypeOK' /\ NeverUnderbids'
      BY <2>2, <2>3, FeeAssumption DEF TypeOK, NeverUnderbids
    <2>5. RestorationIsPaid'
      BY <2>1, <2>2, <2>3, FeeAssumption DEF RestorationIsPaid, smaller, larger
    <2>6. QED
      BY <2>4, <2>5
  <1>3. CASE UNCHANGED vars
    BY <1>3 DEF vars, TypeOK, NeverUnderbids, RestorationIsPaid, Parses
  <1>4. QED
    BY <1>1, <1>2, <1>3 DEF Next

LEMMA FeeInvariant == Spec => []FeeInv
  BY FeeInit, FeeStep, PTL DEF Spec

(* No bid leaves the range of a fee.                                         *)
THEOREM BidIsAFee == Spec => []TypeOK
  BY FeeInvariant, PTL DEF FeeInv

(* No bid is under the floor, nor under a report that could be read.         *)
THEOREM BidsAtLeastTheFloor == Spec => []NeverUnderbids
  BY FeeInvariant, PTL DEF FeeInv

(* A restoration's bid covers the floor and what the node asks, or is the    *)
(* most a fee can be.                                                        *)
THEOREM RestorationBidCovers == Spec => []RestorationIsPaid
  BY FeeInvariant, PTL DEF FeeInv
=============================================================================
