------------------------------- MODULE MCFee -------------------------------
(* Fees of four bits: every report and every resource fee around the ends. *)
EXTENDS Fee

MCReport == [reached : BOOLEAN, number : BOOLEAN, p90 : -1..17]
MCResourceFee == {-16, -3, -1, 0, 1, 11, 12, 13, 14, 15, 16, 17, 31, 32, 40}
=============================================================================
