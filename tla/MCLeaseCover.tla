---------------------------- MODULE MCLeaseCover ----------------------------
(* Three slots, two of them of one worker, at the edge of the promptness the   *)
(* leases allow for.                                                           *)
EXTENDS LeaseCover, TLC

CONSTANTS t1, t2, t3, w1, w2

TwoOfOne == t1 :> w1 @@ t2 :> w1 @@ t3 :> w2
=============================================================================
