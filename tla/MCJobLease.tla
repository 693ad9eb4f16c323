----------------------------- MODULE MCJobLease -----------------------------
(* Instances of JobLease for TLC: one worker process of each of two owners.  *)
EXTENDS JobLease, TLC

CONSTANTS w1, w2, o1, o2

MCOwnerOf == w1 :> o1 @@ w2 :> o2
=============================================================================
