---------------------------- MODULE MCSettlement ----------------------------
(* Instances of Settlement for TLC: a job of 10 cents, 9 for the agent and   *)
(* 1 for the platform, and the half refund of jobs_fail.                     *)
EXTENDS Settlement, TLC

CONSTANTS p1, p2

MCProcs == {p1, p2}

MCSequential == {p1}

MCPartialSplits == {[refund |-> 5, payout |-> 4, fee |-> 1]}

Symmetry == Permutations(MCProcs)
=============================================================================
