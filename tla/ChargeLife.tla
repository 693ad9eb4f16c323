----------------------------- MODULE ChargeLife -----------------------------
(***************************************************************************)
(* What job settlement promises about the charge of one job, whoever works *)
(* on the job: the charge is held until the job has finished, then goes    *)
(* one way and once; a dispute is ruled on once; and the books of the job  *)
(* are closed, once and for good, behind the money and never before it.    *)
(*                                                                         *)
(* Module Settlement, with all its handlers, implements this.              *)
(***************************************************************************)
CONSTANT Outcomes   \* rulings on a dispute

VARIABLES
    money,      \* where the charge is
    ruling,     \* the ruling that moved money, if any
    finished,   \* the job has ended
    closed      \* nothing is left to settle

vars == <<money, ruling, finished, closed>>

Init ==
    /\ money = "held"
    /\ ruling = "none"
    /\ finished = FALSE
    /\ closed = FALSE

End ==
    /\ ~finished
    /\ finished' = TRUE
    /\ UNCHANGED <<money, ruling, closed>>

Distribute ==
    /\ finished
    /\ money = "held"
    /\ money' \in {"paid", "refunded", "shared"}
    /\ UNCHANGED <<ruling, finished, closed>>

Rule ==
    /\ finished
    /\ ruling = "none"
    /\ ruling' \in Outcomes
    /\ UNCHANGED <<money, finished, closed>>

Close ==
    /\ finished
    /\ ~closed
    /\ money # "held" \/ ruling # "none"
    /\ closed' = TRUE
    /\ UNCHANGED <<money, ruling, finished>>

Next == End \/ Distribute \/ Rule \/ Close

Spec == Init /\ [][Next]_vars
=============================================================================
