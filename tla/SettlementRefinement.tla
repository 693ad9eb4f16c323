------------------------- MODULE SettlementRefinement -------------------------
(* Settlement implements ChargeLife: every transaction of a handler is one    *)
(* step in the life of the charge, or none.                                   *)
EXTENDS SettlementProofs

-----------------------------------------------------------------------------
(* The steps of the life of a charge. *)

LEMMA MoneyKept ==
    ASSUME UNCHANGED <<refund, payout, fee>>
    PROVE  Money' = Money
  BY DEF Money, Legs

\* A payment finds the charge held and puts it somewhere, or changes nothing.
LEMMA PaysMoney ==
    ASSUME LedgerTypeOK, ProcTypeOK, RowsShape, NEW p \in Procs, Pays(p)
    PROVE  \/ UNCHANGED <<refund, payout, fee>>
           \/ Money = "held" /\ Money' \in {"paid", "refunded", "shared"}
  <1> USE CentsTypes DEF RowsShape, Distributed, Legs, LedgerTypeOK
  <1>1. Legs' \in Nat /\ Legs' > 0
    <2>1. Legs' = Charge
      BY PaysDistributes
    <2> QED
      BY <2>1, CentsTypes
  <1>2. Money' \in {"paid", "refunded", "shared"}
    BY <1>1 DEF Money
  <1>3. CASE Legs = 0
    BY <1>2, <1>3 DEF Money
  <1>4. CASE Legs # 0
    <2>1. CASE post_call_payout
      BY <1>4, <2>1 DEF post_call_payout
    <2>2. CASE post_call_refund
      BY <1>4, <2>2 DEF post_call_refund
    <2>3. CASE post_call_partial_settle(loc[p].split)
      BY <1>4, <2>3 DEF post_call_partial_settle
    <2> QED
      BY <2>1, <2>2, <2>3 DEF Pays
  <1> QED
    BY <1>3, <1>4

\* The state of the charge that ChargeLife sees.
Seen == <<Money, ledgerOutcome, completed, settled>>

LEMMA PayingStep ==
    ASSUME TypeOK, MoneyInv, EndedInv, NEW p \in Procs,
           SuccessPay(p) \/ FailedPay(p) \/ LoserRefund(p)
    PROVE  Life!Distribute \/ UNCHANGED Seen
  <1>1. completed /\ UNCHANGED <<ledgerOutcome, completed, settled>> /\ Pays(p)
    BY DEF SuccessPay, FailedPay, LoserRefund, EndedInv, Early, Pays, jobVars,
           disputeVars
  <1>2. CASE UNCHANGED <<refund, payout, fee>>
    BY <1>1, <1>2, MoneyKept DEF Seen
  <1>3. CASE Money = "held" /\ Money' \in {"paid", "refunded", "shared"}
    BY <1>1, <1>3 DEF Life!Distribute
  <1> QED
    BY <1>1, <1>2, <1>3, PaysMoney DEF TypeOK, MoneyInv

LEMMA RulingStep ==
    ASSUME TypeOK, MoneyInv, EndedInv, NEW p \in Procs, ResolveSettle(p)
    PROVE  Life!Rule \/ UNCHANGED Seen
  <1>1. completed /\ UNCHANGED <<Money, completed, settled>>
    BY MoneyKept DEF ResolveSettle, EndedInv, Early, jobVars
  <1>2. loc[p].outcome \in AllOutcomes
    BY DEF ResolveSettle, MoneyInv, Position
  <1>3. CASE UNCHANGED ledgerOutcome
    BY <1>1, <1>3 DEF Seen
  <1>4. CASE ledgerOutcome = "none" /\ ledgerOutcome' = loc[p].outcome
    BY <1>1, <1>2, <1>4 DEF Life!Rule
  <1> QED
    BY <1>3, <1>4 DEF ResolveSettle, post_dispute_settlement

LEMMA ClosingStep ==
    ASSUME TypeOK, MoneyInv, EndedInv, NEW p \in Procs,
           SuccessMark(p) \/ FailedMark(p) \/ LoserMark(p) \/ EffectsMark(p)
    PROVE  Life!Close \/ UNCHANGED Seen
  <1>1. /\ completed
        /\ settled' = TRUE
        /\ UNCHANGED <<refund, payout, fee, ledgerOutcome, completed>>
    BY DEF SuccessMark, FailedMark, LoserMark, EffectsMark, mark_settled, EndedInv,
           Early, ledgerVars, disputeVars
  <1>2. UNCHANGED Money
    BY <1>1, MoneyKept
  <1>3. Distributed \/ Ruled
    BY DEF SuccessMark, FailedMark, LoserMark, EffectsMark, MoneyInv, Position
  <1>4. Money # "held" \/ ledgerOutcome # "none"
    BY <1>3, CentsTypes DEF Distributed, Ruled, Money
  <1>5. settled \in BOOLEAN
    BY DEF TypeOK, JobTypeOK
  <1>6. CASE settled
    BY <1>1, <1>2, <1>5, <1>6 DEF Seen
  <1>7. CASE ~settled
    BY <1>1, <1>2, <1>4, <1>7 DEF Life!Close
  <1> QED
    BY <1>6, <1>7

LEMMA EndingStep ==
    ASSUME TypeOK, NEW p \in Procs,
           CompleteGate(p) \/ FailUpdate(p) \/ CancelUpdate(p)
    PROVE  Life!End \/ UNCHANGED Seen
  <1>1. UNCHANGED <<refund, payout, fee, ledgerOutcome, settled>>
    BY DEF CompleteGate, FailUpdate, CancelUpdate, update_job_status, jobVars,
           ledgerVars, disputeVars
  <1>2. UNCHANGED Money
    BY <1>1, MoneyKept
  <1>3. completed' = completed \/ completed' = TRUE
    BY DEF CompleteGate, FailUpdate, CancelUpdate, update_job_status, jobVars
  <1>4. completed \in BOOLEAN
    BY DEF TypeOK, JobTypeOK
  <1> QED
    BY <1>1, <1>2, <1>3, <1>4 DEF Life!End, Seen

LEMMA StepLife ==
    ASSUME TypeOK, MoneyInv, EndedInv, NEW p \in Procs, Step(p)
    PROVE  Life!Next \/ UNCHANGED Seen
  <1>1. CASE \/ FailedReadBack(p) \/ SuccessInit(p) \/ SuccessCheck(p)
             \/ RecordJudgeFee(p) \/ CancelReadBack(p) \/ ProceedUpdate(p)
             \/ VerifExpiryMark(p) \/ DecideOpen(p) \/ DecideExpire(p)
             \/ AcceptCheck(p) \/ AcceptDecide(p) \/ RejectDecide(p)
             \/ CompareOpen(p) \/ CompareDecide(p)
    <2>1. UNCHANGED <<refund, payout, fee, ledgerOutcome, completed, settled>>
      BY <1>1 DEF jobVars, ledgerVars, disputeVars, FailedReadBack, SuccessInit,
                  SuccessCheck, RecordJudgeFee, CancelReadBack, ProceedUpdate,
                  VerifExpiryMark, DecideOpen, DecideExpire, AcceptCheck,
                  AcceptDecide, RejectDecide, CompareOpen, CompareDecide
    <2> QED
      BY <2>1, MoneyKept DEF Seen
  <1>2. CASE \/ RejectFile(p) \/ FileTxn(p) \/ JudgeStart(p) \/ JudgeVote(p)
             \/ JudgeTied(p) \/ AppealMark(p) \/ ResolveFinalize(p)
             \/ EffectsRead(p)
    <2>1. UNCHANGED <<refund, payout, fee, ledgerOutcome, completed, settled>>
      BY <1>2 DEF jobVars, ledgerVars, disputeVars, RejectFile, FileTxn,
                  create_dispute, lock_dispute_funds, JudgeStart, JudgeVote,
                  JudgesAgree, JudgesTie, VoteFails, JudgeTied, AppealMark,
                  ResolveFinalize, EffectsRead
    <2> QED
      BY <2>1, MoneyKept DEF Seen
  <1> QED
    BY <1>1, <1>2, PayingStep, RulingStep, ClosingStep, EndingStep
       DEF Step, SettleFailed, SettleSuccessful, Life!Next

LEMMA StartLife ==
    ASSUME TypeOK, FinishedIsUnclaimed, NEW p \in Procs, Start(p)
    PROVE  Life!Next \/ UNCHANGED Seen
  <1>1. UNCHANGED <<refund, payout, fee, ledgerOutcome>>
    BY OthersKeepMoney DEF ledgerVars, disputeVars
  <1>2. UNCHANGED Money
    BY <1>1, MoneyKept
  <1>3. completed \in BOOLEAN /\ (completed => completed')
    BY StartFinished DEF TypeOK, JobTypeOK
  <1>4. settled' = settled /\ completed' \in BOOLEAN
    BY <1>3 DEF Start, CompleteRead, FailRead, ForceFailList, mark_job_timeout,
                schedule_job_retry, CancelRead, ProceedList, SweepCompleted,
                VerifExpiryList, DecideRead, CompareRead, FileRead, JudgeRead,
                AdminRead, TieTimeout, jobVars, GiveUp
  <1> QED
    BY <1>1, <1>2, <1>3, <1>4 DEF Life!Next, Life!End, Seen

LEMMA NextLife ==
    ASSUME TypeOK, MoneyInv, EndedInv, FinishedIsUnclaimed, [Next]_vars
    PROVE  [Life!Next]_(Life!vars)
  <1>1. CASE Worker \/ (\E p \in Procs : Crash(p)) \/ UNCHANGED vars
    <2>1. UNCHANGED <<refund, payout, fee, ledgerOutcome>>
      BY <1>1, OthersKeepMoney DEF ledgerVars, disputeVars
    <2>2. UNCHANGED <<completed, settled>>
      BY <1>1 DEF Worker, claim_job, LeaseRunsOut, release_job_claim, add_message,
                  VerificationWindowCloses, Crash, vars, jobVars
    <2> QED
      BY <2>1, <2>2, MoneyKept DEF Life!vars
  <1>2. CASE \E p \in Procs : Start(p) \/ Step(p)
    BY <1>2, StartLife, StepLife DEF Seen, Life!vars
  <1> QED
    BY <1>1, <1>2 DEF Next

\* Job settlement implements the life of a charge, for any number of handlers of
\* any kind, any crashes and any amounts: no cent moves before completed_at, one
\* of payout, refund and partial settlement takes effect and does so once, one
\* ruling reaches the ledger, and settled_at follows one of them for good.
THEOREM SettlementImplementsChargeLife == Spec => ChargeLives
  <1>1. Init => Life!Init
    BY DEF Init, Life!Init, Money, Legs
  <1> QED
    BY <1>1, NextLife, TypeCorrect, MoneyInvariant, EndedInvariant,
       FinishedUnclaimed, PTL DEF Spec, ChargeLives, Life!Spec
=============================================================================
