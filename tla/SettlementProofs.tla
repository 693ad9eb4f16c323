--------------------------- MODULE SettlementProofs ---------------------------
(* Safety of Settlement for every number of concurrent handlers, every mix of*)
(* handler kinds, every number of crashes and every amount of cents; then    *)
(* what holds besides when a handler has the job to itself.                  *)
EXTENDS Settlement, TLAPS

-----------------------------------------------------------------------------
(* The claim of a finished job. *)

LEMMA WorkerFinished ==
    ASSUME FinishedIsUnclaimed, Worker
    PROVE  /\ FinishedIsUnclaimed'
           /\ completed => completed'
           /\ settled => settled'
  BY DEF FinishedIsUnclaimed, Worker, claim_job, LeaseRunsOut, release_job_claim,
         add_message, VerificationWindowCloses

LEMMA StartFinished ==
    ASSUME FinishedIsUnclaimed, NEW p \in Procs, Start(p)
    PROVE  /\ FinishedIsUnclaimed'
           /\ completed => completed'
           /\ settled => settled'
  <1>1. CASE mark_job_timeout(p)
    BY <1>1 DEF FinishedIsUnclaimed, mark_job_timeout, StaleActive, GiveUp
  <1>2. CASE schedule_job_retry(p)
    BY <1>2 DEF FinishedIsUnclaimed, schedule_job_retry, GiveUp
  <1>3. CASE UNCHANGED jobVars
    BY <1>3 DEF FinishedIsUnclaimed, jobVars
  <1> QED
    BY <1>1, <1>2, <1>3
       DEF Start, CompleteRead, FailRead, ForceFailList, CancelRead, ProceedList,
           SweepCompleted, VerifExpiryList, DecideRead, CompareRead, FileRead,
           JudgeRead, AdminRead, TieTimeout

LEMMA StepFinished ==
    ASSUME FinishedIsUnclaimed, NEW p \in Procs, Step(p)
    PROVE  /\ FinishedIsUnclaimed'
           /\ completed => completed'
           /\ settled => settled'
  <1>1. CASE CompleteGate(p) \/ FailUpdate(p) \/ CancelUpdate(p)
    BY <1>1 DEF FinishedIsUnclaimed, CompleteGate, FailUpdate, CancelUpdate,
                update_job_status, jobVars
  <1>2. CASE SuccessMark(p) \/ FailedMark(p) \/ LoserMark(p) \/ EffectsMark(p)
    BY <1>2 DEF FinishedIsUnclaimed, SuccessMark, FailedMark, LoserMark,
                EffectsMark, mark_settled
  <1>3. CASE SettleFailed(p) /\ ~FailedMark(p)
    BY <1>3 DEF FinishedIsUnclaimed, SettleFailed, FailedReadBack, FailedPay,
                jobVars
  <1>4. CASE SettleSuccessful(p) /\ ~SuccessMark(p)
    BY <1>4 DEF FinishedIsUnclaimed, SettleSuccessful, SuccessInit, SuccessCheck,
                SuccessPay, RecordJudgeFee, jobVars
  <1>5. CASE \/ CancelReadBack(p) \/ ProceedUpdate(p) \/ VerifExpiryMark(p)
             \/ DecideOpen(p) \/ DecideExpire(p) \/ AcceptCheck(p)
             \/ AcceptDecide(p) \/ RejectFile(p) \/ RejectDecide(p)
    BY <1>5 DEF FinishedIsUnclaimed, jobVars, CancelReadBack, ProceedUpdate,
                VerifExpiryMark, DecideOpen, DecideExpire, AcceptCheck,
                AcceptDecide, RejectFile, RejectDecide
  <1>6. CASE \/ CompareOpen(p) \/ CompareDecide(p) \/ LoserRefund(p)
             \/ FileTxn(p) \/ JudgeStart(p) \/ JudgeVote(p)
             \/ JudgeTied(p) \/ AppealMark(p) \/ ResolveSettle(p) \/ ResolveFinalize(p)
             \/ EffectsRead(p)
    BY <1>6 DEF FinishedIsUnclaimed, jobVars, CompareOpen, CompareDecide,
                LoserRefund, FileTxn, JudgeStart, JudgeVote, JudgesAgree, JudgesTie,
           VoteFails, JudgeTied,
           AppealMark, ResolveSettle, ResolveFinalize, EffectsRead
  <1> QED
    BY <1>1, <1>2, <1>3, <1>4, <1>5, <1>6 DEF Step

LEMMA NextFinished ==
    ASSUME FinishedIsUnclaimed, [Next]_vars
    PROVE  /\ FinishedIsUnclaimed'
           /\ completed => completed'
           /\ settled => settled'
  <1>1. CASE \E p \in Procs : Crash(p)
    BY <1>1 DEF FinishedIsUnclaimed, Crash, jobVars
  <1>2. CASE UNCHANGED vars
    BY <1>2 DEF FinishedIsUnclaimed, vars, jobVars
  <1> QED
    BY <1>1, <1>2, WorkerFinished, StartFinished, StepFinished DEF Next

\* A finished job has no claim, however many handlers finish it, time it out
\* or retry it at once (core/jobs/leases.py).
THEOREM FinishedUnclaimed == Spec => []FinishedIsUnclaimed
  <1>1. Init => FinishedIsUnclaimed
    BY DEF Init, FinishedIsUnclaimed
  <1> QED
    BY <1>1, NextFinished, PTL DEF Spec

\* No step clears settled_at or completed_at, mark_job_timeout's
\* completed_at = NULL included.
THEOREM StampsNeverCleared == Spec => StampsStay
  <1>1. FinishedIsUnclaimed /\ [Next]_vars
          => [(settled => settled') /\ (completed => completed')]_vars
    BY NextFinished
  <1> QED
    BY <1>1, FinishedUnclaimed, PTL DEF Spec, StampsStay

-----------------------------------------------------------------------------
(* Control: every step of a handler moves that handler alone. *)

LEMMA NoLocType == NoLoc \in Locs
  BY DEF NoLoc, Locs, Splits, NoSplit

Moves(p) ==
    \E l \in Labels, r \in Locs :
       /\ pc' = [pc EXCEPT ![p] = l]
       /\ loc' = [loc EXCEPT ![p] = r]

LEMMA MoveTo ==
    ASSUME NEW p \in Procs, NEW l \in Labels, NEW r \in Locs,
           pc' = [pc EXCEPT ![p] = l], loc' = [loc EXCEPT ![p] = r]
    PROVE  Moves(p)
  BY DEF Moves

LEMMA BeginMoves ==
    ASSUME NEW p \in Procs, NEW k, NEW r \in Locs, NEW l \in Labels,
           BeginWith(p, k, r, l)
    PROVE  Moves(p)
  BY DEF BeginWith, Moves

LEMMA ForgetMoves ==
    ASSUME NEW p \in Procs, NEW l \in Labels, Forget(p, l)
    PROVE  Moves(p)
  BY NoLocType DEF Forget, Moves

LEMMA FinishMoves ==
    ASSUME NEW p \in Procs, Finish(p)
    PROVE  Moves(p)
  BY ForgetMoves DEF Finish, Labels

LEMMA GotoMoves ==
    ASSUME ProcTypeOK, NEW p \in Procs, NEW l \in Labels, Goto(p, l)
    PROVE  Moves(p)
  <1>1. loc[p] \in Locs /\ loc = [loc EXCEPT ![p] = loc[p]]
    BY DEF ProcTypeOK
  <1> QED
    BY <1>1 DEF Goto, Moves

LEMMA StartMoves ==
    ASSUME ProcTypeOK, NEW p \in Procs, Start(p)
    PROVE  Moves(p) \/ UNCHANGED procVars
  <1> USE BeginMoves, NoLocType DEF Begin, BeginAs, Labels
  <1>1. ASSUME NEW k \in {"complete", "master_complete"}, CompleteRead(p, k)
        PROVE  Moves(p)
    BY <1>1 DEF CompleteRead
  <1>2. ASSUME NEW k \in {"fail", "master_fail"}, NEW s \in Splits, FailRead(p, k, s)
        PROVE  Moves(p)
    <2>1. [NoLoc EXCEPT !.split = s] \in Locs
      BY DEF Locs, NoLoc
    <2> QED
      BY <1>2, <2>1 DEF FailRead
  <1>3. ASSUME NEW k \in ForceKinds, ForceFailList(p, k)
        PROVE  Moves(p)
    BY <1>3 DEF ForceFailList
  <1>4. CASE mark_job_timeout(p)
    BY <1>4 DEF mark_job_timeout, GiveUp
  <1>5. CASE schedule_job_retry(p)
    BY <1>5 DEF schedule_job_retry, GiveUp
  <1>6. CASE \/ CancelRead(p) \/ ProceedList(p) \/ SweepCompleted(p)
             \/ VerifExpiryList(p) \/ FileRead(p)
    BY <1>6 DEF CancelRead, ProceedList, SweepCompleted, VerifExpiryList, FileRead
  <1>7. ASSUME NEW k \in {"accept", "reject"}, DecideRead(p, k)
        PROVE  Moves(p)
    <2>1. [NoLoc EXCEPT !.kind = k] \in Locs
      BY DEF Locs, NoLoc
    <2> QED
      BY <1>7, <2>1 DEF DecideRead
  <1>8. ASSUME NEW k \in {"compare_winner", "compare_loser"}, CompareRead(p, k)
        PROVE  Moves(p)
    <2>1. [NoLoc EXCEPT !.kind = k] \in Locs
      BY DEF Locs, NoLoc
    <2> QED
      BY <1>8, <2>1 DEF CompareRead
  <1>9. CASE JudgeRead(p)
    <2>1. [NoLoc EXCEPT !.kind = "judge"] \in Locs
      BY DEF Locs, NoLoc, ResolveKinds
    <2> QED
      BY <1>9, <2>1 DEF JudgeRead
  <1>10. ASSUME NEW o \in Outcomes, AdminRead(p, o)
         PROVE  Moves(p)
    <2>1. [NoLoc EXCEPT !.kind = "admin", !.outcome = o] \in Locs
      BY BoundsAssumption DEF Locs, NoLoc, ResolveKinds
    <2> QED
      BY <1>10, <2>1 DEF AdminRead
  <1>11. CASE TieTimeout(p)
    <2>1. [NoLoc EXCEPT !.kind = "tie_timeout", !.outcome = "agent_wins"] \in Locs
      BY DEF Locs, NoLoc, ResolveKinds, AllOutcomes
    <2> QED
      BY <1>11, <2>1 DEF TieTimeout
  <1> QED
    BY <1>1, <1>2, <1>3, <1>4, <1>5, <1>6, <1>7, <1>8, <1>9,
       <1>10, <1>11 DEF Start

LEMMA StepMoves ==
    ASSUME JobTypeOK, ProcTypeOK, NEW p \in Procs, Step(p)
    PROVE  Moves(p)
  <1> USE GotoMoves, ForgetMoves, FinishMoves DEF Labels
  <1>1. loc[p] \in Locs
    BY DEF ProcTypeOK
  <1>2. CASE CompleteGate(p)
    <2>1. [loc[p] EXCEPT !.kind = "complete"] \in Locs
      BY <1>1 DEF Locs
    <2> QED
      BY <1>2, <2>1 DEF CompleteGate, Moves
  <1>3. CASE FailUpdate(p) \/ CancelUpdate(p) \/ CancelReadBack(p) \/ ProceedUpdate(p)
    BY <1>3 DEF FailUpdate, CancelUpdate, CancelReadBack, ProceedUpdate
  <1>4. CASE SettleFailed(p)
    BY <1>4 DEF SettleFailed, FailedReadBack, FailedPay, FailedMark
  <1>5. CASE SuccessInit(p)
    <2>1. verif' \in VerifStatuses
      BY <1>5 DEF SuccessInit, initialize_output_verification_state, JobTypeOK,
                  VerifStatuses
    <2>2. settled \in BOOLEAN
      BY DEF JobTypeOK
    <2>3. [loc[p] EXCEPT !.verif = verif', !.settled = settled] \in Locs
      BY <1>1, <2>1, <2>2 DEF Locs
    <2>4. /\ pc' = [pc EXCEPT ![p] = "s_check"]
          /\ loc' = [loc EXCEPT ![p] = [loc[p] EXCEPT !.verif = verif',
                                                     !.settled = settled]]
      BY <1>5 DEF SuccessInit, ProcTypeOK
    <2>5. "s_check" \in Labels
      BY DEF Labels
    <2> QED
      BY ONLY <2>3, <2>4, <2>5, MoveTo
  <1>6. CASE SuccessCheck(p)
    <2>1. [loc[p] EXCEPT !.verif = "none"] \in Locs
      BY <1>1 DEF Locs
    <2> QED
      BY <1>6, <2>1 DEF SuccessCheck, SuccessReturns, Moves
  <1>7. CASE SuccessPay(p) \/ SuccessMark(p) \/ RecordJudgeFee(p)
    BY <1>7 DEF SuccessPay, SuccessMark, RecordJudgeFee, SuccessReturns
  <1>8. CASE VerifExpiryMark(p) \/ AcceptCheck(p) \/ AcceptDecide(p) \/ RejectDecide(p)
    BY <1>8 DEF VerifExpiryMark, AcceptCheck, AcceptDecide, RejectDecide
  <1>9. ASSUME NEW v \in VerifStatuses, DecideNext(p, v)
        PROVE  Moves(p)
    <2>1. [loc[p] EXCEPT !.verif = v] \in Locs
      BY <1>1 DEF Locs
    <2> QED
      BY <1>9, <2>1 DEF DecideNext, Moves
  <1>10. CASE DecideOpen(p)
    <2>1. verif' \in VerifStatuses
      BY <1>10 DEF DecideOpen, initialize_output_verification_state, JobTypeOK,
                   VerifStatuses
    <2> QED
      BY <1>9, <1>10, <2>1 DEF DecideOpen
  <1>11. CASE DecideExpire(p)
    BY <1>9, <1>11 DEF DecideExpire, VerifStatuses
  <1>12. CASE RejectFile(p)
    BY <1>12 DEF RejectFile
  <1>13. CASE CompareOpen(p) \/ CompareDecide(p) \/ LoserRefund(p) \/ LoserMark(p)
    BY <1>13 DEF CompareOpen, CompareDecide, CompareSettle, LoserRefund, LoserMark
  <1>14. CASE FileTxn(p) \/ ResolveSettle(p) \/ EffectsRead(p) \/ EffectsMark(p)
    BY <1>14 DEF FileTxn, ResolveSettle, EffectsRead, EffectsMark
  <1>15. CASE ResolveFinalize(p)
    <2>1. [loc[p] EXCEPT !.kind = "none"] \in Locs
      BY <1>1 DEF Locs
    <2>2. /\ pc' = [pc EXCEPT ![p] = "e_read"]
          /\ loc' = [loc EXCEPT ![p] = [loc[p] EXCEPT !.kind = "none"]]
      BY <1>15 DEF ResolveFinalize, ProcTypeOK
    <2>3. "e_read" \in Labels
      BY DEF Labels
    <2> QED
      BY ONLY <2>1, <2>2, <2>3, MoveTo
  <1>16. CASE JudgeStart(p) \/ JudgeTied(p) \/ AppealMark(p)
    BY <1>16 DEF JudgeStart, JudgeTied, AppealMark
  <1>17. CASE JudgeVote(p)
    <2>1. ASSUME NEW o \in Outcomes,
                 pc' = [pc EXCEPT ![p] = "d_settle"],
                 loc' = [loc EXCEPT ![p].outcome = o]
          PROVE  Moves(p)
      <3>1. [loc[p] EXCEPT !.outcome = o] \in Locs
        BY <1>1, BoundsAssumption DEF Locs
      <3>2. loc' = [loc EXCEPT ![p] = [loc[p] EXCEPT !.outcome = o]]
        BY <2>1 DEF ProcTypeOK
      <3>3. "d_settle" \in Labels
        BY DEF Labels
      <3> QED
        BY ONLY <2>1, <3>1, <3>2, <3>3, MoveTo
    <2> QED
      BY <1>17, <2>1 DEF JudgeVote, JudgesAgree, JudgesTie, VoteFails
  <1> QED
    BY <1>2, <1>3, <1>4, <1>5, <1>6, <1>7, <1>8, <1>10, <1>11, <1>12, <1>13,
       <1>14, <1>15, <1>16, <1>17 DEF Step, SettleSuccessful

LEMMA MovesType ==
    ASSUME ProcTypeOK, NEW p \in Procs, Moves(p), crashes' \in 0 .. MaxCrashes
    PROVE  ProcTypeOK'
  BY DEF ProcTypeOK, Moves

LEMMA NextProcType ==
    ASSUME JobTypeOK, ProcTypeOK, [Next]_vars
    PROVE  ProcTypeOK'
  <1>1. CASE Worker
    BY <1>1 DEF Worker, claim_job, LeaseRunsOut, release_job_claim, add_message,
                VerificationWindowCloses, procVars, ProcTypeOK
  <1>2. ASSUME NEW p \in Procs, Start(p)
        PROVE  ProcTypeOK'
    <2>1. UNCHANGED crashes
      BY <1>2 DEF Start, CompleteRead, FailRead, ForceFailList, mark_job_timeout,
                  schedule_job_retry, CancelRead, ProceedList, SweepCompleted,
                  VerifExpiryList, DecideRead, CompareRead, FileRead,
                JudgeRead, AdminRead, TieTimeout
    <2> QED
      BY <1>2, <2>1, StartMoves, MovesType DEF ProcTypeOK, procVars
  <1>3. ASSUME NEW p \in Procs, Step(p)
        PROVE  ProcTypeOK'
    <2>1. UNCHANGED crashes
      BY <1>3 DEF Step, CompleteGate, FailUpdate, SettleFailed, FailedReadBack,
                  FailedPay, FailedMark, SettleSuccessful, SuccessInit,
                  SuccessCheck, SuccessPay, SuccessMark, RecordJudgeFee,
                  CancelUpdate, CancelReadBack, ProceedUpdate, VerifExpiryMark,
                  DecideOpen, DecideExpire, AcceptCheck, AcceptDecide, RejectFile,
                  RejectDecide, CompareOpen, CompareDecide, LoserRefund, LoserMark,
                  FileTxn, JudgeStart, JudgeVote, JudgesAgree, JudgesTie,
           VoteFails, JudgeTied,
           AppealMark, ResolveSettle, ResolveFinalize, EffectsRead, EffectsMark
    <2> QED
      BY <1>3, <2>1, StepMoves, MovesType DEF ProcTypeOK
  <1>4. ASSUME NEW p \in Procs, Crash(p)
        PROVE  ProcTypeOK'
    <2>1. crashes' \in 0 .. MaxCrashes
      BY <1>4, BoundsAssumption DEF Crash, ProcTypeOK
    <2> QED
      BY <1>4, <2>1, FinishMoves, MovesType DEF Crash
  <1>5. CASE UNCHANGED vars
    BY <1>5 DEF vars, procVars, ProcTypeOK
  <1> QED
    BY <1>1, <1>2, <1>3, <1>4, <1>5 DEF Next
-----------------------------------------------------------------------------
(* The types of the job row, the ledger and the dispute. *)

LEMMA WorkerJobType ==
    ASSUME JobTypeOK, Worker
    PROVE  JobTypeOK'
  <1>1. CASE claim_job
    BY <1>1, BoundsAssumption DEF JobTypeOK, claim_job, Statuses
  <1>2. CASE LeaseRunsOut \/ release_job_claim \/ VerificationWindowCloses
    BY <1>2 DEF JobTypeOK, LeaseRunsOut, release_job_claim,
                VerificationWindowCloses, Statuses
  <1>3. ASSUME NEW t \in {"none", "running", "awaiting_clarification"},
               add_message(t)
        PROVE  JobTypeOK'
    BY <1>3 DEF JobTypeOK, add_message, Statuses
  <1> QED
    BY <1>1, <1>2, <1>3 DEF Worker

LEMMA StartJobType ==
    ASSUME JobTypeOK, NEW p \in Procs, Start(p)
    PROVE  JobTypeOK'
  <1>1. CASE mark_job_timeout(p) \/ schedule_job_retry(p)
    BY <1>1 DEF mark_job_timeout, schedule_job_retry, GiveUp, JobTypeOK, Statuses
  <1>2. CASE UNCHANGED jobVars
    BY <1>2 DEF jobVars, JobTypeOK
  <1> QED
    BY <1>1, <1>2
       DEF Start, CompleteRead, FailRead, ForceFailList, CancelRead, ProceedList,
           SweepCompleted, VerifExpiryList, DecideRead, CompareRead, FileRead,
           JudgeRead, AdminRead, TieTimeout

LEMMA StepJobType ==
    ASSUME JobTypeOK, ProcTypeOK, NEW p \in Procs, Step(p)
    PROVE  JobTypeOK'
  <1>1. CASE CompleteGate(p) \/ FailUpdate(p) \/ CancelUpdate(p)
    <2>1. \/ UNCHANGED jobVars
          \/ \E s \in {"complete", "failed", "cancelled"} : update_job_status(s)
      BY <1>1 DEF CompleteGate, FailUpdate, CancelUpdate
    <2> QED
      BY <2>1 DEF JobTypeOK, update_job_status, jobVars, Statuses
  <1>2. CASE SuccessMark(p) \/ FailedMark(p) \/ LoserMark(p) \/ EffectsMark(p)
    <2>1. mark_settled
      BY <1>2 DEF SuccessMark, FailedMark, LoserMark, EffectsMark
    <2> QED
      BY <2>1 DEF JobTypeOK, mark_settled
  <1>3. CASE \/ SuccessInit(p) \/ VerifExpiryMark(p) \/ DecideOpen(p)
             \/ DecideExpire(p) \/ AcceptDecide(p) \/ RejectDecide(p)
             \/ CompareOpen(p) \/ CompareDecide(p)
    <2>1. verif' \in VerifStatuses
      BY <1>3 DEF SuccessInit, VerifExpiryMark, DecideOpen, DecideExpire,
                  AcceptDecide, RejectDecide, CompareOpen, CompareDecide,
                  initialize_output_verification_state,
                  mark_output_verification_expired,
                  set_output_verification_decision, JobTypeOK, VerifStatuses
    <2>2. UNCHANGED <<status, completed, settled, vdue, claim, attempts,
                      timedOut, jobOutcome>>
      BY <1>3 DEF SuccessInit, VerifExpiryMark, DecideOpen, DecideExpire,
                  AcceptDecide, RejectDecide, CompareOpen, CompareDecide
    <2> QED
      BY <2>1, <2>2 DEF JobTypeOK
  <1>4. CASE ProceedUpdate(p)
    BY <1>4 DEF ProceedUpdate, JobTypeOK, Statuses
  <1>5. CASE EffectsRead(p)
    <2>1. loc[p].outcome \in AllOutcomes \cup {"none"}
      BY DEF ProcTypeOK, Locs
    <2> QED
      BY <1>5, <2>1 DEF EffectsRead, JobTypeOK
  <1>6. CASE UNCHANGED jobVars
    BY <1>6 DEF jobVars, JobTypeOK
  <1> QED
    BY <1>1, <1>2, <1>3, <1>4, <1>5, <1>6
       DEF Step, SettleFailed, SettleSuccessful, FailedReadBack, FailedPay,
           SuccessCheck, SuccessPay, RecordJudgeFee, CancelReadBack, AcceptCheck,
           RejectFile, LoserRefund, FileTxn, JudgeStart, JudgeVote, JudgesAgree, JudgesTie,
           VoteFails, JudgeTied,
           AppealMark, ResolveSettle, ResolveFinalize

LEMMA CentsTypes ==
    /\ Payout \in Nat /\ Fee \in Nat /\ Charge \in Nat /\ JudgeFee \in Nat
    /\ SplitCaller \in Nat /\ SplitAgent \in Nat /\ PlatformFloat \in Nat
    /\ Payout > 0 /\ Charge = Payout + Fee
    /\ \A s \in Splits :
          /\ s.refund \in Nat /\ s.payout \in Nat /\ s.fee \in Nat
          /\ s.refund > 0
          /\ s.refund + s.payout + s.fee = Charge
  BY CentsAssumption DEF Charge, Splits, NoSplit

LEMMA AwardType ==
    ASSUME NEW o, NEW e \in Int
    PROVE  /\ Award(o, e).caller \in Int /\ Award(o, e).agent \in Int
           /\ Award(o, e).platform \in Int /\ Award(o, e).escrow \in Int
  BY CentsTypes DEF Award, Least

\* What one payment does to the rows: nothing else touches them.
Pays(p) ==
    \/ post_call_payout
    \/ post_call_refund
    \/ post_call_partial_settle(loc[p].split)

LEMMA PaysType ==
    ASSUME LedgerTypeOK, ProcTypeOK, NEW p \in Procs, Pays(p), crossed' \in BOOLEAN
    PROVE  LedgerTypeOK'
  <1> USE CentsTypes
  <1>1. loc[p].split \in Splits
    BY DEF ProcTypeOK, Locs
  <1>2. /\ loc[p].split.refund \in Nat /\ loc[p].split.payout \in Nat
        /\ loc[p].split.fee \in Nat
    BY <1>1
  <1>3. refund' \in Nat /\ payout' \in Nat /\ fee' \in Nat /\ UNCHANGED judgePaid
    BY <1>2 DEF Pays, post_call_payout, post_call_refund,
                post_call_partial_settle, LedgerTypeOK
  <1>4. bal' \in [Wallets -> Int]
    BY <1>3 DEF Pays, post_call_payout, post_call_refund,
                post_call_partial_settle, LedgerTypeOK, Wallets
  <1> QED
    BY <1>3, <1>4 DEF LedgerTypeOK

LEMMA StepLedger ==
    ASSUME NEW p \in Procs, Step(p)
    PROVE  \/ pc[p] \in {"s_pay", "f_pay", "l_pay"} /\ Pays(p)
           \/ RecordJudgeFee(p)
           \/ lock_dispute_funds
           \/ ResolveSettle(p)
           \/ UNCHANGED ledgerVars
  <1>1. CASE SuccessPay(p) \/ FailedPay(p) \/ LoserRefund(p)
    BY <1>1 DEF SuccessPay, FailedPay, LoserRefund, Pays
  <1>2. CASE FileTxn(p) \/ RejectFile(p)
    BY <1>2 DEF FileTxn, RejectFile, create_dispute
  <1>3. CASE UNCHANGED ledgerVars
    BY <1>3
  <1> QED
    BY <1>1, <1>2, <1>3
       DEF Step, SettleFailed, SettleSuccessful, CompleteGate, FailUpdate,
           FailedReadBack, FailedMark, SuccessInit, SuccessCheck, SuccessMark,
           CancelUpdate, CancelReadBack, ProceedUpdate, VerifExpiryMark,
           DecideOpen, DecideExpire, AcceptCheck, AcceptDecide, RejectDecide,
           CompareOpen, CompareDecide, LoserMark, JudgeStart, JudgeVote, JudgesAgree, JudgesTie,
           VoteFails, JudgeTied,
           AppealMark, ResolveFinalize, EffectsRead, EffectsMark

\* What has crossed stays so.
LEMMA StepCrosses ==
    ASSUME NEW p \in Procs, Step(p), crossed \in BOOLEAN
    PROVE  crossed' \in BOOLEAN /\ (crossed => crossed')
  <1>1. CASE \/ CompleteGate(p) \/ FailUpdate(p) \/ CancelUpdate(p) \/ ProceedUpdate(p)
             \/ SuccessPay(p) \/ LoserRefund(p)
    <2>1. \/ UNCHANGED crossed
          \/ crossed' = TRUE
          \/ crossed' = (crossed \/ completed)
          \/ crossed' = (crossed \/ (dispute # "none" /\ ledgerVars' # ledgerVars))
          \/ \E s \in {"complete", "failed", "cancelled"} :
                crossed' = (crossed \/ (completed /\ status # s))
      BY <1>1 DEF CompleteGate, FailUpdate, CancelUpdate, ProceedUpdate, SuccessPay,
                  LoserRefund, update_job_status
    <2> QED
      BY <2>1
  <1>2. CASE UNCHANGED crossed
    BY <1>2
  <1> QED
    BY <1>1, <1>2
       DEF Step, SettleFailed, SettleSuccessful, FailedReadBack, FailedPay, FailedMark,
           SuccessInit, SuccessCheck, SuccessMark, RecordJudgeFee, CancelReadBack,
           VerifExpiryMark, DecideOpen, DecideExpire, AcceptCheck, AcceptDecide,
           RejectFile, RejectDecide, CompareOpen, CompareDecide, LoserMark, FileTxn,
           JudgeStart, JudgeVote, JudgesAgree, JudgesTie, VoteFails, JudgeTied,
           AppealMark, ResolveSettle, ResolveFinalize, EffectsRead, EffectsMark

LEMMA StepLedgerType ==
    ASSUME LedgerTypeOK, ProcTypeOK, NEW p \in Procs, Step(p)
    PROVE  LedgerTypeOK'
  <1> USE CentsTypes
  <1>1. crossed' \in BOOLEAN
    BY StepCrosses DEF LedgerTypeOK
  <1>2. CASE Pays(p)
    BY <1>1, <1>2, PaysType
  <1>3. CASE RecordJudgeFee(p)
    <2>1. bal' \in [Wallets -> Int]
      BY <1>3 DEF RecordJudgeFee, LedgerTypeOK, Wallets
    <2>2. judgePaid' \in BOOLEAN
      BY <1>3 DEF RecordJudgeFee, LedgerTypeOK
    <2> QED
      BY <1>1, <1>3, <2>1, <2>2 DEF RecordJudgeFee, LedgerTypeOK
  <1>4. CASE lock_dispute_funds
    BY <1>1, <1>4 DEF lock_dispute_funds, LedgerTypeOK, Wallets
  <1>5. CASE ResolveSettle(p)
    <2>1. bal["escrow"] \in Int
      BY DEF LedgerTypeOK, Wallets
    <2>2. bal' \in [Wallets -> Int]
      BY <1>5, <2>1, AwardType
         DEF ResolveSettle, post_dispute_settlement, LedgerTypeOK, Wallets
    <2> QED
      BY <1>1, <1>5, <2>2 DEF ResolveSettle, LedgerTypeOK
  <1>6. CASE UNCHANGED ledgerVars
    BY <1>1, <1>6 DEF ledgerVars, LedgerTypeOK
  <1> QED
    BY <1>2, <1>3, <1>4, <1>5, <1>6, StepLedger

LEMMA StepDisputeType ==
    ASSUME DisputeTypeOK, ProcTypeOK, NEW p \in Procs, Step(p)
    PROVE  DisputeTypeOK'
  <1>1. loc[p].outcome \in AllOutcomes \cup {"none"}
    BY DEF ProcTypeOK, Locs
  <1>2. CASE FileTxn(p) \/ RejectFile(p)
    BY <1>2 DEF FileTxn, RejectFile, create_dispute, DisputeTypeOK, disputeVars
  <1>3. CASE ResolveSettle(p) \/ ResolveFinalize(p)
    BY <1>1, <1>3 DEF ResolveSettle, ResolveFinalize, post_dispute_settlement,
                      DisputeTypeOK
  <1>4. CASE JudgeStart(p) \/ JudgeVote(p) \/ JudgeTied(p) \/ AppealMark(p)
    BY <1>4, BoundsAssumption
       DEF JudgeStart, JudgeVote, JudgesAgree, JudgesTie,
           VoteFails, JudgeTied, AppealMark, DisputeTypeOK
  <1>5. CASE UNCHANGED disputeVars
    BY <1>5 DEF disputeVars, DisputeTypeOK
  <1> QED
    BY <1>2, <1>3, <1>4, <1>5
       DEF Step, SettleFailed, SettleSuccessful, CompleteGate, FailUpdate,
           FailedReadBack, FailedPay, FailedMark, SuccessInit, SuccessCheck,
           SuccessPay, SuccessMark, RecordJudgeFee, CancelUpdate, CancelReadBack,
           ProceedUpdate, VerifExpiryMark, DecideOpen, DecideExpire, AcceptCheck,
           AcceptDecide, RejectDecide, CompareOpen, CompareDecide, LoserRefund,
           LoserMark, EffectsRead, EffectsMark

\* Outside the steps of a handler the money does not move.
LEMMA OthersKeepMoney ==
    ASSUME \/ Worker
           \/ \E p \in Procs : Start(p) \/ Crash(p)
           \/ UNCHANGED vars
    PROVE  UNCHANGED <<ledgerVars, disputeVars, crossed>>
  <1>1. CASE Worker
    BY <1>1 DEF Worker, claim_job, LeaseRunsOut, release_job_claim, add_message,
                VerificationWindowCloses
  <1>2. ASSUME NEW p \in Procs, Start(p)
        PROVE  UNCHANGED <<ledgerVars, disputeVars, crossed>>
    BY <1>2 DEF Start, CompleteRead, FailRead, ForceFailList, mark_job_timeout,
                schedule_job_retry, CancelRead, ProceedList, SweepCompleted,
                VerifExpiryList, DecideRead, CompareRead, FileRead,
                JudgeRead, AdminRead, TieTimeout
  <1>3. CASE \E p \in Procs : Crash(p)
    BY <1>3 DEF Crash
  <1>4. CASE UNCHANGED vars
    BY <1>4 DEF vars
  <1> QED
    BY <1>1, <1>2, <1>3, <1>4

LEMMA NextType ==
    ASSUME TypeOK, [Next]_vars
    PROVE  TypeOK'
  <1> USE DEF TypeOK
  <1>1. ProcTypeOK'
    BY NextProcType
  <1>2. JobTypeOK'
    <2>1. CASE \E p \in Procs : Crash(p)
      BY <2>1 DEF Crash, jobVars, JobTypeOK
    <2>2. CASE UNCHANGED vars
      BY <2>2 DEF vars, jobVars, JobTypeOK
    <2> QED
      BY <2>1, <2>2, WorkerJobType, StartJobType, StepJobType DEF Next
  <1>3. LedgerTypeOK' /\ DisputeTypeOK'
    <2>1. CASE \E p \in Procs : Step(p)
      BY <2>1, StepLedgerType, StepDisputeType
    <2>2. CASE UNCHANGED <<ledgerVars, disputeVars, crossed>>
      BY <2>2 DEF ledgerVars, disputeVars, LedgerTypeOK, DisputeTypeOK
    <2> QED
      BY <2>1, <2>2, OthersKeepMoney DEF Next
  <1> QED
    BY <1>1, <1>2, <1>3

LEMMA InitType == Init => TypeOK
  <1> SUFFICES ASSUME Init PROVE TypeOK
    OBVIOUS
  <1>1. JobTypeOK
    <2>1. attempts \in 0 .. MaxAttempts
      BY BoundsAssumption DEF Init
    <2>2. verif \in VerifStatuses /\ status \in Statuses
      BY DEF Init, VerifStatuses, Statuses
    <2> QED
      BY <2>1, <2>2 DEF Init, JobTypeOK
  <1>2. LedgerTypeOK
    <2>1. bal \in [Wallets -> Int]
      BY CentsTypes DEF Init
    <2> QED
      BY <2>1 DEF Init, LedgerTypeOK
  <1>3. DisputeTypeOK
    BY DEF Init, DisputeTypeOK
  <1>4. ProcTypeOK
    BY NoLocType, BoundsAssumption DEF Init, ProcTypeOK, Labels
  <1> QED
    BY <1>1, <1>2, <1>3, <1>4 DEF TypeOK

\* Every column of the job, the ledger and the dispute keeps its type, and
\* attempt_count never exceeds max_attempts, under any concurrency of claims,
\* timeouts and retries.
THEOREM TypeCorrect == Spec => []TypeOK
  BY InitType, NextType, PTL DEF Spec

-----------------------------------------------------------------------------
(* The money.  SettledMeansDistributed is not inductive: a handler between   *)
(* its payment and its mark_settled will stamp the job whatever the ledger   *)
(* says by then, so the invariant has to speak of the handlers' positions.   *)

Distributed == Legs = Charge

Ruled == ledgerOutcome # "none"

\* The rows of a charge are absent, a complete payout, or contain a refund that
\* makes up the charge.
RowsShape ==
    /\ refund = 0 => \/ payout = 0 /\ fee = 0
                     \/ payout = Payout /\ fee = Fee
    /\ refund # 0 => Distributed

\* A handler about to stamp settled_at has paid; a ruling about to be applied
\* is in the ledger.
Position(p) ==
    /\ pc[p] \in {"s_mark", "f_mark", "l_mark"} => Distributed
    /\ pc[p] \in {"d_finalize", "e_read", "e_mark"} => Ruled
    /\ pc[p] \in {"appeal_upd", "d_settle"} => loc[p].outcome \in AllOutcomes

MoneyInv ==
    /\ RowsShape
    /\ SettledMeansDistributed
    /\ \A p \in Procs : Position(p)

LEMMA PaysDistributes ==
    ASSUME LedgerTypeOK, ProcTypeOK, RowsShape, NEW p \in Procs, Pays(p)
    PROVE  RowsShape' /\ Distributed'
  <1> USE CentsTypes DEF RowsShape, Distributed, Legs, LedgerTypeOK
  <1>1. CASE post_call_payout
    BY <1>1 DEF post_call_payout
  <1>2. CASE post_call_refund
    BY <1>2 DEF post_call_refund
  <1>3. CASE post_call_partial_settle(loc[p].split)
    <2>1. loc[p].split \in Splits
      BY DEF ProcTypeOK, Locs
    <2> QED
      BY <1>3, <2>1 DEF post_call_partial_settle
  <1> QED
    BY <1>1, <1>2, <1>3 DEF Pays

LEMMA RowsKept ==
    ASSUME UNCHANGED <<refund, payout, fee>>
    PROVE  (RowsShape => RowsShape') /\ (Distributed => Distributed')
  BY DEF RowsShape, Distributed, Legs

\* Rows and ruling only ever go from absent to present.
LEMMA StepMoney ==
    ASSUME LedgerTypeOK, ProcTypeOK, MoneyInv, NEW p \in Procs, Step(p)
    PROVE  /\ RowsShape'
           /\ Distributed => Distributed'
           /\ Ruled => Ruled'
  <1>1. RowsShape' /\ (Distributed => Distributed')
    <2>1. CASE Pays(p)
      BY <2>1, PaysDistributes DEF MoneyInv
    <2>2. CASE UNCHANGED <<refund, payout, fee>>
      BY <2>2, RowsKept DEF MoneyInv
    <2> QED
      BY <2>1, <2>2, StepLedger
         DEF RecordJudgeFee, lock_dispute_funds, ResolveSettle, ledgerVars
  <1>2. Ruled => Ruled'
    BY DEF Ruled, disputeVars, create_dispute, post_dispute_settlement,
           Step, SettleFailed, SettleSuccessful, CompleteGate, FailUpdate,
           FailedReadBack, FailedPay, FailedMark, SuccessInit, SuccessCheck,
           SuccessPay, SuccessMark, RecordJudgeFee, CancelUpdate, CancelReadBack,
           ProceedUpdate, VerifExpiryMark, DecideOpen, DecideExpire, AcceptCheck,
           AcceptDecide, RejectFile, RejectDecide, CompareOpen, CompareDecide,
           LoserRefund, LoserMark, FileTxn, JudgeStart, JudgeVote, JudgesAgree, JudgesTie,
           VoteFails, JudgeTied,
           AppealMark, ResolveSettle, ResolveFinalize,
           EffectsRead, EffectsMark
  <1> QED
    BY <1>1, <1>2

\* Handlers other than the one that steps keep their position.
LEMMA OthersKeepPosition ==
    ASSUME ProcTypeOK, NEW p \in Procs, Moves(p), NEW q \in Procs \ {p},
           Position(q), Distributed => Distributed', Ruled => Ruled'
    PROVE  Position(q)'
  <1>1. pc'[q] = pc[q] /\ loc'[q] = loc[q]
    BY DEF ProcTypeOK, Moves
  <1> QED
    BY <1>1 DEF Position

\* The positions that Position says something about.
Pledged == {"s_mark", "f_mark", "l_mark", "d_finalize", "e_read", "e_mark",
            "appeal_upd", "d_settle"}

LEMMA UnpledgedPosition ==
    ASSUME NEW p \in Procs, pc'[p] \notin Pledged
    PROVE  Position(p)'
  BY DEF Position, Pledged

LEMMA StepPosition ==
    ASSUME LedgerTypeOK, ProcTypeOK, MoneyInv, NEW p \in Procs, Step(p)
    PROVE  Position(p)'
  <1> USE DEF Pledged, ProcTypeOK, Forget, Goto, Finish
  <1>1. CASE SuccessPay(p) \/ FailedPay(p) \/ LoserRefund(p)
    <2>1. Pays(p)
      BY <1>1 DEF SuccessPay, FailedPay, LoserRefund, Pays
    <2>2. pc'[p] \in {"s_mark", "f_mark", "l_mark"}
      BY <1>1 DEF SuccessPay, FailedPay, LoserRefund
    <2> QED
      BY <2>1, <2>2, PaysDistributes DEF MoneyInv, Position
  <1>2. CASE ResolveSettle(p)
    <2>1. loc[p].outcome \in AllOutcomes
      BY <1>2 DEF ResolveSettle, MoneyInv, Position
    <2>2. CASE pc'[p] = "d_finalize" /\ post_dispute_settlement(loc[p].outcome)
      BY <2>1, <2>2 DEF post_dispute_settlement, Ruled, AllOutcomes, Position
    <2>3. CASE pc'[p] = "idle"
      BY <2>3, UnpledgedPosition
    <2> QED
      BY <1>2, <2>2, <2>3 DEF ResolveSettle
  <1>3. CASE ResolveFinalize(p) \/ EffectsRead(p)
    <2>1. Ruled /\ UNCHANGED ledgerOutcome
      BY <1>3 DEF ResolveFinalize, EffectsRead, MoneyInv, Position, disputeVars
    <2>2. pc'[p] \in {"e_read", "e_mark", "idle"}
      BY <1>3 DEF ResolveFinalize, EffectsRead
    <2> QED
      BY <2>1, <2>2 DEF Position, Ruled
  <1>4. CASE \/ CompleteGate(p) \/ FailUpdate(p) \/ CancelUpdate(p)
             \/ CancelReadBack(p) \/ ProceedUpdate(p) \/ VerifExpiryMark(p)
             \/ FailedReadBack(p) \/ FailedMark(p)
    <2>1. pc'[p] \notin Pledged
      BY <1>4 DEF CompleteGate, FailUpdate, CancelUpdate, CancelReadBack,
                  ProceedUpdate, VerifExpiryMark, FailedReadBack, FailedMark
    <2> QED
      BY <2>1, UnpledgedPosition
  <1>5. CASE \/ SuccessInit(p) \/ SuccessCheck(p) \/ SuccessMark(p)
             \/ RecordJudgeFee(p) \/ DecideOpen(p) \/ DecideExpire(p)
             \/ AcceptCheck(p) \/ AcceptDecide(p)
    <2>1. pc'[p] \notin Pledged
      BY <1>5 DEF SuccessInit, SuccessCheck, SuccessMark, RecordJudgeFee,
                  SuccessReturns, DecideOpen, DecideExpire, DecideNext,
                  AcceptCheck, AcceptDecide
    <2> QED
      BY <2>1, UnpledgedPosition
  <1>6. CASE \/ RejectFile(p) \/ RejectDecide(p) \/ CompareOpen(p)
             \/ CompareDecide(p) \/ LoserMark(p) \/ FileTxn(p) \/ EffectsMark(p)
    <2>1. pc'[p] \notin Pledged
      BY <1>6 DEF RejectFile, RejectDecide, CompareOpen, CompareDecide,
                  CompareSettle, LoserMark, FileTxn, EffectsMark
    <2> QED
      BY <2>1, UnpledgedPosition
  <1>7. CASE JudgeStart(p) \/ JudgeTied(p)
    <2>1. pc'[p] \notin Pledged
      BY <1>7 DEF JudgeStart, JudgeTied
    <2> QED
      BY <2>1, UnpledgedPosition
  <1>8. CASE AppealMark(p)
    <2>1. /\ pc'[p] = "d_settle" /\ loc'[p] = loc[p]
          /\ loc[p].outcome \in AllOutcomes
      BY <1>8 DEF AppealMark, MoneyInv, Position
    <2> QED
      BY <2>1 DEF Position
  <1>9. CASE JudgeVote(p)
    <2>1. ASSUME NEW o \in Outcomes,
                 pc' = [pc EXCEPT ![p] = "d_settle"],
                 loc' = [loc EXCEPT ![p].outcome = o]
          PROVE  Position(p)'
      <3>1. pc'[p] = "d_settle" /\ loc'[p] = [loc[p] EXCEPT !.outcome = o]
        BY <2>1
      <3>2. loc'[p].outcome = o
        BY <3>1 DEF Locs
      <3> QED
        BY <3>1, <3>2, BoundsAssumption DEF Position
    <2>2. CASE pc'[p] \notin Pledged
      BY <2>2, UnpledgedPosition
    <2> QED
      BY <1>9, <2>1, <2>2 DEF JudgeVote, JudgesAgree, JudgesTie, VoteFails
  <1> QED
    BY <1>1, <1>2, <1>3, <1>4, <1>5, <1>6, <1>7, <1>8, <1>9
       DEF Step, SettleFailed, SettleSuccessful

LEMMA StartPosition ==
    ASSUME ProcTypeOK, NEW p \in Procs, Position(p), Start(p)
    PROVE  Position(p)'
  <1> USE DEF Pledged, ProcTypeOK, BeginWith, Begin, BeginAs
  <1>1. ASSUME NEW o \in Outcomes, AdminRead(p, o)
        PROVE  Position(p)'
    <2>1. /\ pc'[p] \in {"d_settle", "appeal_upd"}
          /\ loc'[p] = [NoLoc EXCEPT !.kind = "admin", !.outcome = o]
      BY <1>1 DEF AdminRead
    <2>2. loc'[p].outcome = o
      BY <2>1 DEF NoLoc
    <2> QED
      BY <2>1, <2>2, BoundsAssumption DEF Position
  <1>2. CASE mark_job_timeout(p) \/ schedule_job_retry(p)
    <2>1. pc'[p] \in {"idle", "f_read"}
      BY <1>2 DEF mark_job_timeout, schedule_job_retry, GiveUp, procVars
    <2> QED
      BY <2>1, UnpledgedPosition
  <1>3. CASE \/ \E k \in {"complete", "master_complete"} : CompleteRead(p, k)
             \/ \E k \in {"fail", "master_fail"}, s \in Splits : FailRead(p, k, s)
             \/ \E k \in ForceKinds : ForceFailList(p, k)
             \/ CancelRead(p) \/ ProceedList(p) \/ SweepCompleted(p)
             \/ VerifExpiryList(p)
             \/ \E k \in {"accept", "reject"} : DecideRead(p, k)
             \/ \E k \in {"compare_winner", "compare_loser"} : CompareRead(p, k)
             \/ FileRead(p) \/ JudgeRead(p)
    <2>1. pc'[p] \notin Pledged
      BY <1>3 DEF CompleteRead, FailRead, ForceFailList, CancelRead, ProceedList,
                  SweepCompleted, VerifExpiryList, DecideRead, CompareRead, FileRead,
                  JudgeRead
    <2> QED
      BY <2>1, UnpledgedPosition
  <1>4. CASE TieTimeout(p)
    <2>1. /\ pc'[p] = "d_settle"
          /\ loc'[p] = [NoLoc EXCEPT !.kind = "tie_timeout", !.outcome = "agent_wins"]
      BY <1>4 DEF TieTimeout
    <2>2. loc'[p].outcome = "agent_wins"
      BY <2>1 DEF NoLoc
    <2> QED
      BY <2>1, <2>2 DEF Position, AllOutcomes
  <1> QED
    BY <1>1, <1>2, <1>3, <1>4 DEF Start

\* settled_at is stamped only from a position that justifies it.
LEMMA StepSettles ==
    ASSUME LedgerTypeOK, ProcTypeOK, MoneyInv, NEW p \in Procs, Step(p)
    PROVE  SettledMeansDistributed'
  <1>1. SettledMeansDistributed <=> (settled => Distributed \/ Ruled)
    BY DEF SettledMeansDistributed, Distributed, Ruled
  <1>2. SettledMeansDistributed' <=> (settled' => Distributed' \/ Ruled')
    BY DEF SettledMeansDistributed, Distributed, Ruled
  <1>3. CASE SuccessMark(p) \/ FailedMark(p) \/ LoserMark(p) \/ EffectsMark(p)
    <2>1. Distributed \/ Ruled
      BY <1>3 DEF SuccessMark, FailedMark, LoserMark, EffectsMark, MoneyInv,
                  Position
    <2> QED
      BY <1>2, <2>1, StepMoney
  <1>4. CASE settled' = settled
    BY <1>1, <1>2, <1>4, StepMoney DEF MoneyInv
  <1> QED
    BY <1>3, <1>4
       DEF jobVars, update_job_status,
           Step, SettleFailed, SettleSuccessful, CompleteGate, FailUpdate,
           FailedReadBack, FailedPay, SuccessInit, SuccessCheck,
           SuccessPay, RecordJudgeFee, CancelUpdate, CancelReadBack,
           ProceedUpdate, VerifExpiryMark, DecideOpen, DecideExpire, AcceptCheck,
           AcceptDecide, RejectFile, RejectDecide, CompareOpen, CompareDecide,
           LoserRefund, FileTxn, JudgeStart, JudgeVote, JudgesAgree, JudgesTie,
           VoteFails, JudgeTied,
           AppealMark, ResolveSettle, ResolveFinalize, EffectsRead

LEMMA OthersSettle ==
    ASSUME MoneyInv,
           \/ Worker
           \/ \E p \in Procs : Start(p) \/ Crash(p)
           \/ UNCHANGED vars
    PROVE  RowsShape' /\ SettledMeansDistributed'
           /\ (Distributed => Distributed') /\ (Ruled => Ruled')
  <1>1. UNCHANGED <<refund, payout, fee, ledgerOutcome>>
    BY OthersKeepMoney DEF ledgerVars, disputeVars
  <1>2. settled' = settled
    <2>1. CASE Worker
      BY <2>1 DEF Worker, claim_job, LeaseRunsOut, release_job_claim, add_message,
                  VerificationWindowCloses
    <2>2. ASSUME NEW p \in Procs, Start(p)
          PROVE  settled' = settled
      BY <2>2 DEF Start, CompleteRead, FailRead, ForceFailList, mark_job_timeout,
                  schedule_job_retry, CancelRead, ProceedList, SweepCompleted,
                  VerifExpiryList, DecideRead, CompareRead, FileRead,
                JudgeRead, AdminRead, TieTimeout,
                  jobVars
    <2>3. CASE (\E p \in Procs : Crash(p)) \/ UNCHANGED vars
      BY <2>3 DEF Crash, vars, jobVars
    <2> QED
      BY <2>1, <2>2, <2>3
  <1> QED
    BY <1>1, <1>2, RowsKept
       DEF MoneyInv, SettledMeansDistributed, Ruled, Legs, Distributed

LEMMA NextMoney ==
    ASSUME TypeOK, MoneyInv, [Next]_vars
    PROVE  MoneyInv'
  <1> USE DEF TypeOK
  <1>1. ASSUME NEW p \in Procs, Step(p)
        PROVE  MoneyInv'
    <2>1. Moves(p)
      BY <1>1, StepMoves
    <2>2. ASSUME NEW q \in Procs PROVE Position(q)'
      BY <1>1, <2>1, StepMoney, StepPosition, OthersKeepPosition DEF MoneyInv
    <2> QED
      BY <1>1, <2>2, StepMoney, StepSettles DEF MoneyInv
  <1>2. ASSUME NEW p \in Procs, Start(p)
        PROVE  MoneyInv'
    <2>1. Moves(p) \/ UNCHANGED procVars
      BY <1>2, StartMoves
    <2>2. RowsShape' /\ SettledMeansDistributed'
          /\ (Distributed => Distributed') /\ (Ruled => Ruled')
      BY <1>2, OthersSettle
    <2>3. Position(p)'
      BY <1>2, StartPosition DEF MoneyInv
    <2>4. ASSUME NEW q \in Procs \ {p} PROVE Position(q)'
      <3>1. CASE Moves(p)
        BY <3>1, <2>2, OthersKeepPosition DEF MoneyInv
      <3>2. CASE UNCHANGED procVars
        BY <3>2, <2>2 DEF MoneyInv, Position, procVars
      <3> QED
        BY <2>1, <3>1, <3>2
    <2> QED
      BY <2>2, <2>3, <2>4 DEF MoneyInv
  <1>3. ASSUME NEW p \in Procs, Crash(p)
        PROVE  MoneyInv'
    <2>1. Moves(p) /\ pc'[p] \notin Pledged
      BY <1>3, FinishMoves DEF Crash, Finish, Forget, Pledged, ProcTypeOK
    <2>2. RowsShape' /\ SettledMeansDistributed'
          /\ (Distributed => Distributed') /\ (Ruled => Ruled')
      BY <1>3, OthersSettle
    <2>3. ASSUME NEW q \in Procs PROVE Position(q)'
      BY <2>1, <2>2, UnpledgedPosition, OthersKeepPosition DEF MoneyInv
    <2> QED
      BY <2>2, <2>3 DEF MoneyInv
  <1>4. CASE Worker \/ UNCHANGED vars
    <2>1. RowsShape' /\ SettledMeansDistributed'
          /\ (Distributed => Distributed') /\ (Ruled => Ruled')
      BY <1>4, OthersSettle
    <2>2. UNCHANGED procVars
      BY <1>4 DEF Worker, claim_job, LeaseRunsOut, release_job_claim, add_message,
                  VerificationWindowCloses, vars
    <2>3. ASSUME NEW q \in Procs PROVE Position(q)'
      BY <2>1, <2>2 DEF MoneyInv, Position, procVars
    <2> QED
      BY <2>1, <2>3 DEF MoneyInv
  <1> QED
    BY <1>1, <1>2, <1>3, <1>4 DEF Next

LEMMA MoneyInvariant == Spec => []MoneyInv
  <1>1. Init => MoneyInv
    BY DEF Init, MoneyInv, RowsShape, SettledMeansDistributed, Position
  <1> QED
    BY <1>1, NextMoney, TypeCorrect, PTL DEF Spec

\* settled_at is never stamped on a job whose charge is undistributed, for any
\* number of handlers that complete, fail, cancel, sweep and rule at once.
THEOREM SettledDistributed == Spec => []SettledMeansDistributed
  <1>1. MoneyInv => SettledMeansDistributed
    BY DEF MoneyInv
  <1> QED
    BY <1>1, MoneyInvariant, PTL

\* post_call_payout, post_call_refund and post_call_partial_settle distribute a
\* charge once and whole, whatever the order of their callers.
THEOREM LegsExact == Spec => []ChargeLegsExact
  <1>1. TypeOK /\ MoneyInv => ChargeLegsExact
    BY CentsTypes DEF TypeOK, LedgerTypeOK, MoneyInv, RowsShape, Distributed,
                      Legs, ChargeLegsExact
  <1> QED
    BY <1>1, MoneyInvariant, TypeCorrect, PTL

-----------------------------------------------------------------------------
(* Money moves only behind completed_at.  The handlers read the job in one    *)
(* transaction and move money in a later one, so the invariant has to speak   *)
(* of where they are.                                                         *)

\* The positions of a handler that may find its job unfinished.
Early == {"idle", "c_gate", "fail_upd", "force_upd", "cancel_upd", "proceed_upd"}

EndedInv ==
    /\ status \in {"complete", "failed", "cancelled"} => completed
    /\ dispute # "none" => completed
    /\ \A p \in Procs : pc[p] \notin Early => completed

\* A job that has finished stays so, and asks for nothing more.
LEMMA FinishedStaysEnded ==
    ASSUME FinishedIsUnclaimed, [Next]_vars, completed
    PROVE  EndedInv'
  BY NextFinished DEF EndedInv

LEMMA StartEnded ==
    ASSUME EndedInv, ProcTypeOK, ~completed, NEW p \in Procs, Start(p)
    PROVE  EndedInv'
  <1> USE DEF EndedInv, Early, ProcTypeOK, Begin, BeginAs, BeginWith, jobVars,
              disputeVars, procVars
  <1>1. CASE mark_job_timeout(p) \/ schedule_job_retry(p)
    BY <1>1 DEF mark_job_timeout, schedule_job_retry, GiveUp
  <1>2. CASE \/ \E k \in {"complete", "master_complete"} : CompleteRead(p, k)
             \/ \E k \in {"fail", "master_fail"}, s \in Splits : FailRead(p, k, s)
    BY <1>2 DEF CompleteRead, FailRead
  <1>3. CASE \/ \E k \in ForceKinds : ForceFailList(p, k)
             \/ CancelRead(p) \/ ProceedList(p)
    BY <1>3 DEF ForceFailList, CancelRead, ProceedList
  <1>4. CASE \/ SweepCompleted(p) \/ VerifExpiryList(p) \/ FileRead(p)
             \/ \E k \in {"accept", "reject"} : DecideRead(p, k)
             \/ \E k \in {"compare_winner", "compare_loser"} : CompareRead(p, k)
    BY <1>4 DEF SweepCompleted, VerifExpiryList, FileRead, DecideRead, CompareRead,
                CompleteUnsettled
  <1>5. CASE JudgeRead(p) \/ TieTimeout(p) \/ \E o \in Outcomes : AdminRead(p, o)
    BY <1>5 DEF JudgeRead, TieTimeout, AdminRead
  <1> QED
    BY <1>1, <1>2, <1>3, <1>4, <1>5 DEF Start

\* The only steps that a handler can take on an unfinished job.
LEMMA EarlySteps ==
    ASSUME NEW p \in Procs, pc[p] \in Early, Step(p)
    PROVE  CompleteGate(p) \/ FailUpdate(p) \/ CancelUpdate(p) \/ ProceedUpdate(p)
  BY DEF Early, Step, SettleFailed, SettleSuccessful, FailedReadBack, FailedPay,
         FailedMark, SuccessInit, SuccessCheck, SuccessPay, SuccessMark,
         RecordJudgeFee, CancelReadBack, VerifExpiryMark, DecideOpen, DecideExpire,
         AcceptCheck, AcceptDecide, RejectFile, RejectDecide, CompareOpen,
         CompareDecide, LoserRefund, LoserMark, FileTxn, JudgeStart, JudgeVote,
         JudgesAgree, JudgesTie, VoteFails, JudgeTied, AppealMark, ResolveSettle,
         ResolveFinalize, EffectsRead, EffectsMark

LEMMA StepEnded ==
    ASSUME EndedInv, ProcTypeOK, ~completed, NEW p \in Procs, Step(p)
    PROVE  EndedInv'
  <1>1. pc[p] \in Early
    BY DEF EndedInv
  <1> USE DEF EndedInv, Early, ProcTypeOK, Finish, Forget, Goto, jobVars,
              disputeVars, update_job_status
  <1>2. CASE CompleteGate(p)
    BY <1>2 DEF CompleteGate
  <1>3. CASE FailUpdate(p) \/ CancelUpdate(p)
    BY <1>3 DEF FailUpdate, CancelUpdate
  <1>4. CASE ProceedUpdate(p)
    BY <1>4 DEF ProceedUpdate
  <1> QED
    BY <1>1, <1>2, <1>3, <1>4, EarlySteps

LEMMA NextEnded ==
    ASSUME EndedInv, ProcTypeOK, FinishedIsUnclaimed, [Next]_vars
    PROVE  EndedInv'
  <1>1. CASE completed
    BY <1>1, FinishedStaysEnded
  <1>2. CASE ~completed /\ Worker
    BY <1>2 DEF EndedInv, Worker, claim_job, LeaseRunsOut, release_job_claim,
                add_message, VerificationWindowCloses, procVars, disputeVars
  <1>3. ASSUME ~completed, NEW p \in Procs, Crash(p)
        PROVE  EndedInv'
    BY <1>3 DEF Crash, Finish, Forget, EndedInv, Early, ProcTypeOK, jobVars,
                disputeVars
  <1>4. CASE UNCHANGED vars
    BY <1>4 DEF vars, jobVars, procVars, disputeVars, EndedInv
  <1> QED
    BY <1>1, <1>2, <1>3, <1>4, StartEnded, StepEnded DEF Next

\* Nothing works on the money of a job that has not finished.
LEMMA EndedInvariant == Spec => []EndedInv
  <1>1. Init => EndedInv
    BY DEF Init, EndedInv, Early
  <1> QED
    BY <1>1, NextEnded, TypeCorrect, FinishedUnclaimed, PTL DEF Spec, TypeOK

-----------------------------------------------------------------------------
(* The dispute and its escrow, for any number of handlers.                   *)

\* The positions of a handler that rules on a dispute.
Hearing == {"j_start", "j_vote", "j_tied", "appeal_upd", "d_settle", "d_finalize",
            "e_read", "e_mark"}

DisputeInv ==
    /\ Ruled => dispute # "none"
    /\ \A p \in Procs : pc[p] \in Hearing => dispute # "none"

LEMMA StepDispute ==
    ASSUME NEW p \in Procs, Step(p)
    PROVE  \/ UNCHANGED dispute
           \/ dispute' \in {"open", "tied", "consensus", "appealed", "resolved",
                            "final"}
  BY DEF disputeVars, create_dispute, Step, SettleFailed, SettleSuccessful,
         CompleteGate, FailUpdate, FailedReadBack, FailedPay, FailedMark,
         SuccessInit, SuccessCheck, SuccessPay, SuccessMark, RecordJudgeFee,
         CancelUpdate, CancelReadBack, ProceedUpdate, VerifExpiryMark, DecideOpen,
         DecideExpire, AcceptCheck, AcceptDecide, RejectFile, RejectDecide,
         CompareOpen, CompareDecide, LoserRefund, LoserMark, FileTxn, JudgeStart,
         JudgeVote, JudgesAgree, JudgesTie, VoteFails, JudgeTied, AppealMark,
         ResolveSettle, ResolveFinalize, EffectsRead, EffectsMark

LEMMA DisputeStays ==
    ASSUME dispute # "none", [Next]_vars
    PROVE  dispute' # "none"
  <1>1. CASE \E p \in Procs : Step(p)
    BY <1>1, StepDispute
  <1>2. CASE \/ Worker
             \/ \E p \in Procs : Start(p) \/ Crash(p)
             \/ UNCHANGED vars
    BY <1>2, OthersKeepMoney DEF disputeVars
  <1> QED
    BY <1>1, <1>2 DEF Next

\* A handler that is not at a hearing does not get there by a step of its own.
LEMMA StepOutside ==
    ASSUME ProcTypeOK, NEW p \in Procs, Step(p), pc[p] \notin Hearing
    PROVE  pc'[p] \notin Hearing /\ UNCHANGED ledgerOutcome
  <1> USE DEF Hearing, ProcTypeOK, Forget, Goto, Finish, disputeVars
  <1>1. CASE \/ CompleteGate(p) \/ FailUpdate(p) \/ CancelUpdate(p)
             \/ CancelReadBack(p) \/ ProceedUpdate(p) \/ VerifExpiryMark(p)
             \/ SettleFailed(p)
    BY <1>1 DEF CompleteGate, FailUpdate, CancelUpdate, CancelReadBack,
                ProceedUpdate, VerifExpiryMark, SettleFailed, FailedReadBack,
                FailedPay, FailedMark
  <1>2. CASE \/ SettleSuccessful(p) \/ DecideOpen(p) \/ DecideExpire(p)
             \/ AcceptCheck(p) \/ AcceptDecide(p)
    BY <1>2 DEF SettleSuccessful, SuccessInit, SuccessCheck, SuccessPay, SuccessMark,
                RecordJudgeFee, SuccessReturns, DecideOpen, DecideExpire, DecideNext,
                AcceptCheck, AcceptDecide
  <1>3. CASE \/ RejectFile(p) \/ RejectDecide(p) \/ CompareOpen(p)
             \/ CompareDecide(p) \/ LoserRefund(p) \/ LoserMark(p) \/ FileTxn(p)
    BY <1>3 DEF RejectFile, RejectDecide, CompareOpen, CompareDecide, CompareSettle,
                LoserRefund, LoserMark, FileTxn, create_dispute
  <1> QED
    BY <1>1, <1>2, <1>3 DEF Step, JudgeStart, JudgeVote, JudgesAgree, JudgesTie,
       VoteFails, JudgeTied, AppealMark, ResolveSettle, ResolveFinalize, EffectsRead,
       EffectsMark

LEMMA StartOutside ==
    ASSUME ProcTypeOK, NEW p \in Procs, Start(p), dispute = "none",
           pc[p] \notin Hearing
    PROVE  pc'[p] \notin Hearing
  <1> USE DEF Hearing, ProcTypeOK, BeginWith, Begin, BeginAs
  <1>1. CASE mark_job_timeout(p) \/ schedule_job_retry(p)
    BY <1>1 DEF mark_job_timeout, schedule_job_retry, GiveUp, procVars
  <1> QED
    BY <1>1 DEF Start, CompleteRead, FailRead, ForceFailList, CancelRead, ProceedList,
       SweepCompleted, VerifExpiryList, DecideRead, CompareRead, FileRead, JudgeRead,
       AdminRead, TieTimeout

LEMMA NextDispute ==
    ASSUME TypeOK, DisputeInv, [Next]_vars
    PROVE  DisputeInv'
  <1> USE DEF TypeOK
  <1>1. CASE dispute # "none"
    BY <1>1, DisputeStays DEF DisputeInv
  <1>2. CASE dispute = "none"
    <2>0. ~Ruled /\ \A p \in Procs : pc[p] \notin Hearing
      BY <1>2 DEF DisputeInv
    <2>1. ASSUME NEW p \in Procs, Step(p)
          PROVE  DisputeInv'
      <3>1. Moves(p)
        BY <2>1, StepMoves
      <3>2. pc'[p] \notin Hearing /\ UNCHANGED ledgerOutcome
        BY <2>0, <2>1, StepOutside
      <3>3. \A q \in Procs \ {p} : pc'[q] = pc[q]
        BY <3>1 DEF Moves, ProcTypeOK
      <3> QED
        BY <2>0, <3>2, <3>3 DEF DisputeInv, Ruled
    <2>2. ASSUME NEW p \in Procs, Start(p)
          PROVE  DisputeInv'
      <3>1. Moves(p) \/ UNCHANGED procVars
        BY <2>2, StartMoves
      <3>2. pc'[p] \notin Hearing /\ UNCHANGED ledgerOutcome
        BY <1>2, <2>0, <2>2, StartOutside, OthersKeepMoney DEF disputeVars
      <3>3. \A q \in Procs \ {p} : pc'[q] = pc[q]
        BY <3>1 DEF Moves, ProcTypeOK, procVars
      <3> QED
        BY <2>0, <3>2, <3>3 DEF DisputeInv, Ruled
    <2>3. ASSUME NEW p \in Procs, Crash(p)
          PROVE  DisputeInv'
      BY <2>0, <2>3 DEF Crash, Finish, Forget, ProcTypeOK, DisputeInv, Ruled, Hearing,
                        disputeVars
    <2>4. CASE Worker \/ UNCHANGED vars
      BY <2>0, <2>4 DEF Worker, claim_job, LeaseRunsOut, release_job_claim,
                        add_message, VerificationWindowCloses, vars, disputeVars,
                        procVars, DisputeInv, Ruled
    <2> QED
      BY <2>1, <2>2, <2>3, <2>4 DEF Next
  <1> QED
    BY <1>1, <1>2

\* Nobody rules before a dispute is filed.
LEMMA DisputeInvariant == Spec => []DisputeInv
  <1>1. Init => DisputeInv
    BY DEF Init, DisputeInv, Ruled, Hearing
  <1> QED
    BY <1>1, NextDispute, TypeCorrect, PTL DEF Spec

\* What a step does to the books of the job.
LEMMA StepBooks ==
    ASSUME NEW p \in Procs, Step(p)
    PROVE  \/ /\ pc[p] \in {"s_pay", "f_pay", "l_pay"} /\ Pays(p)
              /\ UNCHANGED disputeVars
           \/ RecordJudgeFee(p)
           \/ dispute = "none" /\ create_dispute
           \/ ResolveSettle(p)
           \/ UNCHANGED <<ledgerVars, ledgerOutcome>>
  <1>1. CASE SuccessPay(p) \/ FailedPay(p) \/ LoserRefund(p)
    BY <1>1 DEF SuccessPay, FailedPay, LoserRefund, Pays
  <1>2. CASE FileTxn(p) \/ RejectFile(p)
    BY <1>2 DEF FileTxn, RejectFile, disputeVars
  <1>3. CASE UNCHANGED <<ledgerVars, ledgerOutcome>>
    BY <1>3
  <1> QED
    BY <1>1, <1>2, <1>3
       DEF disputeVars, Step, SettleFailed, SettleSuccessful, CompleteGate, FailUpdate,
           FailedReadBack, FailedMark, SuccessInit, SuccessCheck, SuccessMark,
           CancelUpdate, CancelReadBack, ProceedUpdate, VerifExpiryMark, DecideOpen,
           DecideExpire, AcceptCheck, AcceptDecide, RejectDecide, CompareOpen,
           CompareDecide, LoserMark, JudgeStart, JudgeVote, JudgesAgree, JudgesTie,
           VoteFails, JudgeTied, AppealMark, ResolveFinalize, EffectsRead, EffectsMark

\* What a ruling moves when the escrow holds e cents: it empties the escrow, and
\* hands out what was in it, or the charge when nothing was.
LEMMA AwardCents ==
    ASSUME NEW o \in AllOutcomes, NEW e \in 0 .. Charge,
           o # "split" \/ e = 0 \/ e = Charge
    PROVE  LET a == Award(o, e)
           IN  /\ e + a.escrow = 0
               /\ e > 0 => a.caller + a.agent + a.platform = e
               /\ e = 0 => a.caller + a.agent + a.platform \in {0, Charge}
  <1> USE CentsTypes
  <1>1. CASE o = "caller_wins"
    BY <1>1 DEF Award, Least
  <1>2. CASE o = "agent_wins"
    BY <1>2 DEF Award, Least
  <1>3. CASE o = "split"
    BY <1>3 DEF Award
  <1>4. CASE o = "void"
    BY <1>4 DEF Award
  <1> QED
    BY <1>1, <1>2, <1>3, <1>4 DEF AllOutcomes

\* The escrow holds nothing before the dispute, at most the charge during it,
\* and nothing after the ruling.
EscrowInv ==
    /\ bal["escrow"] \in 0 .. Charge
    /\ dispute = "none" => bal["escrow"] = 0
    /\ EscrowDrained

LEMMA RowsAtMostCharge ==
    ASSUME LedgerTypeOK, RowsShape
    PROVE  payout + fee \in 0 .. Charge
  BY CentsTypes DEF LedgerTypeOK, RowsShape, Distributed, Legs

\* A ruling that finds the escrow in order leaves it empty.
LEMMA RulingDrains ==
    ASSUME LedgerTypeOK, MoneyInv, DisputeInv, EscrowInv, NEW p \in Procs,
           ResolveSettle(p),
           loc[p].outcome # "split" \/ bal["escrow"] = 0 \/ bal["escrow"] = Charge
    PROVE  EscrowInv'
  <1>1. loc[p].outcome \in AllOutcomes /\ dispute # "none" /\ UNCHANGED dispute
    BY DEF ResolveSettle, MoneyInv, Position, DisputeInv, Hearing
  <1>2. CASE UNCHANGED <<ledgerOutcome, bal>>
    BY <1>1, <1>2 DEF EscrowInv, EscrowDrained
  <1>3. CASE ~UNCHANGED <<ledgerOutcome, bal>>
    <2> DEFINE e == bal["escrow"]
               a == Award(loc[p].outcome, e)
    <2>1. bal' = [bal EXCEPT !["caller"] = @ + a.caller, !["agent"] = @ + a.agent,
                             !["platform"] = @ + a.platform,
                             !["escrow"] = @ + a.escrow]
      BY <1>3 DEF ResolveSettle, post_dispute_settlement
    <2>2. bal \in [Wallets -> Int]
      BY DEF LedgerTypeOK
    <2>3. e \in 0 .. Charge
      BY DEF EscrowInv
    <2>4. e + a.escrow = 0
      BY <1>1, <2>3, AwardCents
    <2>5. bal'["escrow"] = e + a.escrow
      <3> HIDE DEF a
      <3> QED
        BY <2>1, <2>2 DEF Wallets
    <2> QED
      BY <2>4, <2>5, CentsTypes DEF EscrowInv, EscrowDrained
  <1> QED
    BY <1>2, <1>3

\* Every other step moves the escrow only by filing the dispute.
LEMMA StepEscrow ==
    ASSUME LedgerTypeOK, MoneyInv, DisputeInv, EscrowInv, NEW p \in Procs, Step(p),
           ~ResolveSettle(p)
    PROVE  EscrowInv'
  <1> USE DEF EscrowInv, EscrowDrained
  <1>0. bal \in [Wallets -> Int]
    BY DEF LedgerTypeOK
  <1>1. dispute # "none" => dispute' # "none"
    BY StepDispute
  <1>2. CASE Pays(p) /\ UNCHANGED disputeVars
    BY <1>0, <1>2 DEF Pays, post_call_payout, post_call_refund,
                      post_call_partial_settle, Wallets, disputeVars
  <1>3. CASE RecordJudgeFee(p)
    BY <1>0, <1>3 DEF RecordJudgeFee, Wallets, disputeVars
  <1>4. CASE dispute = "none" /\ create_dispute
    <2>1. bal'["escrow"] = payout + fee /\ ~Ruled /\ UNCHANGED ledgerOutcome
      BY <1>0, <1>4, RowsAtMostCharge
         DEF create_dispute, lock_dispute_funds, Wallets, DisputeInv, MoneyInv,
             LedgerTypeOK
    <2> QED
      BY <1>4, <2>1, RowsAtMostCharge DEF MoneyInv, create_dispute, Ruled
  <1>5. CASE UNCHANGED <<ledgerVars, ledgerOutcome>>
    BY <1>1, <1>5 DEF ledgerVars
  <1> QED
    BY <1>2, <1>3, <1>4, <1>5, StepBooks

\* No handler carries a split to the ledger.
SplitFree(p) == pc[p] \in {"appeal_upd", "d_settle"} => loc[p].outcome # "split"

LEMMA StepSplitFree ==
    ASSUME ProcTypeOK, NEW p \in Procs, "split" \notin Outcomes, SplitFree(p), Step(p)
    PROVE  SplitFree(p)'
  <1> USE DEF SplitFree, ProcTypeOK, Forget, Goto, Finish
  <1>1. CASE pc[p] \notin Hearing
    BY <1>1, StepOutside DEF Hearing
  <1>2. CASE JudgesAgree(p)
    <2>1. PICK o \in Outcomes : pc'[p] = "d_settle" /\ loc' = [loc EXCEPT ![p].outcome = o]
      BY <1>2 DEF JudgesAgree
    <2>2. loc'[p].outcome = o
      BY <2>1 DEF Locs
    <2> QED
      BY <2>1, <2>2
  <1>3. CASE \/ JudgeStart(p) \/ JudgesTie(p) \/ VoteFails(p) \/ JudgeTied(p)
             \/ ResolveSettle(p) \/ ResolveFinalize(p) \/ EffectsRead(p)
             \/ EffectsMark(p)
    BY <1>3 DEF JudgeStart, JudgesTie, VoteFails, JudgeTied, ResolveSettle,
                ResolveFinalize, EffectsRead, EffectsMark
  <1>4. CASE AppealMark(p)
    BY <1>4 DEF AppealMark
  <1>5. CASE ~JudgeVote(p) /\ pc[p] \in {"j_start", "j_vote", "j_tied"}
    BY <1>3, <1>5 DEF Step, SettleFailed, SettleSuccessful, CompleteGate, FailUpdate,
         FailedReadBack, FailedPay, FailedMark, SuccessInit, SuccessCheck,
         SuccessPay, SuccessMark, RecordJudgeFee, CancelUpdate, CancelReadBack,
         ProceedUpdate, VerifExpiryMark, DecideOpen, DecideExpire, AcceptCheck,
         AcceptDecide, RejectFile, RejectDecide, CompareOpen, CompareDecide,
         LoserRefund, LoserMark, FileTxn, AppealMark, ResolveSettle, ResolveFinalize,
         EffectsRead, EffectsMark
  <1>6. CASE pc[p] \in {"appeal_upd", "d_settle", "d_finalize", "e_read", "e_mark"}
    BY <1>3, <1>4, <1>6
       DEF Step, SettleFailed, SettleSuccessful, CompleteGate, FailUpdate,
         FailedReadBack, FailedPay, FailedMark, SuccessInit, SuccessCheck,
         SuccessPay, SuccessMark, RecordJudgeFee, CancelUpdate, CancelReadBack,
         ProceedUpdate, VerifExpiryMark, DecideOpen, DecideExpire, AcceptCheck,
         AcceptDecide, RejectFile, RejectDecide, CompareOpen, CompareDecide,
         LoserRefund, LoserMark, FileTxn, JudgeVote, JudgesAgree, JudgesTie, VoteFails,
         JudgeStart, JudgeTied
  <1> QED
    BY <1>1, <1>2, <1>3, <1>5, <1>6 DEF Hearing, JudgeVote

LEMMA StartSplitFree ==
    ASSUME ProcTypeOK, NEW p \in Procs, "split" \notin Outcomes, SplitFree(p), Start(p)
    PROVE  SplitFree(p)'
  <1> USE DEF SplitFree, ProcTypeOK, BeginWith, Begin, BeginAs
  <1>1. ASSUME NEW o \in Outcomes, AdminRead(p, o)
        PROVE  SplitFree(p)'
    BY <1>1 DEF AdminRead, NoLoc
  <1>2. CASE mark_job_timeout(p) \/ schedule_job_retry(p)
    BY <1>2 DEF mark_job_timeout, schedule_job_retry, GiveUp, procVars
  <1>3. CASE TieTimeout(p)
    BY <1>3 DEF TieTimeout, NoLoc
  <1> QED
    BY <1>1, <1>2, <1>3
       DEF Start, CompleteRead, FailRead, ForceFailList, CancelRead, ProceedList,
           SweepCompleted, VerifExpiryList, DecideRead, CompareRead, FileRead, JudgeRead

LEMMA NextEscrow ==
    ASSUME "split" \notin Outcomes, TypeOK, MoneyInv, DisputeInv, EscrowInv,
           \A p \in Procs : SplitFree(p), [Next]_vars
    PROVE  EscrowInv' /\ \A p \in Procs : SplitFree(p)'
  <1> USE DEF TypeOK
  <1>1. ASSUME NEW p \in Procs, Step(p)
        PROVE  EscrowInv' /\ \A q \in Procs : SplitFree(q)'
    <2>1. Moves(p)
      BY <1>1, StepMoves
    <2>2. SplitFree(p)'
      BY <1>1, StepSplitFree
    <2>3. \A q \in Procs \ {p} : pc'[q] = pc[q] /\ loc'[q] = loc[q]
      BY <2>1 DEF Moves, ProcTypeOK
    <2>4. ResolveSettle(p) => loc[p].outcome # "split"
      BY DEF ResolveSettle, SplitFree
    <2>5. EscrowInv'
      BY <1>1, <2>4, StepEscrow, RulingDrains
    <2> QED
      BY <2>2, <2>3, <2>5 DEF SplitFree
  <1>2. CASE \/ Worker
             \/ \E p \in Procs : Start(p) \/ Crash(p)
             \/ UNCHANGED vars
    <2>1. EscrowInv'
      BY <1>2, OthersKeepMoney DEF EscrowInv, EscrowDrained, ledgerVars, disputeVars
    <2>2. ASSUME NEW p \in Procs, Start(p)
          PROVE  \A q \in Procs : SplitFree(q)'
      <3>1. Moves(p) \/ UNCHANGED procVars
        BY <2>2, StartMoves
      <3>2. \A q \in Procs \ {p} : pc'[q] = pc[q] /\ loc'[q] = loc[q]
        BY <3>1 DEF Moves, ProcTypeOK, procVars
      <3> QED
        BY <2>2, <3>2, StartSplitFree DEF SplitFree
    <2>3. ASSUME NEW p \in Procs, Crash(p)
          PROVE  \A q \in Procs : SplitFree(q)'
      BY <2>3 DEF Crash, Finish, Forget, ProcTypeOK, SplitFree
    <2>4. CASE Worker \/ UNCHANGED vars
      <3>1. UNCHANGED procVars
        BY <2>4 DEF Worker, claim_job, LeaseRunsOut, release_job_claim, add_message,
                    VerificationWindowCloses, vars
      <3> QED
        BY <2>1, <3>1 DEF procVars, SplitFree
    <2> QED
      BY <1>2, <2>1, <2>2, <2>3, <2>4
  <1> QED
    BY <1>1, <1>2 DEF Next

\* However many judges, admins, sweepers and late payments meet, a ruling that
\* gives the charge to one side, or to nobody, leaves nothing in the escrow of
\* the dispute (post_dispute_settlement).
THEOREM RulingEmptiesEscrow ==
    ASSUME "split" \notin Outcomes
    PROVE  Spec => []EscrowDrained
  <1> DEFINE I == EscrowInv /\ \A p \in Procs : SplitFree(p)
  <1>1. Init => I
    BY CentsTypes DEF Init, EscrowInv, EscrowDrained, SplitFree, Wallets
  <1>2. TypeOK /\ MoneyInv /\ DisputeInv /\ I /\ [Next]_vars => I'
    BY NextEscrow
  <1>3. I => EscrowDrained
    BY DEF EscrowInv
  <1> HIDE DEF I
  <1> QED
    BY <1>1, <1>2, <1>3, TypeCorrect, MoneyInvariant, DisputeInvariant, PTL DEF Spec

-----------------------------------------------------------------------------
(* Handlers that do not cross.  Handlers that interleave, or a master key    *)
(* that fails a complete job, can settle a job against its status (run       *)
(* settlement_race) and pay a disputed one twice (dispute_race).  Each time   *)
(* a status write has met a job that had finished in another way, a payout   *)
(* has landed behind a dispute, or a compare loser was refunded: the history *)
(* variable crossed records it, and these sections show that nothing else    *)
(* can do it, for any number of handlers.                                    *)

Over == {"complete", "failed", "cancelled"}

Lost == {"failed", "cancelled"}

\* The columns of the job, the charge and the dispute agree.
Row ==
    /\ completed <=> status \in Over
    /\ ~completed => Legs = 0
    /\ dispute # "none" => status = "complete"
    /\ refund > 0 => status \in Lost
    /\ Legs > 0 /\ refund = 0 => status = "complete"

\* The positions of a handler that gives money back, that works on a complete
\* job, and that pays the agent.
Refunding == {"cancel_read", "f_read", "f_pay", "f_mark"}

Delivered == {"v_mark", "v_open", "v_expire", "a_check", "a_decide", "r_file",
              "r_decide", "k_open", "k_decide", "file_txn"}

Paying == {"s_init", "s_check", "s_pay", "s_mark"}

\* What the handler read is still so.
Place(p) ==
    /\ pc[p] \in Refunding => status \in Lost
    /\ pc[p] \in Delivered \cup Paying => status = "complete"

Agree == Row /\ \A p \in Procs : Place(p)

UncrossedInv == ~crossed => Agree

\* The status changes only before completed_at, when no handler has a place.
LEMMA OthersKeepPlace ==
    ASSUME EndedInv, Agree, NEW q \in Procs, pc'[q] = pc[q],
           UNCHANGED status \/ ~completed
    PROVE  Place(q)'
  BY DEF EndedInv, Agree, Place, Early, Refunding, Delivered, Paying

LEMMA WorkerAgree ==
    ASSUME FinishedIsUnclaimed, EndedInv, Agree, Worker
    PROVE  Agree'
  <1>1. UNCHANGED <<completed, refund, payout, fee, dispute, pc>>
    BY DEF Worker, claim_job, LeaseRunsOut, release_job_claim, add_message,
           VerificationWindowCloses, procVars, ledgerVars, disputeVars
  <1>2. UNCHANGED status \/ (~completed /\ status' \notin Over)
    <2>1. CASE claim_job
      BY <2>1 DEF claim_job, Over
    <2>2. CASE release_job_claim
      BY <2>2 DEF release_job_claim, FinishedIsUnclaimed, Over
    <2>3. ASSUME NEW t \in {"none", "running", "awaiting_clarification"}, add_message(t)
          PROVE  UNCHANGED status \/ (~completed /\ status' \notin Over)
      BY <2>3 DEF add_message, Over
    <2> QED
      BY <2>1, <2>2, <2>3 DEF Worker, LeaseRunsOut, VerificationWindowCloses
  <1>3. Row'
    BY <1>1, <1>2 DEF Agree, Row, Over, Lost, Legs
  <1> QED
    BY <1>1, <1>2, <1>3, OthersKeepPlace DEF Agree

\* A handler starts where its first read allows.
LEMMA StartAgree ==
    ASSUME ProcTypeOK, FinishedIsUnclaimed, EndedInv, Agree, NEW p \in Procs, Start(p)
    PROVE  Agree'
  <1>0. UNCHANGED <<ledgerVars, disputeVars>>
    BY OthersKeepMoney
  <1>1. CASE mark_job_timeout(p) \/ schedule_job_retry(p)
    <2>1. ~completed /\ \A q \in Procs : pc[q] \in Early
      BY <1>1 DEF mark_job_timeout, schedule_job_retry, StaleActive,
                  FinishedIsUnclaimed, EndedInv
    <2>2. /\ completed' <=> status' \in Over
          /\ status' \in Lost \/ ~completed'
          /\ status' # "complete"
      BY <1>1 DEF mark_job_timeout, schedule_job_retry, GiveUp, Over, Lost
    <2>3. Legs = 0 /\ dispute = "none" /\ ~(refund > 0) /\ Legs' = Legs
      BY <1>0, <2>1 DEF Agree, Row, EndedInv, Legs, Over, Lost, ledgerVars
    <2>4. Row'
      BY <1>0, <2>2, <2>3 DEF Row, ledgerVars, disputeVars
    <2>5. pc'[p] \in Early \/ (pc'[p] = "f_read" /\ status' = "failed")
      BY <1>1, <2>1 DEF mark_job_timeout, schedule_job_retry, GiveUp, Begin, BeginWith,
                        ProcTypeOK, procVars
    <2>6. Place(p)'
      BY <2>5 DEF Place, Early, Refunding, Delivered, Paying, Lost
    <2>7. \A q \in Procs \ {p} : pc'[q] = pc[q]
      BY StartMoves DEF Moves, ProcTypeOK, procVars
    <2> QED
      BY <2>1, <2>4, <2>6, <2>7, OthersKeepPlace DEF Agree
  <1>2. CASE ~mark_job_timeout(p) /\ ~schedule_job_retry(p)
    <2>1. UNCHANGED jobVars
      BY <1>2 DEF Start, CompleteRead, FailRead, ForceFailList, CancelRead, ProceedList,
             SweepCompleted, VerifExpiryList, DecideRead, CompareRead, FileRead,
             JudgeRead, AdminRead, TieTimeout
    <2>2. Row'
      BY <1>0, <2>1 DEF Agree, Row, Legs, jobVars, ledgerVars, disputeVars
    <2>3. \/ pc'[p] \notin Refunding \cup Delivered \cup Paying
          \/ pc'[p] \in Delivered \cup Paying /\ status = "complete"
          \/ pc'[p] \in Refunding /\ status = "failed"
      <3> USE DEF Refunding, Delivered, Paying, Begin, BeginAs, BeginWith, ProcTypeOK
      <3>1. CASE \/ \E k \in {"complete", "master_complete"} : CompleteRead(p, k)
                 \/ \E k \in {"fail", "master_fail"}, s \in Splits : FailRead(p, k, s)
        BY <3>1 DEF CompleteRead, FailRead
      <3>2. CASE \/ \E k \in ForceKinds : ForceFailList(p, k)
                 \/ CancelRead(p) \/ ProceedList(p) \/ JudgeRead(p) \/ TieTimeout(p)
                 \/ \E o \in Outcomes : AdminRead(p, o)
        BY <3>2 DEF ForceFailList, CancelRead, ProceedList, JudgeRead, TieTimeout,
                    AdminRead
      <3>3. CASE \/ SweepCompleted(p) \/ VerifExpiryList(p) \/ FileRead(p)
                 \/ \E k \in {"accept", "reject"} : DecideRead(p, k)
                 \/ \E k \in {"compare_winner", "compare_loser"} : CompareRead(p, k)
        BY <3>3 DEF SweepCompleted, VerifExpiryList, FileRead, DecideRead, CompareRead,
                    CompleteUnsettled
      <3> QED
        BY <1>2, <3>1, <3>2, <3>3 DEF Start
    <2>4. Place(p)'
      BY <2>1, <2>3 DEF Place, Refunding, Delivered, Paying, Lost, jobVars
    <2>5. \A q \in Procs \ {p} : pc'[q] = pc[q]
      BY StartMoves DEF Moves, ProcTypeOK, procVars
    <2> QED
      BY <2>1, <2>2, <2>4, <2>5, OthersKeepPlace DEF Agree, jobVars
  <1> QED
    BY <1>1, <1>2

\* A status write that does not cross finds the job unfinished, or finished in
\* the way it wants.
LEMMA WriteAgree ==
    ASSUME LedgerTypeOK, ProcTypeOK, EndedInv, Agree, NEW p \in Procs, ~crossed',
           CompleteGate(p) \/ FailUpdate(p) \/ CancelUpdate(p) \/ ProceedUpdate(p)
    PROVE  Row' /\ Place(p)' /\ (UNCHANGED status \/ ~completed)
  <1>1. UNCHANGED <<refund, payout, fee, dispute>> /\ Legs' = Legs
    BY DEF CompleteGate, FailUpdate, CancelUpdate, ProceedUpdate, ledgerVars,
           disputeVars, Legs
  <1>2. \/ UNCHANGED <<status, completed>>
        \/ ~completed /\ (completed' <=> status' \in Over)
    BY DEF CompleteGate, FailUpdate, CancelUpdate, ProceedUpdate, update_job_status,
           Agree, Row, Over, jobVars
  <1>3. Row'
    BY <1>1, <1>2 DEF Agree, Row, LedgerTypeOK, Legs, Over, Lost
  <1>4. \/ pc'[p] = "idle"
        \/ pc'[p] = "s_init" /\ status' = "complete"
        \/ pc'[p] \in {"f_read", "cancel_read"} /\ status' \in Lost
    BY DEF CompleteGate, FailUpdate, CancelUpdate, ProceedUpdate, update_job_status,
           Finish, Forget, Goto, ProcTypeOK, Lost
  <1>5. Place(p)'
    BY <1>4 DEF Place, Refunding, Delivered, Paying, Lost
  <1> QED
    BY <1>2, <1>3, <1>5

\* A payment that does not cross follows the status.
LEMMA PayAgree ==
    ASSUME LedgerTypeOK, ProcTypeOK, RowsShape, Agree, NEW p \in Procs, ~crossed',
           SuccessPay(p) \/ FailedPay(p) \/ LoserRefund(p)
    PROVE  Row' /\ Place(p)' /\ UNCHANGED status
  <1>0. /\ UNCHANGED <<status, completed, dispute>>
        /\ ~LoserRefund(p)
    BY DEF SuccessPay, FailedPay, LoserRefund, jobVars, disputeVars
  <1> USE DEF LedgerTypeOK
  <1>1. CASE SuccessPay(p)
    <2>1. status = "complete" /\ refund = 0 /\ UNCHANGED refund
      BY <1>1 DEF SuccessPay, post_call_payout, Agree, Row, Place, Paying, Lost
    <2>2. pc'[p] = "s_mark"
      BY <1>1 DEF SuccessPay, Goto, ProcTypeOK
    <2> QED
      BY <1>0, <2>1, <2>2
         DEF Row, Agree, Place, Over, Lost, Paying, Refunding, Delivered
  <1>2. CASE FailedPay(p)
    <2>1. status \in Lost /\ (Legs > 0 => refund > 0) /\ loc[p].split \in Splits
      BY <1>2, CentsTypes
         DEF FailedPay, Agree, Row, Place, Refunding, Lost, ProcTypeOK, Locs, Legs
    <2>2. refund' > 0
      BY <1>2, <2>1, CentsTypes
         DEF FailedPay, post_call_refund, post_call_partial_settle, Legs
    <2>3. pc'[p] = "f_mark"
      BY <1>2 DEF FailedPay, Forget, ProcTypeOK
    <2> QED
      BY <1>0, <2>1, <2>2, <2>3
         DEF Row, Agree, Place, Over, Lost, Paying, Refunding, Delivered
  <1> QED
    BY <1>0, <1>1, <1>2

\* The other steps leave the status and the rows alone, and a dispute is filed
\* on a complete job only.
LEMMA RestAgree ==
    ASSUME ProcTypeOK, DisputeInv, Agree, NEW p \in Procs, Step(p),
           ~CompleteGate(p), ~FailUpdate(p), ~CancelUpdate(p), ~ProceedUpdate(p),
           ~SuccessPay(p), ~FailedPay(p), ~LoserRefund(p)
    PROVE  Row' /\ Place(p)' /\ UNCHANGED status
  <1>1. UNCHANGED <<status, completed, refund, payout, fee>>
    BY DEF jobVars, ledgerVars, create_dispute, lock_dispute_funds, mark_settled, Step,
           SettleFailed, SettleSuccessful, FailedReadBack, FailedMark, SuccessInit,
           SuccessCheck, SuccessMark, RecordJudgeFee, CancelReadBack, VerifExpiryMark,
           DecideOpen, DecideExpire, AcceptCheck, AcceptDecide, RejectFile,
           RejectDecide, CompareOpen, CompareDecide, LoserMark, FileTxn, JudgeStart,
           JudgeVote, JudgesAgree, JudgesTie, VoteFails, JudgeTied, AppealMark,
           ResolveSettle, ResolveFinalize, EffectsRead, EffectsMark
  <1>2. dispute' # "none" => dispute # "none" \/ status = "complete"
    <2>1. CASE FileTxn(p) \/ RejectFile(p)
      BY <2>1 DEF FileTxn, RejectFile, Agree, Place, Delivered
    <2>2. CASE pc[p] \in Hearing
      BY <2>2 DEF DisputeInv
    <2>3. CASE UNCHANGED disputeVars
      BY <2>3 DEF disputeVars
    <2> QED
      BY <2>1, <2>2, <2>3
         DEF Hearing, Step, SettleFailed, SettleSuccessful, FailedReadBack, FailedMark,
             SuccessInit, SuccessCheck, SuccessMark, RecordJudgeFee, CancelReadBack,
             VerifExpiryMark, DecideOpen, DecideExpire, AcceptCheck, AcceptDecide,
             RejectDecide, CompareOpen, CompareDecide, LoserMark, JudgeStart, JudgeVote,
             JudgesAgree, JudgesTie, VoteFails, JudgeTied, AppealMark, ResolveSettle,
             ResolveFinalize, EffectsRead, EffectsMark
  <1>3. Row'
    BY <1>1, <1>2 DEF Agree, Row, Legs
  <1>4. \/ pc'[p] \in {"idle", "c_judge", "l_pay"} \cup Hearing
        \/ pc'[p] \in Refunding /\ pc[p] \in Refunding
        \/ pc'[p] \in Delivered \cup Paying /\ pc[p] \in Delivered \cup Paying
    <2> USE DEF Refunding, Delivered, Paying, Hearing, ProcTypeOK, Forget, Goto, Finish
    <2>1. CASE SettleFailed(p) \/ CancelReadBack(p) \/ LoserMark(p) \/ FileTxn(p)
      BY <2>1 DEF SettleFailed, FailedReadBack, FailedMark, CancelReadBack, LoserMark,
                  FileTxn
    <2>2. CASE SettleSuccessful(p)
      BY <2>2 DEF SettleSuccessful, SuccessInit, SuccessCheck, SuccessMark,
                  RecordJudgeFee, SuccessReturns
    <2>3. CASE \/ VerifExpiryMark(p) \/ DecideOpen(p) \/ DecideExpire(p)
               \/ AcceptCheck(p) \/ AcceptDecide(p) \/ RejectFile(p) \/ RejectDecide(p)
               \/ CompareOpen(p) \/ CompareDecide(p)
      BY <2>3 DEF VerifExpiryMark, DecideOpen, DecideExpire, DecideNext, AcceptCheck,
                  AcceptDecide, RejectFile, RejectDecide, CompareOpen, CompareDecide,
                  CompareSettle
    <2>4. CASE \/ JudgeStart(p) \/ JudgeVote(p) \/ JudgeTied(p) \/ AppealMark(p)
               \/ ResolveSettle(p) \/ ResolveFinalize(p) \/ EffectsRead(p)
               \/ EffectsMark(p)
      BY <2>4 DEF JudgeStart, JudgeVote, JudgesAgree, JudgesTie, VoteFails, JudgeTied,
                  AppealMark, ResolveSettle, ResolveFinalize, EffectsRead, EffectsMark
    <2> QED
      BY <2>1, <2>2, <2>3, <2>4 DEF Step
  <1>5. Place(p)'
    BY <1>1, <1>4 DEF Agree, Place, Refunding, Delivered, Paying, Hearing
  <1> QED
    BY <1>1, <1>3, <1>5

LEMMA StepAgree ==
    ASSUME TypeOK, EndedInv, MoneyInv, DisputeInv, Agree, NEW p \in Procs, Step(p),
           ~crossed'
    PROVE  Agree'
  <1>1. Row' /\ Place(p)' /\ (UNCHANGED status \/ ~completed)
    BY WriteAgree, PayAgree, RestAgree DEF TypeOK, MoneyInv
  <1>2. \A q \in Procs \ {p} : pc'[q] = pc[q]
    BY StepMoves DEF Moves, TypeOK, ProcTypeOK
  <1> QED
    BY <1>1, <1>2, OthersKeepPlace DEF Agree

LEMMA NextUncrossed ==
    ASSUME TypeOK, FinishedIsUnclaimed, EndedInv, MoneyInv, DisputeInv, UncrossedInv,
           [Next]_vars
    PROVE  UncrossedInv'
  <1> SUFFICES ASSUME ~crossed' PROVE Agree'
    BY DEF UncrossedInv
  <1>0. crossed \in BOOLEAN /\ ProcTypeOK
    BY DEF TypeOK, LedgerTypeOK
  <1>1. ASSUME NEW p \in Procs, Step(p)
        PROVE  Agree'
    <2>1. ~crossed
      BY <1>0, <1>1, StepCrosses
    <2> QED
      BY <1>1, <2>1, StepAgree DEF UncrossedInv
  <1>2. CASE \/ Worker
             \/ \E p \in Procs : Start(p) \/ Crash(p)
             \/ UNCHANGED vars
    <2>1. Agree /\ UNCHANGED <<ledgerVars, disputeVars>>
      BY <1>2, OthersKeepMoney DEF UncrossedInv
    <2>2. ASSUME NEW p \in Procs, Crash(p)
          PROVE  Agree'
      <3>1. UNCHANGED <<status, completed>> /\ pc' = [pc EXCEPT ![p] = "idle"]
        BY <2>2 DEF Crash, Finish, Forget, jobVars
      <3>2. Row'
        BY <2>1, <3>1 DEF Agree, Row, Legs, ledgerVars, disputeVars
      <3>3. Place(p)' /\ \A q \in Procs \ {p} : pc'[q] = pc[q]
        BY <1>0, <3>1 DEF ProcTypeOK, Place, Refunding, Delivered, Paying
      <3> QED
        BY <2>1, <3>1, <3>2, <3>3, OthersKeepPlace DEF Agree
    <2>3. CASE UNCHANGED vars
      BY <2>1, <2>3 DEF vars, jobVars, ledgerVars, disputeVars, procVars, Agree, Row,
                        Place, Legs
    <2> QED
      BY <1>0, <1>2, <2>1, <2>2, <2>3, WorkerAgree, StartAgree
  <1> QED
    BY <1>1, <1>2 DEF Next

LEMMA UncrossedInvariant == Spec => []UncrossedInv
  <1>1. Init => UncrossedInv
    BY DEF Init, UncrossedInv, Agree, Row, Place, Over, Lost, Refunding, Delivered,
           Paying, Legs
  <1> QED
    BY <1>1, NextUncrossed, TypeCorrect, FinishedUnclaimed, EndedInvariant,
       MoneyInvariant, DisputeInvariant, PTL DEF Spec

-----------------------------------------------------------------------------
(* The wallets of a job whose handlers do not cross.                         *)

\* Until the ruling the wallets hold what the ledger says, and a dispute has
\* taken back all of it.
Purse ==
    /\ EscrowInv
    /\ NoCentsMinted
    /\ ~Ruled => Total = PlatformFloat + Legs
    /\ ~Ruled /\ dispute # "none" => bal["escrow"] = Legs

LEMMA LegsCases ==
    ASSUME LedgerTypeOK, RowsShape
    PROVE  Legs = 0 \/ Legs = Charge
  BY CentsTypes DEF LedgerTypeOK, RowsShape, Distributed, Legs

LEMMA WalletTypes ==
    ASSUME LedgerTypeOK
    PROVE  /\ bal["caller"] \in Int /\ bal["agent"] \in Int /\ bal["platform"] \in Int
           /\ bal["escrow"] \in Int /\ bal["judge"] \in Int
           /\ refund \in Nat /\ payout \in Nat /\ fee \in Nat
           /\ DOMAIN bal = Wallets
  BY DEF LedgerTypeOK, Wallets

\* A payment credits the wallets with the rows it writes, and nothing else.
LEMMA PaysTotal ==
    ASSUME LedgerTypeOK, ProcTypeOK, NEW p \in Procs, Pays(p)
    PROVE  Total = PlatformFloat + Legs => Total' = PlatformFloat + Legs'
  <1>1. loc[p].split \in Splits
    BY DEF ProcTypeOK, Locs
  <1>2. refund' \in Nat /\ payout' \in Nat /\ fee' \in Nat
    BY <1>1, CentsTypes, WalletTypes
       DEF Pays, post_call_payout, post_call_refund, post_call_partial_settle
  <1>3. /\ bal'["caller"] = bal["caller"] + (refund' - refund)
        /\ bal'["agent"] = bal["agent"] + (payout' - payout)
        /\ bal'["platform"] = bal["platform"] + (fee' - fee)
        /\ bal'["escrow"] = bal["escrow"] /\ bal'["judge"] = bal["judge"]
    <2>1. CASE post_call_payout
      BY <1>2, <2>1, WalletTypes DEF post_call_payout, Wallets
    <2>2. CASE post_call_refund
      BY <1>2, <2>2, WalletTypes DEF post_call_refund, Wallets
    <2>3. CASE post_call_partial_settle(loc[p].split)
      BY <1>2, <2>3, WalletTypes DEF post_call_partial_settle, Wallets
    <2> QED
      BY <2>1, <2>2, <2>3 DEF Pays
  <1> QED
    BY <1>2, <1>3, WalletTypes, CentsTypes DEF Total, Legs

LEMMA PayPurse ==
    ASSUME TypeOK, MoneyInv, DisputeInv, Purse, NEW p \in Procs, Step(p),
           dispute = "none", pc[p] \in {"s_pay", "f_pay", "l_pay"}, Pays(p),
           UNCHANGED disputeVars
    PROVE  Purse'
  <1> USE DEF TypeOK
  <1>1. dispute = "none" /\ ~Ruled
    BY DEF DisputeInv
  <1>2. EscrowInv'
    BY StepEscrow DEF Purse, ResolveSettle
  <1>3. Total \in Int /\ Total' \in Int /\ Legs \in Int /\ Legs' = Charge
    <2>1. LedgerTypeOK'
      BY StepLedgerType
    <2>2. Total' \in Int
      <3>1. /\ bal'["caller"] \in Int /\ bal'["agent"] \in Int
            /\ bal'["platform"] \in Int /\ bal'["escrow"] \in Int /\ bal'["judge"] \in Int
        BY <2>1 DEF LedgerTypeOK, Wallets
      <3> QED
        BY <3>1 DEF Total
    <2> QED
      BY <2>2, WalletTypes, PaysDistributes DEF Total, Legs, MoneyInv, Distributed
  <1>4. Total' = PlatformFloat + Legs'
    BY <1>1, PaysTotal DEF Purse
  <1>5. NoCentsMinted'
    BY <1>3, <1>4, CentsTypes DEF NoCentsMinted
  <1> QED
    BY <1>1, <1>2, <1>4, <1>5 DEF Purse, disputeVars

LEMMA FilePurse ==
    ASSUME TypeOK, MoneyInv, DisputeInv, Agree', Purse, NEW p \in Procs, Step(p),
           dispute = "none", create_dispute
    PROVE  Purse'
  <1> USE DEF TypeOK
  <1>1. UNCHANGED <<refund, payout, fee, ledgerOutcome>> /\ dispute' = "open" /\ ~Ruled
    BY DEF create_dispute, lock_dispute_funds, DisputeInv
  <1>2. refund = 0
    BY <1>1, WalletTypes DEF Agree, Row, Lost
  <1>3. /\ bal'["agent"] = bal["agent"] - payout
        /\ bal'["platform"] = bal["platform"] - fee
        /\ bal'["escrow"] = bal["escrow"] + payout + fee
        /\ bal'["caller"] = bal["caller"] /\ bal'["judge"] = bal["judge"]
    BY WalletTypes DEF create_dispute, lock_dispute_funds, Wallets
  <1>4. bal["escrow"] = 0
    BY DEF Purse, EscrowInv
  <1>5. Total' = Total /\ bal'["escrow"] = Legs /\ Legs' = Legs
    BY <1>1, <1>2, <1>3, <1>4, WalletTypes DEF Total, Legs
  <1>6. EscrowInv'
    <2>1. ~ResolveSettle(p)
      BY <1>1 DEF ResolveSettle
    <2> QED
      BY <2>1, StepEscrow DEF Purse
  <1> QED
    BY <1>1, <1>5, <1>6 DEF Purse, NoCentsMinted, Ruled

LEMMA RulingPurse ==
    ASSUME TypeOK, MoneyInv, DisputeInv, Purse, NEW p \in Procs, ResolveSettle(p)
    PROVE  Purse'
  <1> USE DEF TypeOK
  <1>1. /\ loc[p].outcome \in AllOutcomes /\ dispute # "none"
        /\ UNCHANGED <<dispute, refund, payout, fee>>
    BY DEF ResolveSettle, MoneyInv, Position, DisputeInv, Hearing
  <1>2. Legs' = Legs
    BY <1>1 DEF Legs
  <1>3. CASE UNCHANGED <<ledgerOutcome, bal>>
    BY <1>1, <1>2, <1>3 DEF Purse, EscrowInv, EscrowDrained, NoCentsMinted, Total, Ruled
  <1>4. CASE ~UNCHANGED <<ledgerOutcome, bal>>
    <2> DEFINE e == bal["escrow"]
               a == Award(loc[p].outcome, e)
    <2>1. /\ ~Ruled
          /\ ledgerOutcome' = loc[p].outcome
          /\ bal' = [bal EXCEPT !["caller"] = @ + a.caller, !["agent"] = @ + a.agent,
                                !["platform"] = @ + a.platform,
                                !["escrow"] = @ + a.escrow]
      BY <1>4 DEF ResolveSettle, post_dispute_settlement, Ruled
    <2>2. e = Legs /\ (e = 0 \/ e = Charge)
      BY <1>1, <2>1, LegsCases DEF Purse, MoneyInv
    <2>3. e \in 0 .. Charge
      BY DEF Purse, EscrowInv
    <2>4. /\ e + a.escrow = 0
          /\ e > 0 => a.caller + a.agent + a.platform = e
          /\ e = 0 => a.caller + a.agent + a.platform \in {0, Charge}
      BY <1>1, <2>2, <2>3, AwardCents
    <2>5. /\ a.caller \in Int /\ a.agent \in Int /\ a.platform \in Int /\ a.escrow \in Int
      BY <2>3, AwardType, CentsTypes
    <2>6. Ruled' /\ EscrowInv'
      BY <1>1, <2>1, <2>2, RulingDrains DEF Purse, Ruled, AllOutcomes
    <2> HIDE DEF a
    <2>7. /\ bal'["caller"] = bal["caller"] + a.caller
          /\ bal'["agent"] = bal["agent"] + a.agent
          /\ bal'["platform"] = bal["platform"] + a.platform
          /\ bal'["escrow"] = bal["escrow"] + a.escrow
          /\ bal'["judge"] = bal["judge"]
      BY <2>1, WalletTypes DEF Wallets
    <2>8. Total' = Total + (a.caller + a.agent + a.platform) + a.escrow
      BY <2>5, <2>7, WalletTypes DEF Total
    <2>9. Total = PlatformFloat + e
      BY <2>1, <2>2 DEF Purse
    <2>10. NoCentsMinted'
      BY <2>2, <2>3, <2>4, <2>5, <2>8, <2>9, CentsTypes DEF NoCentsMinted
    <2> QED
      BY <2>6, <2>10 DEF Purse
  <1> QED
    BY <1>3, <1>4

LEMMA StepPurse ==
    ASSUME TypeOK, MoneyInv, DisputeInv, Agree, Agree', Purse,
           NEW p \in Procs, Step(p), ~crossed'
    PROVE  Purse'
  <1> USE DEF TypeOK
  <1>1. CASE RecordJudgeFee(p)
    <2>1. EscrowInv'
      BY <1>1, StepEscrow DEF Purse, RecordJudgeFee, ResolveSettle
    <2>2. Total' = Total
      BY <1>1, WalletTypes, CentsTypes DEF RecordJudgeFee, Total, Wallets
    <2>3. UNCHANGED <<refund, payout, fee, disputeVars>> /\ bal'["escrow"] = bal["escrow"]
      BY <1>1, WalletTypes DEF RecordJudgeFee, Wallets
    <2> QED
      BY <2>1, <2>2, <2>3 DEF Purse, NoCentsMinted, Ruled, Legs, disputeVars
  <1>2. CASE UNCHANGED <<ledgerVars, ledgerOutcome>>
    <2>1. CASE ResolveSettle(p)
      BY <2>1, RulingPurse
    <2>2. CASE ~ResolveSettle(p)
      <3>1. EscrowInv'
        BY <2>2, StepEscrow DEF Purse
      <3>2. dispute = "none" /\ dispute' # "none" => create_dispute
        BY <2>2 DEF disputeVars, create_dispute, DisputeInv, Hearing, Step, SettleFailed,
         SettleSuccessful, CompleteGate, FailUpdate, FailedReadBack, FailedPay,
         FailedMark, SuccessInit, SuccessCheck, SuccessPay, SuccessMark, RecordJudgeFee,
         CancelUpdate, CancelReadBack, ProceedUpdate, VerifExpiryMark, DecideOpen,
         DecideExpire, AcceptCheck, AcceptDecide, RejectFile, RejectDecide,
         CompareOpen, CompareDecide, LoserRefund, LoserMark, FileTxn, JudgeStart,
         JudgeVote, JudgesAgree, JudgesTie, VoteFails, JudgeTied, AppealMark,
         ResolveFinalize, EffectsRead, EffectsMark
      <3>3. CASE dispute = "none" /\ create_dispute
        BY <3>3, FilePurse
      <3>4. CASE dispute # "none" \/ dispute' = "none"
        <4>1. Legs' = Legs /\ Total' = Total /\ UNCHANGED bal
          BY <1>2 DEF Legs, Total, ledgerVars
        <4> QED
          BY <1>2, <3>1, <3>4, <4>1 DEF Purse, NoCentsMinted, Ruled
      <3> QED
        BY <3>2, <3>3, <3>4
    <2> QED
      BY <2>1, <2>2
  <1>3. CASE /\ pc[p] \in {"s_pay", "f_pay", "l_pay"} /\ Pays(p)
             /\ UNCHANGED disputeVars
    <2>1. CASE dispute = "none"
      BY <1>3, <2>1, PayPurse
    <2>2. CASE dispute # "none"
      <3>1. SuccessPay(p)
        <4>1. pc[p] = "s_pay" \/ pc[p] = "l_pay"
          BY <1>3, <2>2 DEF Agree, Row, Place, Refunding, Lost
        <4> QED
          BY <4>1 DEF Step, SettleFailed, SettleSuccessful, CompleteGate, FailUpdate,
             FailedReadBack, FailedPay, FailedMark, SuccessInit, SuccessCheck,
             SuccessMark, RecordJudgeFee, CancelUpdate, CancelReadBack, ProceedUpdate,
             VerifExpiryMark, DecideOpen, DecideExpire, AcceptCheck, AcceptDecide,
             RejectFile, RejectDecide, CompareOpen, CompareDecide, LoserRefund,
             LoserMark, FileTxn, JudgeStart, JudgeVote, JudgesAgree, JudgesTie,
             VoteFails, JudgeTied, AppealMark, ResolveSettle, ResolveFinalize,
             EffectsRead, EffectsMark
      <3>2. UNCHANGED <<ledgerVars, ledgerOutcome>>
        BY <1>3, <2>2, <3>1 DEF SuccessPay, disputeVars
      <3> QED
        BY <1>2, <3>2
    <2> QED
      BY <2>1, <2>2
  <1> QED
    BY <1>1, <1>2, <1>3, FilePurse, RulingPurse, StepBooks

PurseInv == ~crossed => Purse

LEMMA NextPurse ==
    ASSUME TypeOK, MoneyInv, DisputeInv, UncrossedInv, UncrossedInv', PurseInv,
           [Next]_vars
    PROVE  PurseInv'
  <1> SUFFICES ASSUME ~crossed' PROVE Purse'
    BY DEF PurseInv
  <1>1. CASE \/ Worker
             \/ \E p \in Procs : Start(p) \/ Crash(p)
             \/ UNCHANGED vars
    <2>1. UNCHANGED <<ledgerVars, disputeVars, crossed>>
      BY <1>1, OthersKeepMoney
    <2>2. Purse
      BY <2>1 DEF PurseInv
    <2> QED
      BY <2>1, <2>2
         DEF ledgerVars, disputeVars, Purse, EscrowInv, EscrowDrained, NoCentsMinted,
             Ruled, Legs, Total
  <1>2. ASSUME NEW p \in Procs, Step(p)
        PROVE  Purse'
    <2>1. ~crossed
      BY <1>2, StepCrosses DEF TypeOK, LedgerTypeOK
    <2> QED
      BY <1>2, <2>1, StepPurse DEF PurseInv, UncrossedInv
  <1> QED
    BY <1>1, <1>2 DEF Next

LEMMA PurseInvariant == Spec => []PurseInv
  <1>1. Init => PurseInv
    BY CentsTypes DEF Init, PurseInv, Purse, EscrowInv, EscrowDrained, NoCentsMinted,
                      Ruled, Legs, Total, Wallets
  <1>2. TypeOK /\ MoneyInv /\ DisputeInv /\ UncrossedInv /\ UncrossedInv' /\ PurseInv
          /\ [Next]_vars => PurseInv'
    BY NextPurse
  <1> QED
    BY <1>1, <1>2, TypeCorrect, MoneyInvariant, DisputeInvariant, UncrossedInvariant,
       PTL DEF Spec

\* For any number of handlers, wherever they die: as long as no payout has landed
\* behind a dispute and no status write was lost, the wallets never hold more than
\* the caller was charged.  A ruling on an empty escrow credits the charge only
\* when nothing of it was paid (post_dispute_settlement).
THEOREM UncrossedMintsNothing == Spec => []MintsOnlyCrossed
  <1>1. PurseInv => MintsOnlyCrossed
    BY DEF PurseInv, Purse, MintsOnlyCrossed
  <1> QED
    BY <1>1, PurseInvariant, PTL

\* For any number of handlers: every ruling on a job whose handlers have not
\* crossed empties the escrow, a split too.
THEOREM UncrossedDrains == Spec => []DrainedUnlessCrossed
  <1>1. PurseInv => DrainedUnlessCrossed
    BY DEF PurseInv, Purse, EscrowInv, DrainedUnlessCrossed
  <1> QED
    BY <1>1, PurseInvariant, PTL

\* For any number of handlers, wherever they die: a job whose handlers have not
\* crossed is settled by its status.  A complete job pays its worker in full, a
\* failed or cancelled one gives money back (_settle_successful_job,
\* _settle_failed_job).
THEOREM UncrossedPaidAlike == Spec => []StatusPaidAlike
  <1>1. TypeOK /\ MoneyInv /\ DisputeInv /\ UncrossedInv => StatusPaidAlike
    <2> SUFFICES ASSUME TypeOK, MoneyInv, DisputeInv, UncrossedInv,
                        ~crossed, settled, dispute = "none"
                 PROVE  /\ status = "complete" => payout = Payout /\ fee = Fee
                        /\ status \in {"failed", "cancelled"} => refund > 0
      BY DEF StatusPaidAlike, SettlementMatchesStatus
    <2>1. Legs = Charge /\ Charge > 0 /\ LedgerTypeOK /\ RowsShape /\ Row
      BY CentsTypes
         DEF MoneyInv, SettledMeansDistributed, DisputeInv, Ruled, TypeOK, UncrossedInv,
             Agree
    <2>2. CASE status = "complete"
      <3>1. refund = 0
        BY <2>1, <2>2, WalletTypes DEF Row, Lost
      <3> QED
        BY <2>1, <2>2, <3>1, WalletTypes, CentsTypes DEF RowsShape, Legs
    <2>3. CASE status \in Lost
      BY <2>1, <2>3, WalletTypes DEF Row, Lost
    <2> QED
      BY <2>2, <2>3 DEF Lost
  <1> QED
    BY <1>1, TypeCorrect, MoneyInvariant, DisputeInvariant, UncrossedInvariant, PTL

-----------------------------------------------------------------------------
(* The ruling on the row and the ruling in the ledger.                       *)

\* One handler at a time.
Alone == \A p, q \in Procs : p = q

\* Between the marker in the ledger and the dispute row, the handler that wrote
\* the one is about to write the other, or an admin rules again.
Pending(p) ==
    pc[p] = "d_finalize" \/ (pc[p] = "d_settle" /\ loc[p].kind = "admin")

RulingInv ==
    /\ jobOutcome # "none" => Ruled
    /\ dispute = "resolved" => Ruled
    /\ \A p \in Procs : pc[p] = "appeal_upd" => loc[p].kind = "admin"
    /\ crashes = 0 =>
          /\ JudgedRulingStands
          /\ Ruled => dispute \in {"resolved", "final"} \/ \E p \in Procs : Pending(p)
          /\ \A p \in Procs :
                /\ pc[p] \in {"j_start", "j_vote", "j_tied"} => ~Ruled
                /\ pc[p] = "d_settle" /\ loc[p].kind # "admin" => ~Ruled
                /\ pc[p] = "d_finalize" /\ loc[p].kind = "judge" =>
                      loc[p].outcome = ledgerOutcome /\ jobOutcome = "none"
                /\ pc[p] = "e_read" /\ dispute = "resolved" =>
                      loc[p].outcome = ledgerOutcome

\* What RulingInv says when p is the only handler.
Rules(p) ==
    /\ jobOutcome # "none" => Ruled
    /\ dispute = "resolved" => Ruled
    /\ pc[p] = "appeal_upd" => loc[p].kind = "admin"
    /\ crashes = 0 =>
          /\ dispute = "resolved" => /\ rowOutcome = ledgerOutcome
                                     /\ jobOutcome \in {"none", ledgerOutcome}
          /\ Ruled => dispute \in {"resolved", "final"} \/ Pending(p)
          /\ pc[p] \in {"j_start", "j_vote", "j_tied"} => ~Ruled
          /\ pc[p] = "d_settle" /\ loc[p].kind # "admin" => ~Ruled
          /\ pc[p] = "d_finalize" /\ loc[p].kind = "judge" =>
                loc[p].outcome = ledgerOutcome /\ jobOutcome = "none"
          /\ pc[p] = "e_read" /\ dispute = "resolved" => loc[p].outcome = ledgerOutcome

LEMMA RulesAlone ==
    ASSUME Alone, NEW p \in Procs
    PROVE  (RulingInv => Rules(p)) /\ (Rules(p)' => RulingInv')
  <1>1. \A q \in Procs : q = p
    BY DEF Alone
  <1>2. RulingInv => Rules(p)
    BY <1>1 DEF RulingInv, Rules, JudgedRulingStands
  <1>3. Rules(p)' => RulingInv'
    BY <1>1 DEF RulingInv, Rules, JudgedRulingStands
  <1> QED
    BY <1>2, <1>3

\* A handler outside the hearing leaves the ruling as it is.
LEMMA OutsideRules ==
    ASSUME NEW p \in Procs, DisputeInv, Rules(p),
           pc[p] \notin Hearing, pc'[p] \notin Hearing,
           UNCHANGED <<ledgerOutcome, rowOutcome, jobOutcome, crashes>>,
           UNCHANGED dispute \/ (dispute = "none" /\ dispute' = "open")
    PROVE  Rules(p)'
  BY DEF Rules, Pending, Hearing, DisputeInv, Ruled

LEMMA StartRules ==
    ASSUME ProcTypeOK, DisputeInv, NEW p \in Procs, Rules(p), Start(p)
    PROVE  Rules(p)'
  <1>1. UNCHANGED <<ledgerOutcome, rowOutcome, dispute>>
    BY OthersKeepMoney DEF disputeVars
  <1>2. UNCHANGED <<jobOutcome, crashes>> /\ pc[p] = "idle"
    BY DEF Start, CompleteRead, FailRead, ForceFailList, mark_job_timeout,
           schedule_job_retry, GiveUp, CancelRead, ProceedList, SweepCompleted,
           VerifExpiryList, DecideRead, CompareRead, FileRead, JudgeRead, AdminRead,
           TieTimeout, jobVars, Begin, BeginAs, BeginWith
  <1>3. CASE JudgeRead(p)
    <2>1. pc'[p] = "j_start" /\ dispute \notin {"resolved", "final"}
      BY <1>3 DEF JudgeRead, BeginAs, BeginWith, ProcTypeOK
    <2> QED
      BY <1>1, <1>2, <2>1 DEF Rules, Pending, Ruled
  <1>4. ASSUME NEW o \in Outcomes, AdminRead(p, o)
        PROVE  Rules(p)'
    <2>1. /\ loc'[p].kind = "admin"
          /\ pc'[p] = IF dispute \in {"resolved", "consensus"} THEN "appeal_upd"
                      ELSE "d_settle"
          /\ dispute # "final"
      BY <1>4 DEF AdminRead, BeginWith, ProcTypeOK, NoLoc
    <2> QED
      BY <1>1, <1>2, <2>1 DEF Rules, Pending, Ruled
  <1>5. CASE TieTimeout(p)
    <2>1. pc'[p] = "d_settle" /\ dispute = "tied"
      BY <1>5 DEF TieTimeout, BeginWith, ProcTypeOK
    <2> QED
      BY <1>1, <1>2, <2>1 DEF Rules, Pending, Ruled
  <1>6. CASE ~JudgeRead(p) /\ ~(\E o \in Outcomes : AdminRead(p, o)) /\ ~TieTimeout(p)
    <2>1. pc'[p] \notin Hearing
      BY <1>2, <1>6
         DEF Start, CompleteRead, FailRead, ForceFailList, mark_job_timeout,
             schedule_job_retry, GiveUp, CancelRead, ProceedList, SweepCompleted,
             VerifExpiryList, DecideRead, CompareRead, FileRead, Begin, BeginAs,
             BeginWith, ProcTypeOK, Hearing, procVars
    <2> QED
      BY <1>1, <1>2, <2>1, OutsideRules DEF Hearing
  <1> QED
    BY <1>3, <1>4, <1>5, <1>6

LEMMA HearingRules ==
    ASSUME ProcTypeOK, MoneyInv, DisputeInv, NEW p \in Procs, Rules(p),
           \/ JudgeStart(p) \/ JudgeVote(p) \/ JudgeTied(p) \/ AppealMark(p)
           \/ ResolveSettle(p) \/ ResolveFinalize(p) \/ EffectsRead(p) \/ EffectsMark(p)
    PROVE  Rules(p)'
  <1>0. pc \in [Procs -> Labels] /\ loc \in [Procs -> Locs] /\ UNCHANGED crashes
    BY DEF ProcTypeOK, JudgeStart, JudgeVote, JudgesAgree, JudgesTie, VoteFails,
           JudgeTied, AppealMark, ResolveSettle, ResolveFinalize, EffectsRead, EffectsMark
  <1>1. CASE JudgeStart(p) \/ JudgeVote(p) \/ JudgeTied(p)
    <2>1. /\ UNCHANGED <<ledgerOutcome, jobOutcome>>
          /\ pc'[p] \in {"j_vote", "d_settle", "j_tied", "idle"}
          /\ pc[p] \in {"j_start", "j_vote", "j_tied"}
          /\ dispute' \in {"open", "consensus", "tied"}
      BY <1>0, <1>1
         DEF JudgeStart, JudgeVote, JudgesAgree, JudgesTie, VoteFails, JudgeTied, Forget,
             Finish, Goto, jobVars
    <2> QED
      BY <1>0, <2>1 DEF Rules, Ruled
  <1>2. CASE AppealMark(p)
    <2>1. /\ UNCHANGED <<ledgerOutcome, jobOutcome>>
          /\ pc[p] = "appeal_upd" /\ pc'[p] = "d_settle" /\ loc'[p] = loc[p]
          /\ dispute' = "appealed"
      BY <1>0, <1>2 DEF AppealMark, Goto, jobVars
    <2> QED
      BY <1>0, <2>1 DEF Rules, Pending, Ruled
  <1>3. CASE ResolveSettle(p)
    <2>1. /\ UNCHANGED <<jobOutcome, dispute, rowOutcome>>
          /\ pc[p] = "d_settle"
      BY <1>3 DEF ResolveSettle, jobVars
    <2>2. CASE loc[p].kind = "judge" /\ loc[p].outcome = "split"
      <3>1. UNCHANGED ledgerOutcome /\ pc'[p] = "idle"
        BY <1>0, <1>3, <2>2 DEF ResolveSettle, Finish, Forget
      <3> QED
        BY <1>0, <2>1, <2>2, <3>1 DEF Rules, Ruled
    <2>3. CASE ~(loc[p].kind = "judge" /\ loc[p].outcome = "split")
      <3>1. /\ pc'[p] = "d_finalize" /\ loc'[p] = loc[p]
            /\ IF Ruled THEN UNCHANGED ledgerOutcome
                        ELSE ledgerOutcome' = loc[p].outcome
            /\ loc[p].outcome # "none"
        BY <1>0, <1>3, <2>3
           DEF ResolveSettle, Goto, post_dispute_settlement, Ruled, MoneyInv, Position,
               AllOutcomes
      <3> QED
        BY <1>0, <2>1, <3>1 DEF Rules, Pending, Ruled
    <2> QED
      BY <2>2, <2>3
  <1>4. CASE ResolveFinalize(p)
    <2>1. /\ UNCHANGED <<jobOutcome, ledgerOutcome>> /\ Ruled /\ pc[p] = "d_finalize"
          /\ pc'[p] = "e_read" /\ rowOutcome' = loc[p].outcome
          /\ dispute' = IF loc[p].kind = "judge" THEN "resolved" ELSE "final"
      BY <1>0, <1>4 DEF ResolveFinalize, jobVars, MoneyInv, Position
    <2>2. loc'[p].outcome = loc[p].outcome
      BY <1>0, <1>4 DEF ResolveFinalize, Locs
    <2> QED
      BY <1>0, <2>1, <2>2 DEF Rules, Pending, Ruled
  <1>5. CASE EffectsRead(p)
    <2>1. /\ UNCHANGED <<dispute, rowOutcome, ledgerOutcome>> /\ Ruled /\ pc[p] = "e_read"
          /\ pc'[p] \in {"idle", "e_mark"} /\ jobOutcome' = loc[p].outcome
      BY <1>0, <1>5 DEF EffectsRead, disputeVars, MoneyInv, Position, Finish, Forget, Goto
    <2> QED
      BY <1>0, <2>1 DEF Rules, Pending, Ruled
  <1>6. CASE EffectsMark(p)
    <2>1. /\ UNCHANGED <<dispute, rowOutcome, ledgerOutcome, jobOutcome>>
          /\ pc[p] = "e_mark" /\ pc'[p] = "idle"
      BY <1>0, <1>6 DEF EffectsMark, mark_settled, disputeVars, Finish, Forget
    <2> QED
      BY <1>0, <2>1 DEF Rules, Pending, Ruled
  <1> QED
    BY <1>1, <1>2, <1>3, <1>4, <1>5, <1>6

LEMMA StepRules ==
    ASSUME ProcTypeOK, MoneyInv, DisputeInv, NEW p \in Procs, Rules(p), Step(p)
    PROVE  Rules(p)'
  <1>1. CASE \/ JudgeStart(p) \/ JudgeVote(p) \/ JudgeTied(p) \/ AppealMark(p)
             \/ ResolveSettle(p) \/ ResolveFinalize(p) \/ EffectsRead(p) \/ EffectsMark(p)
    BY <1>1, HearingRules
  <1>2. CASE ~(\/ JudgeStart(p) \/ JudgeVote(p) \/ JudgeTied(p) \/ AppealMark(p)
               \/ ResolveSettle(p) \/ ResolveFinalize(p) \/ EffectsRead(p)
               \/ EffectsMark(p))
    <2>1. /\ pc[p] \notin Hearing
          /\ UNCHANGED <<ledgerOutcome, rowOutcome, jobOutcome, crashes>>
          /\ UNCHANGED dispute \/ (dispute = "none" /\ dispute' = "open")
      BY <1>2 DEF Hearing, jobVars, disputeVars, create_dispute, update_job_status,
           mark_settled, Step, SettleFailed, SettleSuccessful, CompleteGate, FailUpdate,
           FailedReadBack, FailedPay, FailedMark, SuccessInit, SuccessCheck, SuccessPay,
           SuccessMark, RecordJudgeFee, CancelUpdate, CancelReadBack, ProceedUpdate,
           VerifExpiryMark, DecideOpen, DecideExpire, AcceptCheck, AcceptDecide,
           RejectFile, RejectDecide, CompareOpen, CompareDecide, LoserRefund, LoserMark,
           FileTxn
    <2> QED
      BY <2>1, StepOutside, OutsideRules
  <1> QED
    BY <1>1, <1>2

LEMMA NextRules ==
    ASSUME Alone, TypeOK, MoneyInv, DisputeInv, RulingInv, [Next]_vars
    PROVE  RulingInv'
  <1> USE DEF TypeOK
  <1>1. ASSUME NEW p \in Procs, Start(p) \/ Step(p)
        PROVE  RulingInv'
    BY <1>1, RulesAlone, StartRules, StepRules
  <1>2. ASSUME NEW p \in Procs, Crash(p)
        PROVE  RulingInv'
    <2>1. crashes' # 0 /\ pc'[p] = "idle" /\ UNCHANGED <<jobOutcome, dispute, ledgerOutcome>>
      BY <1>2 DEF Crash, Finish, Forget, ProcTypeOK, jobVars, disputeVars
    <2>2. Rules(p)'
      BY <2>1, RulesAlone DEF Rules, Ruled
    <2> QED
      BY <2>2, RulesAlone
  <1>3. CASE Worker \/ UNCHANGED vars
    <2>1. UNCHANGED <<jobOutcome, disputeVars, procVars, crashes>>
      BY <1>3 DEF Worker, claim_job, LeaseRunsOut, release_job_claim, add_message,
                  VerificationWindowCloses, vars, jobVars
    <2> QED
      BY <2>1 DEF disputeVars, procVars, RulingInv, JudgedRulingStands, Pending, Ruled
  <1> QED
    BY <1>1, <1>2, <1>3 DEF Next

\* As long as no handler dies, a dispute that the judges resolved shows on its
\* own row and on the job the outcome that moved the money, although
\* finalize_dispute overwrites the row without a look at the ledger.
THEOREM JudgedRulingStandsAlone ==
    ASSUME Alone
    PROVE  Spec => []JudgedRulingStands
  <1>1. Init => RulingInv
    BY DEF Init, RulingInv, JudgedRulingStands, Ruled
  <1>2. TypeOK /\ MoneyInv /\ DisputeInv /\ RulingInv /\ [Next]_vars => RulingInv'
    BY NextRules
  <1>3. RulingInv => JudgedRulingStands
    BY DEF RulingInv, JudgedRulingStands
  <1> QED
    BY <1>1, <1>2, <1>3, TypeCorrect, MoneyInvariant, DisputeInvariant, PTL DEF Spec

-----------------------------------------------------------------------------
(* Any number of handlers, before a dispute.                                 *)

Undisputed == dispute = "none" => Total = PlatformFloat + Legs

LEMMA NextUndisputed ==
    ASSUME TypeOK, DisputeInv, Undisputed, [Next]_vars
    PROVE  Undisputed'
  <1> USE DEF TypeOK
  <1>1. CASE dispute # "none"
    BY <1>1, DisputeStays DEF Undisputed
  <1>2. ASSUME dispute = "none", NEW p \in Procs, Step(p)
        PROVE  Undisputed'
    <2>1. Total = PlatformFloat + Legs
      BY <1>2 DEF Undisputed
    <2>2. CASE Pays(p)
      BY <2>1, <2>2, PaysTotal DEF Undisputed
    <2>3. CASE RecordJudgeFee(p)
      <3>1. Total' = Total
        BY <2>3, WalletTypes, CentsTypes DEF RecordJudgeFee, Total, Wallets
      <3>2. Legs' = Legs
        BY <2>3 DEF RecordJudgeFee, Legs
      <3> QED
        BY <2>1, <3>1, <3>2 DEF Undisputed
    <2>4. CASE create_dispute
      BY <2>4 DEF create_dispute, Undisputed
    <2>5. CASE UNCHANGED ledgerVars
      <3>1. Total' = Total /\ Legs' = Legs
        BY <2>5 DEF ledgerVars, Total, Legs
      <3> QED
        BY <2>1, <3>1 DEF Undisputed
    <2>6. ~ResolveSettle(p)
      BY <1>2 DEF ResolveSettle, DisputeInv, Hearing
    <2> QED
      BY <1>2, <2>2, <2>3, <2>4, <2>5, <2>6, StepBooks
  <1>3. CASE \/ Worker
             \/ \E p \in Procs : Start(p) \/ Crash(p)
             \/ UNCHANGED vars
    BY <1>3, OthersKeepMoney DEF ledgerVars, disputeVars, Undisputed, Total, Legs
  <1> QED
    BY <1>1, <1>2, <1>3 DEF Next

\* Until a dispute is filed the wallets hold exactly what the ledger rows of the
\* charge say, and no more than the charge, for any number of handlers that
\* complete, fail, cancel, retry, sweep, accept and refund a compare loser at
\* once: only a dispute can mint cents (run dispute_race).
THEOREM UndisputedBooksBalance ==
    Spec => [](dispute = "none" => Total = PlatformFloat + Legs /\ NoCentsMinted)
  <1>1. Init => Undisputed
    BY CentsTypes DEF Init, Undisputed, Legs, Total, Wallets
  <1>2. TypeOK /\ DisputeInv /\ Undisputed /\ [Next]_vars => Undisputed'
    BY NextUndisputed
  <1>3. TypeOK /\ MoneyInv /\ Undisputed =>
          (dispute = "none" => Total = PlatformFloat + Legs /\ NoCentsMinted)
    <2> SUFFICES ASSUME TypeOK, MoneyInv, Undisputed, dispute = "none"
                 PROVE  Total = PlatformFloat + Legs /\ NoCentsMinted
      OBVIOUS
    <2>1. Total = PlatformFloat + Legs
      BY DEF Undisputed
    <2>2. Legs = 0 \/ Legs = Charge
      BY LegsCases DEF TypeOK, MoneyInv
    <2> QED
      BY <2>1, <2>2, CentsTypes DEF NoCentsMinted
  <1> QED
    BY <1>1, <1>2, <1>3, TypeCorrect, MoneyInvariant, DisputeInvariant, PTL DEF Spec
=============================================================================
