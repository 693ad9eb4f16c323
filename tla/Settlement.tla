----------------------------- MODULE Settlement -----------------------------
(***************************************************************************)
(* One paid job of the marketplace, from the moment its caller has been    *)
(* charged until the charge has been distributed: the `jobs` row, the      *)
(* ledger rows keyed by the charge, the dispute opened on the job, and the *)
(* request handlers and sweeper passes that work on them concurrently.     *)
(*                                                                         *)
(* One database transaction, or one autocommitted statement, is one        *)
(* action; a handler is a process that takes several.  Between two of its  *)
(* transactions every other process may run, and the handler goes on with  *)
(* what it read before: pc[p] is the next transaction of process p and     *)
(* loc[p] holds the part of its last read that it still uses.              *)
(*                                                                         *)
(* Clock-dependent conditions (a lease that runs out, an SLA, a claim or a *)
(* clarification deadline, the verification window) are nondeterministic.  *)
(***************************************************************************)
EXTENDS Integers, FiniteSets

CONSTANTS
    Procs,          \* concurrent handlers: HTTP requests and sweeper passes
    Kinds,          \* the handler kinds that run in this instance
    Outcomes,       \* the dispute outcomes judges and admins may return
    MaxAttempts,    \* jobs.max_attempts
    MaxCrashes,     \* bound on processes that die between two transactions
    Payout, Fee,    \* cents of the successful distribution
    PartialSplits,  \* distributions of a charge by post_call_partial_settle
    SplitCaller, SplitAgent,  \* the shares of a "split" dispute outcome
    JudgeFee,       \* min(_JUDGE_FEE_CENTS, platform fee)
    PlatformFloat   \* cents the platform wallet holds from other jobs

Charge == Payout + Fee

ForceKinds == {"sla", "clarify_fail", "claim_deadline", "startup", "close_agent"}

ResolveKinds == {"judge", "admin", "tie_timeout"}

AllKinds ==
    ForceKinds \cup ResolveKinds \cup
    {"complete", "master_complete", "fail", "master_fail", "cancel", "timeout",
     "retry", "proceed", "verif_expiry", "sweep", "accept", "reject",
     "compare_winner", "compare_loser", "file"}

NoSplit == [refund |-> Charge, payout |-> 0, fee |-> 0]

Splits == PartialSplits \cup {NoSplit}

AllOutcomes == {"caller_wins", "agent_wins", "split", "void"}

\* ChargeLedgerProofs shows that the distributions of core/payments satisfy this:
\* they add up to the charge, and a partial settlement refunds at least one cent.
\* A charge of zero cents moves nothing and is left out.
ASSUME CentsAssumption ==
    /\ Payout \in Nat \ {0}
    /\ Fee \in Nat
    /\ JudgeFee \in Nat
    /\ PlatformFloat \in Nat
    /\ SplitCaller \in Nat
    /\ SplitAgent \in Nat
    /\ SplitCaller + SplitAgent <= Charge
    /\ \A s \in PartialSplits :
          /\ s \in [refund : Nat \ {0}, payout : Nat, fee : Nat]
          /\ s.refund + s.payout + s.fee = Charge

\* select_winner fixes once whether the job won its compare session, so an
\* instance has at most one of the two compare handlers.
ASSUME BoundsAssumption ==
    /\ MaxAttempts \in Nat \ {0}
    /\ MaxCrashes \in Nat
    /\ Kinds \subseteq AllKinds
    /\ Outcomes \subseteq AllOutcomes
    /\ ~({"compare_winner", "compare_loser"} \subseteq Kinds)

-----------------------------------------------------------------------------
VARIABLES
    (* the jobs row *)
    status,     \* jobs.status
    completed,  \* completed_at IS NOT NULL
    settled,    \* settled_at IS NOT NULL
    verif,      \* output_verification_status
    vdue,       \* output_verification_deadline_at has passed
    claim,      \* claim_owner_id / lease_expires_at: none, live or stale
    attempts,   \* attempt_count
    timedOut,   \* timeout_count > 0
    jobOutcome, \* jobs.dispute_outcome
    (* the ledger: cents of the rows keyed by the charge (0: no such row) *)
    refund, payout, fee,
    judgePaid,  \* the judge-fee row exists
    bal,        \* wallet balances since the charge was taken
    (* the dispute of the job *)
    dispute,        \* disputes.status; "open" stands for awaiting_operator,
                    \* pending and judging
    ledgerOutcome,  \* outcome of the final-settlement marker in the ledger
    rowOutcome,     \* disputes.outcome
    (* history *)
    crossed,    \* a handler has worked against what another one had decided
    (* the handlers *)
    pc, loc, crashes

jobVars == <<status, completed, settled, verif, vdue, claim, attempts,
             timedOut, jobOutcome>>
ledgerVars == <<refund, payout, fee, judgePaid, bal>>
disputeVars == <<dispute, ledgerOutcome, rowOutcome>>
procVars == <<pc, loc>>
vars == <<jobVars, ledgerVars, disputeVars, crossed, procVars, crashes>>

Statuses == {"pending", "running", "awaiting_clarification", "complete",
             "failed", "cancelled"}
OpenStatuses == {"pending", "running", "awaiting_clarification"}
ActiveStatuses == {"running", "awaiting_clarification"}
VerifStatuses == {"not_required", "armed", "pending", "accepted", "rejected",
                  "expired"}
Wallets == {"caller", "agent", "platform", "escrow", "judge"}

Labels == {"idle", "c_gate", "fail_upd", "force_upd", "cancel_upd",
           "cancel_read", "proceed_upd", "v_mark", "v_open", "v_expire",
           "a_check", "a_decide", "r_file", "r_decide", "k_open", "k_decide",
           "l_pay", "l_mark", "file_txn", "j_start", "j_vote", "j_tied",
           "appeal_upd", "d_settle", "d_finalize", "e_read",
           "e_mark", "s_init", "s_check", "s_pay", "s_mark", "c_judge",
           "f_read", "f_pay", "f_mark"}

NoLoc == [kind |-> "none", verif |-> "none", settled |-> FALSE,
          split |-> NoSplit, outcome |-> "none"]

Locs == [kind : {"none", "complete", "accept", "reject", "compare_winner",
                 "compare_loser"} \cup ResolveKinds,
         verif : VerifStatuses \cup {"none"},
         settled : BOOLEAN,
         split : Splits,
         outcome : AllOutcomes \cup {"none"}]

JobTypeOK ==
    /\ status \in Statuses
    /\ completed \in BOOLEAN
    /\ settled \in BOOLEAN
    /\ verif \in VerifStatuses
    /\ vdue \in BOOLEAN
    /\ claim \in {"none", "live", "stale"}
    /\ attempts \in 0 .. MaxAttempts
    /\ timedOut \in BOOLEAN
    /\ jobOutcome \in AllOutcomes \cup {"none"}

LedgerTypeOK ==
    /\ refund \in Nat
    /\ payout \in Nat
    /\ fee \in Nat
    /\ judgePaid \in BOOLEAN
    /\ bal \in [Wallets -> Int]
    /\ crossed \in BOOLEAN

DisputeTypeOK ==
    /\ dispute \in {"none", "open", "tied", "consensus", "resolved", "appealed",
                   "final"}
    /\ ledgerOutcome \in AllOutcomes \cup {"none"}
    /\ rowOutcome \in AllOutcomes \cup {"none"}

ProcTypeOK ==
    /\ pc \in [Procs -> Labels]
    /\ loc \in [Procs -> Locs]
    /\ crashes \in 0 .. MaxCrashes

\* Every column holds one of the values the schema and the handlers know, and
\* attempt_count stays within max_attempts.
TypeOK == JobTypeOK /\ LedgerTypeOK /\ DisputeTypeOK /\ ProcTypeOK

\* A freshly created job: charged, pending, unclaimed, with or without an
\* output-verification window.
Init ==
    /\ status = "pending"
    /\ completed = FALSE
    /\ settled = FALSE
    /\ verif \in {"not_required", "armed"}
    /\ vdue = FALSE
    /\ claim = "none"
    /\ attempts = 0
    /\ timedOut = FALSE
    /\ jobOutcome = "none"
    /\ refund = 0
    /\ payout = 0
    /\ fee = 0
    /\ judgePaid = FALSE
    /\ bal = [w \in Wallets |-> IF w = "platform" THEN PlatformFloat ELSE 0]
    /\ dispute = "none"
    /\ ledgerOutcome = "none"
    /\ rowOutcome = "none"
    /\ crossed = FALSE
    /\ pc = [p \in Procs |-> "idle"]
    /\ loc = [p \in Procs |-> NoLoc]
    /\ crashes = 0

-----------------------------------------------------------------------------
(* Control of the handlers. *)

\* An idle process starts a handler of kind k; l is its next transaction and r
\* what it remembers.
BeginWith(p, k, r, l) ==
    /\ pc[p] = "idle"
    /\ k \in Kinds
    /\ pc' = [pc EXCEPT ![p] = l]
    /\ loc' = [loc EXCEPT ![p] = r]

Begin(p, k, l) == BeginWith(p, k, NoLoc, l)

\* A handler whose later steps depend on its kind remembers it.
BeginAs(p, k, l) == BeginWith(p, k, [NoLoc EXCEPT !.kind = k], l)

\* The handler goes on at l with nothing left to remember.
Forget(p, l) ==
    /\ pc' = [pc EXCEPT ![p] = l]
    /\ loc' = [loc EXCEPT ![p] = NoLoc]

Goto(p, l) ==
    /\ pc' = [pc EXCEPT ![p] = l]
    /\ UNCHANGED loc

Finish(p) == Forget(p, "idle")

-----------------------------------------------------------------------------
(* The jobs row. *)

\* Mutant: completion keeps the claim and the lease.
update_job_status_keeps_claim(s) ==
    /\ status' = IF completed THEN status ELSE s
    /\ completed' = TRUE
    /\ crossed' = (crossed \/ (completed /\ status # s))
    /\ UNCHANGED <<settled, verif, vdue, claim, attempts, timedOut, jobOutcome>>

\* update_job_status(..., completed=True): the UPDATE matches no row when
\* completed_at is already set, and the caller is not told.  The handlers cross
\* when the job had finished in another way.
update_job_status(s) ==
    /\ status' = IF completed THEN status ELSE s
    /\ claim' = IF completed THEN claim ELSE "none"
    /\ completed' = TRUE
    /\ crossed' = (crossed \/ (completed /\ status # s))
    /\ UNCHANGED <<settled, verif, vdue, attempts, timedOut, jobOutcome>>

mark_settled ==
    /\ settled' = TRUE
    /\ UNCHANGED <<status, completed, verif, vdue, claim, attempts, timedOut,
                   jobOutcome>>

\* initialize_output_verification_state opens the window of a job that was
\* created with one, once the job is complete.
initialize_output_verification_state ==
    IF status = "complete" /\ completed /\ verif = "armed"
    THEN "pending"
    ELSE verif

\* set_output_verification_decision changes the row only while it is pending.
set_output_verification_decision(d) ==
    verif' = IF verif = "pending" THEN d ELSE verif

-----------------------------------------------------------------------------
(* The ledger.  A transaction that credits a wallet inserts the row and     *)
(* moves the balance together; the unique index on (related_tx_id, type,    *)
(* wallet_id) turns a second insert of the same row into a no-op.           *)

\* post_call_payout: nothing when a refund row exists; each leg at most once.
post_call_payout ==
    /\ payout' = IF refund = 0 /\ payout = 0 THEN Payout ELSE payout
    /\ fee' = IF refund = 0 /\ fee = 0 THEN Fee ELSE fee
    /\ bal' = [bal EXCEPT !["agent"] = @ + (payout' - payout),
                          !["platform"] = @ + (fee' - fee)]
    /\ UNCHANGED <<refund, judgePaid>>

\* Mutant: only an earlier refund is looked for.
post_call_refund_ignores_payout ==
    /\ refund' = IF refund = 0 THEN Charge ELSE refund
    /\ bal' = [bal EXCEPT !["caller"] = @ + (refund' - refund)]
    /\ UNCHANGED <<payout, fee, judgePaid>>

\* post_call_refund: nothing when a payout or fee row exists.
post_call_refund ==
    /\ refund' = IF payout = 0 /\ fee = 0 /\ refund = 0 THEN Charge ELSE refund
    /\ bal' = [bal EXCEPT !["caller"] = @ + (refund' - refund)]
    /\ UNCHANGED <<payout, fee, judgePaid>>

\* post_call_partial_settle: nothing when any row of the charge exists.
post_call_partial_settle(s) ==
    LET fresh == refund = 0 /\ payout = 0 /\ fee = 0
    IN  /\ refund' = IF fresh THEN s.refund ELSE refund
        /\ payout' = IF fresh THEN s.payout ELSE payout
        /\ fee' = IF fresh THEN s.fee ELSE fee
        /\ bal' = [bal EXCEPT !["caller"] = @ + (refund' - refund),
                              !["agent"] = @ + (payout' - payout),
                              !["platform"] = @ + (fee' - fee)]
        /\ UNCHANGED judgePaid

-----------------------------------------------------------------------------
(* The worker side: claims, leases and messages, each one transaction. *)

\* Mutant: the attempt limit is not checked.
claim_job_unlimited ==
    /\ status \in OpenStatuses
    /\ ~completed /\ ~settled
    /\ claim # "live"
    /\ attempts' = attempts + 1
    /\ claim' = "live"
    /\ status' = IF status = "pending" THEN "running" ELSE status
    /\ UNCHANGED <<completed, settled, verif, vdue, timedOut, jobOutcome,
                   ledgerVars, disputeVars, crossed, procVars, crashes>>

claim_job ==
    /\ status \in OpenStatuses
    /\ ~completed /\ ~settled
    /\ claim # "live"
    /\ attempts < MaxAttempts
    /\ attempts' = attempts + 1
    /\ claim' = "live"
    /\ status' = IF status = "pending" THEN "running" ELSE status
    /\ UNCHANGED <<completed, settled, verif, vdue, timedOut, jobOutcome,
                   ledgerVars, disputeVars, crossed, procVars, crashes>>

LeaseRunsOut ==
    /\ claim = "live"
    /\ claim' = "stale"
    /\ UNCHANGED <<status, completed, settled, verif, vdue, attempts, timedOut,
                   jobOutcome, ledgerVars, disputeVars, crossed, procVars,
                   crashes>>

release_job_claim ==
    /\ claim # "none"
    /\ claim' = "none"
    /\ status' = "pending"
    /\ UNCHANGED <<completed, settled, verif, vdue, attempts, timedOut,
                   jobOutcome, ledgerVars, disputeVars, crossed, procVars,
                   crashes>>

\* A message of either party renews the lease of a claimed job, stale or not;
\* the clarification messages also set the status of an unfinished job.
add_message(target) ==
    /\ claim' = IF claim = "none" THEN "none" ELSE "live"
    /\ status' = IF target # "none" /\ ~completed /\ ~settled
                 THEN target ELSE status
    /\ UNCHANGED <<completed, settled, verif, vdue, attempts, timedOut,
                   jobOutcome, ledgerVars, disputeVars, crossed, procVars,
                   crashes>>

VerificationWindowCloses ==
    /\ verif = "pending"
    /\ ~vdue
    /\ vdue' = TRUE
    /\ UNCHANGED <<status, completed, settled, verif, claim, attempts,
                   timedOut, jobOutcome, ledgerVars, disputeVars, crossed,
                   procVars, crashes>>

-----------------------------------------------------------------------------
(* _settle_successful_job: four transactions.  Neither the status of the    *)
(* job nor, after s_check, the dispute is looked at again.                  *)

SuccessInit(p) ==
    /\ pc[p] = "s_init"
    /\ verif' = initialize_output_verification_state
    /\ pc' = [pc EXCEPT ![p] = "s_check"]
    /\ loc' = [loc EXCEPT ![p] = [@ EXCEPT !.verif = verif',
                                           !.settled = settled]]
    /\ UNCHANGED <<status, completed, settled, vdue, claim, attempts, timedOut,
                   jobOutcome, ledgerVars, disputeVars, crossed, crashes>>

\* Where _settle_successful_job returns to: jobs_complete goes on to pay the
\* quality judge, every other caller is done.
SuccessReturns(p) ==
    IF loc[p].kind = "complete"
    THEN Forget(p, "c_judge")
    ELSE Finish(p)

\* Mutant: an expired verification window still blocks the payout.
SuccessCheck_expired_blocks(p) ==
    /\ pc[p] = "s_check"
    /\ IF \/ dispute # "none"
          \/ loc[p].verif \in {"pending", "rejected", "expired"}
          \/ loc[p].settled
       THEN SuccessReturns(p)
       ELSE Goto(p, "s_pay")
    /\ UNCHANGED <<jobVars, ledgerVars, disputeVars, crossed, crashes>>

SuccessCheck(p) ==
    /\ pc[p] = "s_check"
    /\ IF \/ dispute # "none"
          \/ loc[p].verif \in {"pending", "rejected"}
          \/ loc[p].settled
       THEN SuccessReturns(p)
       ELSE /\ pc' = [pc EXCEPT ![p] = "s_pay"]
            /\ loc' = [loc EXCEPT ![p].verif = "none"]
    /\ UNCHANGED <<jobVars, ledgerVars, disputeVars, crossed, crashes>>

\* A payout that lands behind a dispute crosses it.
SuccessPay(p) ==
    /\ pc[p] = "s_pay"
    /\ post_call_payout
    /\ crossed' = (crossed \/ (dispute # "none" /\ ledgerVars' # ledgerVars))
    /\ Goto(p, "s_mark")
    /\ UNCHANGED <<jobVars, disputeVars, crashes>>

SuccessMark(p) ==
    /\ pc[p] = "s_mark"
    /\ mark_settled
    /\ SuccessReturns(p)
    /\ UNCHANGED <<ledgerVars, disputeVars, crossed, crashes>>

\* record_judge_fee: once per charge; raises when the platform wallet is short.
RecordJudgeFee(p) ==
    /\ pc[p] = "c_judge"
    /\ LET due == JudgeFee > 0 /\ ~judgePaid /\ bal["platform"] >= JudgeFee
       IN  /\ judgePaid' = (judgePaid \/ due)
           /\ bal' = IF due
                     THEN [bal EXCEPT !["platform"] = @ - JudgeFee,
                                      !["judge"] = @ + JudgeFee]
                     ELSE bal
    /\ Finish(p)
    /\ UNCHANGED <<jobVars, refund, payout, fee, disputeVars, crossed, crashes>>

SettleSuccessful(p) ==
    \/ SuccessInit(p)
    \/ SuccessCheck(p)
    \/ SuccessPay(p)
    \/ SuccessMark(p)
    \/ RecordJudgeFee(p)

-----------------------------------------------------------------------------
(* _settle_failed_job, entered with the row that update_job_status read     *)
(* back: that row decides, whatever status it has.                          *)

\* Mutant: settled_at is stamped before the refund.
FailedReadBack_marks_first(p) ==
    /\ pc[p] = "f_read"
    /\ IF settled THEN Finish(p) ELSE Goto(p, "f_mark")
    /\ UNCHANGED <<jobVars, ledgerVars, disputeVars, crossed, crashes>>

FailedReadBack(p) ==
    /\ pc[p] = "f_read"
    /\ IF settled THEN Finish(p) ELSE Goto(p, "f_pay")
    /\ UNCHANGED <<jobVars, ledgerVars, disputeVars, crossed, crashes>>

FailedPay(p) ==
    /\ pc[p] = "f_pay"
    /\ IF loc[p].split = NoSplit
       THEN post_call_refund
       ELSE post_call_partial_settle(loc[p].split)
    /\ Forget(p, "f_mark")
    /\ UNCHANGED <<jobVars, disputeVars, crossed, crashes>>

FailedMark(p) ==
    /\ pc[p] = "f_mark"
    /\ mark_settled
    /\ Finish(p)
    /\ UNCHANGED <<ledgerVars, disputeVars, crossed, crashes>>

SettleFailed(p) ==
    \/ FailedReadBack(p)
    \/ FailedPay(p)
    \/ FailedMark(p)

-----------------------------------------------------------------------------
(* jobs_complete and jobs_fail. *)

StaleActive == status \in ActiveStatuses /\ claim = "stale"

\* A worker whose lease timed out may still report while attempts remain.
LateWorkerGrace ==
    /\ claim = "none"
    /\ status \in {"pending", "failed"}
    /\ timedOut
    /\ attempts < MaxAttempts

\* The first read of jobs_complete.  A stale lease is answered 410 by the
\* touchpoint timeout (mark_job_timeout below), a settled job 200.
CompleteRead(p, k) ==
    /\ ~StaleActive
    /\ ~settled
    /\ \/ /\ status = "complete" /\ completed
          /\ BeginWith(p, k, NoLoc, "s_init")
       \/ /\ ~(status = "complete" /\ completed)
          /\ k = "master_complete" \/ claim # "none" \/ LateWorkerGrace
          /\ Begin(p, k, "c_gate")
    /\ UNCHANGED <<jobVars, ledgerVars, disputeVars, crossed, crashes>>

\* After the schema check and the quality gate (an LLM call): the output is
\* malformed, passes or fails.
CompleteGate(p) ==
    /\ pc[p] = "c_gate"
    /\ \/ /\ Finish(p)
          /\ UNCHANGED <<jobVars, crossed>>
       \/ /\ update_job_status("complete")
          /\ pc' = [pc EXCEPT ![p] = "s_init"]
          /\ loc' = [loc EXCEPT ![p].kind = "complete"]
       \/ /\ update_job_status("failed")
          /\ Goto(p, "f_read")
    /\ UNCHANGED <<ledgerVars, disputeVars, crashes>>

\* The first read of jobs_fail, with the refund fraction asked for.  A job that
\* already failed with the same message goes straight to _settle_failed_job with
\* the row just read; the master key needs no claim, and a job that has finished
\* in another way does not stop it.
FailRead(p, k, s) ==
    LET r == [NoLoc EXCEPT !.split = s]
    IN  /\ ~StaleActive
        /\ ~settled
        /\ \/ status = "failed" /\ BeginWith(p, k, r, "f_pay")
           \/ /\ k = "master_fail" \/ claim # "none" \/ LateWorkerGrace
              /\ BeginWith(p, k, r, "fail_upd")
        /\ UNCHANGED <<jobVars, ledgerVars, disputeVars, crossed, crashes>>

\* Mutant: the failed job is handed to _settle_successful_job.
FailUpdate_pays(p) ==
    /\ pc[p] \in {"fail_upd", "force_upd"}
    /\ update_job_status("failed")
    /\ Goto(p, "s_init")
    /\ UNCHANGED <<ledgerVars, disputeVars, crashes>>

FailUpdate(p) ==
    /\ pc[p] \in {"fail_upd", "force_upd"}
    /\ update_job_status("failed")
    /\ Goto(p, "f_read")
    /\ UNCHANGED <<ledgerVars, disputeVars, crashes>>

-----------------------------------------------------------------------------
(* Failing a job from outside: sweeper passes, startup, a deleted or banned *)
(* agent, a failed parent.  Each lists the job, then updates it.            *)

Overdue(k) ==
    CASE k = "sla" ->
             status \in ActiveStatuses /\ ~completed /\ ~settled /\ claim # "none"
      [] k = "clarify_fail" ->
             status = "awaiting_clarification" /\ ~completed /\ ~settled
      [] k = "claim_deadline" -> status = "pending"
      [] k = "startup" -> status = "pending" /\ claim = "none"
      [] k = "close_agent" -> status \in OpenStatuses

ForceFailList(p, k) ==
    /\ Overdue(k)
    /\ Begin(p, k, "force_upd")
    /\ UNCHANGED <<jobVars, ledgerVars, disputeVars, crossed, crashes>>

\* Where a job goes that is given up by its worker: back to the queue while
\* attempts remain, else failed (and completed) for good.
GiveUp(p, k) ==
    /\ claim' = "none"
    /\ IF attempts < MaxAttempts
       THEN /\ status' = "pending"
            /\ completed' = FALSE
            /\ k \in Kinds
            /\ pc[p] = "idle"
            /\ UNCHANGED procVars
       ELSE /\ status' = "failed"
            /\ completed' = TRUE
            /\ Begin(p, k, "f_read")

\* mark_job_timeout, from the sweeper or from a request that touches the job.
\* It rereads the row, so the sweeper's earlier list does not matter.
mark_job_timeout(p) ==
    /\ ~settled
    /\ StaleActive
    /\ GiveUp(p, "timeout")
    /\ timedOut' = TRUE
    /\ UNCHANGED <<settled, verif, vdue, attempts, jobOutcome, ledgerVars,
                   disputeVars, crossed, crashes>>

schedule_job_retry(p) ==
    /\ ~settled
    /\ ~completed
    /\ claim # "none"
    /\ GiveUp(p, "retry")
    /\ UNCHANGED <<settled, verif, vdue, attempts, timedOut, jobOutcome,
                   ledgerVars, disputeVars, crossed, crashes>>

-----------------------------------------------------------------------------
(* jobs_cancel: the one handler that compares the row it reads back with    *)
(* the status it wrote.                                                     *)

CancelRead(p) ==
    /\ status \in OpenStatuses
    /\ Begin(p, "cancel", "cancel_upd")
    /\ UNCHANGED <<jobVars, ledgerVars, disputeVars, crossed, crashes>>

CancelUpdate(p) ==
    /\ pc[p] = "cancel_upd"
    /\ update_job_status("cancelled")
    /\ Goto(p, "cancel_read")
    /\ UNCHANGED <<ledgerVars, disputeVars, crashes>>

CancelReadBack(p) ==
    /\ pc[p] = "cancel_read"
    /\ IF status # "cancelled" \/ settled THEN Finish(p) ELSE Goto(p, "f_pay")
    /\ UNCHANGED <<jobVars, ledgerVars, disputeVars, crossed, crashes>>

-----------------------------------------------------------------------------
(* The remaining sweeper passes. *)

\* clarification_timeout_policy = "proceed": update_job_status(..., "running",
\* completed=False) has no guard on completed_at, and reopens a finished job.
ProceedList(p) ==
    /\ status = "awaiting_clarification" /\ ~completed /\ ~settled
    /\ Begin(p, "proceed", "proceed_upd")
    /\ UNCHANGED <<jobVars, ledgerVars, disputeVars, crossed, crashes>>

ProceedUpdate(p) ==
    /\ pc[p] = "proceed_upd"
    /\ status' = "running"
    /\ crossed' = (crossed \/ completed)
    /\ Finish(p)
    /\ UNCHANGED <<completed, settled, verif, vdue, claim, attempts, timedOut,
                   jobOutcome, ledgerVars, disputeVars, crashes>>

CompleteUnsettled == status = "complete" /\ completed /\ ~settled

SweepCompleted(p) ==
    /\ CompleteUnsettled
    /\ Begin(p, "sweep", "s_init")
    /\ UNCHANGED <<jobVars, ledgerVars, disputeVars, crossed, crashes>>

VerifExpiryList(p) ==
    /\ CompleteUnsettled
    /\ verif = "pending" /\ vdue
    /\ Begin(p, "verif_expiry", "v_mark")
    /\ UNCHANGED <<jobVars, ledgerVars, disputeVars, crossed, crashes>>

\* mark_output_verification_expired: only a pending window that has closed.
mark_output_verification_expired ==
    IF verif = "pending" /\ vdue THEN "expired" ELSE verif

VerifExpiryMark(p) ==
    /\ pc[p] = "v_mark"
    /\ verif' = mark_output_verification_expired
    /\ IF verif' # verif THEN Goto(p, "s_init") ELSE Finish(p)
    /\ UNCHANGED <<status, completed, settled, vdue, claim, attempts, timedOut,
                   jobOutcome, ledgerVars, disputeVars, crossed, crashes>>
-----------------------------------------------------------------------------
(* jobs_output_verification_decide: the caller accepts or rejects.          *)

DecideRead(p, k) ==
    /\ k \in {"accept", "reject"}
    /\ CompleteUnsettled
    /\ BeginAs(p, k, "v_open")
    /\ UNCHANGED <<jobVars, ledgerVars, disputeVars, crossed, crashes>>

\* What the handler does with the verification status v that it has read.
DecideNext(p, v) ==
    IF loc[p].kind = "accept"
    THEN /\ pc' = [pc EXCEPT ![p] = "a_check"]
         /\ loc' = [loc EXCEPT ![p].verif = v]
    ELSE Forget(p, IF v = "pending" THEN "r_file" ELSE "idle")

DecideOpen(p) ==
    /\ pc[p] = "v_open"
    /\ verif' = initialize_output_verification_state
    /\ CASE verif' = "not_required" -> Finish(p)
         [] verif' = "pending" /\ vdue -> Goto(p, "v_expire")
         [] OTHER -> DecideNext(p, verif')
    /\ UNCHANGED <<status, completed, settled, vdue, claim, attempts, timedOut,
                   jobOutcome, ledgerVars, disputeVars, crossed, crashes>>

DecideExpire(p) ==
    /\ pc[p] = "v_expire"
    /\ verif' = mark_output_verification_expired
    /\ DecideNext(p, IF verif' # verif THEN "expired" ELSE "pending")
    /\ UNCHANGED <<status, completed, settled, vdue, claim, attempts, timedOut,
                   jobOutcome, ledgerVars, disputeVars, crossed, crashes>>

AcceptCheck(p) ==
    /\ pc[p] = "a_check"
    /\ CASE dispute # "none" -> Finish(p)
         [] dispute = "none" /\ loc[p].verif = "accepted" -> Forget(p, "s_init")
         [] dispute = "none" /\ loc[p].verif = "pending" -> Forget(p, "a_decide")
         [] OTHER -> Finish(p)
    /\ UNCHANGED <<jobVars, ledgerVars, disputeVars, crossed, crashes>>

AcceptDecide(p) ==
    /\ pc[p] = "a_decide"
    /\ set_output_verification_decision("accepted")
    /\ IF verif' = "accepted" THEN Goto(p, "s_init") ELSE Finish(p)
    /\ UNCHANGED <<status, completed, settled, vdue, claim, attempts, timedOut,
                   jobOutcome, ledgerVars, disputeVars, crossed, crashes>>

RejectDecide(p) ==
    /\ pc[p] = "r_decide"
    /\ set_output_verification_decision("rejected")
    /\ Finish(p)
    /\ UNCHANGED <<status, completed, settled, vdue, claim, attempts, timedOut,
                   jobOutcome, ledgerVars, disputeVars, crossed, crashes>>

-----------------------------------------------------------------------------
(* jobs_compare_select: the winner is accepted and settled, a completed     *)
(* loser is rejected and refunded.  The loser path looks neither at the     *)
(* dispute nor at the status, and so crosses both.                          *)

CompareRead(p, k) ==
    /\ k \in {"compare_winner", "compare_loser"}
    /\ status = "complete"
    /\ BeginAs(p, k, "k_open")
    /\ UNCHANGED <<jobVars, ledgerVars, disputeVars, crossed, crashes>>

CompareSettle(p) ==
    Forget(p, IF loc[p].kind = "compare_winner" THEN "s_init" ELSE "l_pay")

CompareOpen(p) ==
    /\ pc[p] = "k_open"
    /\ verif' = initialize_output_verification_state
    /\ CASE settled -> Finish(p)
         [] ~settled /\ verif' = "pending" -> Goto(p, "k_decide")
         [] OTHER -> CompareSettle(p)
    /\ UNCHANGED <<status, completed, settled, vdue, claim, attempts, timedOut,
                   jobOutcome, ledgerVars, disputeVars, crossed, crashes>>

CompareDecide(p) ==
    /\ pc[p] = "k_decide"
    /\ set_output_verification_decision(
          IF loc[p].kind = "compare_winner" THEN "accepted" ELSE "rejected")
    /\ CompareSettle(p)
    /\ UNCHANGED <<status, completed, settled, vdue, claim, attempts, timedOut,
                   jobOutcome, ledgerVars, disputeVars, crossed, crashes>>

LoserRefund(p) ==
    /\ pc[p] = "l_pay"
    /\ post_call_refund
    /\ crossed' = TRUE
    /\ Goto(p, "l_mark")
    /\ UNCHANGED <<jobVars, disputeVars, crashes>>

LoserMark(p) ==
    /\ pc[p] = "l_mark"
    /\ mark_settled
    /\ Finish(p)
    /\ UNCHANGED <<ledgerVars, disputeVars, crossed, crashes>>

-----------------------------------------------------------------------------
(* Disputes.  Creating the row and locking the funds is one transaction;    *)
(* resolving is post_dispute_settlement, finalize_dispute and               *)
(* _apply_dispute_effects, one after the other.                             *)

\* is_disputable, read before the transaction.
FileRead(p) ==
    /\ completed
    /\ status = "complete"
    /\ dispute = "none"
    /\ Begin(p, "file", "file_txn")
    /\ UNCHANGED <<jobVars, ledgerVars, disputeVars, crossed, crashes>>

CanLock == bal["agent"] >= payout /\ bal["platform"] >= fee

\* lock_dispute_funds takes back what the charge has paid out so far.
lock_dispute_funds ==
    /\ bal' = [bal EXCEPT !["agent"] = @ - payout,
                          !["platform"] = @ - fee,
                          !["escrow"] = @ + payout + fee]
    /\ UNCHANGED <<refund, payout, fee, judgePaid>>

create_dispute ==
    /\ dispute' = "open"
    /\ UNCHANGED <<ledgerOutcome, rowOutcome>>
    /\ lock_dispute_funds

FileTxn(p) ==
    /\ pc[p] = "file_txn"
    /\ IF dispute = "none" /\ completed /\ status # "cancelled" /\ CanLock
       THEN create_dispute
       ELSE UNCHANGED <<disputeVars, ledgerVars>>
    /\ Finish(p)
    /\ UNCHANGED <<jobVars, crossed, crashes>>

\* _ensure_output_rejection_dispute: an existing dispute will do; a wallet too
\* short to claw back from aborts the request.
RejectFile(p) ==
    /\ pc[p] = "r_file"
    /\ CASE dispute # "none" ->
              Goto(p, "r_decide") /\ UNCHANGED <<disputeVars, ledgerVars>>
         [] dispute = "none" /\ CanLock ->
              Goto(p, "r_decide") /\ create_dispute
         [] OTHER ->
              Finish(p) /\ UNCHANGED <<disputeVars, ledgerVars>>
    /\ UNCHANGED <<jobVars, crossed, crashes>>

\* Mutant: the judges run again on a resolved dispute.
JudgeRead_rejudges(p) ==
    /\ dispute \notin {"none", "final"}
    /\ BeginAs(p, "judge", "j_start")
    /\ UNCHANGED <<jobVars, ledgerVars, disputeVars, crossed, crashes>>

\* run_judgment, called by the sweeper or by an admin: it returns at once when
\* the dispute it reads is resolved or final.
JudgeRead(p) ==
    /\ dispute \notin {"none", "resolved", "final"}
    /\ BeginAs(p, "judge", "j_start")
    /\ UNCHANGED <<jobVars, ledgerVars, disputeVars, crossed, crashes>>

\* The status is set to judging whatever it has become meanwhile.
JudgeStart(p) ==
    /\ pc[p] = "j_start"
    /\ dispute' = "open"
    /\ Goto(p, "j_vote")
    /\ UNCHANGED <<jobVars, ledgerVars, ledgerOutcome, rowOutcome, crossed,
                   crashes>>

\* The judges agree on an outcome, which is written before any money moves.
JudgesAgree(p) ==
    /\ pc[p] = "j_vote"
    /\ \E o \in Outcomes :
          /\ dispute' = "consensus"
          /\ rowOutcome' = o
          /\ pc' = [pc EXCEPT ![p] = "d_settle"]
          /\ loc' = [loc EXCEPT ![p].outcome = o]
    /\ UNCHANGED <<jobVars, ledgerVars, ledgerOutcome, crossed, crashes>>

JudgesTie(p) ==
    /\ pc[p] = "j_vote"
    /\ dispute' = "tied"
    /\ Forget(p, "j_tied")
    /\ UNCHANGED <<jobVars, ledgerVars, ledgerOutcome, rowOutcome, crossed, crashes>>

\* Mutant: a failed vote leaves a status that the sweeper does not list.
VoteFails_strands(p) ==
    /\ pc[p] = "j_vote"
    /\ dispute' = "appealed"
    /\ Finish(p)
    /\ UNCHANGED <<jobVars, ledgerVars, ledgerOutcome, rowOutcome, crossed, crashes>>

\* The first vote fails: the dispute goes back to the queue.
VoteFails(p) ==
    /\ pc[p] = "j_vote"
    /\ dispute' = "open"
    /\ Finish(p)
    /\ UNCHANGED <<jobVars, ledgerVars, ledgerOutcome, rowOutcome, crossed, crashes>>

JudgeVote(p) == JudgesAgree(p) \/ JudgesTie(p) \/ VoteFails(p)

\* _resolve_dispute_with_judges calls set_dispute_tied a second time.
JudgeTied(p) ==
    /\ pc[p] = "j_tied"
    /\ dispute' = "tied"
    /\ Finish(p)
    /\ UNCHANGED <<jobVars, ledgerVars, ledgerOutcome, rowOutcome, crossed,
                   crashes>>

\* disputes_admin_rule: an admin may rule until the dispute is final; a ruling
\* that exists already is appealed first.
AdminRead(p, o) ==
    /\ dispute \notin {"none", "final"}
    /\ BeginWith(p, "admin", [NoLoc EXCEPT !.kind = "admin", !.outcome = o],
                 IF dispute \in {"resolved", "consensus"} THEN "appeal_upd"
                 ELSE "d_settle")
    /\ UNCHANGED <<jobVars, ledgerVars, disputeVars, crossed, crashes>>

AppealMark(p) ==
    /\ pc[p] = "appeal_upd"
    /\ dispute' = "appealed"
    /\ Goto(p, "d_settle")
    /\ UNCHANGED <<jobVars, ledgerVars, ledgerOutcome, rowOutcome, crossed,
                   crashes>>

\* A stale tie goes to the agent.
TieTimeout(p) ==
    /\ dispute = "tied"
    /\ BeginWith(p, "tie_timeout",
                 [NoLoc EXCEPT !.kind = "tie_timeout", !.outcome = "agent_wins"],
                 "d_settle")
    /\ UNCHANGED <<jobVars, ledgerVars, disputeVars, crossed, crashes>>

Least(a, b) == IF a < b THEN a ELSE b

\* Mutant: the platform fee stays in the escrow when the agent wins.
Award_keeps_fee(o, e) ==
    CASE o = "caller_wins" ->
           [caller |-> IF e > 0 THEN Least(Charge, e) ELSE Charge, agent |-> 0,
            platform |-> 0, escrow |-> 0 - Least(Charge, e)]
      [] o = "agent_wins" ->
           [caller |-> 0, agent |-> IF e > 0 THEN Least(Payout, e) ELSE Payout,
            platform |-> 0, escrow |-> 0 - Least(Payout, e)]
      [] OTHER ->
           [caller |-> e, agent |-> 0, platform |-> 0, escrow |-> 0 - e]

\* What post_dispute_settlement adds to each wallet for outcome o when the
\* dispute's escrow holds e cents.  With an empty escrow the charge counts as
\* still held, and the shares are credited without a matching debit.
Award(o, e) ==
    LET pay == IF e > 0 THEN Least(Payout, e) ELSE Payout
        cut == IF e > 0 THEN Least(Fee, e - pay) ELSE Fee
        back == IF e > 0 THEN Least(Charge, e) ELSE Charge
    IN  CASE o = "caller_wins" ->
               [caller |-> back, agent |-> 0, platform |-> 0,
                escrow |-> IF e > 0 THEN 0 - back ELSE 0]
          [] o = "agent_wins" ->
               [caller |-> 0, agent |-> pay, platform |-> cut,
                escrow |-> IF e > 0 THEN 0 - (pay + cut) ELSE 0]
          [] o = "split" ->
               [caller |-> SplitCaller, agent |-> SplitAgent,
                platform |-> Charge - SplitCaller - SplitAgent,
                escrow |-> IF e >= Charge THEN 0 - Charge ELSE 0]
          [] OTHER ->
               [caller |-> e, agent |-> 0, platform |-> 0, escrow |-> 0 - e]

\* Mutant: the marker of an earlier settlement is not looked for.
post_dispute_settlement_unmarked(o) ==
    LET a == Award(o, bal["escrow"])
    IN  /\ ledgerOutcome' = o
        /\ bal' = [bal EXCEPT !["caller"] = @ + a.caller,
                              !["agent"] = @ + a.agent,
                              !["platform"] = @ + a.platform,
                              !["escrow"] = @ + a.escrow]

\* post_dispute_settlement: the marker row makes every later call a no-op,
\* whatever outcome it asks for; its answer is not used by any caller.
post_dispute_settlement(o) ==
    IF ledgerOutcome = "none"
    THEN LET a == Award(o, bal["escrow"])
         IN  /\ ledgerOutcome' = o
             /\ bal' = [bal EXCEPT !["caller"] = @ + a.caller,
                                   !["agent"] = @ + a.agent,
                                   !["platform"] = @ + a.platform,
                                   !["escrow"] = @ + a.escrow]
    ELSE UNCHANGED <<ledgerOutcome, bal>>

\* A judges' split names no amounts, and is refused with an exception.
ResolveSettle(p) ==
    /\ pc[p] = "d_settle"
    /\ IF loc[p].kind = "judge" /\ loc[p].outcome = "split"
       THEN Finish(p) /\ UNCHANGED <<ledgerOutcome, bal>>
       ELSE post_dispute_settlement(loc[p].outcome) /\ Goto(p, "d_finalize")
    /\ UNCHANGED <<jobVars, refund, payout, fee, judgePaid, dispute, rowOutcome,
                   crossed, crashes>>

\* finalize_dispute overwrites the row unconditionally.
ResolveFinalize(p) ==
    /\ pc[p] = "d_finalize"
    /\ dispute' = IF loc[p].kind = "judge" THEN "resolved" ELSE "final"
    /\ rowOutcome' = loc[p].outcome
    /\ pc' = [pc EXCEPT ![p] = "e_read"]
    /\ loc' = [loc EXCEPT ![p].kind = "none"]
    /\ UNCHANGED <<jobVars, ledgerVars, ledgerOutcome, crossed, crashes>>

\* _apply_dispute_effects: reads settled_at, writes the outcome on the job,
\* and later stamps settled_at.
EffectsRead(p) ==
    /\ pc[p] = "e_read"
    /\ jobOutcome' = loc[p].outcome
    /\ IF settled THEN Finish(p) ELSE Goto(p, "e_mark")
    /\ UNCHANGED <<status, completed, settled, verif, vdue, claim, attempts,
                   timedOut, crossed, ledgerVars, disputeVars, crashes>>

EffectsMark(p) ==
    /\ pc[p] = "e_mark"
    /\ mark_settled
    /\ Finish(p)
    /\ UNCHANGED <<ledgerVars, disputeVars, crossed, crashes>>

-----------------------------------------------------------------------------
\* A handler dies between two transactions: an exception, a killed worker.
Crash(p) ==
    /\ pc[p] # "idle"
    /\ crashes < MaxCrashes
    /\ crashes' = crashes + 1
    /\ Finish(p)
    /\ UNCHANGED <<jobVars, ledgerVars, disputeVars, crossed>>

Worker ==
    \/ claim_job
    \/ LeaseRunsOut
    \/ release_job_claim
    \/ \E t \in {"none", "running", "awaiting_clarification"} : add_message(t)
    \/ VerificationWindowCloses

Start(p) ==
    \/ \E k \in {"complete", "master_complete"} : CompleteRead(p, k)
    \/ \E k \in {"fail", "master_fail"}, s \in Splits : FailRead(p, k, s)
    \/ \E k \in ForceKinds : ForceFailList(p, k)
    \/ mark_job_timeout(p)
    \/ schedule_job_retry(p)
    \/ CancelRead(p)
    \/ ProceedList(p)
    \/ SweepCompleted(p)
    \/ VerifExpiryList(p)
    \/ \E k \in {"accept", "reject"} : DecideRead(p, k)
    \/ \E k \in {"compare_winner", "compare_loser"} : CompareRead(p, k)
    \/ FileRead(p)
    \/ JudgeRead(p)
    \/ \E o \in Outcomes : AdminRead(p, o)
    \/ TieTimeout(p)

Step(p) ==
    \/ CompleteGate(p)
    \/ FailUpdate(p)
    \/ SettleFailed(p)
    \/ SettleSuccessful(p)
    \/ CancelUpdate(p)
    \/ CancelReadBack(p)
    \/ ProceedUpdate(p)
    \/ VerifExpiryMark(p)
    \/ DecideOpen(p)
    \/ DecideExpire(p)
    \/ AcceptCheck(p)
    \/ AcceptDecide(p)
    \/ RejectFile(p)
    \/ RejectDecide(p)
    \/ CompareOpen(p)
    \/ CompareDecide(p)
    \/ LoserRefund(p)
    \/ LoserMark(p)
    \/ FileTxn(p)
    \/ JudgeStart(p)
    \/ JudgeVote(p)
    \/ JudgeTied(p)
    \/ AppealMark(p)
    \/ ResolveSettle(p)
    \/ ResolveFinalize(p)
    \/ EffectsRead(p)
    \/ EffectsMark(p)

Next == Worker \/ \E p \in Procs : Start(p) \/ Step(p) \/ Crash(p)

Spec == Init /\ [][Next]_vars

-----------------------------------------------------------------------------
(* Properties. *)

Legs == refund + payout + fee

Total == bal["caller"] + bal["agent"] + bal["platform"] + bal["escrow"]
         + bal["judge"]

\* The rows keyed by a charge distribute nothing or exactly the charge, however
\* many handlers run post_call_payout, post_call_refund and
\* post_call_partial_settle, in whatever order, and wherever they crash.
ChargeLegsExact == Legs \in {0, Charge}

\* settled_at is never stamped on a job whose charge is still undistributed,
\* unless a dispute ruling has reached the ledger: mark_settled comes after the
\* payment in every handler, and a payment step that is skipped is skipped
\* because another one has paid.
SettledMeansDistributed ==
    settled => Legs = Charge \/ ledgerOutcome # "none"

\* Where the rows keyed by the charge have put it.
Money ==
    CASE Legs = 0 -> "held"
      [] Legs > 0 /\ refund = 0 -> "paid"
      [] Legs > 0 /\ payout + fee = 0 -> "refunded"
      [] OTHER -> "shared"

Life == INSTANCE ChargeLife
            WITH Outcomes <- AllOutcomes, money <- Money, ruling <- ledgerOutcome,
                 finished <- completed, closed <- settled

\* The handlers together do no more than the life of a charge allows: no money
\* before completed_at, one distribution, one ruling, and settled_at behind one
\* of them, however the handlers interleave.
ChargeLives == Life!Spec

\* settled_at and completed_at are stamped once and never cleared, although
\* mark_job_timeout writes completed_at = NULL when it requeues a job and does
\* not look at completed_at.
StampsStay == [][(settled => settled') /\ (completed => completed')]_vars

\* A lease belongs to an unfinished job: a finished one can be neither claimed
\* nor timed out, retried or released back to the queue.
FinishedIsUnclaimed == completed => claim = "none"

\* The outcome of an undisputed job and its money agree: a complete job paid
\* its worker in full, a failed or cancelled one gave money back to the caller.
SettlementMatchesStatus ==
    settled /\ dispute = "none" =>
        /\ status = "complete" => payout = Payout /\ fee = Fee
        /\ status \in {"failed", "cancelled"} => refund > 0

\* Only handlers that cross settle a job against its status: as long as no
\* status write has met a job that finished in another way, and no compare loser
\* is refunded, the job is settled by its status, with any number of handlers and
\* wherever they die.
StatusPaidAlike == ~crossed => SettlementMatchesStatus

\* The job never puts more cents into wallets than its caller was charged,
\* disputes included.
NoCentsMinted == Total <= Charge + PlatformFloat

\* Only handlers that cross mint cents: as long as no payout lands behind a
\* dispute and no status write is lost, rulings that are repeated, reopened by
\* judges or found with an empty escrow stay within the charge.
MintsOnlyCrossed == ~crossed => NoCentsMinted

\* A ruling empties the escrow that lock_dispute_funds filled.
EscrowDrained == ledgerOutcome # "none" => bal["escrow"] = 0

\* Only handlers that cross leave cents in the escrow behind a ruling: a split
\* too finds there the whole charge or nothing.
DrainedUnlessCrossed == ~crossed => EscrowDrained

\* A dispute that the judges resolved shows the outcome that moved the money,
\* on its own row and on the job, until an admin rules again: judges who run
\* twice, a tie in between and a failed vote do not pull the two apart.
JudgedRulingStands ==
    crashes = 0 /\ dispute = "resolved" =>
        /\ rowOutcome = ledgerOutcome
        /\ jobOutcome \in {"none", ledgerOutcome}

\* Every complete job that nobody rejects or disputes is settled in the end,
\* even when the handler that completed it dies before it pays.
CompletedJobSettles ==
    (status = "complete" /\ verif # "rejected" /\ dispute = "none")
        ~> (settled \/ verif = "rejected" \/ dispute # "none")

\* A failed or cancelled job is settled in the end, so that its caller has the
\* money back.
FailedJobRefunded == (status \in {"failed", "cancelled"}) ~> settled

\* A dispute in the queue is decided in the end.  The sweeper looks only at
\* disputes that are pending, judging or tied too long: one that the judges have
\* decided but not settled, because the handler died or the judges split the
\* charge, and one that an admin has taken up and dropped stay as they are.
DisputeEnds ==
    (dispute = "open")
        ~> \/ dispute \in {"resolved", "final"}
           \/ dispute = "consensus" /\ (crashes > 0 \/ rowOutcome = "split")
           \/ dispute = "appealed" /\ crashes > 0

\* The sweeper runs forever: each of its passes is taken again and again, a
\* handler that has started goes on, and the verification window closes.  Of
\* the judges, who are language models, it is assumed that they do not fail or
\* differ without end.
Fairness ==
    /\ WF_vars(VerificationWindowCloses)
    /\ \A p \in Procs :
          /\ WF_vars(Step(p))
          /\ SF_vars(SweepCompleted(p))
          /\ SF_vars(VerifExpiryList(p))
          /\ SF_vars(mark_job_timeout(p))
          /\ SF_vars(JudgeRead(p) /\ dispute = "open")
          /\ SF_vars(TieTimeout(p))
          /\ SF_vars(JudgesAgree(p) \/ JudgesTie(p))

LiveSpec == Spec /\ Fairness
=============================================================================
