------------------------------- MODULE Wallets -------------------------------
(***************************************************************************)
(* Wallets, spend limits and reserve holds: who may spend which cents, and  *)
(* what is kept back from an agent while its caller can still rate or      *)
(* dispute the job.                                                        *)
(*                                                                         *)
(* A job moves cents from the wallet of its payer to the sub-wallet        *)
(* agent:<id> of its payee.  The sub-wallet "agent" has the parent "owner", *)
(* who may sweep it, withdraw from the parent wallet and guarantee the     *)
(* calls that the agent makes itself.  One action is one BEGIN IMMEDIATE   *)
(* transaction; jobs_rate, jobs_dispute and withdraw are requests of       *)
(* several steps and run as processes.  The settlement of a job is one     *)
(* action here: its races are the subject of module Settlement.  Deferred  *)
(* debits (caller_escrow.py, off by default) are left out.                 *)
(***************************************************************************)
EXTENDS Integers, FiniteSets, FiniteSetsExt, Functions

CONSTANTS
    Jobs, NoJob,
    Orders,          \* the sets of jobs that may be placed together
    Payer, Payee,    \* wallet that pays a job, sub-wallet that is paid
    Clients,         \* concurrent requests of callers (rate, dispute)
    Withdrawals,     \* concurrent withdrawals of the owner
    Keys,            \* API keys of the callers
    Unheld,          \* jobs paid without a hold: the steps of pipelines
    Funds,           \* of an order: balance of each wallet at the start
    Payout, Fee,     \* what a job pays its agent and the platform
    CurvePct,        \* payout_curve: percentages kept by rating; {} for none
    Outcomes,        \* rulings the judges may reach
    KeyCap,          \* max_spend_cents of a key
    DailyLimit,      \* daily_spend_limit_cents of the payers
    SessionBudget,   \* session_budget_cents of the caller
    GuarantorCap,    \* guarantor_cap_cents of the sub-wallet
    FilingDeposit,   \* deposit of a dispute
    Amounts,         \* amounts the owner sweeps or withdraws
    Day,             \* 24 hours
    Window,          \* dispute_window_hours
    FileWindow,      \* _DISPUTE_FILE_WINDOW_SECONDS
    MaxSent,         \* bound on the cents that withdrawals send or lose
    ResetTimes,      \* bound: when the caller may reset its session budget
    MaxNow           \* bound on the clock

Names == {"caller", "agent", "owner", "other", "platform"}

Charge == Payout + Fee

NoKey == "no_key"    \* charged_by_key_id IS NULL

ASSUME WalletsAssumption ==
    /\ IsFiniteSet(Jobs) /\ NoJob \notin Jobs
    /\ IsFiniteSet(Withdrawals)
    /\ NoKey \notin Keys
    /\ Orders \subseteq SUBSET Jobs
    /\ Payer \in [Jobs -> {"caller", "agent"}]
    /\ Payee \in [Jobs -> {"agent", "other"}]
    /\ \A j \in Jobs : Payer[j] # Payee[j]
    /\ Unheld \subseteq Jobs
    /\ Funds \in [Orders -> [Names -> Nat]]
    /\ Payout \in Nat \ {0}
    /\ Fee \in Nat
    /\ CurvePct \subseteq 0 .. 100
    /\ Outcomes \subseteq {"caller_wins", "agent_wins", "void"}
    /\ {KeyCap, DailyLimit, SessionBudget, GuarantorCap, FilingDeposit} \subseteq Nat
    /\ Amounts \subseteq Nat \ {0}
    /\ Day \in Nat \ {0}
    /\ Window \in Nat /\ FileWindow \in Nat /\ MaxSent \in Nat
    /\ MaxNow \in Nat
    /\ ResetTimes \subseteq 0 .. MaxNow

Never == -1          \* a NULL timestamp

VARIABLES
    now,
    balance,        \* wallets.balance_cents
    held,           \* wallets.held_cents
    rows,           \* transactions: the rows that a spend limit reads
    sessionAt,      \* session_budget_set_at of the callers' wallet
    stage,          \* how far a job is
    completedAt,    \* its completed_at
    hold,           \* status of the wallet_holds row of a job
    holdUntil,      \* its hold_until
    rated,          \* a quality rating is recorded for the job
    clawback,       \* what apply_curve_clawback answered last
    dispute,        \* of a job: none, open and filed by a side, or closed
    locked,         \* balance of the dispute's escrow wallet
    deposited,      \* balance of the dispute's deposit wallet
    sent,           \* history of the withdrawals: cents the bank got, cents it got
                    \* and the wallet as well, cents that reached neither
    earned,         \* history: net cents a job has brought its payee
    pc, loc         \* processes

jobVars == <<stage, completedAt>>
moneyVars == <<balance, rows, earned>>
holdVars == <<held, hold, holdUntil>>
ratingVars == <<rated, clawback>>
disputeVars == <<dispute, locked, deposited>>
vars == <<now, moneyVars, holdVars, sessionAt, jobVars, ratingVars, disputeVars,
          sent, pc, loc>>

Stages == {"unordered", "none", "charged", "complete", "settled", "voided", "refunded"}
Procs == Clients \cup Withdrawals
Labels == {"idle", "r_record", "r_claw", "d_file", "w_debit", "w_transfer"}
NoLoc == [job |-> NoJob, settled |-> FALSE, amount |-> 0]

TypeOK ==
    /\ now \in 0 .. MaxNow
    /\ balance \in [Names -> Nat]
    /\ held \in [Names -> Nat]
    /\ sessionAt \in 0 .. MaxNow
    /\ stage \in [Jobs -> Stages]
    /\ completedAt \in [Jobs -> Int]
    /\ hold \in [Jobs -> {"none", "active", "released", "clawed_partial",
                          "clawed_full"}]
    /\ holdUntil \in [Jobs -> Int]
    /\ rated \in [Jobs -> BOOLEAN]
    /\ clawback \in [Jobs -> {"none", "applied", "underflow"}]
    /\ dispute \in [Jobs -> {"none", "caller", "agent", "closed"}]
    /\ locked \in [Jobs -> {0, Charge}]
    /\ deposited \in [Jobs -> {0, FilingDeposit}]
    /\ sent \in [bank : Nat, twice : Nat, lost : Nat]
    /\ earned \in [Jobs -> Int]
    /\ pc \in [Procs -> Labels]
    /\ loc \in [Procs -> [job : Jobs \cup {NoJob}, settled : BOOLEAN,
                          amount : Nat]]

Init ==
    /\ now = 0
    /\ held = [w \in Names |-> 0]
    /\ rows = {}
    /\ sessionAt = 0
    /\ \E order \in Orders :
          /\ stage = [j \in Jobs |-> IF j \in order THEN "none" ELSE "unordered"]
          /\ balance = Funds[order]
    /\ completedAt = [j \in Jobs |-> Never]
    /\ hold = [j \in Jobs |-> "none"]
    /\ holdUntil = [j \in Jobs |-> Never]
    /\ rated = [j \in Jobs |-> FALSE]
    /\ clawback = [j \in Jobs |-> "none"]
    /\ dispute = [j \in Jobs |-> "none"]
    /\ locked = [j \in Jobs |-> 0]
    /\ deposited = [j \in Jobs |-> 0]
    /\ sent = [bank |-> 0, twice |-> 0, lost |-> 0]
    /\ earned = [j \in Jobs |-> 0]
    /\ pc = [p \in Procs |-> "idle"]
    /\ loc = [p \in Procs |-> NoLoc]

Begin(p, l, r) ==
    /\ pc[p] = "idle"
    /\ pc' = [pc EXCEPT ![p] = l]
    /\ loc' = [loc EXCEPT ![p] = r]

Goto(p, l) == pc' = [pc EXCEPT ![p] = l] /\ UNCHANGED loc

Finish(p) ==
    /\ pc' = [pc EXCEPT ![p] = "idle"]
    /\ loc' = [loc EXCEPT ![p] = NoLoc]

-----------------------------------------------------------------------------
(* Spending: pre_call_charge and what its limits read. *)

\* A row of the transactions table; id tells apart the rows of one kind.
Row(w, t, a, k, kind, id) ==
    [wallet |-> w, type |-> t, amount |-> a, key |-> k, at |-> now,
     kind |-> kind, id |-> id]

RowSum(S) == SumFunction([r \in S |-> r.amount])

\* Charges net of refunds in the rows R; refunds never count below zero.
NetSpent(w, R) ==
    LET net == 0 - RowSum({r \in R : /\ r.wallet = w
                                     /\ r.type \in {"charge", "refund"}})
    IN  IF net < 0 THEN 0 ELSE net

Since(t) == {r \in rows : r.at >= t}

\* The owner backstop: what the sub-wallet misses for the price, when the cap of
\* the UTC day and the parent's balance allow all of it; otherwise nothing.
Backstop(w, price) ==
    LET shortfall == price - balance[w]
        used == RowSum({r \in Since((now \div Day) * Day) :
                           r.wallet = w /\ r.kind = "guarantor"})
    IN  IF /\ w = "agent"
           /\ shortfall > 0
           /\ used + shortfall <= GuarantorCap
           /\ balance["owner"] >= shortfall
        THEN shortfall
        ELSE 0

\* The three limits.  The daily window slides, the session window is reset by
\* the caller, the cap of a key has no window.
WithinLimits(w, k, price) ==
    /\ NetSpent(w, {r \in rows : r.key = k}) + price <= KeyCap
    /\ NetSpent(w, Since(now - Day)) + price <= DailyLimit
    /\ w = "caller" => NetSpent(w, Since(sessionAt)) + price <= SessionBudget

\* pre_call_charge: backstop, limits, balance and charge row in one
\* transaction.  A call that is refused leaves nothing behind, its backstop
\* included.  held_cents is not looked at.
pre_call_charge(j, k) ==
    LET w == Payer[j]
        top == Backstop(w, Charge)
    IN  /\ stage[j] = "none"
        /\ WithinLimits(w, k, Charge)
        /\ balance[w] + top >= Charge
        /\ balance' = [balance EXCEPT ![w] = @ + top - Charge,
                                      !["owner"] = @ - top]
        /\ rows' = rows \cup {Row(w, "charge", 0 - Charge, k, "call", j)}
                        \cup (IF top = 0 THEN {}
                              ELSE {Row(w, "deposit", top, NoKey, "guarantor", j)})
        /\ stage' = [stage EXCEPT ![j] = "charged"]
        /\ UNCHANGED <<now, completedAt, earned, holdVars, sessionAt, ratingVars, disputeVars,
                       sent, pc, loc>>

\* set_wallet_session_budget with reset_counter.
set_wallet_session_budget ==
    /\ sessionAt < now
    /\ now \in ResetTimes
    /\ sessionAt' = now
    /\ UNCHANGED <<now, moneyVars, holdVars, jobVars, ratingVars, disputeVars,
                   sent, pc, loc>>

\* The key that made the charge of a job.
KeyOf(j) == (CHOOSE r \in rows : r.kind = "call" /\ r.id = j).key

\* Mutant: the refund row is written without the key of its charge.
post_call_refund_keyless(j) ==
    /\ stage[j] = "charged"
    /\ stage' = [stage EXCEPT ![j] = "refunded"]
    /\ balance' = [balance EXCEPT ![Payer[j]] = @ + Charge]
    /\ rows' = rows \cup {Row(Payer[j], "refund", Charge, NoKey, "refund", j)}
    /\ UNCHANGED <<now, completedAt, earned, holdVars, sessionAt, ratingVars, disputeVars,
                   sent, pc, loc>>

\* post_call_refund of a job that failed; the row inherits the key of the
\* charge (_resolve_charged_by_key_id).
post_call_refund(j) ==
    /\ stage[j] = "charged"
    /\ stage' = [stage EXCEPT ![j] = "refunded"]
    /\ balance' = [balance EXCEPT ![Payer[j]] = @ + Charge]
    /\ rows' = rows \cup {Row(Payer[j], "refund", Charge, KeyOf(j), "refund", j)}
    /\ UNCHANGED <<now, completedAt, earned, holdVars, sessionAt, ratingVars, disputeVars,
                   sent, pc, loc>>

-----------------------------------------------------------------------------
(* Reserve holds. *)

\* The worst case of the curve, rounded up; the whole payout without a curve.
compute_hold_cents ==
    IF CurvePct = {} THEN Payout
    ELSE (Payout * (100 - Min(CurvePct)) + 99) \div 100

\* The job's worker reports it complete.
complete_job(j) ==
    /\ stage[j] = "charged"
    /\ stage' = [stage EXCEPT ![j] = "complete"]
    /\ completedAt' = [completedAt EXCEPT ![j] = now]
    /\ UNCHANGED <<now, moneyVars, holdVars, sessionAt, ratingVars, disputeVars,
                   sent, pc, loc>>

\* create_hold_conn: the row and the cache of its wallet.
create_hold(j) ==
    IF compute_hold_cents = 0 THEN UNCHANGED holdVars
    ELSE /\ hold' = [hold EXCEPT ![j] = "active"]
         /\ holdUntil' = [holdUntil EXCEPT ![j] = now + Window]
         /\ held' = [held EXCEPT ![Payee[j]] = @ + compute_hold_cents]

\* post_call_payout: the payout and, when the caller of the function passes the job
\* and its dispute window, the hold.  The executor of pipelines passes neither.
post_call_payout(j) ==
    /\ stage[j] = "complete"
    /\ dispute[j] = "none"
    /\ stage' = [stage EXCEPT ![j] = "settled"]
    /\ balance' = [balance EXCEPT ![Payee[j]] = @ + Payout,
                                  !["platform"] = @ + Fee]
    /\ earned' = [earned EXCEPT ![j] = @ + Payout]
    /\ IF j \in Unheld THEN UNCHANGED holdVars ELSE create_hold(j)
    /\ UNCHANGED <<now, completedAt, rows, sessionAt, ratingVars, disputeVars, sent, pc, loc>>

\* Mutant: a partial clawback keeps the rest of the hold in held_cents.
consume_hold_keeps_rest(j, cents) ==
    IF hold[j] # "active" THEN UNCHANGED holdVars
    ELSE /\ hold' = [hold EXCEPT ![j] = IF cents >= compute_hold_cents
                                        THEN "clawed_full" ELSE "clawed_partial"]
         /\ held' = [held EXCEPT ![Payee[j]] = @ - Min({cents, compute_hold_cents})]
         /\ UNCHANGED holdUntil

\* consume_hold_conn: an active hold ends whole, whatever is clawed back.
consume_hold(j, cents) ==
    IF hold[j] # "active" THEN UNCHANGED holdVars
    ELSE /\ hold' = [hold EXCEPT ![j] = IF cents >= compute_hold_cents
                                        THEN "clawed_full" ELSE "clawed_partial"]
         /\ held' = [held EXCEPT ![Payee[j]] = @ - compute_hold_cents]
         /\ UNCHANGED holdUntil

\* Mutant: the sweeper takes holds whose window is still open as well.
release_expired_hold_early(j) ==
    /\ hold[j] = "active"
    /\ hold' = [hold EXCEPT ![j] = "released"]
    /\ held' = [held EXCEPT ![Payee[j]] = @ - compute_hold_cents]
    /\ UNCHANGED <<now, moneyVars, holdUntil, sessionAt, jobVars, ratingVars,
                   disputeVars, sent, pc, loc>>

\* release_expired_holds: each hold past its window in a transaction of its own.
\* An expired hold stays expired, so that the listing needs no step.
release_expired_hold(j) ==
    /\ hold[j] = "active"
    /\ holdUntil[j] < now
    /\ hold' = [hold EXCEPT ![j] = "released"]
    /\ held' = [held EXCEPT ![Payee[j]] = @ - compute_hold_cents]
    /\ UNCHANGED <<now, moneyVars, holdUntil, sessionAt, jobVars, ratingVars,
                   disputeVars, sent, pc, loc>>

-----------------------------------------------------------------------------
(* jobs_rate. *)

Completed(j) == stage[j] \in {"complete", "settled", "voided"}

RateRead(p, j) ==
    /\ Completed(j)
    /\ dispute[j] = "none"
    /\ Begin(p, "r_record", [NoLoc EXCEPT !.job = j,
                                          !.settled = stage[j] = "settled"])
    /\ UNCHANGED <<now, moneyVars, holdVars, sessionAt, jobVars, ratingVars,
                   disputeVars, sent>>

\* record_job_quality_rating looks for a dispute once more; a rating may be
\* revised.  The clawback follows when the job was settled at the first read.
RateRecord(p) ==
    LET j == loc[p].job
    IN  /\ pc[p] = "r_record"
        /\ IF dispute[j] = "none"
           THEN /\ rated' = [rated EXCEPT ![j] = TRUE]
                /\ IF loc[p].settled /\ CurvePct # {}
                   THEN Goto(p, "r_claw") ELSE Finish(p)
           ELSE Finish(p) /\ UNCHANGED rated
        /\ UNCHANGED <<now, moneyVars, holdVars, sessionAt, jobVars, clawback,
                       disputeVars, sent>>

\* compute_clawback_cents, half a cent rounded up.
compute_clawback_cents(pct) == (Payout * (100 - pct) + 50) \div 100

\* Neither row has a key; the debit counts against the limits of the sub-wallet.
ClawbackRows(j, cents) ==
    {Row(Payee[j], "charge", 0 - cents, NoKey, "clawback", j),
     Row(Payer[j], "refund", cents, NoKey, "clawback", j)}

\* Mutant: the debit does not look at the balance.
apply_curve_clawback_overdraws(j, cents) ==
    /\ consume_hold(j, cents)
    /\ balance' = [balance EXCEPT ![Payee[j]] = @ - cents,
                                  ![Payer[j]] = @ + cents]
    /\ rows' = rows \cup ClawbackRows(j, cents)
    /\ earned' = [earned EXCEPT ![j] = @ - cents]
    /\ clawback' = [clawback EXCEPT ![j] = "applied"]

\* Mutant: the hold stays active after its cents are gone.
apply_curve_clawback_keeps_hold(j, cents) ==
    IF balance[Payee[j]] >= cents
    THEN /\ balance' = [balance EXCEPT ![Payee[j]] = @ - cents,
                                       ![Payer[j]] = @ + cents]
         /\ rows' = rows \cup ClawbackRows(j, cents)
         /\ earned' = [earned EXCEPT ![j] = @ - cents]
         /\ clawback' = [clawback EXCEPT ![j] = "applied"]
         /\ UNCHANGED holdVars
    ELSE /\ clawback' = [clawback EXCEPT ![j] = "underflow"]
         /\ UNCHANGED <<moneyVars, holdVars>>

\* The transaction of apply_curve_clawback: hold, debit and credit, or, when the
\* balance of the sub-wallet is short, nothing and an answer for the operator.
apply_curve_clawback(j, cents) ==
    IF balance[Payee[j]] >= cents
    THEN /\ consume_hold(j, cents)
         /\ balance' = [balance EXCEPT ![Payee[j]] = @ - cents,
                                       ![Payer[j]] = @ + cents]
         /\ rows' = rows \cup ClawbackRows(j, cents)
         /\ earned' = [earned EXCEPT ![j] = @ - cents]
         /\ clawback' = [clawback EXCEPT ![j] = "applied"]
    ELSE /\ clawback' = [clawback EXCEPT ![j] = "underflow"]
         /\ UNCHANGED <<moneyVars, holdVars>>

\* Mutant: the memo of an earlier clawback is not looked for.
RateClaw_again(p, pct) ==
    LET j == loc[p].job
        cents == compute_clawback_cents(pct)
    IN  /\ pc[p] = "r_claw"
        /\ IF cents = 0
           THEN UNCHANGED <<moneyVars, holdVars, clawback>>
           ELSE apply_curve_clawback(j, cents)
        /\ Finish(p)
        /\ UNCHANGED <<now, sessionAt, jobVars, rated, disputeVars, sent>>

\* _resolve_rating_clawback: a rating that keeps the whole payout, and a second
\* clawback of the same job, change nothing.
RateClaw(p, pct) ==
    LET j == loc[p].job
        cents == compute_clawback_cents(pct)
    IN  /\ pc[p] = "r_claw"
        /\ IF cents = 0 \/ clawback[j] = "applied"
           THEN UNCHANGED <<moneyVars, holdVars, clawback>>
           ELSE apply_curve_clawback(j, cents)
        /\ Finish(p)
        /\ UNCHANGED <<now, sessionAt, jobVars, rated, disputeVars, sent>>

-----------------------------------------------------------------------------
(* jobs_dispute and the ruling. *)

\* The filer's own wallet: the payer's, or the owner's of the paid sub-wallet.
\* The owner of the sub-wallet "other" is outside the model.
Filer(j, side) == IF side = "caller" THEN Payer[j] ELSE "owner"

Sides == {"caller", "agent"}

\* _dispute_window_deadline.
Deadline(j) == completedAt[j] + Min({Window, FileWindow})

\* is_disputable, read before the transaction.
DisputeRead(p, j) ==
    /\ Completed(j)
    /\ now <= Deadline(j)
    /\ dispute[j] = "none"
    /\ ~rated[j]
    /\ Begin(p, "d_file", [NoLoc EXCEPT !.job = j])
    /\ UNCHANGED <<now, moneyVars, holdVars, sessionAt, jobVars, ratingVars,
                   disputeVars, sent>>

\* The transaction of jobs_dispute: the row (one per job), the filing deposit and
\* lock_dispute_funds, which takes a payout back from agent and platform and ends
\* the hold.  When a wallet is short everything is rolled back.
DisputeFile(p, side) ==
    LET j == loc[p].job
        lock == IF stage[j] = "settled" THEN Charge ELSE 0
        filer == Filer(j, side)
    IN  /\ pc[p] = "d_file"
        /\ side = "agent" => Payee[j] = "agent"
        /\ IF /\ dispute[j] = "none"
              /\ balance[filer] >= FilingDeposit
              /\ lock > 0 => balance[Payee[j]] >= Payout /\ balance["platform"] >= Fee
           THEN /\ dispute' = [dispute EXCEPT ![j] = side]
                /\ deposited' = [deposited EXCEPT ![j] = FilingDeposit]
                /\ locked' = [locked EXCEPT ![j] = lock]
                /\ balance' =
                     [w \in Names |->
                        balance[w]
                        - (IF w = filer THEN FilingDeposit ELSE 0)
                        - (IF w = Payee[j] /\ lock > 0 THEN Payout ELSE 0)
                        - (IF w = "platform" /\ lock > 0 THEN Fee ELSE 0)]
                /\ rows' = rows \cup {Row(filer, "charge", 0 - FilingDeposit,
                                          NoKey, "deposit", j)}
                                \cup (IF lock = 0 THEN {}
                                      ELSE {Row(Payee[j], "charge", 0 - Payout,
                                                NoKey, "lock", j)})
                /\ IF lock > 0
                   THEN /\ consume_hold(j, Payout)
                        /\ earned' = [earned EXCEPT ![j] = @ - Payout]
                   ELSE UNCHANGED <<holdVars, earned>>
           ELSE UNCHANGED <<moneyVars, holdVars, disputeVars>>
        /\ Finish(p)
        /\ UNCHANGED <<now, sessionAt, jobVars, ratingVars, sent>>

\* Mutant: a void ruling credits a caller whose charge the escrow never held.
CallerShare_void_whole(j, o) ==
    IF o \in {"caller_wins", "void"} THEN Charge ELSE 0

\* Who gets the charge.  The escrow holds all of it or, when nothing had been
\* paid out, none of it; a void ruling then leaves it undistributed.
CallerShare(j, o) ==
    CASE o = "caller_wins" -> Charge
      [] o = "void" -> locked[j]
      [] OTHER -> 0

\* post_dispute_settlement, finalize_dispute and the settled_at stamp.  The filing
\* deposit goes back to a filer who did not lose.
post_dispute_settlement(j, o) ==
    LET wins == o = "agent_wins"
        lost == o = IF dispute[j] = "caller" THEN "agent_wins" ELSE "caller_wins"
        home == IF lost THEN "platform" ELSE Filer(j, dispute[j])
    IN  /\ dispute[j] \in Sides
        /\ dispute' = [dispute EXCEPT ![j] = "closed"]
        /\ locked' = [locked EXCEPT ![j] = 0]
        /\ deposited' = [deposited EXCEPT ![j] = 0]
        /\ balance' =
             [w \in Names |->
                balance[w]
                + (IF w = Payer[j] THEN CallerShare(j, o) ELSE 0)
                + (IF w = Payee[j] /\ wins THEN Payout ELSE 0)
                + (IF w = "platform" /\ wins THEN Fee ELSE 0)
                + (IF w = home THEN deposited[j] ELSE 0)]
        /\ rows' = IF CallerShare(j, o) = 0 THEN rows
                   ELSE rows \cup {Row(Payer[j], "refund", CallerShare(j, o), NoKey,
                                       "ruling", j)}
        /\ earned' = [earned EXCEPT ![j] = @ + (IF wins THEN Payout ELSE 0)]
        /\ stage' = [stage EXCEPT ![j] = IF o = "void" /\ locked[j] = 0
                                         THEN "voided" ELSE "settled"]
        /\ UNCHANGED <<now, completedAt, holdVars, sessionAt, ratingVars, sent, pc,
                       loc>>

-----------------------------------------------------------------------------
(* The owner of the sub-wallet. *)

\* sweep_to_parent moves balance, held or not.
sweep_to_parent(a) ==
    /\ balance["agent"] >= a
    /\ balance' = [balance EXCEPT !["agent"] = @ - a, !["owner"] = @ + a]
    /\ rows' = rows \cup {Row("agent", "charge", 0 - a, NoKey, "sweep",
                              Cardinality(rows))}
    /\ UNCHANGED <<now, earned, holdVars, sessionAt, jobVars, ratingVars,
                   disputeVars, sent, pc, loc>>

\* withdraw: the available balance is checked on a snapshot.
WithdrawRead(p, a) ==
    /\ sent.bank + sent.lost + a <= MaxSent
    /\ balance["owner"] - held["owner"] >= a
    /\ Begin(p, "w_debit", [NoLoc EXCEPT !.amount = a])
    /\ UNCHANGED <<now, moneyVars, holdVars, sessionAt, jobVars, ratingVars,
                   disputeVars, sent>>

\* payments.charge looks at the balance again, not at held_cents.
WithdrawDebit(p) ==
    /\ pc[p] = "w_debit"
    /\ IF balance["owner"] >= loc[p].amount
       THEN /\ balance' = [balance EXCEPT !["owner"] = @ - loc[p].amount]
            /\ Goto(p, "w_transfer")
       ELSE Finish(p) /\ UNCHANGED balance
    /\ UNCHANGED <<now, rows, earned, holdVars, sessionAt, jobVars, ratingVars,
                   disputeVars, sent>>

\* Stripe transfers the amount, or the call raises and the amount is deposited
\* again: whether the transfer was made or not, since a lost answer looks like a
\* refusal, and unless the deposit raises too, which is only logged.
WithdrawTransfer(p) ==
    /\ pc[p] = "w_transfer"
    /\ LET a == loc[p].amount
           deposit == balance' = [balance EXCEPT !["owner"] = @ + a]
       IN  \/ sent' = [sent EXCEPT !.bank = @ + a] /\ UNCHANGED balance
           \/ deposit /\ UNCHANGED sent
           \/ /\ deposit
              /\ sent' = [sent EXCEPT !.bank = @ + a, !.twice = @ + a]
           \/ sent' = [sent EXCEPT !.lost = @ + a] /\ UNCHANGED balance
    /\ Finish(p)
    /\ UNCHANGED <<now, rows, earned, holdVars, sessionAt, jobVars, ratingVars,
                   disputeVars>>

Tick ==
    /\ now < MaxNow
    /\ now' = now + 1
    /\ UNCHANGED <<moneyVars, holdVars, sessionAt, jobVars, ratingVars,
                   disputeVars, sent, pc, loc>>

Next ==
    \/ Tick
    \/ set_wallet_session_budget
    \/ \E j \in Jobs :
          \/ \E k \in Keys : pre_call_charge(j, k)
          \/ post_call_refund(j)
          \/ complete_job(j)
          \/ post_call_payout(j)
          \/ release_expired_hold(j)
          \/ \E o \in Outcomes : post_dispute_settlement(j, o)
    \/ \E p \in Clients :
          \/ \E j \in Jobs : RateRead(p, j) \/ DisputeRead(p, j)
          \/ RateRecord(p)
          \/ \E pct \in CurvePct : RateClaw(p, pct)
          \/ \E side \in Sides : DisputeFile(p, side)
    \/ \E a \in Amounts : sweep_to_parent(a)
    \/ \E p \in Withdrawals :
          \/ \E a \in Amounts : WithdrawRead(p, a)
          \/ WithdrawDebit(p)
          \/ WithdrawTransfer(p)

Spec == Init /\ [][Next]_vars

-----------------------------------------------------------------------------
(* Properties. *)

Active == {j \in Jobs : hold[j] = "active"}

\* held_cents of a wallet is the sum of its active holds: every end of a hold
\* (rating, dispute, sweeper) takes exactly what its creation added.
HeldMatchesHolds ==
    \A w \in Names :
        held[w] = Cardinality({j \in Active : Payee[j] = w}) * compute_hold_cents

\* While a settled job can still be disputed its hold is not released: the
\* deadline is counted from completed_at and the hold from the payout, which
\* comes later.  Not so for the step of a pipeline, which is paid without a hold
\* although its job can be disputed for an hour.
OpenWindowIsHeld ==
    \A j \in Jobs \ Unheld :
        stage[j] = "settled" /\ dispute[j] = "none" /\ now <= Deadline(j)
        => hold[j] \notin {"none", "released"} \/ compute_hold_cents = 0

\* A job costs its agent more than it brought only when a rating and a dispute
\* overlap: each of them alone, repeated or not, takes the payout at most once.
AgentLosesOnce ==
    \A j \in Jobs : earned[j] < 0 => rated[j] /\ dispute[j] # "none"

\* A charge that is neither paid out nor given back yet.
Undistributed(j) ==
    IF stage[j] \in {"charged", "complete", "voided"} THEN Charge ELSE 0

InTransfer(p) == IF pc[p] = "w_transfer" THEN loc[p].amount ELSE 0

\* What withdrawals took from the ledger: what the bank got, less what was deposited
\* again although it got it, and what was not deposited again although it did not.
Withdrawn == sent.bank - sent.twice + sent.lost

\* No cent is made or lost between the wallets, the escrows and deposits of the
\* disputes, the charges of unfinished jobs and the bank, but where the transfer of
\* a withdrawal raised: after it was made, or with a deposit that raised as well.
CentsConserved ==
    SumFunction(balance) + Withdrawn
      + SumFunction([j \in Jobs |-> Undistributed(j) + locked[j] + deposited[j]])
      + SumFunction([p \in Withdrawals |-> InTransfer(p)])
    = SumFunction(Funds[{j \in Jobs : stage[j] # "unordered"}])

\* What counts against the cap of a key is exactly the charges it made that were
\* not refunded, however refunds, clawbacks, which have no key, and rulings fall: a
\* refunded call can be repeated, an open one is never forgotten.
KeySpendExact ==
    \A k \in Keys, w \in {"caller", "agent"} :
        NetSpent(w, {r \in rows : r.key = k})
            = Charge * Cardinality({j \in Jobs :
                           /\ Payer[j] = w
                           /\ stage[j] \notin {"unordered", "none", "refunded"}
                           /\ KeyOf(j) = k})

\* What a job took from its payee beyond what it brought, when a rating and a
\* dispute overlapped.
Overdrawn(j) == IF earned[j] < 0 THEN 0 - earned[j] ELSE 0

\* Held cents leave a sub-wallet by the hand of its owner, or with a job that was
\* clawed back and disputed at once: what the holds miss in the balance is no more
\* than the owner swept, the agent spent and such jobs took twice.
HoldsBackedUnlessSpent ==
    held["agent"] <= balance["agent"]
        - RowSum({r \in rows : /\ r.wallet = "agent"
                               /\ r.kind \in {"call", "sweep", "deposit"}})
        + SumFunction([j \in {i \in Jobs : Payee[i] = "agent"} |-> Overdrawn(j)])
=============================================================================
