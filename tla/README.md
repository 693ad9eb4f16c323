# Aztea: a TLA+ model of jobs, money and the requests that move it

Aztea is a marketplace where callers hire agents. A hire charges the caller's
wallet, creates a job, lets a worker claim it under a lease, and in the end
distributes the charge: to the agent and the platform when the job succeeds, back
to the caller when it fails. Output verification, disputes, partial refunds,
price corrections and a sweeper act on the same rows. Almost every one of these
operations is *several* database transactions, run by HTTP workers and background
threads that know nothing of each other. The modules here are about that part:
who may act on a job, where its cents go, and what the requests, watchers and
pipelines that hire agents do when they meet, fail or are repeated.

Paths below are relative to the repository; `part_NNN` is
`server/application_parts/part_NNN.py`.

## 1. Inventory

### Components, their state and their operations

| component | state | operations |
|---|---|---|
| job row, claims, leases (`core/jobs`) | `jobs`: status, claim owner, claim token, lease, attempts, retry time, stamps; claim events in `job_messages` | claim, heartbeat, release, retry, time out, message, report, mark retry ready |
| settlement (`part_005`, called from `part_006`–`part_010`) | `jobs.settled_at`, ledger rows keyed by the charge | `_settle_successful_job`, `_settle_failed_job` |
| sweeper (`part_006`) | none of its own | nine passes: list what is due, act on it |
| charges and fees (`core/payments/base.py`, `variable_pricing.py`) | `wallets`, `transactions` | payout, refund, partial settlement, pricing difference |
| disputes (`core/disputes.py`, `core/judges.py`, `trust_disputes.py`) | `disputes`, an escrow wallet per dispute, judgments | file, judge, rule, appeal, tie timeout, settle, finalise |
| output verification, compare sessions (`part_009`) | verification columns of `jobs`; `compare_sessions` | open, accept, reject, expire; select a winner |
| wallets and limits (`pre_call_charge`, `subwallets.py`) | balances; daily, session and per-key sums over `transactions` | charge, refund, sweep to the parent, withdraw, set a session budget |
| reserve holds, rating clawback (`holds.py`, `payout_curve.py`, `part_010`) | `wallet_holds`, `held_cents`, ratings | create, consume, release; rate, revise, claw back |
| synchronous calls and job creation (`part_008`) | a replay store, a result cache and a singleflight table per process | `registry_call`, `jobs_create` |
| built-in worker (`part_004`) | a thread pool | claim pending jobs, run, retry, settle |
| idempotency keys (`core/idempotency.py`, `part_003`) | `idempotency_requests` | begin, complete, release; used by batches and withdrawals |
| watchers (`core/watchers`) | `watchers`, `watcher_runs` | create, pause, resume, delete; roll over, claim a tick, look, fire, record |
| pipelines (`core/pipelines`) | definitions, `pipeline_runs` | sort, run step by step, record, fail |
| caller escrow (`caller_escrow.py`, off by default) | escrow rows, `held_cents` | reserve, settle, release |
| settlement runner (`core/settlement_runner.py`) | outbox of stopped copilot jobs | enqueue, lease a row, settle units |
| background leases | lease rows | acquire, renew, take over |
| Elixir sidecar (`elixir/`) | a process per job with a copy of the row | reset leases, mirror messages |
| deferred queue, job events | outboxes | best-effort delivery |
| registry, auto-hire, authentication, rate limits, sandbox, workspaces, LLM providers, hosted skills, reputation, receipts, frontend, SDKs | listings, keys, containers, derived scores | CRUD, I/O, ranking, signatures |

### How they interact

Everything meets in the database. A handler reads the job, calls functions of
`core/jobs` and `core/payments` that each open their own transaction, and uses
the row it read, or the row a call read back, to decide what comes next. The
sweeper thread calls the same functions. Nothing holds a lock across two
transactions; protection comes from conditions inside single statements
(`completed_at IS NULL`, `settled_at IS NULL`), from the unique index on
`(related_tx_id, type, wallet_id)`, from marker rows and from the claim token.

### What is hard

* two handlers that both believe they finished the job, and both settle;
* a dispute, rejection or expiry between the check and the payment;
* a process that dies between the status change and the money;
* a lease that runs out while the quality gate (an LLM call) is running;
* lists made by the sweeper that are stale when it acts on them;
* the ledger, the dispute row and the job row each with its own idea of a ruling;
* cents under several roundings that must add up;
* a rating, a dispute, a sweep and a withdrawal on one agent wallet;
* a retried request whose first attempt is running, failed half-way or died;
* the worker pool and the request itself running the same pending job;
* two sweepers in their last and first pass, with the rows they listed.

`PROJECT.json` lists these as hazards, each at its line, with the properties
aimed at it.

### What makes each component correct

* leases: one live lease, never taken from its holder; a report that was let in is
  current or can be told to be stale; every job ends;
* settlement: the charge is distributed once and entirely; a settled job has been
  paid for; what was paid fits the final status; every finished job is settled;
* ledger arithmetic: shares add up to the charge; wallets hold what their rows add up
  to; a correction leaves everybody as if the right price had been charged;
* disputes: a ruling moves no more than the charge, empties its escrow, is the
  ruling that the records show, and comes in the end;
* wallets and holds: cents are conserved; `held_cents` is the sum of the active
  holds; what can still be taken back is held; limits count exactly the open charges;
* requests: an answer that speaks of a refund is true; a key spends once and is given
  back; every request is answered and every charge ends;
* watchers: a tick charges once, within the budget of the day; the owner's pause
  stands; an exhausted watcher wakes;
* pipelines: dependencies first; what a run goes past is recorded and paid, or was
  ended by somebody else; every charge of a step ends.

## 2. Modules

| module | models |
|---|---|
| `Settlement` | one charged job, its ledger rows and its dispute, under concurrent, crashing handlers |
| `JobLease` | claims, leases, retries and reports of one job under a clock |
| `ChargeLedger` | the cents of one charge for all prices, fees, policies and fractions |
| `Wallets` | jobs of several payers and payees over four wallets: limits, holds, ratings, disputes, sweeps, withdrawals |
| `Calls` | paid requests with their keys and caches, and the worker pool |
| `Watchers` | one watcher, overlapping sweepers, its owner |
| `Pipelines` | one run of a definition, next to the worker pool, the caller and the sweeper |
| `ChargeLife` | what settlement promises of a charge; implemented by `Settlement` |
| `SettlementProofs`, `SettlementRefinement`, `JobLeaseProofs`, `ChargeLedgerProofs`, `WalletsProofs`, `CallsProofs`, `WatchersProofs`, `PipelinesProofs` | the theorems |
| `MCSettlement`, `MCJobLease`, `MCChargeLedger`, `MCWallets`, `MCCalls`, `MCPipelines` | instances for TLC (`Watchers` needs none) |

The modules meet in the charge. `Settlement` takes one job apart into transactions;
`Wallets`, `Calls` and `Pipelines` take several jobs and use its settlement as one
step that pays or refunds a charge once, which is what `ChargeLife` says and
`SettlementRefinement` proves. `ChargeLedger` justifies the shares that all of them
treat as given amounts.

### Settlement

*State.* The columns of the `jobs` row that decide anything (`status`,
`completed` and `settled` for the two stamps, `verif` and `vdue` for the
verification window, `claim`, `attempts`, `timedOut`, `jobOutcome`), the cents of
the `refund`, `payout` and `fee` rows keyed by the charge, wallet balances, the
dispute (`dispute`, `rowOutcome`, and `ledgerOutcome` for the marker row of the
ledger), and for every process
`pc` (its next transaction) and `loc` (what it still remembers of its reads). One
history variable, `crossed`, says that handlers have worked against each other: a
status write met a job that had finished in another way, a payout landed behind a
dispute, or a compare loser was refunded.

*Actions.* One transaction or autocommitted statement each. A handler starts with
its first read (`CompleteRead`, `FailRead`, `CancelRead`, `DecideRead`,
`CompareRead`, `FileRead`, `JudgeRead`, `AdminRead`, the lists of the sweeper)
and goes on with its writes; the two settlement functions are `SettleSuccessful`
(initialise the window, check, pay, stamp) and `SettleFailed` (use the row read
back, pay, stamp). `Crash(p)` ends a handler between any two of its transactions.
The master key completes and fails jobs without a claim (`part_002`:938), also a job
that is complete already: `update_job_status` then changes nothing, and the failing
handler refunds and stamps it all the same (`part_005`:1302). That is one handler, and
it crosses. Worker operations (`claim_job`, `release_job_claim`, `add_message`) are
single transactions. What depends on the clock may happen at any time. The judges' vote
is three actions: they agree, they tie, or a model fails and the vote with it.

*Left out.* Filing deposits, reserve holds, rating clawbacks and withdrawals (they are
in `Wallets`); call counters (`update_call_stats`), caller trust, receipts, e-mails
and events; the `REQUIRE_VERIFICATION` flag (off by default); the operator response
window (its statuses are part of `open`); the `stopped` status of copilot jobs; the
deferred debit of the caller (`caller_escrow.py`); jobs of zero cents; split amounts
that an earlier admin ruling persisted on the dispute. Every transaction is atomic and
the transactions of all processes come one after the other. That is SQLite, whose
writers take `BEGIN IMMEDIATE`; on PostgreSQL the code runs at the default isolation
level, with `FOR UPDATE` on the charge and the wallets in the larger money functions
only, and what two transactions may do to each other there is not modelled.

### ChargeLife

Four variables: where the money is, the ruling, whether the job has ended, whether
its books are closed. A charge is held until the job has ended, is distributed
once, a dispute is ruled on once, and the books close behind one of them and stay
closed. The mapping takes `finished` from `completed_at`, `closed` from
`settled_at`, `ruling` from the marker row of the ledger and `money` from the rows
keyed by the charge. The 21 kinds of handlers do not appear in it.

### JobLease

*State.* The clock, the lease columns with real times, the claim events that were
logged per token (`log`, `minter`), what each worker process was told (`known`),
whether its report has passed the claim check (`report`), and the sweeper pass
that is under way (`pass`). The n-th claim mints token n.

*Actions.* Every operation of `core/jobs/leases.py` that touches the lease,
`add_message`, the timeout at a touchpoint, reports in two steps (check, update),
and the sweeper in two steps per pass (list, act). Workers use user keys. Who needs no
claim is there as well: `jobs_retry_unclaimed` (a key of the platform or of the agent
puts a claimed job back into the queue) and `EndedWithoutClaim` (the master key
completes or fails the job, its caller cancels it). The clarification deadline is set
per job and may pass at any time or never. `report` remembers the token a report
presented and the attempt it was checked in; its write looks at `completed_at` only.

### ChargeLedger

*State.* The inputs of the charge, the rows keyed by it, the legs of a pricing
difference, for agent and platform the balance and the sum of the transaction rows, the
database in use, the price that a call turned out to have. *Actions.*
`post_call_payout`, `post_call_refund`, `post_call_partial_settle`,
`maybe_refund_pricing_diff`, and what empties the two wallets first (a withdrawal, the
fee of a judge for another charge).

`post_call_refund_difference` takes the cents back from the agent and the platform
before it credits the caller. A wallet that is short makes the third `UPDATE` of
`_insert_tx` fail, behind the row it has inserted already (`base.py`:384-405); the
`IntegrityError` is caught inside `with _conn()` (`variable_pricing.py`:139-189), whose
exit commits (`core/db.py`:222). PostgreSQL turns that commit into a rollback. SQLite
keeps what was written: the stray row, and the leg before it with its cents. `ClawBack`
has both outcomes, and the tag of a stray row makes every later correction of the
charge a no-op.

The fee share of a partial settlement is
computed with a ratio of 28 decimal digits, which can put an exact half on either
side; the model allows both neighbours.

`Settlement` uses fixed amounts. Its assumption on them (`CentsAssumption`: shares
that add up to the charge, a partial refund of at least one cent) is what
`ChargeLedgerProofs` proves of the real arithmetic.

### Wallets

*State.* Balances and `held_cents` of a caller, the sub-wallet of an agent, its
owner and another agent; the `transactions` rows that the limits sum over, with
their key and time; per job its stage, completion time, hold, rating and dispute
with its locked cents and deposit; the processes of the requests.

*Actions.* `pre_call_charge` (owner backstop, the three limits, balance, row: one
transaction, and a refused call leaves nothing), `post_call_payout` with its hold,
`post_call_refund`, `set_wallet_session_budget`, `sweep_to_parent`,
`release_expired_hold`; `jobs_rate` in its three transactions; `jobs_dispute` in
two, and the ruling; `withdraw` in three, the transfer included. A clawback takes
the hold first and falls back on the free balance.

`post_call_payout` creates a hold only for a call that names the job and its dispute
window (`base.py`:1208). Pipeline steps are settled without (`executor.py`:444), as by the
settlement runner, and can be disputed for an hour all the same: such jobs are `Unheld`.
(That a step is paid without a look at its disputes is one of the races of `Settlement`;
here a job is settled before it is disputed.)

The transfer of a withdrawal has four outcomes (`part_014`:610-622): it is made; it fails
and the amount is deposited again; Stripe makes it, its answer is lost, and the amount is
deposited again; it fails, the deposit fails too and is only logged. The record `sent`
keeps what the bank got, what was given `twice` and what was `lost`.

*Left out.* The disputes of unfinished charges (in `Settlement`), partial refunds,
the extra dispute hold behind `AZTEA_DISPUTE_HOLD_ENABLED` (off by default), the
repair job for stale holds, top-ups.

### Calls

*State.* The caller's funds in units of one charge, the charge, status, attempts
and settlement of each job; per server process the replay store and the
singleflight table; the shared result cache; a row of `idempotency_requests` per
scope; bank transfers by Stripe key; the position and answer of each request; the
workers.

*Actions.* `registry_call` from its lookup through singleflight, charge,
`create_job`, the inline run and settlement to the publication of the result, with
its exception paths; `jobs_create`; `jobs_batch_create` with its key, the charges
one by one and the refund loop, a dry run included; `withdraw` with its key, the transfer
and its failures; the worker pool, with the `max_attempts` each request asks for. `Crash`
ends a request and what its process remembered; `RowAges` makes a row older than its TTL,
`CacheExpires` empties the cache.

An exception can come at every step, those that handle another one included. The refund
loop of a batch logs a refund that raises and goes on (`raised`); `idempotency.complete`
may raise, which the batch swallows and the withdrawal does not; `release` may raise and
is swallowed (`kept`); the deposit that compensates a transfer may raise and is logged;
an exception behind the charge loop of a batch meets no handler at all.

### Watchers

*State.* The watcher's row, the owner's funds, the fires with their tick, day and
job, and for each sweeper its position and the row as it listed it. Two ghosts:
whether passes ever overlapped, and whether the owner's pause was made between two
ticks. *Actions.* The roll-over pass, the due list, the claim, the look with its
statements, the pause after errors, charge, job and record of a fire, the owner's
pause, resume and delete, the clock, a crash. The owner's PATCH of budget, interval and
policy and the delivery of results are left out.

### Pipelines

*State.* The graph and the money it starts with (`Starts`), the run row, the order,
the results, charge, job and settlement per step, what a pool worker has of a step,
and `closed`, the history of the jobs that a cancel or a sweep has settled as failed.
*Actions.* `run_pipeline` with `_topological_sort` as a recursive function over the
rounds of Kahn's queue, then per step charge, job row, call, and the transactions of
the success or the failure path, each of which may raise; `fail_run`; the crash of the
daemon thread. Next to it, on the same job rows: the worker pool, the caller
(`jobs_cancel`; `a2a_tasks_cancel`), and the sweeper, which fails jobs past their SLA
or claim deadline on the rows it listed (`SweepFails`) and settles complete ones.
`closed` is set by all that fail a job so. A cancel or sweep is one action, status and
refund together: a crash between the two is what `failed_refund` is about. Disputes,
input templates, workspaces and the pricing difference are left out.

## 3. Runs

| run | instance | result |
|---|---|---|
| `settlement_all` | two processes, all handlers but `compare_winner` and `tie_timeout`, a half refund, outcomes for the agent and split | holds |
| `settlement_crash` | one process, one crash, all handlers but `compare_loser`, outcomes for the caller and for the agent, judge fee of 1 cent and a platform wallet with 1 cent of other jobs; fairness | holds |
| `settlement_race` | two processes, completion and SLA | `SettlementMatchesStatus` violated |
| `failed_refund` | one process, one crash; fairness | `FailedJobRefunded` violated |
| `dispute_race` | two processes, completion, dispute, judge | `NoCentsMinted` violated |
| `lease` | two owners with a worker each, clock to 5; fairness | holds |
| `charge_ledger` | prices 1–14, 8 percentages, 3 policies, 5 fractions, both databases | holds |
| `wallets` | five pairs of jobs, one with a job that has no hold, one client and one withdrawal, clock to 2 | holds |
| `calls` | seven pairs of requests, two processes, one worker, one failure, one aged row; fairness | holds, 122 thousand states |
| `watchers` | two sweepers, two policies, two days, one crash; fairness | holds, 1.2 million states |
| `watcher_policy` | one sweeper, the route's default policy | `FiresOncePerChange` violated |
| `pipelines` | all graphs on three nodes, seven of them with money, one failure; fairness | holds, 0.9 million states |

**What holds.** However handlers interleave and wherever they crash, the rows of a
charge add up to nothing or to the charge; a settled job has had its charge
distributed (or its dispute ruled); and the handlers together implement
`ChargeLife`. Beyond that the handlers are right until two decisions cross: as long as
no status write has met a job that finished otherwise, no payout has landed behind a
dispute and no compare loser is refunded, the status of a settled job tells who was paid
(`StatusPaidAlike`), no cents are made (`MintsOnlyCrossed`) and rulings empty their
escrow (`DrainedUnlessCrossed`), with two processes in any interleaving and splits and
half refunds included. So every way the code has to pay against a decision is one of
those three. With one handler at a time, a crash included, the records show the ruling
that moved the money until an admin rules again, every complete job that nobody rejects
or disputes is settled, and every dispute in the queue is decided, except one whose
handler died behind the consensus, one the judges split (they name no shares), and one
an admin took up and dropped by a crash.

A live lease is taken from its holder only by a key of the platform or the agent. When a
report is written, a claim other than the reporter's is always of a newer attempt than
the one the report was checked in (`ReportUncontested`), so a comparison of
`attempt_count` in `update_job_status` would tell a stale report; there is none. Every
job ends, except an unclaimed one that a clarification message made active, which no
pass looks at.

No rounding loses or makes a cent, and a price correction that reaches the caller leaves
everybody as if the actual price had been charged. One that meets a short wallet on
SQLite leaves rows that no wallet shows; `DriftIsStrayLeg` says that the drift which
`compute_ledger_invariants` then reports is exactly the leg that was short.

Wallets, escrows, open charges and the bank together keep their cents, but where the
transfer of a withdrawal raised: `CentsConserved` counts what the bank got twice and what
nobody got. `held_cents` is exact; the hold outlasts the dispute window, except for
pipeline steps, which have none; a key's spend counts exactly its
open charges. Two things are weaker than the comments suggest, and the properties
say how much weaker: held cents can be swept or spent by their owner
(`HoldsBackedUnlessSpent`), and a rating that overlaps a dispute can cost the agent
more than the payout (`AgentLosesOnce`), which is then missing behind the holds of
its other jobs.

Keys spend once as long as no row outlives
its TTL, except a withdrawal that failed between its transfer and its record; they
are given back, except by a request that could not write to the row, by a batch that
raised behind its last job, and by one that was refused, or answered with an estimate,
before its first charge (`KeyGivenBack`). A call
whose answer says "refunded" may have been paid out, when the worker pool ran the
same job or an exception came after the settlement, and keeps a charge whose refund
raised in the loop of a batch; nothing else can make the
answer untrue. A follower of a failed call waits for nothing, but not for ever. The
budget of a watcher is exceeded by the fee of one fire at most (and a fire per
crash), since the gate compares the price; for passes that overlap no bound is stated.

A pipeline goes past a step only when it was recorded, and paid, or refunded because a
worker, the caller or a sweep ended its job under the thread (`OnlyLastStepUnpaid`): in
that case the run uses an output its caller did not pay for. A charge stays
open only when the job row could not be created, or the thread died, or failed, between
the failed status and the refund.

**What does not hold.** Four statements of comments, messages and field
descriptions are contradicted by runs; each is a finding in `PROJECT.json` with the
quoted line.

1. *A completed job can end up refunded, a failed one paid* (`settlement_race`).
   `update_job_status` does not tell its caller that another one was first.
2. *A failed or cancelled job can stay unsettled* (`failed_refund`): the crash
   between the update and the refund has no recovery, unlike the one after
   completion.
3. *A dispute can double the charge* (`dispute_race`): filed between the check and
   the payout, it locks nothing and is later settled as if nothing had been paid.
4. *A watcher made by `POST /watchers` with the default policy fires on every tick*
   (`watcher_policy`): the route and the sweeper use different names for the
   policies. `POST /watch` validates them.

The models show more, on which no run of its own is spent; the properties of the passing
runs except them by name.

* An admin who rules differently on a resolved dispute changes the records and not the
  ledger (`part_011`:98).
* A worker whose claim was checked before its lease timed out finishes the job under
  the live lease of another (`leases.py`:808).
* A master key that fails a complete job refunds its caller, with the status left
  complete (`part_002`:938, `part_005`:1302).
* The docstring of `post_call_refund_difference` (`variable_pricing.py`:56-59, 66-69)
  promises that a short wallet rolls the whole transaction back; on SQLite the legs
  before the short one stay.
* "Batch creation failed; all charges refunded." (`part_009`:1542-1555) is answered when a
  refund has raised as well, and the contract of `idempotency.begin`, "must call
  `complete` or `release`", is not kept by a dry run or a refused batch.
* The deposit that compensates a failed transfer is made for a transfer that went through
  as well (`part_014`:610).
* "Hard cap" (`part_011`:2290): a watcher's day may cost its budget and the fee, since
  `sweeper.py`:245 compares the price.

**Bounds.** `Settlement` and `JobLease` have one job: nothing in the modelled
operations reads another job's rows (cascades to children run the same failing
handler). Two processes show every pairwise interleaving; the safety properties that
hold there are proved for any number, and so are the invariants of `wallets`, `calls`,
`watchers` and `pipelines`. Two attempts make both the retried and the final timeout
happen. `MaxCrashes` is 1: a second crash adds no new position from which to start
again. In `lease` the clock of 5 exceeds the claim deadline and the SLA of 3 by two
ticks, so that both pass with the job in every stage, and leases of 1 and 2 against a
grace of 1 make late reports both acceptable and too late; `MaxLease` bounds message
extensions, which would otherwise push the lease for ever. Ten cents with a fee of 1
and a half refund keep the three shares apart; `ChargeLedger` varies the amounts.
Prices to 14 round a fee of 10% both ways.

In `wallets` a job costs 3 cents, 2 for the payee; `Orders` are the pairs of jobs (two
of the caller's, two that the agent hires another agent for, one of each, and a
pipeline step beside a job the agent hires out), and `MaxSent` allows one withdrawal;
the limits of 6 are just met by two charges: a filing deposit between them makes the
daily and the session limit refuse the second, a refund or a new day lets it through.
A window of one tick and a clock of 2 put every operation before, at and after the
deadline; `ResetTimes` says when the session may be reset. The caller can pay for its
jobs and a deposit, the agent needs its owner's backstop for a call of its own. In
`calls`, `Mixes` are the pairs that share something: the same call twice, on one
process and on two, a job beside a remote call, two batches, a batch beside a
withdrawal, two withdrawals with one body and with two. Two units make the second
charge of a batch fail when another request has one. A job may be retried where the
mix asks for two attempts. `MaxAgeings` is 1, so a stale key is taken over while its
first owner still runs. In `watchers` a day is two ticks and there are two days; one
sweeper (`Leader`) goes on for ever, the other makes its last pass. `Funds` pay for
two fires and refuse the third. Three nodes give chains, forks, joins, self-references
and cycles: `MCStarts` has every graph with an empty wallet, which is enough for the
sort and its refusals, and one graph of each acyclic shape with money for all steps,
one with money for two: the steps of a run depend on the order and on the money only,
and the order on the graph. `MaxFaults` is 1 in the passing runs: one exception or one
crash at any transaction. Symmetry is used in `settlement_all` and `wallets`, whose
properties are invariants and one step property (`ChargeLives`) that do not tell the
permuted values apart.

**Fairness.** The sweeper is a loop over all passes that never ends, and catches
exceptions, so its list steps are strongly fair: a pass is not waiting at the
moment a job becomes due, but it comes round again and again, and the bounded
pool of processes may be busy in between. A handler that has started goes on
(weak fairness of its steps) unless it crashes, at most `MaxCrashes` times. Time
passes. Callers, workers and admins have no fairness. Of the judges it is assumed
(strong fairness of `JudgesAgree \/ JudgesTie`) that they do not fail without end:
live judges are off by default, and the deterministic fallback always answers. In
`Calls` a received request goes on and the worker pool keeps draining (weak
fairness); in `Watchers` the sweeper loop, which catches every exception, and the
clock; in `Pipelines` the thread of the run while its process lives, and the sweeper for a
job that is open (its SLA passes) or complete and unsettled; not the pool or the caller.

Deadlock checking stays on for `Settlement`, `JobLease` and `ChargeLedger`. The
other runs switch it off: two jobs, two requests, a clock or a run come to their
end, and then nothing is left to do.

## 4. Theorems

All are checked by TLAPS for every value of the constants that satisfies the named
assumptions.

*Settlement* (`CentsAssumption`, `BoundsAssumption`). `TypeCorrect`,
`FinishedUnclaimed`, `StampsNeverCleared`, `SettledDistributed`, `LegsExact`: for
any number of processes, crashes, attempts and any amounts. The first three rest
on type correctness and `FinishedIsUnclaimed`, which is inductive with it: each of
the steps that set a claim or clear `completed_at` needs an unfinished job or a
claim. The money needs more, because a handler stamps `settled_at` in a later step
than it pays. The invariant `MoneyInv` adds the shape of the rows
(without a refund, payout and fee are both there or both absent; with one, the
charge is distributed: hence a second payer that finds one row finds all), and for
every process what its position implies: at
`s_mark`, `f_mark` and `l_mark` the charge is distributed, at `d_finalize`,
`e_read` and `e_mark` the ledger is ruled, at `d_settle` an outcome is known.
Rows are never removed, so no other process can take these facts away.

For any number of processes and crashes there are two more. `UndisputedBooksBalance`:
until a dispute is filed, the wallets hold exactly what the rows of the charge say, so
that whatever interleaves, only a dispute can mint cents. `RulingEmptiesEscrow`: if no
ruling splits the charge, every ruling empties the escrow. Its invariant (`EscrowInv`,
`DisputeInv`, `SplitFree`) says that nobody rules before a dispute exists, that a
dispute never goes away, hence that funds are locked once, and at most the charge.
With splits it is false for two processes: a half refund that meets a dispute leaves
the escrow with less than the charge, which a split then does not debit.

*Handlers that do not cross.* `UncrossedMintsNothing`, `UncrossedDrains` and
`UncrossedPaidAlike`: for any number of processes and crashes and any amounts, until
a handler has worked against what another one had decided (`crossed`: a status write
met a job that had finished in another way, a payout landed behind a dispute, or a
compare loser was refunded). The restriction is needed: `dispute_race` and
`settlement_race` refute the first and the third without it, and a master key that
fails a complete job refutes all three with one handler. The code does not prevent
the crossings; the theorems say that nothing else mints a cent, leaves one in an
escrow or settles a job against its status. The argument: until then the columns
agree (`Row`: `completed_at` with a terminal status, no money on an unfinished job, a
dispute on a complete one, a refund on a lost one), and what a handler read is still
so when it writes (`Place`), because a status that is terminal changes only by a
crossing. Hence the escrow holds all of the charge or nothing of it, and a ruling
hands out one or the other (`Purse`).

`JudgedRulingStandsAlone` assumes one handler at a time (`Alone`): until the first
crash none leaves a ruling in the ledger that the dispute row does not show
(`RulingInv`).

*Refinement.* `SettlementImplementsChargeLife`: `Spec` implies `ChargeLife!Spec`
under the mapping, again for any number of processes, crashes and any amounts.
`MoneyInv` gives the steps that distribute, rule and close. That no money moves
before `completed_at` needs one more invariant, `EndedInv`, because the payment
steps look at the row their handler read and not at the job: a terminal status, a
dispute and every handler position behind the first read of a finished job imply
`completed_at`, and only six positions (`Early`) may see an unfinished job. Once
`completed_at` is set it stays (`FinishedIsUnclaimed`: the step that clears it needs
a claim), so each step maps to one step of `ChargeLife` or to none.

*JobLease* (`LeaseAssumption`). `TypeCorrect`, `Logged`, `LeaseRespected`,
`ReportsUncontested`: for any workers, owners, several processes of one owner
included, and any durations. The invariant adds that a claim has the token of its
attempt and that only a job in progress is claimed (`ClaimShape`), and that no report
has seen an attempt still to come (`ReportShape`): without the first a lease could be
logged under no token, without the second a finished job could be timed out, without
the third a new attempt could be one that the report has already counted.

*ChargeLedger* (`RangesAssumption`). `Balances`, `DriftExact`, `HalfBack`,
`Corrected`: for all prices, percentages and fractions in range, either database and
any wallet that is short. They rest on lemmas about the rounding: the fee lies
between 0 and the price and grows with it by at most the price difference, so that
the difference of two distributions has no negative leg and no residue; and on
`RowsMatch` and `DriftIsStrayLeg`, which say which rows a charge has, with a
half-written difference too, and which wallets have followed them.

*Wallets* (`WalletsAssumption`; new in it for the proofs: finitely many withdrawals,
and `NoKey` is no key; `Unheld` is any set of jobs). `TypeCorrect`,
`HeldMatchesHoldsAlways`, `OpenWindowIsHeldAlways`, `AgentLosesOnceAlways`,
`CentsConservedAlways`, `KeySpendExactAlways`, `HoldsBackedAlways`: every invariant of
the run, for any finite set of jobs, clients, withdrawals and keys, and any amounts.
The invariant says for every job what its stage implies for its stamps, hold, rating,
dispute, locked and earned cents (`JobsKept`); for every client and withdrawal what
its position implies for the job it read (`AllPlaced`); that the rows of the ledger
are those of the jobs, each once (`RowsKnown`), so that the limits sum over what the
jobs say (`KeySpend`); and that the agent's balance, its spending added, covers what
its jobs brought (`EarningsThere`), from which the backing of the holds follows. The
library defines a sum by recursion over subsets, and its induction theorems cannot be
used here; the lemmas from `LeastOf` to `SumBound` take a smallest counterexample
instead, and give the three facts the rest needs: an element can be taken out of a
sum, a sum changes by what one value changes, equal functions have equal sums. The
proof of `HoldsBackedUnlessSpent` found that it had been too strong: with two clients
a rating and a dispute of one job both take its payout, and the second one takes the
reserve of another job. The run has one client and did not show it; the property now
counts what such a job took twice (`Overdrawn`).

*Calls* (`CallsAssumption`: finitely many requests, and `NoRequest` is none).
`TypeCorrect`, `UnitsConservedAlways`, `RefundedKeepsNothingHolds`,
`KeySpendsOnceHolds`, `KeyGivenBackHolds`: for any requests, keys, processes and
workers. Refunds, key rows and deposits may raise anywhere. The invariant has the
units of the wallet (`UnitsConserved`, without which a refund could exceed the funds),
what the position of a request says of its charges (`AllPlaced`, `AllBooked`) and of
the job a worker has (`AtWork`), and, for the keys, that the row of a key is owned by
a request that has begun (`RowsOwned`), and, while no row has aged, by the one that is
at work with the key or has spent with it (`KeysHeld`): whoever comes second finds the
row of the first.

*Watchers* (`WatchersAssumption`: finitely many sweepers, the leader among them).
`TypeCorrect`, `TickFiresOnceHolds`, `PauseStandsHolds`, `BudgetHoldsAlways`,
`WalletPaidAlways`: for any number of sweepers, ticks and crashes and any amounts.
A tick fires once because the claim moves `next_check_at` past it, so that the ticks
of all fires and of all sweepers behind a claim are different and lie before the
row's. For the budget the invariant relates the counted spend of the row to the
fires of its day, up to the fires of sweepers that have charged and not recorded,
of which there is one while passes do not overlap, and those that died there.

*Pipelines* (`PipelinesAssumption`: `Starts` is any set of graphs with their funds,
where the run takes those of `MCStarts`). `TopologicalSortCorrect` is about the algorithm
alone: for every graph on every number of nodes the order holds every node once,
behind its dependencies, or it falls short; and it falls short exactly when some
path of dependencies comes back to its node. The loop invariant (`Kahn`) says that
`indegree` counts the dependencies not yet ordered and that ordered and queued nodes
are together those with none left. A sort that falls short leaves nodes that each
depend on one of them, and a walk of `N` steps among them meets itself; positions in
a full order grow along a path, so a full order has no cycle. `TypeCorrect`,
`DependenciesFirstAlways` and `OnlyLastStepUnpaidAlways` follow with an invariant on
the run: the results are the nodes before the present one, only those and it are
charged, what is past is paid, or refunded with a worker on its job or by somebody
who closed it (`Accounted`: the caller's cancel or a sweep), and the wallet and the
charges that were not given back never exceed the funds.

**Only model-checked.** Liveness (`CompletedJobSettles`, `DisputeEnds`,
`EveryJobEnds`, `EveryRequestAnswered`, `EveryChargeEnds`, `ExhaustedEnds`,
`StepChargeEnds`) is outside the prover's reach. Every invariant that a passing run
checks is stated by a theorem, `JudgedRulingStands` of `settlement_crash` under the
hypothesis of that run, one handler at a time.

## 5. Plan

1. `ElixirSidecar`, composed with `JobLease`: the second sweeper and the per-job
   process with its cached lease; only expired leases are reset, and the timeout
   bookkeeping survives.
2. `SettlementRunner` with the copilot's units and stop conditions, `CallerEscrow`
   and `BackgroundLeases`: small protocols with crashes and retries of their own.

## 6. Not modelled

* `caller_escrow.py`, the deferred debit of async jobs, and the dispute hold: both
  behind flags that are off by default.
* The settlement runner and the Elixir sidecar: see the plan.
* The start-up pass that clears claims of pending jobs (`part_001`:536-556): it repairs
  rows of older versions; no step of the present code leaves such a claim (`ClaimShape`).
* The delivery of watcher results: it reports what other steps did.
* The operator response window of disputes, caller trust, receipts, reputation
  scores, call statistics, e-mails and webhooks: derived data and delivery.
* Ranking and other LLM decisions (nondeterministic choices wherever they matter),
  the registry's CRUD, authentication, rendering, cryptography, containers, HTTP
  clients, the frontend and the SDKs: no protocol state, or pure I/O. They are most
  of the repository's lines, so the mapped share of it is small.
