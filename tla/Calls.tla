-------------------------------- MODULE Calls --------------------------------
(***************************************************************************)
(* Paid requests: registry_call (built-in and remote agents), jobs_create, *)
(* jobs_batch_create and withdraw, with the tables and caches that keep a  *)
(* repeated request from being charged twice, and the worker pool that     *)
(* runs the jobs they leave in the queue.                                  *)
(*                                                                         *)
(* A request is a process; one action is one database transaction or one   *)
(* look at process-local state.  Every job costs one unit of the caller's  *)
(* wallet.  All calls have the same input and key, all batches and all     *)
(* withdrawals share a key each.  The settlement of a job is one action:   *)
(* its races are the subject of module Settlement, the leases of workers   *)
(* that of module JobLease.                                                *)
(***************************************************************************)
EXTENDS Integers, FiniteSets

CONSTANTS
    Requests, NoRequest,
    Workers,        \* threads of the built-in worker pool
    Hosts,          \* server processes
    Bodies,         \* the payloads of requests, as their hashes tell them apart
    Mixes,          \* the requests that may run together
    BatchSize,      \* jobs of a batch
    MaxAttempts,    \* bound on the max_attempts a client may ask for
    Funds,          \* units in the caller's wallet
    MaxFaults,      \* bound on crashes and unexpected exceptions
    MaxAgeings      \* bound on idempotency rows that outlive their TTL

Calls == {"builtin", "remote"}
Kinds == Calls \cup {"create", "batch", "withdraw"}
Scopes == {"hire_batch", "wallets.withdraw"}
Jobs == Requests \X (1 .. BatchSize)
NoJob == <<NoRequest, 0>>

ASSUME CallsAssumption ==
    /\ IsFiniteSet(Requests) /\ NoRequest \notin Requests
    /\ Mixes \subseteq [Requests -> [kind : Kinds, body : Bodies, host : Hosts,
                                    max_attempts : 1 .. MaxAttempts]]
    /\ BatchSize \in Nat \ {0}
    /\ MaxAttempts \in Nat \ {0}
    /\ {Funds, MaxFaults, MaxAgeings} \subseteq Nat

VARIABLES
    req,        \* what a request asks for, and the process that received it
    funds,      \* balance of the caller's wallet
    charge,     \* of a job: the ledger rows keyed by its charge
    status,     \* jobs.status; "none": no row
    settled,    \* settled_at IS NOT NULL
    attempts,   \* attempt_count
    cache,      \* agent_result_cache: the job whose output is stored
    inflight,   \* _CACHE_SINGLEFLIGHT_INFLIGHT of a server process
    replay,     \* _IDEMPOTENCY_CACHE of a server process: the request stored
    row,        \* idempotency_requests
    debited,    \* units a withdrawal took from the wallet, less what it returned
    transfers,  \* transfers at Stripe, one for each idempotency key
    taken,      \* charges in charge_tx_ids
    undone,     \* how many of them the refund loop has been through
    raised,     \* history: charges whose refund in that loop raised
    kept,       \* history: requests that could not complete or release their key
    answer,     \* the response of a request
    pc,
    wpc, wjob,  \* a worker thread and its job
    faults, ageings

jobVars == <<charge, status, settled, attempts>>
cacheVars == <<cache, inflight, replay>>
bankVars == <<debited, transfers>>
workerVars == <<wpc, wjob>>
histVars == <<raised, kept>>
vars == <<req, funds, jobVars, cacheVars, row, bankVars, taken, undone, histVars,
          answer, pc, workerVars, faults, ageings>>

NoRow == [status |-> "none", by |-> NoRequest, stale |-> FALSE]

TypeOK ==
    /\ req \in Mixes
    /\ funds \in 0 .. Funds
    /\ charge \in [Jobs -> {"none", "held", "paid", "refunded"}]
    /\ status \in [Jobs -> {"none", "pending", "running", "complete", "failed"}]
    /\ settled \in [Jobs -> BOOLEAN]
    /\ attempts \in [Jobs -> 0 .. MaxAttempts]
    /\ cache \in Jobs \cup {NoJob}
    /\ inflight \in [Hosts -> BOOLEAN]
    /\ replay \in [Hosts -> Requests \cup {NoRequest}]
    /\ row \in [Scopes -> [status : {"none", "in_progress", "completed"},
                           by : Requests \cup {NoRequest}, stale : BOOLEAN]]
    /\ debited \in [Requests -> 0 .. 1]
    /\ transfers \in 0 .. 1
    /\ taken \in [Requests -> 0 .. BatchSize]
    /\ undone \in [Requests -> 0 .. BatchSize]
    /\ raised \subseteq Jobs
    /\ kept \subseteq Requests
    /\ answer \in [Requests -> {"none", "ok", "cached", "replay", "conflict",
                                "refused", "estimate", "refunded", "error",
                                "lost"}]
    /\ pc \in [Requests -> {"start", "wait", "charge", "create", "run", "settle",
                            "publish", "give_back", "check", "undo", "complete",
                            "transfer", "done"}]
    /\ wpc \in [Workers -> {"idle", "work", "settle", "give_back"}]
    /\ wjob \in [Workers -> Jobs \cup {NoJob}]
    /\ faults \in 0 .. MaxFaults
    /\ ageings \in 0 .. MaxAgeings

Init ==
    /\ req \in Mixes
    /\ funds = Funds
    /\ charge = [j \in Jobs |-> "none"]
    /\ status = [j \in Jobs |-> "none"]
    /\ settled = [j \in Jobs |-> FALSE]
    /\ attempts = [j \in Jobs |-> 0]
    /\ cache = NoJob
    /\ inflight = [h \in Hosts |-> FALSE]
    /\ replay = [h \in Hosts |-> NoRequest]
    /\ row = [s \in Scopes |-> NoRow]
    /\ debited = [r \in Requests |-> 0]
    /\ transfers = 0
    /\ taken = [r \in Requests |-> 0]
    /\ undone = [r \in Requests |-> 0]
    /\ raised = {}
    /\ kept = {}
    /\ answer = [r \in Requests |-> "none"]
    /\ pc = [r \in Requests |-> "start"]
    /\ wpc = [w \in Workers |-> "idle"]
    /\ wjob = [w \in Workers |-> NoJob]
    /\ faults = 0
    /\ ageings = 0

Goto(r, l) == pc' = [pc EXCEPT ![r] = l] /\ UNCHANGED answer

Answer(r, a) ==
    /\ pc' = [pc EXCEPT ![r] = "done"]
    /\ answer' = [answer EXCEPT ![r] = a]

\* The job that the request is working on.
Job(r) == <<r, taken[r]>>

Scope(r) == IF req[r].kind = "batch" THEN "hire_batch" ELSE "wallets.withdraw"

\* Something raises; what it raises in the handler as well is not counted apart.
Exception == faults < MaxFaults /\ faults' = faults + 1

-----------------------------------------------------------------------------
(* Jobs and their charges, as in module Settlement. *)

Finished(j) == status[j] \in {"complete", "failed"}

\* update_job_status changes nothing once completed_at is set.
update_job_status(j, s) ==
    status' = IF Finished(j) THEN status ELSE [status EXCEPT ![j] = s]

\* post_call_payout and post_call_refund do nothing when the other has been.
Distribute(j, to) ==
    /\ charge' = IF charge[j] = "held" THEN [charge EXCEPT ![j] = to] ELSE charge
    /\ funds' = IF charge[j] = "held" /\ to = "refunded" THEN funds + 1 ELSE funds

\* _settle_successful_job and _settle_failed_job look at settled_at and not at
\* the status of the row.
Settle(j, to) ==
    IF settled[j] THEN UNCHANGED <<charge, funds, settled>>
    ELSE Distribute(j, to) /\ settled' = [settled EXCEPT ![j] = TRUE]

-----------------------------------------------------------------------------
(* registry_call, up to the charge. *)

\* The first look: a stored response for the key, a cached result, or the
\* singleflight entry for this input, which the first request creates.
CallLookup(r) ==
    LET h == req[r].host
    IN  /\ pc[r] = "start"
        /\ req[r].kind \in Calls
        /\ CASE replay[h] # NoRequest ->
                  Answer(r, "replay") /\ UNCHANGED inflight
             [] replay[h] = NoRequest /\ cache # NoJob ->
                  Answer(r, "cached") /\ UNCHANGED inflight
             [] OTHER ->
                  /\ Goto(r, IF inflight[h] THEN "wait" ELSE "charge")
                  /\ inflight' = [inflight EXCEPT ![h] = TRUE]
        /\ UNCHANGED <<req, funds, jobVars, cache, replay, row, bankVars, taken,
                       undone, workerVars, faults, histVars, ageings>>

\* Mutant: the follower waits for the event without a ceiling.
CallWait_forever(r) ==
    LET h == req[r].host
    IN  /\ pc[r] = "wait"
        /\ ~inflight[h]
        /\ IF cache # NoJob
           THEN Answer(r, "cached") /\ UNCHANGED inflight
           ELSE Goto(r, "charge") /\ inflight' = [inflight EXCEPT ![h] = TRUE]
        /\ UNCHANGED <<req, funds, jobVars, cache, replay, row, bankVars, taken,
                       undone, workerVars, faults, histVars, ageings>>

\* A follower waits for the leader's event, for a few seconds at most, looks at
\* the cache again and otherwise goes on by itself.
CallWait(r) ==
    LET h == req[r].host
    IN  /\ pc[r] = "wait"
        /\ IF cache # NoJob
           THEN Answer(r, "cached") /\ UNCHANGED inflight
           ELSE Goto(r, "charge") /\ inflight' = [inflight EXCEPT ![h] = TRUE]
        /\ UNCHANGED <<req, funds, jobVars, cache, replay, row, bankVars, taken,
                       undone, workerVars, faults, histVars, ageings>>

\* The entries of the two caches expire.
CacheExpires ==
    /\ \/ /\ cache # NoJob
          /\ cache' = NoJob
          /\ UNCHANGED replay
       \/ \E h \in Hosts :
             /\ replay[h] # NoRequest
             /\ replay' = [replay EXCEPT ![h] = NoRequest]
             /\ UNCHANGED cache
    /\ UNCHANGED <<req, funds, jobVars, inflight, row, bankVars, taken, undone,
                   answer, pc, workerVars, faults, histVars, ageings>>

-----------------------------------------------------------------------------
(* Charge and job row, the same for calls, jobs_create and every job of a   *)
(* batch.                                                                    *)

\* jobs_create has nothing to look up.
CreateStart(r) ==
    /\ pc[r] = "start"
    /\ req[r].kind = "create"
    /\ Goto(r, "charge")
    /\ UNCHANGED <<req, funds, jobVars, cacheVars, row, bankVars, taken, undone,
                   workerVars, faults, histVars, ageings>>

\* Mutant: the wallet is debited without a look at its balance.
ChargeCall_overdraws(r) ==
    /\ pc[r] = "charge"
    /\ funds' = funds - 1
    /\ taken' = [taken EXCEPT ![r] = @ + 1]
    /\ charge' = [charge EXCEPT ![<<r, taken[r] + 1>>] = "held"]
    /\ Goto(r, "create")
    /\ UNCHANGED <<req, status, settled, attempts, cacheVars, row, bankVars, undone,
                   workerVars, faults, histVars, ageings>>

\* _pre_call_charge_or_402.  A batch that is refused here has the charges of its
\* earlier jobs to give back.
ChargeCall(r) ==
    /\ pc[r] = "charge"
    /\ IF funds > 0
       THEN /\ funds' = funds - 1
            /\ taken' = [taken EXCEPT ![r] = @ + 1]
            /\ charge' = [charge EXCEPT ![<<r, taken[r] + 1>>] = "held"]
            /\ Goto(r, "create")
       ELSE /\ IF req[r].kind = "batch" THEN Goto(r, "undo") ELSE Answer(r, "refused")
            /\ UNCHANGED <<funds, charge, taken>>
    /\ UNCHANGED <<req, status, settled, attempts, cacheVars, row, bankVars,
                   undone, workerVars, faults, histVars, ageings>>

\* What follows the job row: the call itself, the answer, or the next job.
AfterCreate(r) ==
    CASE req[r].kind \in Calls -> Goto(r, "run")
      [] req[r].kind = "create" -> Answer(r, "ok")
      [] OTHER -> Goto(r, IF taken[r] = BatchSize THEN "complete" ELSE "charge")

\* The row is inserted as pending, also for a call that runs it at once.
create_job(r) ==
    /\ pc[r] = "create"
    /\ status' = [status EXCEPT ![Job(r)] = "pending"]
    /\ AfterCreate(r)
    /\ UNCHANGED <<req, funds, charge, settled, attempts, cacheVars, row, bankVars,
                   taken, undone, workerVars, faults, histVars, ageings>>

\* pre_call_charge raises.
ChargeRaises(r) ==
    /\ pc[r] = "charge"
    /\ Exception
    /\ IF req[r].kind = "batch" THEN Goto(r, "undo") ELSE Answer(r, "error")
    /\ UNCHANGED <<req, funds, jobVars, cacheVars, row, bankVars, taken, undone,
                   workerVars, histVars, ageings>>

\* The insert fails, or the payload for a remote agent is too large: the charge
\* goes back, unless the refund raises as well.
CreateFails(r) ==
    /\ pc[r] = "create"
    /\ Exception
    /\ \/ /\ req[r].kind = "batch"
          /\ Goto(r, "undo")
          /\ UNCHANGED <<funds, charge>>
       \/ /\ req[r].kind # "batch"
          /\ Answer(r, "refunded")
          /\ Distribute(Job(r), "refunded")
       \/ /\ req[r].kind # "batch"
          /\ Answer(r, "error")
          /\ UNCHANGED <<funds, charge>>
    /\ UNCHANGED <<req, status, settled, attempts, cacheVars, row, bankVars, taken,
                   undone, workerVars, histVars, ageings>>

-----------------------------------------------------------------------------
(* registry_call, from the execution to the answer. *)

\* The agent runs inside the request and answers, or fails, is at capacity or
\* takes too long.
RunCall(r) ==
    /\ pc[r] = "run"
    /\ \/ update_job_status(Job(r), "complete") /\ Goto(r, "settle")
       \/ update_job_status(Job(r), "failed") /\ Goto(r, "give_back")
    /\ UNCHANGED <<req, funds, charge, settled, attempts, cacheVars, row, bankVars,
                   taken, undone, workerVars, faults, histVars, ageings>>

SettleCall(r) ==
    /\ pc[r] = "settle"
    /\ Settle(Job(r), "paid")
    /\ Goto(r, "publish")
    /\ UNCHANGED <<req, status, attempts, cacheVars, row, bankVars, taken, undone,
                   workerVars, faults, histVars, ageings>>

\* Mutant: the answer says refunded before the refund has been made.
GiveBack_promises(r) ==
    /\ pc[r] = "give_back"
    /\ Answer(r, "refunded")
    /\ UNCHANGED <<req, funds, jobVars, cacheVars, row, bankVars, taken, undone,
                   workerVars, faults, histVars, ageings>>

\* _settle_failed_with_metric, then the error that tells the caller of a refund.
\* The singleflight entry stays.
GiveBack(r) ==
    /\ pc[r] = "give_back"
    /\ Settle(Job(r), "refunded")
    /\ Answer(r, "refunded")
    /\ UNCHANGED <<req, status, attempts, cacheVars, row, bankVars, taken, undone,
                   workerVars, faults, histVars, ageings>>

\* _idempotency_store, set_cached and _cache_singleflight_release.
Publish(r) ==
    LET h == req[r].host
    IN  /\ pc[r] = "publish"
        /\ replay' = [replay EXCEPT ![h] = r]
        /\ cache' = Job(r)
        /\ inflight' = [inflight EXCEPT ![h] = FALSE]
        /\ Answer(r, "ok")
        /\ UNCHANGED <<req, funds, jobVars, row, bankVars, taken, undone, workerVars,
                       faults, histVars, ageings>>

\* An exception after the job was inserted.  The handler of built-in agents takes the
\* failure path for a job that is complete, and perhaps settled.  Inside that handler,
\* and behind a remote agent, where also an answer that is not JSON raises, it is a
\* bare 500.
CallRaises(r) ==
    /\ pc[r] \in {"run", "settle", "publish", "give_back"}
    /\ Exception
    /\ IF req[r].kind = "builtin" /\ pc[r] \in {"settle", "publish"}
       THEN Goto(r, "give_back")
       ELSE Answer(r, "error")
    /\ UNCHANGED <<req, funds, jobVars, cacheVars, row, bankVars, taken, undone,
                   workerVars, histVars, ageings>>

-----------------------------------------------------------------------------
(* The rows of idempotency_requests. *)

Own(s, r) == [row EXCEPT ![s] = [status |-> "in_progress", by |-> r, stale |-> FALSE]]

Mismatch(s, r) == req[row[s].by].body # req[r].body

\* core.idempotency.begin, for a batch: a row older than a day is replaced,
\* whatever its status.
begin(r) ==
    LET s == "hire_batch"
        new == row[s].status = "none" \/ row[s].stale
    IN  /\ pc[r] = "start"
        /\ req[r].kind = "batch"
        /\ row' = IF new THEN Own(s, r) ELSE row
        /\ CASE new -> Goto(r, "check")
             [] ~new /\ Mismatch(s, r) -> Answer(r, "conflict")
             [] ~new /\ ~Mismatch(s, r) /\ row[s].status = "completed" ->
                  Answer(r, "replay")
             [] OTHER -> Answer(r, "conflict")
        /\ UNCHANGED <<req, funds, jobVars, cacheVars, bankVars, taken, undone,
                       workerVars, faults, histVars, ageings>>

\* Mutant: a request that is still running is taken for an abandoned one.
idempotency_begin_impatient(r) ==
    LET s == "wallets.withdraw"
        new == row[s].status \in {"none", "in_progress"}
    IN  /\ pc[r] = "start"
        /\ req[r].kind = "withdraw"
        /\ row' = IF new THEN Own(s, r) ELSE row
        /\ IF new THEN Goto(r, "check") ELSE Answer(r, "replay")
        /\ UNCHANGED <<req, funds, jobVars, cacheVars, bankVars, taken, undone,
                       workerVars, faults, histVars, ageings>>

\* _idempotency_begin, for a withdrawal: a row in progress for more than five
\* minutes is replaced.
idempotency_begin(r) ==
    LET s == "wallets.withdraw"
        bad == row[s].status # "none" /\ Mismatch(s, r)
        new == ~bad /\ (row[s].status = "none"
                        \/ (row[s].status = "in_progress" /\ row[s].stale))
    IN  /\ pc[r] = "start"
        /\ req[r].kind = "withdraw"
        /\ row' = IF new THEN Own(s, r) ELSE row
        /\ CASE new -> Goto(r, "check")
             [] ~bad /\ row[s].status = "completed" -> Answer(r, "replay")
             [] OTHER -> Answer(r, "conflict")
        /\ UNCHANGED <<req, funds, jobVars, cacheVars, bankVars, taken, undone,
                       workerVars, faults, histVars, ageings>>

\* complete and _idempotency_complete find the row by its key alone; the second
\* asks that it be in progress.
Completed(s) ==
    IF row[s].status = "in_progress" \/ (s = "hire_batch" /\ row[s].status # "none")
    THEN [row EXCEPT ![s].status = "completed"]
    ELSE row

\* release and _idempotency_abort.
Released(s) ==
    IF row[s].status = "in_progress" THEN [row EXCEPT ![s] = NoRow] ELSE row

\* The request gives its key back.  release swallows an exception, _idempotency_abort
\* passes it on; the row stays in both.
GivesKeyBack(r) ==
    \/ row' = Released(Scope(r)) /\ UNCHANGED <<kept, faults>>
    \/ Exception /\ kept' = kept \cup {r} /\ UNCHANGED row

RowAges(s) ==
    /\ row[s].status # "none"
    /\ ~row[s].stale
    /\ ageings < MaxAgeings
    /\ ageings' = ageings + 1
    /\ row' = [row EXCEPT ![s].stale = TRUE]
    /\ UNCHANGED <<req, funds, jobVars, cacheVars, bankVars, taken, undone, histVars,
                   answer, pc, workerVars, faults>>

-----------------------------------------------------------------------------
(* jobs_batch_create after the claim of the key. *)

\* Validation, budget and balance.  A batch that is refused here, or that only asked
\* for an estimate, leaves its row.
BatchCheck(r) ==
    /\ pc[r] = "check"
    /\ req[r].kind = "batch"
    /\ \/ funds >= BatchSize /\ Goto(r, "charge")
       \/ \E a \in {"refused", "estimate"} : Answer(r, a)
    /\ UNCHANGED <<req, funds, jobVars, cacheVars, row, bankVars, taken, undone,
                   workerVars, faults, histVars, ageings>>

\* The refund loop, one charge at a time.  A refund that raises is logged, and the
\* loop goes on.
BatchUndo(r) ==
    LET j == <<r, undone[r] + 1>>
    IN  /\ pc[r] = "undo"
        /\ undone[r] < taken[r]
        /\ \/ Distribute(j, "refunded") /\ UNCHANGED <<raised, faults>>
           \/ Exception /\ raised' = raised \cup {j} /\ UNCHANGED <<charge, funds>>
        /\ undone' = [undone EXCEPT ![r] = @ + 1]
        /\ UNCHANGED <<req, status, settled, attempts, cacheVars, row, bankVars, taken,
                       kept, answer, pc, workerVars, ageings>>

\* Mutant: the key is kept.
BatchRelease_forgets(r) ==
    /\ pc[r] = "undo"
    /\ undone[r] = taken[r]
    /\ Answer(r, "refunded")
    /\ UNCHANGED <<req, funds, jobVars, cacheVars, row, bankVars, taken, undone,
                   workerVars, faults, histVars, ageings>>

\* The answer says that all charges were refunded, however the loop went.
BatchRelease(r) ==
    /\ pc[r] = "undo"
    /\ undone[r] = taken[r]
    /\ GivesKeyBack(r)
    /\ Answer(r, "refunded")
    /\ UNCHANGED <<req, funds, jobVars, cacheVars, bankVars, taken, undone, raised,
                   workerVars, ageings>>

\* complete and the answer.  When complete raises a batch answers all the same, a
\* withdrawal with an error.
CompleteKey(r) ==
    /\ pc[r] = "complete"
    /\ \/ /\ row' = Completed(Scope(r))
          /\ Answer(r, "ok")
          /\ UNCHANGED <<kept, faults>>
       \/ /\ Exception
          /\ kept' = kept \cup {r}
          /\ Answer(r, IF req[r].kind = "batch" THEN "ok" ELSE "error")
          /\ UNCHANGED row
    /\ UNCHANGED <<req, funds, jobVars, cacheVars, bankVars, taken, undone, raised,
                   workerVars, ageings>>

\* An exception behind the insert of the last job of a batch: in the loop it is
\* handled like any other, behind the loop there is no handler.
BatchRaises(r) ==
    /\ pc[r] = "complete"
    /\ req[r].kind = "batch"
    /\ Exception
    /\ Goto(r, "undo") \/ Answer(r, "error")
    /\ UNCHANGED <<req, funds, jobVars, cacheVars, row, bankVars, taken, undone,
                   workerVars, histVars, ageings>>

-----------------------------------------------------------------------------
(* withdraw after the claim of the key. *)

\* payments.charge, or an error that gives the key back.
WithdrawDebit(r) ==
    /\ pc[r] = "check"
    /\ req[r].kind = "withdraw"
    /\ \/ /\ funds > 0
          /\ funds' = funds - 1
          /\ debited' = [debited EXCEPT ![r] = 1]
          /\ Goto(r, "transfer")
          /\ UNCHANGED <<row, kept, faults>>
       \/ /\ GivesKeyBack(r)
          /\ Answer(r, "refused")
          /\ UNCHANGED <<funds, debited>>
    /\ UNCHANGED <<req, jobVars, cacheVars, transfers, taken, undone, raised,
                   workerVars, ageings>>

\* Stripe makes one transfer for the key, however often it is asked.
WithdrawTransfer(r) ==
    /\ pc[r] = "transfer"
    /\ transfers' = 1
    /\ Goto(r, "complete")
    /\ UNCHANGED <<req, funds, jobVars, cacheVars, row, debited, taken, undone,
                   workerVars, faults, histVars, ageings>>

\* Stripe refuses, or makes the transfer and its answer is lost: the amount is
\* deposited again, and the key given back.
TransferFails(r) ==
    /\ pc[r] = "transfer"
    /\ transfers' \in {transfers, 1}
    /\ funds' = funds + 1
    /\ debited' = [debited EXCEPT ![r] = 0]
    /\ GivesKeyBack(r)
    /\ Answer(r, "error")
    /\ UNCHANGED <<req, jobVars, cacheVars, taken, undone, raised, workerVars, ageings>>

\* The deposit raises as well, which is logged.
DepositFails(r) ==
    /\ pc[r] = "transfer"
    /\ transfers' \in {transfers, 1}
    /\ Exception
    /\ row' = Released("wallets.withdraw")
    /\ Answer(r, "error")
    /\ UNCHANGED <<req, funds, jobVars, cacheVars, debited, taken, undone, workerVars,
                   histVars, ageings>>

\* An exception behind the transfer (it has no id, or cannot be recorded): the key
\* is given back, the amount is not.
WithdrawRaises(r) ==
    /\ pc[r] = "complete"
    /\ req[r].kind = "withdraw"
    /\ Exception
    /\ row' = Released("wallets.withdraw")
    /\ Answer(r, "error")
    /\ UNCHANGED <<req, funds, jobVars, cacheVars, bankVars, taken, undone, workerVars,
                   histVars, ageings>>

-----------------------------------------------------------------------------
(* The worker pool. *)

\* A call has one attempt.
Limit(j) == IF req[j[1]].kind \in Calls THEN 1 ELSE req[j[1]].max_attempts

\* _process_pending_builtin_jobs and claim_job: any pending job, also one whose
\* request is about to run it.
WorkerClaim(w, j) ==
    /\ wpc[w] = "idle"
    /\ status[j] = "pending"
    /\ attempts[j] < Limit(j)
    /\ status' = [status EXCEPT ![j] = "running"]
    /\ attempts' = [attempts EXCEPT ![j] = @ + 1]
    /\ wpc' = [wpc EXCEPT ![w] = "work"]
    /\ wjob' = [wjob EXCEPT ![w] = j]
    /\ UNCHANGED <<req, funds, charge, settled, cacheVars, row, bankVars, taken,
                   undone, answer, pc, faults, histVars, ageings>>

WorkerGoto(w, l) ==
    /\ wpc' = [wpc EXCEPT ![w] = l]
    /\ wjob' = IF l = "idle" THEN [wjob EXCEPT ![w] = NoJob] ELSE wjob

\* Mutant: a transient error drops the job instead of putting it back.
WorkerRuns_drops(w) ==
    LET j == wjob[w]
    IN  /\ wpc[w] = "work"
        /\ \/ update_job_status(j, "complete") /\ WorkerGoto(w, "settle")
           \/ update_job_status(j, "failed") /\ WorkerGoto(w, "idle")
        /\ UNCHANGED <<req, funds, charge, settled, attempts, cacheVars, row,
                       bankVars, taken, undone, answer, pc, faults, histVars, ageings>>

\* The agent answers, fails for good, or fails in passing: schedule_job_retry
\* puts an unfinished job back into the queue while attempts remain.
WorkerRuns(w) ==
    LET j == wjob[w]
    IN  /\ wpc[w] = "work"
        /\ \/ update_job_status(j, "complete") /\ WorkerGoto(w, "settle")
           \/ update_job_status(j, "failed") /\ WorkerGoto(w, "give_back")
           \/ /\ ~Finished(j)
              /\ attempts[j] < Limit(j)
              /\ status' = [status EXCEPT ![j] = "pending"]
              /\ WorkerGoto(w, "idle")
        /\ UNCHANGED <<req, funds, charge, settled, attempts, cacheVars, row,
                       bankVars, taken, undone, answer, pc, faults, histVars, ageings>>

WorkerSettles(w) ==
    /\ wpc[w] \in {"settle", "give_back"}
    /\ Settle(wjob[w], IF wpc[w] = "settle" THEN "paid" ELSE "refunded")
    /\ WorkerGoto(w, "idle")
    /\ UNCHANGED <<req, status, attempts, cacheVars, row, bankVars, taken, undone,
                   answer, pc, faults, histVars, ageings>>

-----------------------------------------------------------------------------
\* The server process dies under a request: its rows stay, what its process
\* remembered is gone.
Crash(r) ==
    LET h == req[r].host
    IN  /\ pc[r] \notin {"start", "done"}
        /\ \A q \in Requests : req[q].host = h /\ q # r => pc[q] \in {"start", "done"}
        /\ Exception
        /\ Answer(r, "lost")
        /\ inflight' = [inflight EXCEPT ![h] = FALSE]
        /\ replay' = [replay EXCEPT ![h] = NoRequest]
        /\ UNCHANGED <<req, funds, jobVars, cache, row, bankVars, taken, undone,
                       workerVars, histVars, ageings>>

Step(r) ==
    \/ CallLookup(r)
    \/ CallWait(r)
    \/ CreateStart(r)
    \/ ChargeCall(r)
    \/ create_job(r)
    \/ ChargeRaises(r)
    \/ CreateFails(r)
    \/ RunCall(r)
    \/ SettleCall(r)
    \/ GiveBack(r)
    \/ Publish(r)
    \/ CallRaises(r)
    \/ begin(r)
    \/ idempotency_begin(r)
    \/ BatchCheck(r)
    \/ BatchUndo(r)
    \/ BatchRelease(r)
    \/ CompleteKey(r)
    \/ BatchRaises(r)
    \/ WithdrawDebit(r)
    \/ WithdrawTransfer(r)
    \/ TransferFails(r)
    \/ DepositFails(r)
    \/ WithdrawRaises(r)

Work(w) == (\E j \in Jobs : WorkerClaim(w, j)) \/ WorkerRuns(w) \/ WorkerSettles(w)

Next ==
    \/ \E r \in Requests : Step(r) \/ Crash(r)
    \/ \E w \in Workers : Work(w)
    \/ \E s \in Scopes : RowAges(s)
    \/ CacheExpires

Spec == Init /\ [][Next]_vars

\* A request that was received goes on, and the worker pool keeps draining.
LiveSpec ==
    /\ Spec
    /\ \A r \in Requests : WF_vars(Step(r))
    /\ \A w \in Workers : WF_vars(Work(w))

-----------------------------------------------------------------------------
(* Properties. *)

\* A request that answers that its charges were refunded keeps none of them, but those
\* whose refund raised in the loop of a batch.  What else is not refunded then was
\* earned by a worker that had the job as well, or was settled by the call to a
\* built-in agent before it met an exception.
RefundedKeepsNothing ==
    \A r \in Requests :
        answer[r] = "refunded" =>
            \A i \in 1 .. taken[r] :
                LET j == <<r, i>>
                IN  \/ charge[j] = "refunded"
                    \/ j \in raised
                    \/ /\ charge[j] = "paid"
                       /\ attempts[j] > 0 \/ (req[r].kind = "builtin" /\ faults > 0)

\* As long as no row outlives its TTL, a key spends once: of two batches with it
\* only one keeps charges, another may follow when the first has answered that it
\* gave everything back, and of two withdrawals only one has taken the amount from
\* the wallet, but for one that failed and answered an error.
KeySpendsOnce ==
    LET Spends(r) ==
            \/ req[r].kind = "batch" /\ taken[r] > 0 /\ answer[r] # "refunded"
            \/ req[r].kind = "withdraw" /\ debited[r] > 0 /\ answer[r] # "error"
    IN  ageings = 0 =>
            \A q, r \in Requests :
                Spends(q) /\ Spends(r) /\ req[q].kind = req[r].kind => q = r

\* A key stays in progress behind a finished request only when the request died,
\* could not write to the row, met an exception behind the last job of its batch, or
\* was refused or answered with an estimate before it took any money.
KeyGivenBack ==
    \A s \in Scopes :
        LET r == row[s].by
        IN  row[s].status = "in_progress" /\ ~row[s].stale /\ pc[r] = "done" =>
                \/ answer[r] = "lost"
                \/ r \in kept
                \/ answer[r] = "error" /\ req[r].kind = "batch"
                \/ /\ answer[r] \in {"refused", "estimate"}
                   /\ taken[r] = 0 /\ debited[r] = 0

\* Every request is answered: a follower of a call that failed, and left its
\* singleflight entry behind, does not wait for ever.
EveryRequestAnswered == \A r \in Requests : <>(pc[r] = "done")

\* A request that ended before it could take care of its charges.
Abandons(r) == answer[r] \in {"lost", "error"}

\* Every charge is paid out or refunded in the end, but the one without a job that
\* was left behind by an exception or crash, or by a refund of a batch that raised,
\* and that of a call whose process died or answered with a bare error.
EveryChargeEnds ==
    \A j \in Jobs :
        LET r == j[1]
        IN  (charge[j] = "held") ~>
                \/ charge[j] # "held"
                \/ status[j] = "none" /\ (Abandons(r) \/ j \in raised)
                \/ req[r].kind \in Calls /\ Abandons(r)
=============================================================================
