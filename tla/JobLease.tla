------------------------------ MODULE JobLease ------------------------------
(***************************************************************************)
(* Claims, leases and retries of one job, with the clock made explicit: who*)
(* may work on the job, until when, and whose report counts.  The money is *)
(* in module Settlement; here a finished job simply stays finished.        *)
(*                                                                         *)
(* A worker is a process that holds the API key of an owner; the claim is  *)
(* kept per owner, the claim token per attempt.  claim_job mints a token   *)
(* and counts an attempt together, so the n-th token is written n.  Every  *)
(* operation of core/jobs/leases.py is one BEGIN IMMEDIATE transaction;    *)
(* what a request read before its transaction matters only for the reports *)
(* (jobs_complete, jobs_fail) and for the passes of the sweeper, which are *)
(* two steps each.                                                         *)
(***************************************************************************)
EXTENDS Integers, FiniteSets

CONSTANTS
    Workers,        \* worker processes
    Owners,         \* owner ids of the API keys
    NoOwner,        \* claim_owner_id IS NULL
    OwnerOf,        \* the owner whose key a worker uses
    LeaseChoices,   \* lease_seconds a worker may ask for
    DefaultLease,   \* DEFAULT_LEASE_SECONDS: messages, and the grace window
    RetryDelay,     \* retry_delay_seconds
    ClaimDeadline,  \* jobs.claim_deadline_at
    SLA,            \* sla_seconds
    MaxAttempts,    \* jobs.max_attempts
    MaxNow,         \* bound on the clock
    MaxLease        \* bound on lease_expires_at, which messages push forward

ASSUME LeaseAssumption ==
    /\ NoOwner \notin Owners
    /\ OwnerOf \in [Workers -> Owners]
    /\ LeaseChoices \subseteq Nat \ {0}
    /\ DefaultLease \in Nat \ {0}
    /\ RetryDelay \in Nat
    /\ ClaimDeadline \in Nat
    /\ SLA \in Nat
    /\ MaxAttempts \in Nat \ {0}
    /\ MaxNow \in Nat
    /\ MaxLease \in Nat

NoToken == 0

Never == -1     \* a NULL timestamp

NoReport == [token |-> NoToken, attempts |-> 0]

VARIABLES
    now,
    status, completed,
    owner,      \* claim_owner_id
    token,      \* claim_token
    leaseAt,    \* lease_expires_at
    retryAt,    \* next_retry_at
    attempts,   \* attempt_count
    timedOut,   \* timeout_count > 0
    log,        \* claim events: the latest lease_expires_at logged per token
    minter,     \* claim events: the owner of each token
    known,      \* the claim token a worker process was given last
    report,     \* the report of a worker that has passed its checks: the token
                \* it presented and attempt_count at that moment
    pass        \* the sweeper pass that has listed the job

claimVars == <<owner, token, leaseAt>>
eventVars == <<log, minter>>
vars == <<now, status, completed, claimVars, retryAt, attempts, timedOut,
          eventVars, known, report, pass>>

Active == {"running", "awaiting_clarification"}
Tokens == 1 .. MaxAttempts
Passes == {"lease", "clarify_fail", "clarify_proceed", "sla", "deadline",
           "retry"}

TypeOK ==
    /\ now \in 0 .. MaxNow
    /\ status \in Active \cup {"pending", "complete", "failed", "cancelled"}
    /\ completed \in BOOLEAN
    /\ owner \in Owners \cup {NoOwner}
    /\ token \in Tokens \cup {NoToken}
    /\ leaseAt \in Int
    /\ retryAt \in Int
    /\ attempts \in 0 .. MaxAttempts
    /\ timedOut \in BOOLEAN
    /\ log \in [Tokens -> Int]
    /\ minter \in [Tokens -> Owners \cup {NoOwner}]
    /\ known \in [Workers -> Tokens \cup {NoToken}]
    /\ report \in [Workers -> [token : Tokens \cup {NoToken},
                               attempts : 0 .. MaxAttempts]]
    /\ pass \in Passes \cup {"none"}

Init ==
    /\ now = 0
    /\ status = "pending"
    /\ completed = FALSE
    /\ owner = NoOwner
    /\ token = NoToken
    /\ leaseAt = Never
    /\ retryAt = Never
    /\ attempts = 0
    /\ timedOut = FALSE
    /\ log = [t \in Tokens |-> Never]
    /\ minter = [t \in Tokens |-> NoOwner]
    /\ known = [w \in Workers |-> NoToken]
    /\ report = [w \in Workers |-> NoReport]
    /\ pass = "none"

-----------------------------------------------------------------------------
(* The lease of the row. *)

Later(a, b) == IF a > b THEN a ELSE b

lease_is_active == owner # NoOwner /\ leaseAt > now

lease_is_expired == owner # NoOwner /\ leaseAt <= now

DropClaim ==
    /\ owner' = NoOwner
    /\ token' = NoToken
    /\ leaseAt' = Never

\* A claim event is logged with the lease the row now has.
LogLease(t, o) ==
    /\ log' = [log EXCEPT ![t] = Later(@, leaseAt')]
    /\ minter' = [minter EXCEPT ![t] = o]

-----------------------------------------------------------------------------
(* Workers. *)

OwnLease(w) == lease_is_active /\ owner = OwnerOf[w]

\* Mutant: the attempt limit is not checked.
claim_allowed_unlimited(w) ==
    /\ status \in Active \cup {"pending"}
    /\ ~completed
    /\ status = "pending" => retryAt <= now
    /\ lease_is_active => OwnLease(w)

\* The early returns of claim_job.
claim_allowed(w) ==
    /\ status \in Active \cup {"pending"}
    /\ ~completed
    /\ status = "pending" => retryAt <= now
    /\ lease_is_active => OwnLease(w)
    /\ OwnLease(w) \/ attempts < MaxAttempts

\* An owner that claims again under its own live lease gets the same token, at
\* no attempt; the lease is replaced, even by a shorter one.
claim_job(w, lease) ==
    LET t == IF OwnLease(w) THEN token ELSE attempts + 1
    IN  /\ claim_allowed(w)
        /\ status' = IF status = "pending" THEN "running" ELSE status
        /\ owner' = OwnerOf[w]
        /\ token' = t
        /\ leaseAt' = now + lease
        /\ retryAt' = Never
        /\ attempts' = IF OwnLease(w) THEN attempts ELSE attempts + 1
        /\ LogLease(t, OwnerOf[w])
        /\ known' = [known EXCEPT ![w] = t]
        /\ UNCHANGED <<now, completed, timedOut, report, pass>>

\* The worker presents the token it was given last.
HoldsClaim(w) == owner = OwnerOf[w] /\ token # NoToken /\ known[w] = token

\* A heartbeat never shortens the lease, and does nothing once it ran out.
heartbeat_job_lease(w, lease) ==
    /\ status \in Active
    /\ HoldsClaim(w)
    /\ lease_is_active
    /\ leaseAt' = Later(leaseAt, now + lease)
    /\ LogLease(token, owner)
    /\ UNCHANGED <<now, status, completed, owner, token, retryAt, attempts,
                   timedOut, known, report, pass>>

\* Reached by jobs_release only after the touchpoint timeout below, that is
\* with a live lease.
release_job_claim(w) ==
    /\ HoldsClaim(w)
    /\ ~(status \in Active /\ lease_is_expired)
    /\ status' = "pending"
    /\ DropClaim
    /\ UNCHANGED <<now, completed, retryAt, attempts, timedOut, eventVars, known,
                   report, pass>>

\* Back to the queue while attempts remain, else failed for good.
GiveUp(delay) ==
    /\ DropClaim
    /\ IF attempts < MaxAttempts
       THEN status' = "pending" /\ completed' = FALSE /\ retryAt' = now + delay
       ELSE status' = "failed" /\ completed' = TRUE /\ retryAt' = Never
    /\ UNCHANGED <<now, attempts, eventVars, known, report>>

\* jobs_retry has no touchpoint timeout: a stale lease will do.
schedule_job_retry(w) ==
    /\ ~completed
    /\ HoldsClaim(w)
    /\ GiveUp(RetryDelay)
    /\ UNCHANGED <<timedOut, pass>>

\* jobs_retry with the master key or an agent's key skips _assert_worker_claim
\* and names the present claimant as the owner: any claimed job goes back.
jobs_retry_unclaimed ==
    /\ ~completed
    /\ owner # NoOwner
    /\ GiveUp(RetryDelay)
    /\ UNCHANGED <<timedOut, pass>>

\* Mutant: the row is not looked at again.
mark_job_timeout_blind ==
    /\ GiveUp(RetryDelay)
    /\ timedOut' = TRUE

\* mark_job_timeout rereads the row inside its transaction.
mark_job_timeout ==
    IF status \in Active /\ lease_is_expired
    THEN GiveUp(RetryDelay) /\ timedOut' = TRUE
    ELSE UNCHANGED <<now, status, completed, claimVars, retryAt, attempts,
                     timedOut, eventVars, known, report>>

\* _timeout_stale_lease_at_touchpoint: a heartbeat, a release or a report that
\* meets a stale lease times the job out instead, and is answered 410.
TimeoutAtTouchpoint ==
    /\ status \in Active /\ lease_is_expired
    /\ mark_job_timeout
    /\ UNCHANGED pass

\* A message of either party: it adds a lease term to the lease of a claimed
\* job (or to now, when the lease has run out already), and the clarification
\* messages set the status of an unfinished job, claimed or not.
add_message(target) ==
    /\ status' = IF target # "none" /\ ~completed THEN target ELSE status
    /\ IF owner = NoOwner
       THEN UNCHANGED <<leaseAt, eventVars>>
       ELSE /\ leaseAt' = Later(leaseAt, now) + DefaultLease
            /\ LogLease(token, owner)
    /\ leaseAt' <= MaxLease
    /\ UNCHANGED <<now, completed, owner, token, retryAt, attempts, timedOut,
                   known, report, pass>>

-----------------------------------------------------------------------------
(* Reports: jobs_complete and jobs_fail check the claim on the row they read *)
(* first, run the quality gate, and write the row in a later transaction.   *)

claim_token_was_recently_active(w) ==
    /\ known[w] # NoToken
    /\ minter[known[w]] = OwnerOf[w]
    /\ log[known[w]] >= now - DefaultLease

\* Mutant: whether the job has a new worker is not looked at.
LateWorkerGrace_busy == timedOut

LateWorkerGrace ==
    /\ owner = NoOwner
    /\ status \in {"pending", "failed"}
    /\ timedOut
    /\ attempts < MaxAttempts

\* _assert_settlement_claim_or_grace, after the touchpoint timeout.
ReportRead(w) ==
    /\ report[w] = NoReport
    /\ ~(status \in Active /\ lease_is_expired)
    /\ \/ HoldsClaim(w)
       \/ LateWorkerGrace /\ claim_token_was_recently_active(w)
    /\ report' = [report EXCEPT ![w] = [token |-> known[w], attempts |-> attempts]]
    /\ UNCHANGED <<now, status, completed, claimVars, retryAt, attempts,
                   timedOut, eventVars, known, pass>>

\* update_job_status(..., completed=True): only completed_at is looked at.
update_job_status(s) ==
    IF completed
    THEN UNCHANGED <<status, completed, claimVars, retryAt>>
    ELSE /\ status' = s
         /\ completed' = TRUE
         /\ retryAt' = Never
         /\ DropClaim

ReportUpdate(w) ==
    /\ report[w] # NoReport
    /\ \E s \in {"complete", "failed"} : update_job_status(s)
    /\ report' = [report EXCEPT ![w] = NoReport]
    /\ UNCHANGED <<now, attempts, timedOut, eventVars, known, pass>>

\* The schema check or the request fails before anything is written.
ReportDropped(w) ==
    /\ report[w] # NoReport
    /\ report' = [report EXCEPT ![w] = NoReport]
    /\ UNCHANGED <<now, status, completed, claimVars, retryAt, attempts,
                   timedOut, eventVars, known, pass>>

\* Those who need no claim: jobs_complete and jobs_fail with the master key
\* (_assert_settlement_claim_or_grace only audits it), and jobs_cancel.
EndedWithoutClaim ==
    /\ \E s \in {"complete", "failed", "cancelled"} : update_job_status(s)
    /\ UNCHANGED <<now, attempts, timedOut, eventVars, known, report, pass>>

-----------------------------------------------------------------------------
(* The sweeper: each pass lists the jobs that are due, then acts on them. *)

\* Mutant: the SLA query forgets the jobs that await clarification.
Due_sla_running_only(k) ==
    CASE k = "lease" -> status \in Active /\ ~completed /\ lease_is_expired
      [] k \in {"clarify_fail", "clarify_proceed"} ->
             status = "awaiting_clarification" /\ ~completed
      [] k = "sla" ->
             status = "running" /\ ~completed /\ owner # NoOwner /\ SLA <= now
      [] k = "deadline" -> status = "pending" /\ ClaimDeadline < now
      [] k = "retry" ->
             status = "pending" /\ ~completed /\ retryAt # Never /\ retryAt <= now

\* The queries of the passes.  The clarification deadline is set per job and
\* may have passed at any time, or never pass.
Due(k) ==
    CASE k = "lease" -> status \in Active /\ ~completed /\ lease_is_expired
      [] k \in {"clarify_fail", "clarify_proceed"} ->
             status = "awaiting_clarification" /\ ~completed
      [] k = "sla" ->
             status \in Active /\ ~completed /\ owner # NoOwner /\ SLA <= now
      [] k = "deadline" -> status = "pending" /\ ClaimDeadline < now
      [] k = "retry" ->
             status = "pending" /\ ~completed /\ retryAt # Never /\ retryAt <= now

SweepList(k) ==
    /\ pass = "none"
    /\ Due(k)
    /\ pass' = k
    /\ UNCHANGED <<now, status, completed, claimVars, retryAt, attempts,
                   timedOut, eventVars, known, report>>

SweepTimeout ==
    /\ pass = "lease"
    /\ mark_job_timeout
    /\ pass' = "none"

\* update_job_status(..., "running", completed=False) has no condition.
SweepProceed ==
    /\ pass = "clarify_proceed"
    /\ status' = "running"
    /\ retryAt' = Never
    /\ pass' = "none"
    /\ UNCHANGED <<now, completed, claimVars, attempts, timedOut, eventVars,
                   known, report>>

SweepFail ==
    /\ pass \in {"clarify_fail", "sla", "deadline"}
    /\ update_job_status("failed")
    /\ pass' = "none"
    /\ UNCHANGED <<now, attempts, timedOut, eventVars, known, report>>

\* mark_retry_ready repeats the condition of the query in its UPDATE.
mark_retry_ready ==
    /\ pass = "retry"
    /\ IF status = "pending" /\ retryAt # Never /\ retryAt <= now
       THEN retryAt' = Never /\ DropClaim
       ELSE UNCHANGED <<retryAt, claimVars>>
    /\ pass' = "none"
    /\ UNCHANGED <<now, status, completed, attempts, timedOut, eventVars, known,
                   report>>

SweepAct ==
    \/ SweepTimeout
    \/ SweepProceed
    \/ SweepFail
    \/ mark_retry_ready

Tick ==
    /\ now < MaxNow
    /\ now' = now + 1
    /\ UNCHANGED <<status, completed, claimVars, retryAt, attempts, timedOut,
                   eventVars, known, report, pass>>

WorkerStep(w) ==
    \/ \E lease \in LeaseChoices : claim_job(w, lease)
    \/ \E lease \in LeaseChoices : heartbeat_job_lease(w, lease)
    \/ release_job_claim(w)
    \/ schedule_job_retry(w)
    \/ ReportRead(w)
    \/ ReportUpdate(w)
    \/ ReportDropped(w)

Next ==
    \/ \E w \in Workers : WorkerStep(w)
    \/ TimeoutAtTouchpoint
    \/ jobs_retry_unclaimed
    \/ EndedWithoutClaim
    \/ \E t \in {"none", "running", "awaiting_clarification"} : add_message(t)
    \/ \E k \in Passes : SweepList(k)
    \/ SweepAct
    \/ Tick

Spec == Init /\ [][Next]_vars

\* Time passes, and the sweeper loop runs all its passes again and again.  The
\* workers and the caller may do nothing at all.
Fairness ==
    /\ WF_vars(Tick)
    /\ WF_vars(SweepAct)
    /\ \A k \in {"lease", "sla", "deadline", "retry"} : SF_vars(SweepList(k))

LiveSpec == Spec /\ Fairness

-----------------------------------------------------------------------------
(* Properties. *)

\* A live lease is never taken from its holder while the job goes on: only the
\* worker with the token gives it back, or a key of the platform or the agent by
\* jobs_retry.  The sweeper lists expired leases in one step and acts in another,
\* and a heartbeat, a message or a new claim may come in between.
LiveLeaseRespected ==
    [][lease_is_active /\ token' # token /\ ~completed'
         => \/ \E w \in Workers :
                  HoldsClaim(w) /\ (release_job_claim(w) \/ schedule_job_retry(w))
            \/ jobs_retry_unclaimed]_vars

\* The claim events know at least the lease the row has, so that the grace of
\* a late worker is counted from the end of its lease and not from before.
LeaseIsLogged == owner # NoOwner => log[token] >= leaseAt /\ minter[token] = owner

\* Between the claim check of a report and its write lies the quality gate, of
\* seconds.  A job that by then is another worker's has begun a new attempt since
\* the check: a report is never let in against a claim that stands, not even by
\* the grace for late workers, and attempt_count tells whether it is stale.
ReportUncontested ==
    \A w \in Workers :
       report[w] # NoReport /\ owner # NoOwner /\ token # report[w].token
          => attempts > report[w].attempts

\* Running without a claim: a clarification message reached an unclaimed job.
\* No sweeper pass looks at such a job.
Orphaned == status \in Active /\ owner = NoOwner

\* Every job comes to an end, whatever its workers do or fail to do, unless it
\* is orphaned.
EveryJobEnds == <>(completed \/ Orphaned)

=============================================================================
