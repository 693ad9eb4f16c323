---------------------------- MODULE JobLeaseProofs ----------------------------
(* Safety of JobLease for every number of workers and owners, every length of*)
(* lease, delay and deadline, and every number of attempts.                  *)
EXTENDS JobLease, TLAPS

\* A claim has a token, that of the last attempt, and only a job in progress is
\* claimed.
ClaimShape ==
    /\ owner # NoOwner => token # NoToken /\ token = attempts
    /\ owner # NoOwner => status \in Active

\* No report has seen an attempt that is still to come.
ReportShape == \A w \in Workers : report[w].attempts <= attempts

IInv == TypeOK /\ ClaimShape /\ LeaseIsLogged /\ ReportShape /\ ReportUncontested

-----------------------------------------------------------------------------
(* The pieces that the actions are made of. *)

LEMMA LaterFacts ==
    ASSUME NEW a \in Int, NEW b \in Int
    PROVE  Later(a, b) \in Int /\ Later(a, b) >= a /\ Later(a, b) >= b
  BY DEF Later

\* A claim event leaves the log knowing the lease.
LEMMA LogFacts ==
    ASSUME TypeOK, NEW t \in Tokens, NEW o \in Owners \cup {NoOwner},
           leaseAt' \in Int, LogLease(t, o)
    PROVE  /\ log' \in [Tokens -> Int]
           /\ minter' \in [Tokens -> Owners \cup {NoOwner}]
           /\ log'[t] >= leaseAt' /\ minter'[t] = o
  <1>1. log[t] \in Int
    BY DEF TypeOK
  <1> QED
    BY <1>1, LaterFacts DEF LogLease, TypeOK

\* Steps that drop the claim or leave it alone keep the claim's invariants.
LEMMA DropOrKeep ==
    ASSUME ClaimShape, LeaseIsLogged, UNCHANGED eventVars, UNCHANGED attempts,
           DropClaim \/ (UNCHANGED claimVars /\ (status \in Active => status' \in Active))
    PROVE  ClaimShape' /\ LeaseIsLogged'
  BY DEF ClaimShape, LeaseIsLogged, DropClaim, claimVars, eventVars

\* So do steps that moreover leave the reports alone, or withdraw one.
LEMMA ReportsKeep ==
    ASSUME TypeOK, ReportShape, ReportUncontested, UNCHANGED attempts,
           \A w \in Workers : report'[w] \in {report[w], NoReport},
           DropClaim \/ UNCHANGED <<owner, token>>
    PROVE  ReportShape' /\ ReportUncontested'
  BY DEF TypeOK, ReportShape, ReportUncontested, DropClaim, NoReport

LEMMA DropType ==
    ASSUME TypeOK, DropClaim
    PROVE  owner' \in Owners \cup {NoOwner} /\ token' \in Tokens \cup {NoToken}
           /\ leaseAt' \in Int
  BY DEF TypeOK, DropClaim, NoToken, Never

LEMMA GiveUpKeeps ==
    ASSUME IInv, GiveUp(RetryDelay), timedOut' \in BOOLEAN,
           pass' \in Passes \cup {"none"}
    PROVE  IInv'
  <1>1. ClaimShape' /\ LeaseIsLogged'
    BY DropOrKeep DEF IInv, GiveUp
  <1>2. retryAt' \in Int
    BY LeaseAssumption DEF IInv, TypeOK, GiveUp, Never
  <1>3. status' \in Active \cup {"pending", "complete", "failed", "cancelled"}
    BY DEF GiveUp
  <1>4. completed' \in BOOLEAN
    BY DEF GiveUp
  <1>5. owner' \in Owners \cup {NoOwner} /\ token' \in Tokens \cup {NoToken}
        /\ leaseAt' \in Int
    BY DropType DEF IInv, GiveUp
  <1>6. UNCHANGED <<now, attempts, log, minter, known, report>>
    BY DEF GiveUp, eventVars
  <1>7. ReportShape' /\ ReportUncontested'
    BY <1>6, ReportsKeep DEF IInv, GiveUp
  <1> QED
    BY <1>1, <1>2, <1>3, <1>4, <1>5, <1>6, <1>7 DEF IInv, TypeOK

LEMMA UpdateKeeps ==
    ASSUME IInv, NEW s \in {"complete", "failed", "cancelled"}, update_job_status(s),
           \/ UNCHANGED report
           \/ \E w \in Workers : report' = [report EXCEPT ![w] = NoReport],
           pass' \in Passes \cup {"none"},
           UNCHANGED <<now, attempts, timedOut, eventVars, known>>
    PROVE  IInv'
  <1>0. /\ report' \in [Workers -> [token : Tokens \cup {NoToken},
                                    attempts : 0 .. MaxAttempts]]
        /\ \A w \in Workers : report'[w] \in {report[w], NoReport}
    <2>1. NoReport \in [token : Tokens \cup {NoToken}, attempts : 0 .. MaxAttempts]
      BY LeaseAssumption DEF NoReport
    <2> QED
      BY <2>1 DEF IInv, TypeOK
  <1>3. ReportShape' /\ ReportUncontested'
    BY <1>0, ReportsKeep DEF IInv, update_job_status, claimVars
  <1>1. CASE completed
    BY <1>0, <1>1, <1>3 DEF update_job_status, IInv, TypeOK, ClaimShape,
                            LeaseIsLogged, claimVars, eventVars
  <1>2. CASE ~completed
    <2>1. ClaimShape' /\ LeaseIsLogged'
      BY <1>2, DropOrKeep DEF IInv, update_job_status
    <2>2. retryAt' \in Int
      BY <1>2 DEF update_job_status, Never
    <2>3. owner' \in Owners \cup {NoOwner} /\ token' \in Tokens \cup {NoToken}
          /\ leaseAt' \in Int
      BY <1>2, DropType DEF IInv, update_job_status
    <2>4. status' \in Active \cup {"pending", "complete", "failed", "cancelled"}
          /\ completed' \in BOOLEAN
      BY <1>2 DEF update_job_status
    <2> QED
      BY <1>0, <1>3, <2>1, <2>2, <2>3, <2>4 DEF IInv, TypeOK, eventVars
  <1> QED
    BY <1>1, <1>2

-----------------------------------------------------------------------------
(* The actions. *)

LEMMA ClaimKeeps ==
    ASSUME IInv, NEW w \in Workers, NEW lease \in LeaseChoices,
           claim_job(w, lease)
    PROVE  IInv'
  <1> DEFINE t == IF OwnLease(w) THEN token ELSE attempts + 1
  <1>1. t \in Tokens
    BY LeaseAssumption
       DEF claim_job, claim_allowed, OwnLease, lease_is_active, IInv, TypeOK,
           ClaimShape, Tokens, NoToken
  <1>2. OwnerOf[w] \in Owners /\ lease \in Nat
    BY LeaseAssumption
  <1>3. leaseAt' \in Int /\ owner' = OwnerOf[w] /\ token' = t
    BY <1>2 DEF claim_job, IInv, TypeOK
  <1>4. LogLease(t, OwnerOf[w])
    BY DEF claim_job
  <1>5. /\ log' \in [Tokens -> Int]
        /\ minter' \in [Tokens -> Owners \cup {NoOwner}]
        /\ log'[t] >= leaseAt' /\ minter'[t] = OwnerOf[w]
    BY <1>1, <1>2, <1>3, <1>4, LogFacts DEF IInv
  <1>6. status' \in Active
    BY DEF claim_job, claim_allowed, Active
  <1>7. attempts' \in 0 .. MaxAttempts
    BY LeaseAssumption DEF claim_job, claim_allowed, IInv, TypeOK
  <1>8. known' \in [Workers -> Tokens \cup {NoToken}]
    BY <1>1 DEF claim_job, IInv, TypeOK
  <1>9. retryAt' \in Int
    BY DEF claim_job, Never
  <1>10. UNCHANGED <<now, completed, timedOut, report, pass>>
    BY DEF claim_job
  <1>11. t # NoToken
    BY <1>1 DEF Tokens, NoToken
  <1>13. t = attempts' /\ (attempts' = attempts => owner # NoOwner /\ t = token)
    BY LeaseAssumption
       DEF claim_job, OwnLease, lease_is_active, IInv, TypeOK, ClaimShape
  <1>14. attempts <= attempts' /\ attempts \in Nat /\ attempts' \in Nat
    BY LeaseAssumption DEF claim_job, claim_allowed, IInv, TypeOK
  <1> HIDE DEF t
  <1>12. TypeOK'
    BY <1>1, <1>2, <1>3, <1>5, <1>6, <1>7, <1>8, <1>9, <1>10 DEF IInv, TypeOK
  <1>15. ReportShape' /\ ReportUncontested'
    <2> SUFFICES ASSUME NEW v \in Workers
                 PROVE  /\ report'[v].attempts <= attempts'
                        /\ report'[v] # NoReport /\ token' # report'[v].token
                             => attempts' > report'[v].attempts
      BY DEF ReportShape, ReportUncontested
    <2>1. report'[v] = report[v]
      BY <1>10
    <2>2. report[v].attempts \in Nat /\ report[v].attempts <= attempts
      BY LeaseAssumption DEF IInv, TypeOK, ReportShape
    <2>3. CASE attempts' = attempts
      BY <1>3, <1>13, <2>1, <2>2, <2>3 DEF IInv, ReportUncontested
    <2>4. CASE attempts' > attempts
      BY <1>14, <2>1, <2>2, <2>4
    <2> QED
      BY <1>14, <2>3, <2>4
  <1> QED
    BY <1>3, <1>5, <1>6, <1>11, <1>12, <1>13, <1>15 DEF IInv, ClaimShape, LeaseIsLogged

\* A heartbeat or a message moves the lease of the current claim.
LEMMA ExtendKeeps ==
    ASSUME IInv, owner # NoOwner, leaseAt' \in Int, LogLease(token, owner),
           status' \in Active \cup {status},
           UNCHANGED <<now, completed, owner, token, retryAt, attempts, timedOut,
                       known, report, pass>>
    PROVE  IInv'
  <1>1. token \in Tokens /\ owner \in Owners
    BY DEF IInv, TypeOK, ClaimShape
  <1>2. /\ log' \in [Tokens -> Int]
        /\ minter' \in [Tokens -> Owners \cup {NoOwner}]
        /\ log'[token] >= leaseAt' /\ minter'[token] = owner
    BY <1>1, LogFacts DEF IInv
  <1>3. TypeOK'
    BY <1>2 DEF IInv, TypeOK
  <1>4. ReportShape' /\ ReportUncontested'
    BY DEF IInv, ReportShape, ReportUncontested
  <1> QED
    BY <1>2, <1>3, <1>4 DEF IInv, ClaimShape, LeaseIsLogged

LEMMA HeartbeatKeeps ==
    ASSUME IInv, NEW w \in Workers, NEW lease \in LeaseChoices,
           heartbeat_job_lease(w, lease)
    PROVE  IInv'
  <1>1. leaseAt' \in Int
    BY LeaseAssumption, LaterFacts DEF heartbeat_job_lease, IInv, TypeOK
  <1> QED
    BY <1>1, ExtendKeeps DEF heartbeat_job_lease, lease_is_active

LEMMA MessageKeeps ==
    ASSUME IInv, NEW target \in {"none", "running", "awaiting_clarification"},
           add_message(target)
    PROVE  IInv'
  <1>1. status' \in Active \cup {status}
    BY DEF add_message, Active
  <1>2. CASE owner = NoOwner
    BY <1>1, <1>2 DEF add_message, IInv, TypeOK, ClaimShape, LeaseIsLogged,
                      ReportShape, ReportUncontested, eventVars
  <1>3. CASE owner # NoOwner
    <2>1. leaseAt' \in Int
      BY <1>3, LeaseAssumption, LaterFacts DEF add_message, IInv, TypeOK
    <2> QED
      BY <1>1, <1>3, <2>1, ExtendKeeps DEF add_message
  <1> QED
    BY <1>2, <1>3

LEMMA WorkerKeeps ==
    ASSUME IInv, NEW w \in Workers, WorkerStep(w)
    PROVE  IInv'
  <1>1. CASE release_job_claim(w)
    <2>1. ClaimShape' /\ LeaseIsLogged'
      BY <1>1, DropOrKeep DEF IInv, release_job_claim
    <2>2. owner' \in Owners \cup {NoOwner} /\ token' \in Tokens \cup {NoToken}
          /\ leaseAt' \in Int
      BY <1>1, DropType DEF IInv, release_job_claim
    <2>3. ReportShape' /\ ReportUncontested'
      BY <1>1, ReportsKeep DEF IInv, release_job_claim
    <2> QED
      BY <1>1, <2>1, <2>2, <2>3 DEF IInv, TypeOK, release_job_claim, eventVars
  <1>2. CASE schedule_job_retry(w)
    BY <1>2, GiveUpKeeps DEF schedule_job_retry, IInv, TypeOK
  <1>3. CASE ReportRead(w) \/ ReportDropped(w)
    <2>1. PICK r : /\ report' = [report EXCEPT ![w] = r]
                   /\ r = NoReport \/ r = [token |-> known[w], attempts |-> attempts]
                   /\ r # NoReport => owner = NoOwner \/ token = known[w]
      BY <1>3 DEF ReportRead, ReportDropped, HoldsClaim, LateWorkerGrace
    <2>2. UNCHANGED <<now, status, completed, claimVars, retryAt, attempts,
                      timedOut, eventVars, known, pass>>
      BY <1>3 DEF ReportRead, ReportDropped
    <2>3. /\ r \in [token : Tokens \cup {NoToken}, attempts : 0 .. MaxAttempts]
          /\ r.attempts <= attempts
      BY <2>1, LeaseAssumption DEF IInv, TypeOK, NoReport
    <2>4. report' \in [Workers -> [token : Tokens \cup {NoToken},
                                   attempts : 0 .. MaxAttempts]]
      BY <2>1, <2>3 DEF IInv, TypeOK
    <2>5. ReportShape'
      BY <2>1, <2>2, <2>3 DEF IInv, TypeOK, ReportShape
    <2>6. ReportUncontested'
      BY <2>1, <2>2 DEF IInv, TypeOK, ReportUncontested, claimVars, NoReport
    <2> QED
      BY <2>2, <2>4, <2>5, <2>6
         DEF IInv, TypeOK, ClaimShape, LeaseIsLogged, claimVars, eventVars
  <1>4. CASE ReportUpdate(w)
    <2>1. pass' \in Passes \cup {"none"}
      BY <1>4 DEF ReportUpdate, IInv, TypeOK
    <2> QED
      BY <1>4, <2>1, UpdateKeeps DEF ReportUpdate
  <1> QED
    BY <1>1, <1>2, <1>3, <1>4, ClaimKeeps, HeartbeatKeeps DEF WorkerStep

LEMMA TimeoutKeeps ==
    ASSUME IInv, mark_job_timeout, pass' \in Passes \cup {"none"}
    PROVE  IInv'
  <1>1. CASE status \in Active /\ lease_is_expired
    BY <1>1, GiveUpKeeps DEF mark_job_timeout
  <1>2. CASE ~(status \in Active /\ lease_is_expired)
    BY <1>2 DEF mark_job_timeout, IInv, TypeOK, ClaimShape, LeaseIsLogged,
                ReportShape, ReportUncontested, claimVars, eventVars
  <1> QED
    BY <1>1, <1>2

LEMMA SweepKeeps ==
    ASSUME IInv, (\E k \in Passes : SweepList(k)) \/ SweepAct
    PROVE  IInv'
  <1>1. CASE \E k \in Passes : SweepList(k)
    BY <1>1 DEF SweepList, IInv, TypeOK, ClaimShape, LeaseIsLogged, ReportShape,
                ReportUncontested, claimVars, eventVars
  <1>2. CASE SweepTimeout
    BY <1>2, TimeoutKeeps DEF SweepTimeout
  <1>3. CASE SweepProceed
    BY <1>3 DEF SweepProceed, IInv, TypeOK, ClaimShape, LeaseIsLogged, ReportShape,
                ReportUncontested, claimVars, eventVars, Active, Never
  <1>4. CASE SweepFail
    BY <1>4, UpdateKeeps DEF SweepFail, IInv, TypeOK
  <1>5. CASE mark_retry_ready
    <2>1. ClaimShape' /\ LeaseIsLogged'
      BY <1>5, DropOrKeep DEF IInv, mark_retry_ready
    <2>2. owner' \in Owners \cup {NoOwner} /\ token' \in Tokens \cup {NoToken}
          /\ leaseAt' \in Int
      BY <1>5, DropType DEF IInv, TypeOK, mark_retry_ready, claimVars
    <2>3. retryAt' \in Int
      BY <1>5 DEF IInv, TypeOK, mark_retry_ready, Never
    <2>4. ReportShape' /\ ReportUncontested'
      BY <1>5, ReportsKeep DEF IInv, mark_retry_ready, claimVars
    <2> QED
      BY <1>5, <2>1, <2>2, <2>3, <2>4 DEF IInv, TypeOK, mark_retry_ready, eventVars
  <1> QED
    BY <1>1, <1>2, <1>3, <1>4, <1>5 DEF SweepAct

LEMMA TickKeeps ==
    ASSUME IInv, Tick
    PROVE  IInv'
  <1>1. now' \in 0 .. MaxNow
    BY LeaseAssumption DEF IInv, TypeOK, Tick
  <1> QED
    BY <1>1 DEF Tick, IInv, TypeOK, ClaimShape, LeaseIsLogged, ReportShape,
                ReportUncontested, claimVars, eventVars

LEMMA NextKeeps == IInv /\ [Next]_vars => IInv'
  <1> SUFFICES ASSUME IInv, [Next]_vars PROVE IInv'
    OBVIOUS
  <1>1. CASE TimeoutAtTouchpoint
    BY <1>1, TimeoutKeeps DEF TimeoutAtTouchpoint, IInv, TypeOK
  <1>2. CASE UNCHANGED vars
    BY <1>2 DEF vars, IInv, TypeOK, ClaimShape, LeaseIsLogged, ReportShape,
                ReportUncontested, claimVars, eventVars
  <1>3. CASE jobs_retry_unclaimed
    BY <1>3, GiveUpKeeps DEF jobs_retry_unclaimed, IInv, TypeOK
  <1>4. CASE EndedWithoutClaim
    BY <1>4, UpdateKeeps DEF EndedWithoutClaim, IInv, TypeOK
  <1> QED
    BY <1>1, <1>2, <1>3, <1>4, WorkerKeeps, MessageKeeps, SweepKeeps, TickKeeps
       DEF Next

LEMMA InitHolds == Init => IInv
  <1> SUFFICES ASSUME Init PROVE IInv
    OBVIOUS
  <1>1. now \in 0 .. MaxNow /\ attempts \in 0 .. MaxAttempts
    BY LeaseAssumption DEF Init
  <1>2. leaseAt \in Int /\ retryAt \in Int /\ log \in [Tokens -> Int]
    BY DEF Init, Never
  <1>3. completed \in BOOLEAN /\ timedOut \in BOOLEAN
    BY DEF Init
  <1>5. report \in [Workers -> [token : Tokens \cup {NoToken},
                                attempts : 0 .. MaxAttempts]]
    BY LeaseAssumption DEF Init, NoReport
  <1>4. TypeOK
    BY <1>1, <1>2, <1>3, <1>5 DEF Init, TypeOK
  <1>6. ReportShape /\ ReportUncontested
    BY DEF Init, ReportShape, ReportUncontested, NoReport
  <1> QED
    BY <1>4, <1>6 DEF Init, IInv, ClaimShape, LeaseIsLogged

\* The inductive invariant of the lease: types, a token on every claim, a claim
\* only on a job in progress, and claim events that know the lease.
THEOREM Invariance == Spec => []IInv
  BY InitHolds, NextKeeps, PTL DEF Spec

\* attempt_count stays within max_attempts and every column keeps its type,
\* whatever the workers and the sweeper do (core/jobs/leases.py).
THEOREM TypeCorrect == Spec => []TypeOK
  <1>1. IInv => TypeOK
    BY DEF IInv
  <1> QED
    BY <1>1, Invariance, PTL

\* Every extension of a lease, by claim, heartbeat or message, reaches the claim
\* events that claim_token_was_recently_active reads.
THEOREM Logged == Spec => []LeaseIsLogged
  <1>1. IInv => LeaseIsLogged
    BY DEF IInv
  <1> QED
    BY <1>1, Invariance, PTL

-----------------------------------------------------------------------------
(* What a step may never do. *)

\* mark_job_timeout, the passes of the sweeper and claim_job leave a live lease
\* to its holder, although the sweeper acts on an older list.
THEOREM LeaseRespected == Spec => LiveLeaseRespected
  <1> DEFINE A == lease_is_active /\ token' # token /\ ~completed'
                    => \/ \E w \in Workers :
                             HoldsClaim(w)
                             /\ (release_job_claim(w) \/ schedule_job_retry(w))
                       \/ jobs_retry_unclaimed
  <1>1. IInv /\ [Next]_vars => [A]_vars
    <2> SUFFICES ASSUME IInv, Next, lease_is_active, token' # token, ~completed',
                        ~jobs_retry_unclaimed
                 PROVE  \E w \in Workers :
                           HoldsClaim(w)
                           /\ (release_job_claim(w) \/ schedule_job_retry(w))
      OBVIOUS
    <2>1. ~lease_is_expired
      BY DEF lease_is_active, lease_is_expired, IInv, TypeOK
    <2>2. ASSUME NEW w \in Workers, WorkerStep(w)
          PROVE  release_job_claim(w) \/ schedule_job_retry(w)
      BY <2>2 DEF WorkerStep, claim_job, claim_allowed, heartbeat_job_lease,
                  ReportRead, ReportUpdate, ReportDropped, update_job_status,
                  claimVars
    <2>3. ~SweepAct
      BY <2>1 DEF SweepAct, SweepTimeout, mark_job_timeout, SweepProceed,
                  SweepFail, update_job_status, mark_retry_ready, claimVars,
                  lease_is_active, IInv, ClaimShape, Active
    <2>6. ~EndedWithoutClaim
      BY DEF EndedWithoutClaim, update_job_status, claimVars
    <2>4. PICK w \in Workers : WorkerStep(w)
      BY <2>1, <2>3, <2>6 DEF Next, TimeoutAtTouchpoint, add_message, SweepList,
                              Tick, claimVars
    <2>5. release_job_claim(w) \/ schedule_job_retry(w)
      BY <2>2, <2>4
    <2>7. HoldsClaim(w)
      BY <2>5 DEF release_job_claim, schedule_job_retry
    <2> QED
      BY <2>5, <2>7
  <1> QED
    BY <1>1, Invariance, PTL DEF Spec, LiveLeaseRespected

-----------------------------------------------------------------------------
\* A report that jobs_complete or jobs_fail has let in, and that is still to be
\* written, meets another worker's claim only after a new attempt was counted
\* (_assert_settlement_claim_or_grace, claim_job).
THEOREM ReportsUncontested == Spec => []ReportUncontested
  <1>1. IInv => ReportUncontested
    BY DEF IInv
  <1> QED
    BY <1>1, Invariance, PTL
=============================================================================
