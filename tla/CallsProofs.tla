------------------------------ MODULE CallsProofs ------------------------------
(* A refunded request keeps no charge, a key spends once and is given back,  *)
(* and the units of the wallet add up, for every set of requests, workers    *)
(* and server processes, every batch size and every number of attempts.      *)
EXTENDS Calls, FiniteSetTheorems, TLAPS

-----------------------------------------------------------------------------
(* The inductive invariant, part by part. *)

\* The domains of the variables that most actions assign.
Rows == [status : {"none", "in_progress", "completed"},
         by : Requests \cup {NoRequest}, stale : BOOLEAN]

Places == {"start", "wait", "charge", "create", "run", "settle", "publish", "give_back",
           "check", "undo", "complete", "transfer", "done"}

Answers == {"none", "ok", "cached", "replay", "conflict", "refused", "estimate",
            "refunded", "error", "lost"}

\* TypeOK, without the upper bound of the wallet.
Shape ==
    /\ req \in Mixes
    /\ funds \in Nat
    /\ charge \in [Jobs -> {"none", "held", "paid", "refunded"}]
    /\ status \in [Jobs -> {"none", "pending", "running", "complete", "failed"}]
    /\ settled \in [Jobs -> BOOLEAN]
    /\ attempts \in [Jobs -> 0 .. MaxAttempts]
    /\ cache \in Jobs \cup {NoJob}
    /\ inflight \in [Hosts -> BOOLEAN]
    /\ replay \in [Hosts -> Requests \cup {NoRequest}]
    /\ row \in [Scopes -> Rows]
    /\ debited \in [Requests -> 0 .. 1]
    /\ transfers \in 0 .. 1
    /\ taken \in [Requests -> 0 .. BatchSize]
    /\ undone \in [Requests -> 0 .. BatchSize]
    /\ raised \subseteq Jobs
    /\ kept \subseteq Requests
    /\ answer \in [Requests -> Answers]
    /\ pc \in [Requests -> Places]
    /\ wpc \in [Workers -> {"idle", "work", "settle", "give_back"}]
    /\ wjob \in [Workers -> Jobs \cup {NoJob}]
    /\ faults \in 0 .. MaxFaults
    /\ ageings \in 0 .. MaxAgeings

Kind(r) == req[r].kind

\* Where a request of each kind can be, and what it has taken by then.
Placed(r) ==
    /\ pc[r] \in {"wait", "run", "settle", "publish", "give_back"} => Kind(r) \in Calls
    /\ pc[r] \in {"charge", "create"} => Kind(r) # "withdraw"
    /\ pc[r] \in {"check", "complete"} => Kind(r) \in {"batch", "withdraw"}
    /\ pc[r] = "undo" => Kind(r) = "batch"
    /\ pc[r] = "transfer" => Kind(r) = "withdraw" /\ debited[r] = 1
    /\ pc[r] \in {"start", "check"} => debited[r] = 0
    /\ pc[r] \in {"start", "wait", "check"} => taken[r] = 0
    /\ pc[r] = "charge" => taken[r] < BatchSize
    /\ pc[r] = "charge" /\ Kind(r) # "batch" => taken[r] = 0
    /\ pc[r] \in {"create", "run", "settle", "publish", "give_back"} => 1 <= taken[r]
    /\ Kind(r) # "batch" => taken[r] <= 1
    /\ undone[r] <= taken[r]
    /\ pc[r] # "done" => answer[r] = "none"

AllPlaced == \A r \in Requests : Placed(r)

\* The charges of a request, in their order.
Booked(r, i) ==
    LET j == <<r, i>>
    IN  /\ charge[j] = "none" <=> taken[r] < i
        /\ status[j] # "none" => charge[j] # "none"
        /\ settled[j] => charge[j] \in {"paid", "refunded"}
        /\ i <= undone[r] \/ answer[r] = "refunded" => charge[j] # "held" \/ j \in raised
        /\ charge[j] = "paid" /\ attempts[j] = 0 /\ (faults = 0 \/ Kind(r) # "builtin") =>
              pc[r] \in {"publish", "done"} /\ answer[r] # "refunded"

AllBooked == \A r \in Requests, i \in 1 .. BatchSize : Booked(r, i)

\* A worker has a job that was charged and claimed.
AtWork ==
    \A w \in Workers :
        wpc[w] # "idle" =>
            wjob[w] \in Jobs /\ attempts[wjob[w]] > 0 /\ charge[wjob[w]] # "none"

\* What keeps the key of a request that is done in progress.
KeepsKey(r) ==
    \/ answer[r] = "lost"
    \/ r \in kept
    \/ answer[r] = "error" /\ Kind(r) = "batch"
    \/ answer[r] \in {"refused", "estimate"} /\ taken[r] = 0 /\ debited[r] = 0

\* A row belongs to a request of its endpoint that has begun.
RowOwned(s) ==
    LET b == row[s].by
    IN  row[s].status # "none" =>
            /\ b \in Requests
            /\ pc[b] # "start"
            /\ Kind(b) = (IF s = "hire_batch" THEN "batch" ELSE "withdraw")
            /\ row[s].status = "in_progress" /\ pc[b] = "done" => KeepsKey(b)

RowsOwned == \A s \in Scopes : RowOwned(s)

Keyed(r) == Kind(r) \in {"batch", "withdraw"}

Spends(r) ==
    \/ Kind(r) = "batch" /\ taken[r] > 0 /\ answer[r] # "refunded"
    \/ Kind(r) = "withdraw" /\ debited[r] > 0 /\ answer[r] # "error"

\* While no row has aged, the row of a key belongs to the request that is at
\* work with the key, or that has spent with it.
KeyHeld(r) ==
    /\ Keyed(r) /\ pc[r] \notin {"start", "done"} =>
          row[Scope(r)].status = "in_progress" /\ row[Scope(r)].by = r
    /\ Spends(r) => row[Scope(r)].status # "none" /\ row[Scope(r)].by = r

KeysHeld ==
    ageings = 0 => /\ \A s \in Scopes : ~row[s].stale
                   /\ \A r \in Requests : KeyHeld(r)

\* The units of the wallet: on it, in charges that were not refunded, or
\* withdrawn.
Spent == {j \in Jobs : charge[j] \in {"held", "paid"}}

Withdrawn == {r \in Requests : debited[r] = 1}

UnitsConserved == funds + Cardinality(Spent) + Cardinality(Withdrawn) = Funds

IInv ==
    /\ Shape /\ AllPlaced /\ AllBooked /\ AtWork /\ RowsOwned /\ KeysHeld
    /\ UnitsConserved
-----------------------------------------------------------------------------
(* What a step touches. *)

LEMMA ConstantsTyped ==
    /\ BatchSize \in Nat \ {0} /\ MaxAttempts \in Nat \ {0}
    /\ Funds \in Nat /\ MaxFaults \in Nat /\ MaxAgeings \in Nat
    /\ NoRequest \notin Requests /\ IsFiniteSet(Requests)
  BY CallsAssumption

LEMMA ReqTyped ==
    ASSUME Shape, NEW r \in Requests
    PROVE  /\ Kind(r) \in Kinds /\ req[r].host \in Hosts
           /\ req[r].max_attempts \in 1 .. MaxAttempts
  <1>1. req \in [Requests -> [kind : Kinds, body : Bodies, host : Hosts,
                             max_attempts : 1 .. MaxAttempts]]
    BY CallsAssumption DEF Shape
  <1> QED
    BY <1>1 DEF Kind

LEMMA JobsTyped ==
    /\ \A r \in Requests, i \in 1 .. BatchSize : <<r, i>> \in Jobs
    /\ \A j \in Jobs : j[1] \in Requests /\ j[2] \in 1 .. BatchSize /\ j = <<j[1], j[2]>>
  BY DEF Jobs

\* The job that a request works on is one of its own.
LEMMA JobTyped ==
    ASSUME Shape, NEW r \in Requests, 1 <= taken[r]
    PROVE  Job(r) \in Jobs
  <1>1. taken[r] \in 1 .. BatchSize
    BY ConstantsTyped DEF Shape
  <1> QED
    BY <1>1, JobsTyped DEF Job

LEMMA DomainsTyped ==
    ASSUME Shape
    PROVE  /\ DOMAIN pc = Requests /\ DOMAIN answer = Requests /\ DOMAIN taken = Requests
           /\ DOMAIN undone = Requests /\ DOMAIN debited = Requests
           /\ DOMAIN charge = Jobs /\ DOMAIN status = Jobs /\ DOMAIN settled = Jobs
           /\ DOMAIN attempts = Jobs
           /\ DOMAIN wpc = Workers /\ DOMAIN wjob = Workers /\ DOMAIN row = Scopes
           /\ \A r \in Requests : taken[r] \in Nat /\ undone[r] \in Nat /\ debited[r] \in Nat
           /\ \A j \in Jobs : attempts[j] \in Nat
           /\ faults \in Nat /\ ageings \in Nat
  BY ConstantsTyped DEF Shape

\* What happens to the charge of one job.
LEMMA DistributeTyped ==
    ASSUME Shape, NEW j \in Jobs, NEW to \in {"paid", "refunded"}, Distribute(j, to)
    PROVE  /\ charge' \in [Jobs -> {"none", "held", "paid", "refunded"}] /\ funds' \in Nat
           /\ \A k \in Jobs : k # j => charge'[k] = charge[k]
           /\ charge'[j] = IF charge[j] = "held" THEN to ELSE charge[j]
  BY DEF Distribute, Shape

LEMMA SettleTyped ==
    ASSUME Shape, NEW j \in Jobs, NEW to \in {"paid", "refunded"}, Settle(j, to)
    PROVE  /\ charge' \in [Jobs -> {"none", "held", "paid", "refunded"}] /\ funds' \in Nat
           /\ settled' \in [Jobs -> BOOLEAN]
           /\ \A k \in Jobs : k # j => charge'[k] = charge[k] /\ settled'[k] = settled[k]
           /\ settled'[j] = TRUE
           /\ charge'[j] = IF charge[j] = "held" /\ ~settled[j] THEN to ELSE charge[j]
  <1>1. CASE settled[j]
    BY <1>1 DEF Settle, Shape
  <1>2. CASE ~settled[j]
    <2>1. Distribute(j, to) /\ settled' = [settled EXCEPT ![j] = TRUE]
      BY <1>2 DEF Settle
    <2>2. settled' \in [Jobs -> BOOLEAN] /\ settled'[j] = TRUE
          /\ \A k \in Jobs : k # j => settled'[k] = settled[k]
      BY <2>1 DEF Shape
    <2> QED
      BY <1>2, <2>1, <2>2, DistributeTyped
  <1> QED
    BY <1>1, <1>2

LEMMA StatusTyped ==
    ASSUME Shape, NEW j \in Jobs, NEW l \in {"complete", "failed"}, update_job_status(j, l)
    PROVE  /\ status' \in [Jobs -> {"none", "pending", "running", "complete", "failed"}]
           /\ \A k \in Jobs : k # j => status'[k] = status[k]
  BY DEF update_job_status, Shape

\* A request's step moves that request alone.
Elsewhere(r) ==
    /\ req' = req /\ ageings' = ageings /\ attempts' = attempts
    /\ wpc' = wpc /\ wjob' = wjob
    /\ faults' = faults \/ faults' = faults + 1
    /\ \A t \in Requests : t # r =>
          /\ pc'[t] = pc[t] /\ answer'[t] = answer[t] /\ taken'[t] = taken[t]
          /\ undone'[t] = undone[t] /\ debited'[t] = debited[t]
          /\ t \in kept' <=> t \in kept
    /\ \A j \in Jobs : j[1] # r =>
          /\ charge'[j] = charge[j] /\ status'[j] = status[j] /\ settled'[j] = settled[j]
          /\ j \in raised' <=> j \in raised

LEMMA StepElsewhere ==
    ASSUME Shape, AllPlaced, NEW r \in Requests, Step(r) \/ Crash(r)
    PROVE  Elsewhere(r)
  <1>0. /\ DOMAIN pc = Requests /\ DOMAIN answer = Requests /\ DOMAIN taken = Requests
        /\ DOMAIN undone = Requests /\ DOMAIN debited = Requests
        /\ DOMAIN charge = Jobs /\ DOMAIN status = Jobs /\ taken[r] \in Nat /\ undone[r] \in Nat
    BY DomainsTyped
  <1>1. \A l : Goto(r, l) => \A t \in Requests : t # r => pc'[t] = pc[t] /\ answer'[t] = answer[t]
    BY <1>0 DEF Goto
  <1>2. \A a : Answer(r, a) => \A t \in Requests : t # r => pc'[t] = pc[t] /\ answer'[t] = answer[t]
    BY <1>0 DEF Answer
  <1>3. \A j \in Jobs : \A i : j[1] # r => j # <<r, i>>
    BY JobsTyped
  <1>4. CASE CallLookup(r) \/ CallWait(r) \/ CreateStart(r)
    BY <1>1, <1>2, <1>4
    DEF CallLookup, CallWait, CreateStart, Elsewhere, jobVars, bankVars, workerVars, histVars
  <1>5. CASE ChargeCall(r) \/ ChargeRaises(r)
    BY <1>0, <1>1, <1>2, <1>3, <1>5
    DEF ChargeCall, ChargeRaises, Exception, Elsewhere, jobVars, bankVars, workerVars,
        histVars
  <1>6. CASE create_job(r)
    BY <1>0, <1>1, <1>2, <1>3, <1>6
    DEF create_job, AfterCreate, Job, Elsewhere, bankVars, workerVars, histVars
  <1>7. CASE CreateFails(r)
    BY <1>0, <1>1, <1>2, <1>3, <1>7
    DEF CreateFails, Exception, Distribute, Job, Elsewhere, bankVars, workerVars, histVars
  <1>8. CASE RunCall(r)
    BY <1>0, <1>1, <1>3, <1>8
    DEF RunCall, update_job_status, Job, Elsewhere, bankVars, workerVars, histVars
  <1>9. ASSUME NEW to, Settle(Job(r), to)
        PROVE  \A j \in Jobs : j[1] # r => charge'[j] = charge[j] /\ settled'[j] = settled[j]
    BY <1>0, <1>3, <1>9, DomainsTyped DEF Settle, Distribute, Job
  <1>10. CASE SettleCall(r) \/ GiveBack(r)
    BY <1>1, <1>2, <1>9, <1>10
    DEF SettleCall, GiveBack, Elsewhere, bankVars, workerVars, histVars
  <1>11. CASE Publish(r) \/ CallRaises(r)
    BY <1>1, <1>2, <1>11
    DEF Publish, CallRaises, Exception, Elsewhere, jobVars, bankVars, workerVars, histVars
  <1>12. CASE begin(r) \/ idempotency_begin(r)
    BY <1>1, <1>2, <1>12
    DEF begin, idempotency_begin, Elsewhere, jobVars, bankVars, workerVars, histVars
  <1>13. CASE BatchCheck(r) \/ BatchRaises(r)
    BY <1>1, <1>2, <1>13
    DEF BatchCheck, BatchRaises, Exception, Elsewhere, jobVars, bankVars, workerVars, histVars
  <1>14. CASE BatchUndo(r)
    BY <1>0, <1>3, <1>14
    DEF BatchUndo, Exception, Distribute, Elsewhere, bankVars, workerVars
  <1>15. ASSUME GivesKeyBack(r)
         PROVE  /\ faults' = faults \/ faults' = faults + 1
                /\ \A t \in Requests : t # r => (t \in kept' <=> t \in kept)
    BY <1>15 DEF GivesKeyBack, Exception
  <1>16. CASE BatchRelease(r) \/ TransferFails(r)
    BY <1>0, <1>1, <1>2, <1>15, <1>16
    DEF BatchRelease, TransferFails, Elsewhere, jobVars, bankVars, workerVars
  <1>17. CASE CompleteKey(r)
    BY <1>2, <1>17 DEF CompleteKey, Exception, Elsewhere, jobVars, bankVars, workerVars
  <1>18. CASE WithdrawDebit(r)
    BY <1>0, <1>1, <1>2, <1>15, <1>18 DEF WithdrawDebit, Elsewhere, jobVars, workerVars
  <1>19. CASE WithdrawTransfer(r) \/ DepositFails(r) \/ WithdrawRaises(r)
    BY <1>0, <1>1, <1>2, <1>19
    DEF WithdrawTransfer, DepositFails, WithdrawRaises, Exception, Elsewhere, jobVars,
        bankVars, workerVars, histVars
  <1>20. CASE Crash(r)
    BY <1>1, <1>2, <1>20
    DEF Crash, Exception, Elsewhere, jobVars, bankVars, workerVars, histVars
  <1> QED
    BY <1>4, <1>5, <1>6, <1>7, <1>8, <1>10, <1>11, <1>12, <1>13, <1>14, <1>16, <1>17, <1>18,
       <1>19, <1>20
    DEF Step

LEMMA MoveTyped ==
    ASSUME Shape, NEW r \in Requests
    PROVE  /\ \A l \in Places : Goto(r, l) =>
                 pc' \in [Requests -> Places] /\ answer' \in [Requests -> Answers]
           /\ \A a \in Answers : Answer(r, a) =>
                 pc' \in [Requests -> Places] /\ answer' \in [Requests -> Answers]
  <1>1. pc \in [Requests -> Places] /\ answer \in [Requests -> Answers]
    BY DEF Shape
  <1>2. "done" \in Places
    BY DEF Places
  <1> QED
    BY <1>1, <1>2 DEF Goto, Answer

LEMMA RowTyped ==
    ASSUME Shape, NEW s \in Scopes, NEW r \in Requests
    PROVE  /\ row \in [Scopes -> Rows]
           /\ Own(s, r) \in [Scopes -> Rows]
           /\ Completed(s) \in [Scopes -> Rows]
           /\ Released(s) \in [Scopes -> Rows]
           /\ [row EXCEPT ![s].stale = TRUE] \in [Scopes -> Rows]
  <1>1. row \in [Scopes -> Rows]
    BY DEF Shape
  <1>2. [status |-> "in_progress", by |-> r, stale |-> FALSE] \in Rows /\ NoRow \in Rows
    BY DEF Rows, NoRow
  <1>3. [row[s] EXCEPT !.status = "completed"] \in Rows /\ [row[s] EXCEPT !.stale = TRUE] \in Rows
    BY <1>1 DEF Rows
  <1>4. Own(s, r) \in [Scopes -> Rows] /\ Released(s) \in [Scopes -> Rows]
    BY <1>1, <1>2 DEF Own, Released
  <1>5. /\ [row EXCEPT ![s] = [row[s] EXCEPT !.status = "completed"]] \in [Scopes -> Rows]
        /\ [row EXCEPT ![s] = [row[s] EXCEPT !.stale = TRUE]] \in [Scopes -> Rows]
    BY <1>1, <1>3
  <1> QED
    BY <1>1, <1>4, <1>5 DEF Completed

\* Every step of a request keeps the shape.
LEMMA ShapeStep ==
    ASSUME Shape, AllPlaced, NEW r \in Requests, Step(r) \/ Crash(r)
    PROVE  Shape'
  <1>0. /\ req[r].host \in Hosts /\ BatchSize \in Nat /\ MaxFaults \in Nat /\ taken[r] \in Nat
        /\ undone[r] \in Nat /\ Placed(r)
    BY ReqTyped, ConstantsTyped, DomainsTyped DEF AllPlaced
  <1>1. \A l \in Places : Goto(r, l) =>
           pc' \in [Requests -> Places] /\ answer' \in [Requests -> Answers]
    BY MoveTyped
  <1>2. \A a \in Answers : Answer(r, a) =>
           pc' \in [Requests -> Places] /\ answer' \in [Requests -> Answers]
    BY MoveTyped
  <1>3. /\ "hire_batch" \in Scopes /\ "wallets.withdraw" \in Scopes
        /\ Scope(r) \in Scopes
    BY DEF Scope, Scopes
  <1>4. Exception => faults' \in 0 .. MaxFaults
    BY <1>0 DEF Exception, Shape
  <1>5. Released("wallets.withdraw") \in [Scopes -> Rows]
    BY <1>3, RowTyped
  <1>6. GivesKeyBack(r) =>
           row' \in [Scopes -> Rows] /\ kept' \subseteq Requests /\ faults' \in 0 .. MaxFaults
    BY <1>3, <1>4, RowTyped DEF GivesKeyBack, Shape
  <1>7. CASE CallLookup(r)
    BY <1>0, <1>1, <1>2, <1>7
    DEF CallLookup, Places, Answers, Shape, jobVars, bankVars, workerVars, histVars
  <1>8. CASE CallWait(r)
    BY <1>0, <1>1, <1>2, <1>8
    DEF CallWait, Places, Answers, Shape, jobVars, bankVars, workerVars, histVars
  <1>9. CASE CreateStart(r)
    BY <1>0, <1>1, <1>2, <1>9
    DEF CreateStart, Places, Shape, jobVars, cacheVars, bankVars, workerVars, histVars
  <1>10. CASE ChargeCall(r)
    <2>1. taken[r] + 1 \in 1 .. BatchSize /\ <<r, taken[r] + 1>> \in Jobs
      BY <1>0, <1>10, JobsTyped DEF ChargeCall, Placed
    <2>2. CASE funds > 0
      <3>1. funds' \in Nat /\ taken' \in [Requests -> 0 .. BatchSize]
            /\ charge' \in [Jobs -> {"none", "held", "paid", "refunded"}]
        BY <1>0, <1>10, <2>1, <2>2 DEF ChargeCall, Shape
      <3> QED
        BY <1>1, <1>10, <2>2, <3>1
        DEF ChargeCall, Places, Shape, cacheVars, bankVars, workerVars, histVars
    <2>3. CASE ~(funds > 0)
      BY <1>1, <1>2, <1>10, <2>3
      DEF ChargeCall, Places, Answers, Shape, cacheVars, bankVars, workerVars, histVars
    <2> QED
      BY <2>2, <2>3
  <1>11. CASE create_job(r)
    <2>1. Job(r) \in Jobs
      BY <1>0, <1>11, JobTyped DEF create_job, Placed
    <2>2. status' \in [Jobs -> {"none", "pending", "running", "complete", "failed"}]
      BY <1>11, <2>1 DEF create_job, Shape
    <2> QED
      BY <1>1, <1>2, <1>11, <2>2
      DEF create_job, AfterCreate, Places, Answers, Shape, cacheVars, bankVars, workerVars,
          histVars
  <1>12. CASE CreateFails(r)
    <2>1. Job(r) \in Jobs
      BY <1>0, <1>12, JobTyped DEF CreateFails, Placed
    <2>2. charge' \in [Jobs -> {"none", "held", "paid", "refunded"}] /\ funds' \in Nat
      BY <1>12, <2>1, DistributeTyped DEF CreateFails, Shape
    <2> QED
      BY <1>1, <1>2, <1>4, <1>12, <2>2
      DEF CreateFails, Places, Answers, Shape, cacheVars, bankVars, workerVars, histVars
  <1>13. CASE RunCall(r)
    <2>1. Job(r) \in Jobs
      BY <1>0, <1>13, JobTyped DEF RunCall, Placed
    <2>2. status' \in [Jobs -> {"none", "pending", "running", "complete", "failed"}]
      BY <1>13, <2>1, StatusTyped DEF RunCall
    <2> QED
      BY <1>1, <1>13, <2>2
      DEF RunCall, Places, Shape, cacheVars, bankVars, workerVars, histVars
  <1>14. CASE SettleCall(r) \/ GiveBack(r)
    <2>1. Job(r) \in Jobs
      BY <1>0, <1>14, JobTyped DEF SettleCall, GiveBack, Placed
    <2>2. /\ charge' \in [Jobs -> {"none", "held", "paid", "refunded"}] /\ funds' \in Nat
          /\ settled' \in [Jobs -> BOOLEAN]
      BY <1>14, <2>1, SettleTyped DEF SettleCall, GiveBack
    <2> QED
      BY <1>1, <1>2, <1>14, <2>2
      DEF SettleCall, GiveBack, Places, Answers, Shape, cacheVars, bankVars, workerVars,
          histVars
  <1>15. CASE Publish(r)
    <2>1. Job(r) \in Jobs
      BY <1>0, <1>15, JobTyped DEF Publish, Placed
    <2>2. /\ replay' \in [Hosts -> Requests \cup {NoRequest}]
          /\ inflight' \in [Hosts -> BOOLEAN]
      BY <1>0, <1>15 DEF Publish, Shape
    <2> QED
      BY <1>2, <1>15, <2>1, <2>2
      DEF Publish, Answers, Shape, jobVars, bankVars, workerVars, histVars
  <1>16. CASE CallRaises(r)
    BY <1>1, <1>2, <1>4, <1>16
    DEF CallRaises, Places, Answers, Shape, jobVars, cacheVars, bankVars, workerVars, histVars
  <1>17. CASE begin(r)
    <2>1. row' \in [Scopes -> Rows]
      BY <1>3, <1>17, RowTyped DEF begin
    <2> QED
      BY <1>1, <1>2, <1>17, <2>1
      DEF begin, Places, Answers, Shape, jobVars, cacheVars, bankVars, workerVars, histVars
  <1>18. CASE idempotency_begin(r)
    <2>1. row' \in [Scopes -> Rows]
      BY <1>3, <1>18, RowTyped DEF idempotency_begin
    <2> QED
      BY <1>1, <1>2, <1>18, <2>1
      DEF idempotency_begin, Places, Answers, Shape, jobVars, cacheVars, bankVars,
          workerVars, histVars
  <1>19. CASE BatchCheck(r)
    BY <1>1, <1>2, <1>19
    DEF BatchCheck, Places, Answers, Shape, jobVars, cacheVars, bankVars, workerVars, histVars
  <1>20. CASE BatchUndo(r)
    <2>1. undone[r] + 1 \in 1 .. BatchSize /\ taken[r] \in 0 .. BatchSize
      BY <1>0, <1>20 DEF BatchUndo, Shape
    <2>2. <<r, undone[r] + 1>> \in Jobs
      BY <2>1, JobsTyped
    <2>3. charge' \in [Jobs -> {"none", "held", "paid", "refunded"}] /\ funds' \in Nat
      BY <1>20, <2>2, DistributeTyped DEF BatchUndo, Shape
    <2>5. raised' \subseteq Jobs /\ faults' \in 0 .. MaxFaults
      BY <1>4, <1>20, <2>2 DEF BatchUndo, Shape
    <2>4. undone' \in [Requests -> 0 .. BatchSize]
      BY <1>20, <2>1 DEF BatchUndo, Shape
    <2> QED
      BY <1>20, <2>3, <2>4, <2>5
      DEF BatchUndo, Shape, cacheVars, bankVars, workerVars, histVars
  <1>21. CASE BatchRelease(r)
    BY <1>2, <1>6, <1>21
    DEF BatchRelease, Answers, Shape, jobVars, cacheVars, bankVars, workerVars
  <1>22. CASE CompleteKey(r)
    <2>1. row' \in [Scopes -> Rows] /\ kept' \subseteq Requests /\ faults' \in 0 .. MaxFaults
      BY <1>3, <1>4, <1>22, RowTyped DEF CompleteKey, Shape
    <2>2. Answer(r, "ok") \/ Answer(r, "error")
      BY <1>22 DEF CompleteKey
    <2>3. pc' \in [Requests -> Places] /\ answer' \in [Requests -> Answers]
      BY <1>2, <2>2 DEF Answers
    <2> QED
      BY <1>22, <2>1, <2>3
      DEF CompleteKey, Shape, jobVars, cacheVars, bankVars, workerVars
  <1>23. CASE ChargeRaises(r) \/ BatchRaises(r)
    BY <1>1, <1>2, <1>4, <1>23
    DEF ChargeRaises, BatchRaises, Places, Answers, Shape, jobVars, cacheVars, bankVars,
        workerVars, histVars
  <1>24. CASE WithdrawDebit(r)
    <2>1. row' \in [Scopes -> Rows] /\ kept' \subseteq Requests /\ faults' \in 0 .. MaxFaults
      BY <1>6, <1>24 DEF WithdrawDebit, Shape
    <2>2. funds' \in Nat /\ debited' \in [Requests -> 0 .. 1]
      BY <1>24 DEF WithdrawDebit, Shape
    <2> QED
      BY <1>1, <1>2, <1>24, <2>1, <2>2
      DEF WithdrawDebit, Places, Answers, Shape, jobVars, cacheVars, workerVars
  <1>25. CASE WithdrawTransfer(r)
    BY <1>1, <1>25
    DEF WithdrawTransfer, Places, Shape, jobVars, cacheVars, workerVars, histVars
  <1>26. CASE TransferFails(r)
    <2>1. /\ funds' \in Nat /\ debited' \in [Requests -> 0 .. 1] /\ transfers' \in 0 .. 1
      BY <1>26 DEF TransferFails, Shape
    <2> QED
      BY <1>2, <1>6, <1>26, <2>1
      DEF TransferFails, Answers, Shape, jobVars, cacheVars, workerVars
  <1>27. CASE DepositFails(r) \/ WithdrawRaises(r)
    <2>1. row' \in [Scopes -> Rows] /\ transfers' \in 0 .. 1
      BY <1>5, <1>27 DEF DepositFails, WithdrawRaises, Shape, bankVars
    <2> QED
      BY <1>2, <1>4, <1>27, <2>1
      DEF DepositFails, WithdrawRaises, Answers, Shape, jobVars, cacheVars, bankVars,
          workerVars, histVars
  <1>28. CASE Crash(r)
    <2>1. /\ replay' \in [Hosts -> Requests \cup {NoRequest}]
          /\ inflight' \in [Hosts -> BOOLEAN] /\ faults' \in 0 .. MaxFaults
      BY <1>0, <1>4, <1>28 DEF Crash, Shape
    <2> QED
      BY <1>2, <1>28, <2>1 DEF Crash, Answers, Shape, jobVars, bankVars, workerVars, histVars
  <1> QED
    BY <1>7, <1>8, <1>9, <1>10, <1>11, <1>12, <1>13, <1>14, <1>15, <1>16, <1>17, <1>18,
       <1>19, <1>20, <1>21, <1>22, <1>23, <1>24, <1>25, <1>26, <1>27, <1>28
    DEF Step

\* Where the two kinds of move leave the request.
LEMMA MoveLands ==
    ASSUME Shape, NEW r \in Requests
    PROVE  /\ \A l : Goto(r, l) => pc'[r] = l /\ answer'[r] = answer[r]
           /\ \A a : Answer(r, a) => pc'[r] = "done" /\ answer'[r] = a
  BY DomainsTyped DEF Goto, Answer

\* A request keeps to the path of its kind.
LEMMA PlacedStep ==
    ASSUME Shape, AllPlaced, NEW r \in Requests, Step(r) \/ Crash(r)
    PROVE  AllPlaced'
  <1>0. /\ Kind(r) \in Kinds /\ BatchSize \in Nat \ {0} /\ taken[r] \in Nat
        /\ undone[r] \in Nat /\ Placed(r) /\ taken[r] <= BatchSize
        /\ DOMAIN taken = Requests /\ DOMAIN undone = Requests /\ DOMAIN debited = Requests
    BY ReqTyped, ConstantsTyped, DomainsTyped DEF AllPlaced, Shape
  <1>1. Elsewhere(r)
    BY StepElsewhere
  <1>2. ASSUME NEW t \in Requests, t # r PROVE Placed(t)'
    BY <1>1, <1>2 DEF Elsewhere, AllPlaced, Placed, Kind
  <1> SUFFICES Placed(r)'
    BY <1>2 DEF AllPlaced
  <1>3. /\ \A l : Goto(r, l) => pc'[r] = l /\ answer'[r] = answer[r]
        /\ \A a : Answer(r, a) => pc'[r] = "done" /\ answer'[r] = a
    BY MoveLands
  <1>4. CASE CallLookup(r) \/ CallWait(r) \/ CreateStart(r)
    BY <1>0, <1>3, <1>4
    DEF CallLookup, CallWait, CreateStart, Placed, Kind, Calls, bankVars
  <1>5. CASE ChargeCall(r)
    <2>1. CASE funds > 0
      <3>1. taken'[r] = taken[r] + 1
        BY <1>0, <1>5, <2>1 DEF ChargeCall
      <3> QED
        BY <1>0, <1>3, <1>5, <2>1, <3>1 DEF ChargeCall, Placed, Kind, bankVars
    <2>2. CASE ~(funds > 0)
      BY <1>0, <1>3, <1>5, <2>2 DEF ChargeCall, Placed, Kind, bankVars
    <2> QED
      BY <2>1, <2>2
  <1>6. CASE create_job(r)
    BY <1>0, <1>3, <1>6
    DEF create_job, AfterCreate, Placed, Kind, Kinds, Calls, bankVars
  <1>7. CASE ChargeRaises(r) \/ CreateFails(r)
    BY <1>0, <1>3, <1>7 DEF ChargeRaises, CreateFails, Placed, Kind, bankVars
  <1>8. CASE RunCall(r) \/ SettleCall(r) \/ GiveBack(r) \/ Publish(r)
    BY <1>0, <1>3, <1>8
    DEF RunCall, SettleCall, GiveBack, Publish, Placed, Kind, Calls, bankVars
  <1>9. CASE CallRaises(r)
    BY <1>0, <1>3, <1>9 DEF CallRaises, Placed, Kind, Calls, bankVars
  <1>10. CASE begin(r) \/ idempotency_begin(r)
    BY <1>0, <1>3, <1>10 DEF begin, idempotency_begin, Placed, Kind, bankVars
  <1>11. CASE BatchCheck(r) \/ BatchRelease(r) \/ CompleteKey(r) \/ BatchRaises(r)
    BY <1>0, <1>3, <1>11
    DEF BatchCheck, BatchRelease, CompleteKey, BatchRaises, Placed, Kind, bankVars
  <1>12. CASE BatchUndo(r)
    <2>1. undone'[r] = undone[r] + 1
      BY <1>0, <1>12 DEF BatchUndo
    <2> QED
      BY <1>0, <1>12, <2>1 DEF BatchUndo, Placed, Kind, bankVars
  <1>13. CASE WithdrawDebit(r)
    BY <1>0, <1>3, <1>13 DEF WithdrawDebit, Placed, Kind
  <1>14. CASE WithdrawTransfer(r) \/ TransferFails(r) \/ DepositFails(r) \/ WithdrawRaises(r)
    BY <1>0, <1>3, <1>14
    DEF WithdrawTransfer, TransferFails, DepositFails, WithdrawRaises, Placed, Kind, bankVars
  <1>15. CASE Crash(r)
    BY <1>0, <1>3, <1>15 DEF Crash, Placed, Kind, bankVars
  <1> QED
    BY <1>4, <1>5, <1>6, <1>7, <1>8, <1>9, <1>10, <1>11, <1>12, <1>13, <1>14, <1>15 DEF Step

\* The charges of a request stay in their order, whatever it does with them.
LEMMA BookedStep ==
    ASSUME Shape, AllPlaced, AllBooked, NEW r \in Requests, Step(r) \/ Crash(r)
    PROVE  AllBooked'
  <1>0. /\ Kind(r) \in Kinds /\ BatchSize \in Nat \ {0} /\ taken[r] \in Nat
        /\ undone[r] \in Nat /\ Placed(r) /\ taken[r] <= BatchSize /\ faults \in Nat
        /\ DOMAIN taken = Requests /\ DOMAIN undone = Requests
        /\ DOMAIN charge = Jobs /\ DOMAIN status = Jobs /\ DOMAIN settled = Jobs
    BY ReqTyped, ConstantsTyped, DomainsTyped DEF AllPlaced, Shape
  <1>1. Elsewhere(r) /\ \A t \in Requests : Kind(t)' = Kind(t)
    BY StepElsewhere DEF Elsewhere, Kind
  <1>2. ASSUME NEW t \in Requests, t # r, NEW i \in 1 .. BatchSize PROVE Booked(t, i)'
    <2>1. <<t, i>> \in Jobs /\ <<t, i>>[1] # r
      BY <1>2, JobsTyped
    <2>2. faults' = 0 => faults = 0
      BY <1>0, <1>1 DEF Elsewhere
    <2> QED
      BY <1>1, <1>2, <2>1, <2>2 DEF Elsewhere, AllBooked, Booked
  <1> SUFFICES ASSUME NEW i \in 1 .. BatchSize PROVE Booked(r, i)'
    BY <1>2 DEF AllBooked
  <1> DEFINE j == <<r, i>>
  <1>3. /\ \A l : Goto(r, l) => pc'[r] = l /\ answer'[r] = answer[r]
        /\ \A a : Answer(r, a) => pc'[r] = "done" /\ answer'[r] = a
    BY MoveLands
  <1>4. /\ j \in Jobs /\ Booked(r, i) /\ i \in Nat /\ i > 0
        /\ \A k : <<r, k>> = j <=> k = i
        /\ charge[j] \in {"none", "held", "paid", "refunded"} /\ settled[j] \in BOOLEAN
    BY JobsTyped DEF AllBooked, Shape
  <1>5. CASE CallLookup(r) \/ CallWait(r) \/ CreateStart(r)
    BY <1>0, <1>1, <1>3, <1>4, <1>5
    DEF CallLookup, CallWait, CreateStart, Placed, Booked, jobVars, histVars
  <1>6. CASE ChargeCall(r)
    <2>1. CASE funds > 0
      <3>1. taken'[r] = taken[r] + 1 /\ pc'[r] = "create" /\ answer'[r] = "none"
        BY <1>0, <1>3, <1>6, <2>1 DEF ChargeCall, Placed
      <3>2. charge'[j] = IF i = taken[r] + 1 THEN "held" ELSE charge[j]
        BY <1>0, <1>4, <1>6, <2>1 DEF ChargeCall
      <3>3. /\ status' = status /\ settled' = settled /\ attempts' = attempts
            /\ undone' = undone /\ faults' = faults
        BY <1>6 DEF ChargeCall
      <3> QED
        BY <1>0, <1>1, <1>4, <1>6, <3>1, <3>2, <3>3 DEF ChargeCall, Placed, Booked, histVars
    <2>2. CASE ~(funds > 0)
      BY <1>0, <1>1, <1>3, <1>4, <1>6, <2>2 DEF ChargeCall, Placed, Booked, histVars
    <2> QED
      BY <2>1, <2>2
  <1>7. CASE create_job(r)
    <2>1. status'[j] = IF i = taken[r] THEN "pending" ELSE status[j]
      BY <1>0, <1>4, <1>7 DEF create_job, Job
    <2> QED
      BY <1>0, <1>1, <1>3, <1>4, <1>7, <2>1
      DEF create_job, AfterCreate, Placed, Booked, histVars
  <1>8. CASE CreateFails(r)
    <2>1. /\ status' = status /\ settled' = settled /\ attempts' = attempts
          /\ taken' = taken /\ undone' = undone /\ raised' = raised /\ faults' # 0
      BY <1>0, <1>8 DEF CreateFails, Exception, histVars
    <2>2. \/ answer'[r] \in {"none", "error"} /\ charge' = charge
          \/ Answer(r, "refunded") /\ Distribute(Job(r), "refunded") /\ Kind(r) # "batch"
      BY <1>0, <1>3, <1>8 DEF CreateFails, Placed, Kind
    <2>3. CASE answer'[r] \in {"none", "error"} /\ charge' = charge
      BY <1>0, <1>1, <1>4, <1>8, <2>1, <2>3 DEF CreateFails, Placed, Booked, histVars
    <2>4. CASE Answer(r, "refunded") /\ Distribute(Job(r), "refunded") /\ Kind(r) # "batch"
      <3>1. charge'[j] = IF i = taken[r] /\ charge[j] = "held" THEN "refunded" ELSE charge[j]
        BY <1>0, <1>4, <2>4 DEF Distribute, Job
      <3> QED
        BY <1>0, <1>1, <1>3, <1>4, <1>8, <2>1, <2>4, <3>1
        DEF CreateFails, Placed, Booked, histVars
    <2> QED
      BY <2>2, <2>3, <2>4
  <1>9. CASE RunCall(r)
    <2>1. status'[j] # "none" => status[j] # "none" \/ i = taken[r]
      BY <1>0, <1>4, <1>9 DEF RunCall, update_job_status, Job
    <2> QED
      BY <1>0, <1>1, <1>3, <1>4, <1>9, <2>1 DEF RunCall, Placed, Booked, histVars
  <1>10. ASSUME NEW to \in {"paid", "refunded"}, Settle(Job(r), to), 1 <= taken[r]
         PROVE  /\ charge'[j] = IF i = taken[r] /\ charge[j] = "held" THEN to ELSE charge[j]
                /\ settled'[j] = (settled[j] \/ i = taken[r])
    <2>1. Job(r) \in Jobs
      BY <1>10, JobTyped
    <2>2. Job(r) = j <=> i = taken[r]
      BY <1>4 DEF Job
    <2>3. settled[j] => charge[j] # "held"
      BY <1>4 DEF Booked
    <2>4. CASE Job(r) = j
      BY <1>10, <2>1, <2>2, <2>3, <2>4, SettleTyped
    <2>5. CASE Job(r) # j
      BY <1>4, <1>10, <2>1, <2>2, <2>5, SettleTyped
    <2> QED
      BY <2>4, <2>5
  <1>11. CASE SettleCall(r)
    <2>1. /\ charge'[j] = IF i = taken[r] /\ charge[j] = "held" THEN "paid" ELSE charge[j]
          /\ settled'[j] = (settled[j] \/ i = taken[r])
      BY <1>0, <1>10, <1>11 DEF SettleCall, Placed
    <2> QED
      BY <1>0, <1>1, <1>3, <1>4, <1>11, <2>1 DEF SettleCall, Placed, Booked, histVars
  <1>12. CASE GiveBack(r)
    <2>1. /\ charge'[j] = IF i = taken[r] /\ charge[j] = "held" THEN "refunded" ELSE charge[j]
          /\ settled'[j] = (settled[j] \/ i = taken[r])
      BY <1>0, <1>10, <1>12 DEF GiveBack, Placed
    <2>2. Kind(r) # "batch" /\ taken[r] = 1
      BY <1>0, <1>12 DEF GiveBack, Placed, Calls
    <2> QED
      BY <1>0, <1>1, <1>3, <1>4, <1>12, <2>1, <2>2 DEF GiveBack, Placed, Booked, histVars
  <1>13. CASE Publish(r)
    BY <1>0, <1>1, <1>3, <1>4, <1>13 DEF Publish, Placed, Booked, jobVars, histVars
  <1>14. CASE CallRaises(r)
    <2>1. faults' # 0
      BY <1>0, <1>14 DEF CallRaises, Exception
    <2>2. \/ Answer(r, "error")
          \/ Goto(r, "give_back") /\ Kind(r) = "builtin"
      BY <1>14 DEF CallRaises, Kind
    <2> QED
      BY <1>0, <1>1, <1>3, <1>4, <1>14, <2>1, <2>2
      DEF CallRaises, Placed, Booked, jobVars, histVars
  <1>15. CASE begin(r) \/ idempotency_begin(r)
    BY <1>0, <1>1, <1>3, <1>4, <1>15
    DEF begin, idempotency_begin, Placed, Booked, jobVars, histVars
  <1>16. CASE BatchCheck(r) \/ CompleteKey(r)
    BY <1>0, <1>1, <1>3, <1>4, <1>16
    DEF BatchCheck, CompleteKey, Placed, Booked, jobVars, histVars
  <1>17. CASE BatchUndo(r)
    <2>1. undone'[r] = undone[r] + 1
      BY <1>0, <1>17 DEF BatchUndo
    <2>2. /\ status' = status /\ settled' = settled /\ attempts' = attempts
          /\ taken' = taken /\ pc' = pc /\ answer' = answer
          /\ pc[r] = "undo" /\ answer[r] = "none"
          /\ faults' = faults \/ faults' # 0
      BY <1>0, <1>17 DEF BatchUndo, Exception, Placed
    <2>3. /\ charge'[j] # charge[j] =>
                charge[j] = "held" /\ charge'[j] = "refunded"
          /\ i = undone[r] + 1 => charge'[j] # "held" \/ j \in raised'
          /\ j \in raised => j \in raised'
      BY <1>0, <1>4, <1>17 DEF BatchUndo, Distribute
    <2> QED
      BY <1>0, <1>1, <1>4, <2>1, <2>2, <2>3 DEF Placed, Booked
  <1>18. CASE BatchRelease(r)
    BY <1>0, <1>1, <1>3, <1>4, <1>18 DEF BatchRelease, Placed, Booked, jobVars, histVars
  <1>19. CASE WithdrawDebit(r) \/ WithdrawTransfer(r)
    BY <1>0, <1>1, <1>3, <1>4, <1>19
    DEF WithdrawDebit, WithdrawTransfer, Placed, Booked, jobVars, histVars
  <1>20. CASE TransferFails(r) \/ DepositFails(r) \/ WithdrawRaises(r)
    BY <1>0, <1>1, <1>3, <1>4, <1>20
    DEF TransferFails, DepositFails, WithdrawRaises, Placed, Booked, jobVars, histVars
  <1>21. CASE ChargeRaises(r) \/ BatchRaises(r)
    BY <1>0, <1>1, <1>3, <1>4, <1>21
    DEF ChargeRaises, BatchRaises, Placed, Booked, jobVars, histVars
  <1>22. CASE Crash(r)
    BY <1>0, <1>1, <1>3, <1>4, <1>22 DEF Crash, Placed, Booked, jobVars, histVars
  <1> QED
    BY <1>5, <1>6, <1>7, <1>8, <1>9, <1>11, <1>12, <1>13, <1>14, <1>15, <1>16, <1>17,
       <1>18, <1>19, <1>20, <1>21, <1>22
    DEF Step

-----------------------------------------------------------------------------
(* The keys. *)

\* The four things that a step of a request can do to the row of its key: leave
\* it, take it, give it back or complete it.
LeavesKey(r) ==
    /\ row' = row
    /\ Keyed(r) /\ pc[r] = "start" => pc'[r] = "done" /\ ~Spends(r)'
    /\ Keyed(r) /\ pc[r] # "start" /\ pc'[r] = "done" => KeepsKey(r)'

TakesKey(r) ==
    /\ row' = Own(Scope(r), r)
    /\ row[Scope(r)].status = "none" \/ row[Scope(r)].stale
    /\ Keyed(r) /\ pc[r] = "start" /\ pc'[r] = "check" /\ ~Spends(r)'

FreesKey(r) ==
    /\ row' = Released(Scope(r))
    /\ Keyed(r) /\ pc[r] # "start" /\ pc'[r] = "done" /\ ~Spends(r)'

CompletesKey(r) ==
    /\ row' = Completed(Scope(r))
    /\ Keyed(r) /\ pc[r] # "start" /\ pc'[r] = "done"

LEMMA KeyMoves ==
    ASSUME Shape, AllPlaced, NEW r \in Requests, Step(r) \/ Crash(r)
    PROVE  /\ LeavesKey(r) \/ TakesKey(r) \/ FreesKey(r) \/ CompletesKey(r)
           /\ pc[r] # "done" /\ pc'[r] # "start"
  <1>0. /\ Kind(r) \in Kinds /\ Placed(r) /\ taken[r] \in Nat /\ debited[r] \in Nat
        /\ DOMAIN debited = Requests /\ Kind(r)' = Kind(r)
    BY ReqTyped, DomainsTyped, StepElsewhere DEF AllPlaced, Elsewhere, Kind
  <1>1. /\ \A l : Goto(r, l) => pc'[r] = l /\ answer'[r] = answer[r]
        /\ \A a : Answer(r, a) => pc'[r] = "done" /\ answer'[r] = a
    BY MoveLands
  <1>2. Kind(r) \in Calls => ~Keyed(r)
    BY DEF Calls, Keyed
  \* A request that frees its key, or failed to.
  <1>3. ASSUME GivesKeyBack(r), Keyed(r), pc[r] # "start", pc'[r] = "done", ~Spends(r)'
         PROVE  LeavesKey(r) \/ FreesKey(r)
    BY <1>3 DEF GivesKeyBack, LeavesKey, FreesKey, KeepsKey
  <1>4. CASE CallLookup(r) \/ CallWait(r) \/ CreateStart(r)
    BY <1>0, <1>1, <1>2, <1>4
    DEF CallLookup, CallWait, CreateStart, Placed, Keyed, Kind, LeavesKey
  <1>5. CASE ChargeCall(r) \/ ChargeRaises(r)
    BY <1>0, <1>1, <1>5 DEF ChargeCall, ChargeRaises, Placed, Keyed, Kind, LeavesKey
  <1>6. CASE create_job(r)
    BY <1>0, <1>1, <1>2, <1>6
    DEF create_job, AfterCreate, Placed, Keyed, Kind, LeavesKey
  <1>7. CASE CreateFails(r)
    BY <1>0, <1>1, <1>7 DEF CreateFails, Placed, Keyed, Kind, LeavesKey
  <1>8. CASE RunCall(r) \/ SettleCall(r) \/ GiveBack(r) \/ Publish(r) \/ CallRaises(r)
    BY <1>0, <1>1, <1>2, <1>8
    DEF RunCall, SettleCall, GiveBack, Publish, CallRaises, Placed, LeavesKey
  <1>9. CASE begin(r)
    <2>1. /\ Keyed(r) /\ Scope(r) = "hire_batch" /\ pc[r] = "start"
          /\ ~Spends(r)'
      BY <1>0, <1>9 DEF begin, Placed, Keyed, Kind, Scope, Spends, bankVars
    <2>2. CASE row["hire_batch"].status = "none" \/ row["hire_batch"].stale
      <3>1. row' = Own("hire_batch", r) /\ Goto(r, "check")
        BY <1>9, <2>2 DEF begin
      <3> QED
        BY <1>1, <2>1, <2>2, <3>1 DEF TakesKey
    <2>3. CASE ~(row["hire_batch"].status = "none" \/ row["hire_batch"].stale)
      <3>1. row' = row /\ (Answer(r, "conflict") \/ Answer(r, "replay"))
        BY <1>9, <2>3 DEF begin
      <3> QED
        BY <1>1, <2>1, <3>1 DEF LeavesKey
    <2> QED
      BY <2>2, <2>3
  <1>10. CASE idempotency_begin(r)
    <2>1. /\ Keyed(r) /\ Scope(r) = "wallets.withdraw" /\ pc[r] = "start"
          /\ ~Spends(r)'
      BY <1>0, <1>10 DEF idempotency_begin, Placed, Keyed, Kind, Scope, Spends, bankVars
    <2>2. \/ /\ row' = Own("wallets.withdraw", r) /\ Goto(r, "check")
             /\ row["wallets.withdraw"].status = "none" \/ row["wallets.withdraw"].stale
          \/ row' = row /\ (Answer(r, "conflict") \/ Answer(r, "replay"))
      BY <1>10 DEF idempotency_begin
    <2> QED
      BY <1>1, <2>1, <2>2 DEF LeavesKey, TakesKey
  <1>11. CASE BatchCheck(r)
    <2>1. Goto(r, "charge") \/ Answer(r, "refused") \/ Answer(r, "estimate")
      BY <1>11 DEF BatchCheck
    <2>2. /\ row' = row /\ taken' = taken /\ debited' = debited
          /\ pc[r] = "check" /\ taken[r] = 0 /\ debited[r] = 0
      BY <1>0, <1>11 DEF BatchCheck, Placed, bankVars
    <2> QED
      BY <1>1, <2>1, <2>2 DEF LeavesKey, KeepsKey
  <1>12. CASE BatchUndo(r) \/ BatchRaises(r)
    BY <1>0, <1>1, <1>12 DEF BatchUndo, BatchRaises, Placed, Kind, LeavesKey, KeepsKey
  <1>13. CASE BatchRelease(r)
    <2>1. GivesKeyBack(r) /\ Answer(r, "refunded") /\ Kind(r) = "batch" /\ pc[r] = "undo"
      BY <1>0, <1>13 DEF BatchRelease, Placed
    <2> QED
      BY <1>0, <1>1, <1>3, <2>1 DEF Keyed, Spends
  <1>14. CASE CompleteKey(r)
    <2>1. CASE row' = Completed(Scope(r)) /\ Answer(r, "ok")
      BY <1>0, <1>1, <1>14, <2>1 DEF CompleteKey, Placed, Keyed, CompletesKey
    <2>2. CASE row' = row /\ kept' = kept \cup {r}
      <3>1. pc[r] = "complete" /\ pc'[r] = "done"
        BY <1>1, <1>14 DEF CompleteKey
      <3> QED
        BY <2>2, <3>1 DEF LeavesKey, KeepsKey
    <2> QED
      BY <1>14, <2>1, <2>2 DEF CompleteKey
  <1>15. CASE WithdrawDebit(r)
    <2>1. Kind(r) = "withdraw" /\ pc[r] = "check"
      BY <1>15 DEF WithdrawDebit, Kind
    <2>2. CASE Goto(r, "transfer") /\ row' = row
      BY <1>1, <2>1, <2>2 DEF LeavesKey
    <2>3. CASE GivesKeyBack(r) /\ Answer(r, "refused") /\ debited' = debited
      <3>1. ~Spends(r)'
        BY <1>0, <2>1, <2>3 DEF Placed, Spends
      <3> QED
        BY <1>1, <1>3, <2>1, <2>3, <3>1 DEF Keyed
    <2> QED
      BY <1>15, <2>2, <2>3 DEF WithdrawDebit
  <1>16. CASE WithdrawTransfer(r)
    BY <1>0, <1>1, <1>16 DEF WithdrawTransfer, Placed, LeavesKey
  <1>17. CASE TransferFails(r)
    <2>1. GivesKeyBack(r) /\ Answer(r, "error") /\ Kind(r) = "withdraw" /\ pc[r] = "transfer"
      BY <1>0, <1>17 DEF TransferFails, Placed
    <2> QED
      BY <1>0, <1>1, <1>3, <2>1 DEF Keyed, Spends
  <1>18. CASE DepositFails(r) \/ WithdrawRaises(r)
    BY <1>0, <1>1, <1>18
    DEF DepositFails, WithdrawRaises, Placed, Keyed, Kind, Scope, Spends, FreesKey
  <1>19. CASE Crash(r)
    BY <1>0, <1>1, <1>19 DEF Crash, LeavesKey, KeepsKey
  <1> QED
    BY <1>4, <1>5, <1>6, <1>7, <1>8, <1>9, <1>10, <1>11, <1>12, <1>13, <1>14, <1>15, <1>16,
       <1>17, <1>18, <1>19
    DEF Step

\* What the rows are after each of the four.
LEMMA RowValues ==
    ASSUME Shape, NEW s \in Scopes, NEW r \in Requests
    PROVE  /\ \A u \in Scopes : u # s =>
                 Own(s, r)[u] = row[u] /\ Completed(s)[u] = row[u] /\ Released(s)[u] = row[u]
           /\ Own(s, r)[s] = [status |-> "in_progress", by |-> r, stale |-> FALSE]
           /\ Completed(s)[s].status # "in_progress"
           /\ Completed(s)[s].status = "none" <=> row[s].status = "none"
           /\ Completed(s)[s].by = row[s].by /\ Completed(s)[s].stale = row[s].stale
           /\ Released(s)[s] = IF row[s].status = "in_progress" THEN NoRow ELSE row[s]
  <1>1. row \in [Scopes -> Rows] /\ row[s] \in Rows
    BY DEF Shape
  <1>2. /\ [row EXCEPT ![s].status = "completed"][s].status = "completed"
        /\ [row EXCEPT ![s].status = "completed"][s].by = row[s].by
        /\ [row EXCEPT ![s].status = "completed"][s].stale = row[s].stale
    BY <1>1 DEF Rows
  <1> QED
    BY <1>1, <1>2 DEF Own, Completed, Released

LEMMA RowsOwnedStep ==
    ASSUME Shape, AllPlaced, RowsOwned, NEW r \in Requests, Step(r) \/ Crash(r)
    PROVE  RowsOwned'
  <1> SUFFICES ASSUME NEW s \in Scopes PROVE RowOwned(s)'
    BY DEF RowsOwned
  <1>1. Elsewhere(r) /\ RowOwned(s) /\ Scope(r) \in Scopes
    BY StepElsewhere DEF RowsOwned, Scope, Scopes
  <1>2. pc[r] # "done" /\ pc'[r] # "start"
    BY KeyMoves
  <1>3. Keyed(r) => Kind(r) = (IF Scope(r) = "hire_batch" THEN "batch" ELSE "withdraw")
    BY DEF Keyed, Scope, Kind
  <1>4. ASSUME row'[s] = row[s], row[s].by # r PROVE RowOwned(s)'
    BY <1>1, <1>4 DEF Elsewhere, RowOwned, KeepsKey, Kind
  <1>5. row[s].status # "none" /\ row[s].by = r => Keyed(r) /\ s = Scope(r) /\ pc[r] # "start"
    BY <1>1 DEF RowOwned, Keyed, Kind, Scope, Scopes
  <1>6. CASE LeavesKey(r)
    BY <1>1, <1>2, <1>4, <1>5, <1>6 DEF LeavesKey, Elsewhere, RowOwned, Kind
  <1>7. ASSUME Keyed(r), s # Scope(r), row'[s] = row[s] PROVE RowOwned(s)'
    BY <1>1, <1>4, <1>5, <1>7 DEF RowOwned
  <1>8. CASE TakesKey(r)
    <2>1. CASE s = Scope(r)
      <3>1. row'[s] = [status |-> "in_progress", by |-> r, stale |-> FALSE]
        BY <1>8, <2>1, RowValues DEF TakesKey
      <3> QED
        BY <1>1, <1>3, <1>8, <2>1, <3>1 DEF TakesKey, Elsewhere, RowOwned, Kind
    <2>2. CASE s # Scope(r)
      BY <1>1, <1>7, <1>8, <2>2, RowValues DEF TakesKey
    <2> QED
      BY <2>1, <2>2
  <1>9. CASE FreesKey(r)
    <2>1. CASE s = Scope(r)
      <3>1. row'[s] = IF row[s].status = "in_progress" THEN NoRow ELSE row[s]
        BY <1>9, <2>1, RowValues DEF FreesKey
      <3> QED
        BY <1>1, <1>2, <3>1 DEF Elsewhere, RowOwned, Kind, NoRow
    <2>2. CASE s # Scope(r)
      BY <1>1, <1>7, <1>9, <2>2, RowValues DEF FreesKey
    <2> QED
      BY <2>1, <2>2
  <1>10. CASE CompletesKey(r)
    <2>1. CASE s = Scope(r)
      <3>1. /\ row'[s].status # "in_progress"
            /\ row'[s].status = "none" <=> row[s].status = "none"
            /\ row'[s].by = row[s].by
        BY <1>10, <2>1, RowValues DEF CompletesKey
      <3> QED
        BY <1>1, <1>2, <3>1 DEF Elsewhere, RowOwned, Kind
    <2>2. CASE s # Scope(r)
      BY <1>1, <1>7, <1>10, <2>2, RowValues DEF CompletesKey
    <2> QED
      BY <2>1, <2>2
  <1> QED
    BY <1>6, <1>8, <1>9, <1>10, KeyMoves

\* While no row has aged, a request that takes the key finds it free, and one that
\* gives it back or completes it is the one that holds it.
LEMMA KeysHeldStep ==
    ASSUME Shape, AllPlaced, RowsOwned, KeysHeld, NEW r \in Requests, Step(r) \/ Crash(r)
    PROVE  KeysHeld'
  <1> SUFFICES ASSUME ageings' = 0
               PROVE  /\ \A s \in Scopes : ~row'[s].stale
                      /\ \A t \in Requests : KeyHeld(t)'
    BY DEF KeysHeld
  <1>0. /\ pc[r] # "done" /\ pc'[r] # "start" /\ Elsewhere(r)
        /\ \A t \in Requests : Scope(t) \in Scopes
    BY KeyMoves, StepElsewhere DEF Scope, Scopes
  <1>1. (\A s \in Scopes : ~row[s].stale) /\ \A t \in Requests : KeyHeld(t)
    BY <1>0 DEF KeysHeld, Elsewhere
  <1>2. ASSUME NEW t \in Requests
        PROVE  /\ Keyed(t)' = Keyed(t) /\ Scope(t)' = Scope(t)
               /\ t # r => Spends(t)' = Spends(t) /\ pc'[t] = pc[t]
    BY <1>0 DEF Elsewhere, Keyed, Kind, Scope, Spends
  <1>3. ASSUME NEW t \in Requests, t # r, row'[Scope(t)] = row[Scope(t)] PROVE KeyHeld(t)'
    BY <1>1, <1>2, <1>3 DEF KeyHeld
  <1>4. Spends(r)' => Keyed(r)
    BY <1>2 DEF Spends, Keyed, Kind
  <1>5. Keyed(r) /\ pc[r] # "start" =>
           row[Scope(r)].status = "in_progress" /\ row[Scope(r)].by = r
    BY <1>0, <1>1 DEF KeyHeld
  <1>6. CASE LeavesKey(r)
    <2>1. KeyHeld(r)'
      BY <1>0, <1>2, <1>4, <1>5, <1>6 DEF LeavesKey, KeyHeld
    <2> QED
      BY <1>1, <1>3, <1>6, <2>1 DEF LeavesKey
  \* No other request with the key is at work or has spent.
  <1>7. ASSUME NEW t \in Requests, t # r, Scope(t) = Scope(r),
               \/ row[Scope(r)].status = "none"
               \/ row[Scope(r)].by = r
        PROVE  KeyHeld(t)'
    BY <1>1, <1>2, <1>7 DEF KeyHeld
  <1>8. CASE TakesKey(r)
    <2>1. row'[Scope(r)] = [status |-> "in_progress", by |-> r, stale |-> FALSE]
      BY <1>0, <1>8, RowValues DEF TakesKey
    <2>2. \A u \in Scopes : u # Scope(r) => row'[u] = row[u]
      BY <1>0, <1>8, RowValues DEF TakesKey
    <2>3. row[Scope(r)].status = "none"
      BY <1>0, <1>1, <1>8 DEF TakesKey
    <2>4. KeyHeld(r)'
      BY <1>2, <1>8, <2>1 DEF TakesKey, KeyHeld
    <2>5. \A s \in Scopes : ~row'[s].stale
      BY <1>1, <2>1, <2>2
    <2> QED
      BY <1>0, <1>3, <1>7, <2>2, <2>3, <2>4, <2>5
  <1>9. CASE FreesKey(r)
    <2>1. row'[Scope(r)] = NoRow /\ \A u \in Scopes : u # Scope(r) => row'[u] = row[u]
      BY <1>0, <1>5, <1>9, RowValues DEF FreesKey
    <2>2. KeyHeld(r)'
      BY <1>9 DEF FreesKey, KeyHeld
    <2>3. \A s \in Scopes : ~row'[s].stale
      BY <1>1, <2>1 DEF NoRow
    <2> QED
      BY <1>0, <1>3, <1>5, <1>7, <1>9, <2>1, <2>2, <2>3 DEF FreesKey
  <1>10. CASE CompletesKey(r)
    <2>1. /\ row'[Scope(r)].status # "none" /\ row'[Scope(r)].by = r
          /\ row'[Scope(r)].stale = row[Scope(r)].stale
          /\ \A u \in Scopes : u # Scope(r) => row'[u] = row[u]
      BY <1>0, <1>5, <1>10, RowValues DEF CompletesKey
    <2>2. KeyHeld(r)'
      BY <1>2, <1>10, <2>1 DEF CompletesKey, KeyHeld
    <2>3. \A s \in Scopes : ~row'[s].stale
      BY <1>0, <1>1, <2>1
    <2> QED
      BY <1>0, <1>3, <1>5, <1>7, <1>10, <2>1, <2>2, <2>3 DEF CompletesKey
  <1> QED
    BY <1>6, <1>8, <1>9, <1>10, KeyMoves

-----------------------------------------------------------------------------
(* The units of the wallet. *)

LEMMA JobsFinite == IsFiniteSet(Jobs)
  <1>1. IsFiniteSet(1 .. BatchSize)
    BY FS_Interval, ConstantsTyped
  <1> QED
    BY <1>1, FS_Product, ConstantsTyped DEF Jobs

LEMMA SpentFinite ==
    IsFiniteSet(Spent) /\ Cardinality(Spent) \in Nat
    /\ IsFiniteSet(Withdrawn) /\ Cardinality(Withdrawn) \in Nat
  <1>1. Spent \subseteq Jobs /\ Withdrawn \subseteq Requests
    BY DEF Spent, Withdrawn
  <1>2. IsFiniteSet(Spent) /\ IsFiniteSet(Withdrawn)
    BY <1>1, FS_Subset, JobsFinite, ConstantsTyped
  <1> QED
    BY <1>2, FS_CardinalityType

\* A job whose charge moves in or out of Spent moves the count by one.
LEMMA SpentMoves ==
    ASSUME NEW j \in Jobs, \A k \in Jobs : k # j => charge'[k] = charge[k]
    PROVE  Cardinality(Spent') = Cardinality(Spent)
               + (IF j \in Spent' THEN 1 ELSE 0) - (IF j \in Spent THEN 1 ELSE 0)
  <1>0. IsFiniteSet(Spent) /\ Cardinality(Spent) \in Nat
    BY SpentFinite
  <1>1. CASE j \in Spent' /\ j \notin Spent
    <2>1. Spent' = Spent \cup {j}
      BY <1>1 DEF Spent
    <2> QED
      BY <1>0, <1>1, <2>1, FS_AddElement
  <1>2. CASE j \notin Spent' /\ j \in Spent
    <2>1. Spent' = Spent \ {j}
      BY <1>2 DEF Spent
    <2>2. Cardinality(Spent \ {j}) = Cardinality(Spent) - 1
      BY <1>0, <1>2, FS_RemoveElement
    <2> QED
      BY <1>0, <1>2, <2>1, <2>2
  <1>3. CASE j \in Spent' <=> j \in Spent
    <2>1. Spent' = Spent
      BY <1>3 DEF Spent
    <2> QED
      BY <1>0, <1>3, <2>1
  <1> QED
    BY <1>1, <1>2, <1>3

LEMMA WithdrawnMoves ==
    ASSUME NEW r \in Requests, \A t \in Requests : t # r => debited'[t] = debited[t]
    PROVE  Cardinality(Withdrawn') = Cardinality(Withdrawn)
               + (IF r \in Withdrawn' THEN 1 ELSE 0) - (IF r \in Withdrawn THEN 1 ELSE 0)
  <1>0. IsFiniteSet(Withdrawn) /\ Cardinality(Withdrawn) \in Nat
    BY SpentFinite
  <1>1. CASE r \in Withdrawn' /\ r \notin Withdrawn
    <2>1. Withdrawn' = Withdrawn \cup {r}
      BY <1>1 DEF Withdrawn
    <2> QED
      BY <1>0, <1>1, <2>1, FS_AddElement
  <1>2. CASE r \notin Withdrawn' /\ r \in Withdrawn
    <2>1. Withdrawn' = Withdrawn \ {r}
      BY <1>2 DEF Withdrawn
    <2>2. Cardinality(Withdrawn \ {r}) = Cardinality(Withdrawn) - 1
      BY <1>0, <1>2, FS_RemoveElement
    <2> QED
      BY <1>0, <1>2, <2>1, <2>2
  <1>3. CASE r \in Withdrawn' <=> r \in Withdrawn
    <2>1. Withdrawn' = Withdrawn
      BY <1>3 DEF Withdrawn
    <2> QED
      BY <1>0, <1>3, <2>1
  <1> QED
    BY <1>1, <1>2, <1>3

\* A payout leaves the wallet alone, a refund returns the unit of the charge.
LEMMA DistributeConserves ==
    ASSUME Shape, NEW j \in Jobs, NEW to \in {"paid", "refunded"}, Distribute(j, to)
    PROVE  funds' + Cardinality(Spent') = funds + Cardinality(Spent)
  <1>1. /\ \A k \in Jobs : k # j => charge'[k] = charge[k]
        /\ charge'[j] = IF charge[j] = "held" THEN to ELSE charge[j]
    BY DistributeTyped
  <1>2. funds \in Nat /\ Cardinality(Spent) \in Nat
    BY SpentFinite DEF Shape
  <1>3. Cardinality(Spent') = Cardinality(Spent)
               + (IF j \in Spent' THEN 1 ELSE 0) - (IF j \in Spent THEN 1 ELSE 0)
    BY <1>1, SpentMoves
  <1>4. funds' = IF charge[j] = "held" /\ to = "refunded" THEN funds + 1 ELSE funds
    BY DEF Distribute
  <1>5. /\ j \in Spent <=> charge[j] \in {"held", "paid"}
        /\ j \in Spent' <=> charge'[j] \in {"held", "paid"}
    BY DEF Spent
  <1> DEFINE n == Cardinality(Spent)  m == Cardinality(Spent')
  <1> HIDE DEF n, m
  <1>6. n \in Nat /\ m = n + (IF j \in Spent' THEN 1 ELSE 0) - (IF j \in Spent THEN 1 ELSE 0)
    BY <1>2, <1>3 DEF n, m
  <1>7. funds' + m = funds + n
    BY <1>1, <1>2, <1>4, <1>5, <1>6
  <1> QED
    BY <1>7 DEF n, m

LEMMA SettleConserves ==
    ASSUME Shape, NEW j \in Jobs, NEW to \in {"paid", "refunded"}, Settle(j, to)
    PROVE  funds' + Cardinality(Spent') = funds + Cardinality(Spent)
  <1>1. CASE settled[j]
    BY <1>1 DEF Settle, Spent
  <1>2. CASE ~settled[j]
    BY <1>2, DistributeConserves DEF Settle
  <1> QED
    BY <1>1, <1>2

\* What a step takes from the wallet is in a charge or withdrawn.
LEMMA UnitsStep ==
    ASSUME Shape, AllPlaced, AllBooked, UnitsConserved, NEW r \in Requests, Step(r) \/ Crash(r)
    PROVE  UnitsConserved'
  <1>0. /\ Cardinality(Spent) \in Nat /\ Cardinality(Withdrawn) \in Nat /\ funds \in Nat
        /\ Funds \in Nat /\ Placed(r) /\ taken[r] \in Nat /\ undone[r] \in Nat /\ BatchSize \in Nat
        /\ taken[r] <= BatchSize /\ DOMAIN charge = Jobs /\ DOMAIN debited = Requests
    BY SpentFinite, ConstantsTyped, DomainsTyped DEF AllPlaced, Shape
  <1>1. /\ charge' = charge => Spent' = Spent
        /\ debited' = debited => Withdrawn' = Withdrawn
    BY DEF Spent, Withdrawn
  <1>2. ASSUME debited' = debited,
               funds' + Cardinality(Spent') = funds + Cardinality(Spent)
        PROVE  UnitsConserved'
    <2> DEFINE n == Cardinality(Spent)  m == Cardinality(Spent')  w == Cardinality(Withdrawn)
    <2> HIDE DEF n, m, w
    <2>1. funds' + m = funds + n /\ funds + n + w = Funds
      BY <1>2 DEF n, m, w, UnitsConserved
    <2>2. funds' + m + w = Funds
      BY <2>1
    <2> QED
      BY <1>1, <1>2, <2>2 DEF m, w, UnitsConserved
  <1>3. ASSUME charge' = charge, debited' = debited, funds' = funds PROVE UnitsConserved'
    BY <1>1, <1>3 DEF UnitsConserved
  <1>4. CASE CallLookup(r) \/ CallWait(r) \/ CreateStart(r)
    BY <1>3, <1>4 DEF CallLookup, CallWait, CreateStart, jobVars, bankVars
  <1>5. CASE ChargeCall(r)
    <2>1. CASE funds > 0
      <3> DEFINE j == <<r, taken[r] + 1>>
      <3>1. j \in Jobs /\ Booked(r, taken[r] + 1)
        BY <1>0, <1>5, JobsTyped DEF ChargeCall, Placed, AllBooked
      <3>2. /\ funds' = funds - 1 /\ charge'[j] = "held" /\ debited' = debited
            /\ \A k \in Jobs : k # j => charge'[k] = charge[k]
        BY <1>0, <1>5, <2>1, <3>1 DEF ChargeCall, bankVars
      <3>3. charge[j] = "none"
        BY <1>0, <3>1 DEF Booked
      <3>4. j \in Spent' /\ j \notin Spent
        BY <3>1, <3>2, <3>3 DEF Spent
      <3>5. Cardinality(Spent') = Cardinality(Spent) + 1 - 0
        BY <3>1, <3>2, <3>4, SpentMoves
      <3> QED
        BY <1>0, <1>2, <3>2, <3>5
    <2>2. CASE ~(funds > 0)
      BY <1>3, <1>5, <2>2 DEF ChargeCall, bankVars
    <2> QED
      BY <2>1, <2>2
  <1>6. CASE create_job(r) \/ RunCall(r) \/ ChargeRaises(r)
    BY <1>3, <1>6 DEF create_job, RunCall, ChargeRaises, jobVars, bankVars
  <1>7. CASE CreateFails(r)
    <2>1. Job(r) \in Jobs /\ debited' = debited
      BY <1>0, <1>7, JobTyped DEF CreateFails, Placed, bankVars
    <2>2. \/ charge' = charge /\ funds' = funds
          \/ Distribute(Job(r), "refunded")
      BY <1>7 DEF CreateFails
    <2> QED
      BY <1>2, <1>3, <2>1, <2>2, DistributeConserves
  <1>8. CASE SettleCall(r) \/ GiveBack(r)
    <2>1. Job(r) \in Jobs /\ debited' = debited
      BY <1>0, <1>8, JobTyped DEF SettleCall, GiveBack, Placed, bankVars
    <2>2. Settle(Job(r), "paid") \/ Settle(Job(r), "refunded")
      BY <1>8 DEF SettleCall, GiveBack
    <2> QED
      BY <1>2, <2>1, <2>2, SettleConserves
  <1>9. CASE Publish(r) \/ CallRaises(r)
    BY <1>3, <1>9 DEF Publish, CallRaises, jobVars, bankVars
  <1>10. CASE begin(r) \/ idempotency_begin(r)
    BY <1>3, <1>10 DEF begin, idempotency_begin, jobVars, bankVars
  <1>11. CASE BatchCheck(r) \/ BatchRelease(r) \/ CompleteKey(r) \/ BatchRaises(r)
    BY <1>3, <1>11 DEF BatchCheck, BatchRelease, CompleteKey, BatchRaises, jobVars, bankVars
  <1>12. CASE BatchUndo(r)
    <2>1. undone[r] + 1 \in 1 .. BatchSize
      BY <1>0, <1>12 DEF BatchUndo
    <2>2. <<r, undone[r] + 1>> \in Jobs /\ debited' = debited
      BY <1>12, <2>1, JobsTyped DEF BatchUndo, bankVars
    <2>3. CASE Distribute(<<r, undone[r] + 1>>, "refunded")
      BY <1>2, <2>2, <2>3, DistributeConserves
    <2>4. CASE charge' = charge /\ funds' = funds
      BY <1>3, <2>2, <2>4
    <2> QED
      BY <1>12, <2>3, <2>4 DEF BatchUndo
  <1>13. ASSUME charge' = charge, NEW d \in {0, 1}, debited' = [debited EXCEPT ![r] = d],
                debited[r] # d, funds' = funds + 1 - 2 * d, debited[r] \in {0, 1}
         PROVE  UnitsConserved'
    <2>1. /\ \A t \in Requests : t # r => debited'[t] = debited[t]
          /\ r \in Withdrawn' <=> d = 1
          /\ r \in Withdrawn <=> d = 0
      BY <1>0, <1>13 DEF Withdrawn
    <2>2. Cardinality(Withdrawn') = Cardinality(Withdrawn) + d - (1 - d)
      BY <1>13, <2>1, WithdrawnMoves
    <2> DEFINE n == Cardinality(Spent)  w == Cardinality(Withdrawn)  v == Cardinality(Withdrawn')
    <2> HIDE DEF n, w, v
    <2>3. /\ n \in Nat /\ w \in Nat /\ v = w + d - (1 - d) /\ funds + n + w = Funds
      BY <1>0, <2>2 DEF n, w, v, UnitsConserved
    <2>4. funds' + n + v = Funds
      BY <1>0, <1>13, <2>3
    <2> QED
      BY <1>1, <1>13, <2>4 DEF n, v, UnitsConserved
  <1>14. CASE WithdrawDebit(r)
    <2>1. CASE UNCHANGED <<funds, debited>>
      BY <1>3, <1>14, <2>1 DEF WithdrawDebit, jobVars
    <2>2. CASE funds' = funds - 1 /\ debited' = [debited EXCEPT ![r] = 1]
      <3>1. debited[r] = 0 /\ funds' = funds + 1 - 2 * 1 /\ charge' = charge
        BY <1>0, <1>14, <2>2 DEF WithdrawDebit, Placed, jobVars
      <3> QED
        BY <1>13, <2>2, <3>1
    <2> QED
      BY <1>14, <2>1, <2>2 DEF WithdrawDebit
  <1>15. CASE TransferFails(r)
    <2>1. /\ debited[r] = 1 /\ funds' = funds + 1 - 2 * 0 /\ charge' = charge
          /\ debited' = [debited EXCEPT ![r] = 0]
      BY <1>0, <1>15 DEF TransferFails, Placed, jobVars
    <2> QED
      BY <1>13, <2>1
  <1>16. CASE WithdrawTransfer(r) \/ DepositFails(r) \/ WithdrawRaises(r) \/ Crash(r)
    BY <1>3, <1>16
    DEF WithdrawTransfer, DepositFails, WithdrawRaises, Crash, jobVars, bankVars
  <1> QED
    BY <1>4, <1>5, <1>6, <1>7, <1>8, <1>9, <1>10, <1>11, <1>12, <1>14, <1>15, <1>16
    DEF Step

-----------------------------------------------------------------------------
(* The workers, under the steps of requests and under their own. *)

LEMMA AtWorkStep ==
    ASSUME Shape, AllPlaced, AllBooked, AtWork, NEW r \in Requests, Step(r) \/ Crash(r)
    PROVE  AtWork'
  <1>1. Elsewhere(r) /\ AllBooked'
    BY StepElsewhere, BookedStep
  <1>2. taken'[r] = taken[r] \/ (taken'[r] = taken[r] + 1)
    <2>1. CASE ChargeCall(r)
      BY <2>1, DomainsTyped DEF ChargeCall
    <2>2. CASE ~ChargeCall(r)
      BY <2>2
      DEF Step, CallLookup, CallWait, CreateStart, create_job, ChargeRaises, CreateFails,
          RunCall, SettleCall, GiveBack, Publish, CallRaises, begin, idempotency_begin,
          BatchCheck, BatchUndo, BatchRelease, CompleteKey, BatchRaises, WithdrawDebit,
          WithdrawTransfer, TransferFails, DepositFails, WithdrawRaises, Crash
    <2> QED
      BY <2>1, <2>2
  <1>3. ASSUME NEW j \in Jobs, charge[j] # "none" PROVE charge'[j] # "none"
    <2>1. CASE j[1] # r
      BY <1>1, <1>3, <2>1 DEF Elsewhere
    <2>2. CASE j[1] = r
      <3>1. j = <<r, j[2]>> /\ j[2] \in 1 .. BatchSize /\ taken[r] \in Nat
        BY <2>2, JobsTyped, DomainsTyped
      <3>2. Booked(r, j[2]) /\ Booked(r, j[2])'
        BY <1>1, <3>1 DEF AllBooked
      <3> QED
        BY <1>2, <1>3, <3>1, <3>2 DEF Booked
    <2> QED
      BY <2>1, <2>2
  <1> QED
    BY <1>1, <1>3 DEF Elsewhere, AtWork

\* What no worker touches.
LEMMA WorkElsewhere ==
    ASSUME NEW w \in Workers, Work(w)
    PROVE  /\ req' = req /\ cache' = cache /\ inflight' = inflight /\ replay' = replay
           /\ row' = row /\ debited' = debited /\ transfers' = transfers /\ taken' = taken
           /\ undone' = undone /\ answer' = answer /\ pc' = pc /\ faults' = faults
           /\ ageings' = ageings /\ raised' = raised /\ kept' = kept
  BY DEF Work, WorkerClaim, WorkerRuns, WorkerSettles, cacheVars, bankVars, histVars

LEMMA WorkerMoves ==
    ASSUME Shape, NEW w \in Workers, NEW l \in {"work", "settle", "give_back", "idle"},
           WorkerGoto(w, l), wjob[w] \in Jobs
    PROVE  /\ wpc' \in [Workers -> {"idle", "work", "settle", "give_back"}]
           /\ wjob' \in [Workers -> Jobs \cup {NoJob}]
           /\ wpc'[w] = l /\ (l # "idle" => wjob'[w] = wjob[w])
           /\ \A v \in Workers : v # w => wpc'[v] = wpc[v] /\ wjob'[v] = wjob[v]
  BY DEF WorkerGoto, Shape

\* A worker claims one job, with an attempt to spare.
LEMMA ClaimHolds ==
    ASSUME IInv, NEW w \in Workers, NEW j \in Jobs, WorkerClaim(w, j)
    PROVE  Shape' /\ AllBooked' /\ AtWork' /\ UnitsConserved'
  <1>0. /\ Shape /\ AllBooked /\ AtWork /\ UnitsConserved
        /\ MaxAttempts \in Nat \ {0} /\ attempts[j] \in Nat
        /\ DOMAIN attempts = Jobs /\ DOMAIN status = Jobs
        /\ DOMAIN wpc = Workers /\ DOMAIN wjob = Workers
        /\ req[j[1]].max_attempts \in 1 .. MaxAttempts
    BY ConstantsTyped, DomainsTyped, JobsTyped, ReqTyped DEF IInv
  <1>1. charge[j] # "none"
    <2>1. Booked(j[1], j[2]) /\ j = <<j[1], j[2]>>
      BY <1>0, JobsTyped DEF AllBooked
    <2> QED
      BY <2>1 DEF Booked, WorkerClaim
  <1>2. attempts[j] + 1 \in 0 .. MaxAttempts
    BY <1>0 DEF WorkerClaim, Limit
  <1>3. /\ attempts' \in [Jobs -> 0 .. MaxAttempts]
        /\ status' \in [Jobs -> {"none", "pending", "running", "complete", "failed"}]
        /\ wpc' \in [Workers -> {"idle", "work", "settle", "give_back"}]
        /\ wjob' \in [Workers -> Jobs \cup {NoJob}]
    BY <1>0, <1>2 DEF WorkerClaim, Shape
  <1>4. Shape'
    BY <1>0, <1>3 DEF WorkerClaim, Shape, cacheVars, bankVars, histVars
  <1>5. /\ attempts'[j] = attempts[j] + 1
        /\ \A k \in Jobs : k # j => attempts'[k] = attempts[k] /\ status'[k] = status[k]
        /\ wpc'[w] = "work" /\ wjob'[w] = j
        /\ \A v \in Workers : v # w => wpc'[v] = wpc[v] /\ wjob'[v] = wjob[v]
    BY <1>0 DEF WorkerClaim
  <1>6. charge' = charge /\ settled' = settled /\ taken' = taken /\ undone' = undone
        /\ answer' = answer /\ pc' = pc /\ faults' = faults /\ funds' = funds
        /\ debited' = debited /\ req' = req /\ raised' = raised
    BY DEF WorkerClaim, bankVars, histVars
  <1>7. ASSUME NEW r \in Requests, NEW i \in 1 .. BatchSize PROVE Booked(r, i)'
    <2>1. <<r, i>> \in Jobs /\ Booked(r, i)
      BY <1>0, JobsTyped DEF AllBooked
    <2>2. CASE <<r, i>> = j
      BY <1>0, <1>1, <1>5, <1>6, <2>1, <2>2 DEF Booked, Kind
    <2>3. CASE <<r, i>> # j
      BY <1>5, <1>6, <2>1, <2>3 DEF Booked, Kind
    <2> QED
      BY <2>2, <2>3
  <1>8. AtWork'
    <2>1. ASSUME NEW k \in Jobs, attempts[k] > 0 PROVE attempts'[k] > 0
      BY <1>0, <1>5, <2>1
    <2> QED
      BY <1>0, <1>1, <1>5, <1>6, <2>1 DEF AtWork
  <1>9. UnitsConserved'
    BY <1>0, <1>6 DEF UnitsConserved, Spent, Withdrawn
  <1> QED
    BY <1>4, <1>7, <1>8, <1>9 DEF AllBooked

\* A worker runs the job it has claimed, which was charged.
LEMMA RunHolds ==
    ASSUME IInv, NEW w \in Workers, WorkerRuns(w)
    PROVE  Shape' /\ AllBooked' /\ AtWork' /\ UnitsConserved'
  <1> DEFINE j == wjob[w]
  <1>0. /\ Shape /\ AllBooked /\ AtWork /\ UnitsConserved /\ DOMAIN status = Jobs
        /\ j \in Jobs /\ charge[j] # "none"
    BY DomainsTyped DEF IInv, AtWork, WorkerRuns
  <1>1. \E l \in {"work", "settle", "give_back", "idle"} : WorkerGoto(w, l)
    BY DEF WorkerRuns
  <1>2. /\ wpc' \in [Workers -> {"idle", "work", "settle", "give_back"}]
        /\ wjob' \in [Workers -> Jobs \cup {NoJob}]
        /\ wpc'[w] # "idle" => wjob'[w] = wjob[w]
        /\ \A v \in Workers : v # w => wpc'[v] = wpc[v] /\ wjob'[v] = wjob[v]
    BY <1>0, <1>1, WorkerMoves
  <1>3. /\ status' \in [Jobs -> {"none", "pending", "running", "complete", "failed"}]
        /\ \A k \in Jobs : k # j => status'[k] = status[k]
    <2>1. CASE update_job_status(j, "complete") \/ update_job_status(j, "failed")
      BY <1>0, <2>1, StatusTyped
    <2>2. CASE status' = [status EXCEPT ![j] = "pending"]
      BY <1>0, <2>2 DEF Shape
    <2> QED
      BY <2>1, <2>2 DEF WorkerRuns
  <1>4. charge' = charge /\ settled' = settled /\ taken' = taken /\ undone' = undone
        /\ answer' = answer /\ pc' = pc /\ faults' = faults /\ funds' = funds
        /\ debited' = debited /\ attempts' = attempts /\ req' = req
        /\ raised' = raised
    BY DEF WorkerRuns, bankVars, histVars
  <1>5. Shape'
    BY <1>0, <1>2, <1>3, <1>4 DEF WorkerRuns, Shape, cacheVars, bankVars, histVars
  <1>6. ASSUME NEW r \in Requests, NEW i \in 1 .. BatchSize PROVE Booked(r, i)'
    <2>1. <<r, i>> \in Jobs /\ Booked(r, i)
      BY <1>0, JobsTyped DEF AllBooked
    <2> QED
      BY <1>0, <1>3, <1>4, <2>1 DEF Booked, Kind
  <1>7. AtWork'
    BY <1>0, <1>2, <1>4 DEF AtWork, WorkerRuns
  <1>8. UnitsConserved'
    BY <1>0, <1>4 DEF UnitsConserved, Spent, Withdrawn
  <1> QED
    BY <1>5, <1>6, <1>7, <1>8 DEF AllBooked

\* A worker pays or refunds the charge of its job, unless that was done.
LEMMA SettleHolds ==
    ASSUME IInv, NEW w \in Workers, WorkerSettles(w)
    PROVE  Shape' /\ AllBooked' /\ AtWork' /\ UnitsConserved'
  <1> DEFINE j == wjob[w]
  <1>0. /\ Shape /\ AllBooked /\ AtWork /\ UnitsConserved
        /\ j \in Jobs /\ charge[j] # "none" /\ attempts[j] > 0 /\ attempts[j] \in Nat
        /\ charge[j] \in {"none", "held", "paid", "refunded"}
    BY DomainsTyped DEF IInv, AtWork, WorkerSettles, Shape
  <1>1. PICK to \in {"paid", "refunded"} : Settle(j, to)
    BY DEF WorkerSettles
  <1>2. /\ wpc' \in [Workers -> {"idle", "work", "settle", "give_back"}]
        /\ wjob' \in [Workers -> Jobs \cup {NoJob}] /\ wpc'[w] = "idle"
        /\ \A v \in Workers : v # w => wpc'[v] = wpc[v] /\ wjob'[v] = wjob[v]
    BY <1>0, WorkerMoves DEF WorkerSettles
  <1>3. /\ charge' \in [Jobs -> {"none", "held", "paid", "refunded"}] /\ funds' \in Nat
        /\ settled' \in [Jobs -> BOOLEAN]
        /\ \A k \in Jobs : k # j => charge'[k] = charge[k] /\ settled'[k] = settled[k]
        /\ charge'[j] = IF charge[j] = "held" /\ ~settled[j] THEN to ELSE charge[j]
    BY <1>0, <1>1, SettleTyped
  <1>4. status' = status /\ taken' = taken /\ undone' = undone /\ answer' = answer
        /\ pc' = pc /\ faults' = faults /\ debited' = debited /\ attempts' = attempts
        /\ req' = req /\ raised' = raised
    BY DEF WorkerSettles, bankVars, histVars
  <1>5. Shape'
    BY <1>0, <1>2, <1>3, <1>4 DEF WorkerSettles, Shape, cacheVars, bankVars, histVars
  <1>6. ASSUME NEW r \in Requests, NEW i \in 1 .. BatchSize PROVE Booked(r, i)'
    <2>1. <<r, i>> \in Jobs /\ Booked(r, i)
      BY <1>0, JobsTyped DEF AllBooked
    <2>2. CASE <<r, i>> = j
      BY <1>0, <1>3, <1>4, <2>1, <2>2 DEF Booked, Kind
    <2>3. CASE <<r, i>> # j
      BY <1>3, <1>4, <2>1, <2>3 DEF Booked, Kind
    <2> QED
      BY <2>2, <2>3
  <1>7. AtWork'
    BY <1>0, <1>1, <1>2, <1>3, <1>4 DEF AtWork
  <1>8. UnitsConserved'
    <2>1. funds' + Cardinality(Spent') = funds + Cardinality(Spent)
      BY <1>0, <1>1, SettleConserves
    <2>2. Withdrawn' = Withdrawn
      BY <1>4 DEF Withdrawn
    <2> DEFINE n == Cardinality(Spent)  m == Cardinality(Spent')  u == Cardinality(Withdrawn)
    <2> HIDE DEF n, m, u
    <2>3. funds' + m = funds + n /\ funds + n + u = Funds
      BY <1>0, <2>1 DEF n, m, u, UnitsConserved
    <2>4. funds' + m + u = Funds
      BY <2>3
    <2> QED
      BY <2>2, <2>4 DEF m, u, UnitsConserved
  <1> QED
    BY <1>5, <1>6, <1>7, <1>8 DEF AllBooked

\* Requests, rows and keys are out of the workers' reach.
LEMMA WorkHolds ==
    ASSUME IInv, NEW w \in Workers, Work(w)
    PROVE  IInv'
  <1>1. Shape' /\ AllBooked' /\ AtWork' /\ UnitsConserved'
    BY ClaimHolds, RunHolds, SettleHolds DEF Work
  <1>2. /\ req' = req /\ row' = row /\ debited' = debited /\ taken' = taken
        /\ undone' = undone /\ answer' = answer /\ pc' = pc /\ ageings' = ageings
        /\ kept' = kept
    BY WorkElsewhere
  <1>3. AllPlaced'
    BY <1>2 DEF IInv, AllPlaced, Placed, Kind
  <1>4. RowsOwned'
    BY <1>2 DEF IInv, RowsOwned, RowOwned, KeepsKey, Kind
  <1>5. KeysHeld'
    BY <1>2 DEF IInv, KeysHeld, KeyHeld, Keyed, Kind, Spends, Scope
  <1> QED
    BY <1>1, <1>3, <1>4, <1>5 DEF IInv

LEMMA AgeHolds ==
    ASSUME IInv, NEW s \in Scopes, RowAges(s)
    PROVE  IInv'
  <1>0. Shape /\ ageings \in Nat /\ MaxAgeings \in Nat
    BY ConstantsTyped, DomainsTyped DEF IInv
  <1>1. row' = [row EXCEPT ![s].stale = TRUE] /\ ageings' = ageings + 1
        /\ ageings' \in 0 .. MaxAgeings
    BY <1>0 DEF RowAges
  <1>2. UNCHANGED <<req, funds, jobVars, cacheVars, bankVars, taken, undone, answer, pc,
                    workerVars, faults, histVars>>
    BY DEF RowAges
  <1>3. row' \in [Scopes -> Rows]
    <2>1. PICK r : r \in Requests
      BY <1>0 DEF IInv, RowsOwned, RowOwned, RowAges
    <2> QED
      BY <1>0, <1>1, <2>1, RowTyped
  <1>4. Shape'
    BY <1>0, <1>1, <1>2, <1>3 DEF Shape, jobVars, cacheVars, bankVars, workerVars, histVars
  <1>5. AllPlaced'
    BY <1>2 DEF IInv, AllPlaced, Placed, Kind, bankVars
  <1>6. AllBooked'
    BY <1>2 DEF IInv, AllBooked, Booked, Kind, jobVars, histVars
  <1>7. AtWork'
    BY <1>2 DEF IInv, AtWork, jobVars, workerVars
  <1>8. RowsOwned'
    <2>1. ASSUME NEW u \in Scopes
          PROVE  row'[u].status = row[u].status /\ row'[u].by = row[u].by
      <3>1. row[s] \in Rows /\ DOMAIN row = Scopes
        BY <1>0 DEF Shape
      <3>2. row'[u] = IF u = s THEN [row[s] EXCEPT !.stale = TRUE] ELSE row[u]
        BY <1>1, <3>1
      <3> QED
        BY <3>1, <3>2 DEF Rows
    <2> QED
      BY <1>2, <2>1 DEF IInv, RowsOwned, RowOwned, KeepsKey, Kind, bankVars, histVars
  <1>9. KeysHeld'
    BY <1>0, <1>1 DEF KeysHeld
  <1>10. UnitsConserved'
    BY <1>2 DEF IInv, UnitsConserved, Spent, Withdrawn, jobVars, bankVars
  <1> QED
    BY <1>4, <1>5, <1>6, <1>7, <1>8, <1>9, <1>10 DEF IInv

LEMMA ExpiryHolds ==
    ASSUME IInv, CacheExpires
    PROVE  IInv'
  <1>1. UNCHANGED <<req, funds, jobVars, inflight, row, bankVars, taken, undone, answer, pc,
                    workerVars, faults, ageings, histVars>>
    BY DEF CacheExpires
  <1>2. Shape'
    BY <1>1 DEF IInv, CacheExpires, Shape, jobVars, bankVars, workerVars, histVars
  <1>3. AllPlaced' /\ RowsOwned'
    BY <1>1
    DEF IInv, AllPlaced, Placed, RowsOwned, RowOwned, KeepsKey, Kind, bankVars, histVars
  <1>4. AllBooked' /\ AtWork'
    BY <1>1 DEF IInv, AllBooked, Booked, AtWork, Kind, jobVars, workerVars, histVars
  <1>5. KeysHeld'
    BY <1>1 DEF IInv, KeysHeld, KeyHeld, Keyed, Kind, Spends, Scope, bankVars
  <1>6. UnitsConserved'
    BY <1>1 DEF IInv, UnitsConserved, Spent, Withdrawn, jobVars, bankVars
  <1> QED
    BY <1>2, <1>3, <1>4, <1>5, <1>6 DEF IInv

-----------------------------------------------------------------------------
(* The invariant. *)

LEMMA InitHolds == Init => IInv
  <1> SUFFICES ASSUME Init PROVE IInv
    OBVIOUS
  <1>0. NoRow \in Rows
    BY DEF NoRow, Rows
  <1>1. Shape
    BY <1>0, ConstantsTyped DEF Init, Shape, Places, Answers
  <1>2. AllPlaced
    BY <1>0, ConstantsTyped DEF Init, AllPlaced, Placed
  <1>3. AllBooked
    <2>1. ASSUME NEW r \in Requests, NEW i \in 1 .. BatchSize PROVE Booked(r, i)
      <3>1. <<r, i>> \in Jobs /\ i > 0
        BY JobsTyped
      <3> QED
        BY <3>1 DEF Init, Booked
    <2> QED
      BY <2>1 DEF AllBooked
  <1>4. AtWork
    BY DEF Init, AtWork
  <1>5. RowsOwned
    BY DEF Init, RowsOwned, RowOwned, NoRow
  <1>6. KeysHeld
    BY DEF Init, KeysHeld, KeyHeld, Spends, NoRow
  <1>7. UnitsConserved
    <2>1. Spent = {} /\ Withdrawn = {}
      BY DEF Init, Spent, Withdrawn
    <2>2. Cardinality({}) = 0
      BY FS_EmptySet
    <2> QED
      BY <2>1, <2>2, ConstantsTyped DEF Init, UnitsConserved
  <1> QED
    BY <1>1, <1>2, <1>3, <1>4, <1>5, <1>6, <1>7 DEF IInv

LEMMA StepHolds == IInv /\ [Next]_vars => IInv'
  <1> SUFFICES ASSUME IInv, [Next]_vars PROVE IInv'
    OBVIOUS
  <1>1. ASSUME NEW r \in Requests, Step(r) \/ Crash(r) PROVE IInv'
    BY <1>1, ShapeStep, PlacedStep, BookedStep, AtWorkStep, RowsOwnedStep, KeysHeldStep,
       UnitsStep
    DEF IInv
  <1>2. ASSUME UNCHANGED vars PROVE IInv'
    <2>1. Shape' /\ AllPlaced' /\ RowsOwned'
      BY <1>2 DEF IInv, Shape, AllPlaced, Placed, RowsOwned, RowOwned, KeepsKey, Kind, vars,
                  jobVars, cacheVars, bankVars, workerVars, histVars
    <2>2. AllBooked' /\ AtWork'
      BY <1>2 DEF IInv, AllBooked, Booked, AtWork, Kind, vars, jobVars, workerVars, histVars
    <2>3. KeysHeld'
      BY <1>2 DEF IInv, KeysHeld, KeyHeld, Keyed, Kind, Spends, Scope, vars, bankVars
    <2>4. UnitsConserved'
      BY <1>2 DEF IInv, UnitsConserved, Spent, Withdrawn, vars, jobVars, bankVars
    <2> QED
      BY <2>1, <2>2, <2>3, <2>4 DEF IInv
  <1> QED
    BY <1>1, <1>2, WorkHolds, AgeHolds, ExpiryHolds DEF Next

LEMMA IInvAlways == Spec => []IInv
  BY InitHolds, StepHolds, PTL DEF Spec

\* The wallet never goes below zero nor above what was put on it, and every other
\* variable keeps its type.
THEOREM TypeCorrect == Spec => []TypeOK
  <1>1. ASSUME IInv PROVE TypeOK
    <2>1. Shape /\ funds \in Nat /\ Funds \in Nat /\ Cardinality(Spent) \in Nat
          /\ Cardinality(Withdrawn) \in Nat
      BY <1>1, SpentFinite, ConstantsTyped DEF IInv, Shape
    <2> DEFINE n == Cardinality(Spent)  u == Cardinality(Withdrawn)
    <2> HIDE DEF n, u
    <2>2. n \in Nat /\ u \in Nat /\ funds + n + u = Funds
      BY <1>1, <2>1 DEF n, u, IInv, UnitsConserved
    <2>3. funds \in 0 .. Funds
      BY <2>1, <2>2
    <2> QED
      BY <2>1, <2>3 DEF TypeOK, Shape, Rows, Places, Answers
  <1> QED
    BY <1>1, IInvAlways, PTL

\* What leaves the wallet through pre_call_charge or a withdrawal is in a charge that
\* was not refunded or in a withdrawal that was not deposited again, whether or not the
\* bank made the transfer, in every interleaving of requests, workers, exceptions and
\* crashes.
THEOREM UnitsConservedAlways == Spec => []UnitsConserved
  BY IInvAlways, PTL DEF IInv

\* A request that answers that its charges were refunded keeps none of them but those
\* whose refund raised in the loop of jobs_batch_create, those a worker earned, and that
\* of a built-in agent's call that had been settled before its handler met an exception.
THEOREM RefundedKeepsNothingHolds == Spec => []RefundedKeepsNothing
  <1>1. ASSUME IInv PROVE RefundedKeepsNothing
    <2> SUFFICES ASSUME NEW r \in Requests, answer[r] = "refunded",
                        NEW i \in 1 .. taken[r]
                 PROVE  \/ charge[<<r, i>>] = "refunded"
                        \/ <<r, i>> \in raised
                        \/ /\ charge[<<r, i>>] = "paid"
                           /\ \/ attempts[<<r, i>>] > 0
                              \/ Kind(r) = "builtin" /\ faults > 0
      BY DEF RefundedKeepsNothing, Kind
    <2>1. Shape /\ AllBooked
      BY <1>1 DEF IInv
    <2>2. taken[r] \in 0 .. BatchSize /\ BatchSize \in Nat
      BY <2>1, ConstantsTyped DEF Shape
    <2>3. i \in 1 .. BatchSize /\ i <= taken[r]
      BY <2>2
    <2>4. <<r, i>> \in Jobs /\ Booked(r, i) /\ faults \in Nat
      BY <2>1, <2>3, JobsTyped, DomainsTyped DEF AllBooked
    <2>5. attempts[<<r, i>>] \in Nat
          /\ charge[<<r, i>>] \in {"none", "held", "paid", "refunded"}
      BY <2>1, <2>4, DomainsTyped DEF Shape
    <2> QED
      BY <2>2, <2>3, <2>4, <2>5 DEF Booked
  <1> QED
    BY <1>1, IInvAlways, PTL

\* As long as no row of idempotency_requests outlives its TTL, two batches or two
\* withdrawals with one key never both keep what they took.
THEOREM KeySpendsOnceHolds == Spec => []KeySpendsOnce
  <1>1. ASSUME IInv PROVE KeySpendsOnce
    <2> SUFFICES ASSUME ageings = 0, NEW q \in Requests, NEW r \in Requests,
                        Spends(q), Spends(r), req[q].kind = req[r].kind
                 PROVE  q = r
      BY DEF KeySpendsOnce, Spends, Kind
    <2>1. KeyHeld(q) /\ KeyHeld(r)
      BY <1>1 DEF IInv, KeysHeld
    <2>2. Scope(q) = Scope(r)
      BY DEF Scope
    <2> QED
      BY <2>1, <2>2 DEF KeyHeld
  <1> QED
    BY <1>1, IInvAlways, PTL

\* A key is left in progress by a finished request only when the request died, could not
\* write to the row, met an exception behind the last job of its batch, or was refused or
\* answered with an estimate before it took money.
THEOREM KeyGivenBackHolds == Spec => []KeyGivenBack
  <1>1. ASSUME IInv PROVE KeyGivenBack
    BY <1>1 DEF IInv, RowsOwned, RowOwned, KeepsKey, Kind, KeyGivenBack
  <1> QED
    BY <1>1, IInvAlways, PTL
=============================================================================
