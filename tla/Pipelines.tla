------------------------------ MODULE Pipelines ------------------------------
(***************************************************************************)
(* Pipelines: a definition is a graph of nodes, each an agent; a run calls *)
(* the agents one after the other in topological order, each call charged, *)
(* run and settled by the thread of the run itself.                        *)
(*                                                                         *)
(* One run of a graph on the nodes.  An action is one transaction of       *)
(* the thread, or its call of the agent.  The job row of a step is pending *)
(* while the thread runs it, so the worker pool can take it, the caller    *)
(* can cancel it and the sweeper can end it as well.  A node is its        *)
(* position in the definition, where the ids ascend; a step costs one      *)
(* unit.  Workspaces, disputes and the refund of a pricing difference are  *)
(* left out.                                                               *)
(***************************************************************************)
EXTENDS Integers, Sequences, FiniteSets, SequencesExt

CONSTANTS
    N,          \* nodes of the definition
    Funds,      \* units in the caller's wallet, at most
    Starts,     \* the graphs to be run, each with what is in the wallet
    MaxFaults   \* bound on exceptions of the database and on crashes

Nodes == 1 .. N

ASSUME PipelinesAssumption ==
    /\ N \in Nat \ {0} /\ Funds \in Nat /\ MaxFaults \in Nat
    /\ Starts \subseteq [deps : [Nodes -> SUBSET Nodes], funds : 0 .. Funds]

VARIABLES
    deps,       \* depends_on of every node
    run,        \* pipeline_runs.status; "new" before, "rejected" without a row
    order,      \* ordered_nodes
    at,         \* position of the step in it
    pc,
    results,    \* step_results of the row
    funds,
    charge,     \* of a node: the ledger rows of its charge
    job,        \* of a node: jobs.status
    settled,    \* of a node: settled_at IS NOT NULL
    worker,     \* of a node: "none", "has" it, "had" it
    closed,     \* history: nodes whose job a cancel or a sweep has settled as failed
    faults,
    cut         \* the thread died, or its failure path raised

stepVars == <<charge, job, settled, worker>>
vars == <<deps, run, order, at, pc, results, funds, stepVars, closed, faults, cut>>

TypeOK ==
    /\ deps \in [Nodes -> SUBSET Nodes]
    /\ run \in {"new", "running", "complete", "failed", "rejected"}
    /\ order \in Seq(Nodes)
    /\ at \in 1 .. N + 1
    /\ pc \in {"start", "charge", "create", "fetch", "complete", "payout", "settle",
               "price", "record", "fail", "refund", "close", "abort", "done"}
    /\ results \subseteq Nodes
    /\ funds \in 0 .. Funds
    /\ charge \in [Nodes -> {"none", "held", "paid", "refunded"}]
    /\ job \in [Nodes -> {"none", "pending", "running", "complete", "failed",
                       "cancelled"}]
    /\ settled \in [Nodes -> BOOLEAN]
    /\ worker \in [Nodes -> {"none", "has", "had"}]
    /\ closed \subseteq Nodes
    /\ faults \in 0 .. MaxFaults
    /\ cut \in BOOLEAN

Init ==
    /\ \E s \in Starts : deps = s.deps /\ funds = s.funds
    /\ run = "new"
    /\ order = << >>
    /\ at = 1
    /\ pc = "start"
    /\ results = {}
    /\ charge = [n \in Nodes |-> "none"]
    /\ job = [n \in Nodes |-> "none"]
    /\ settled = [n \in Nodes |-> FALSE]
    /\ worker = [n \in Nodes |-> "none"]
    /\ closed = {}
    /\ faults = 0
    /\ cut = FALSE

-----------------------------------------------------------------------------
(* validate_definition *)

\* The nodes of a set in the order of their ids.
Sorted(S) == CHOOSE s \in SetToSeqs(S) : IsSorted(s, <)

Children(n) == {m \in Nodes : n \in deps[m]}

\* Mutant: a child is queued with the first of its dependencies.
topological_step_early(st) ==
    IF st.queue = << >> THEN st
    ELSE LET n == Head(st.queue)
             new == {m \in Children(n) : st.indegree[m] = Cardinality(deps[m])}
         IN  [queue |-> Tail(st.queue) \o Sorted(new),
              indegree |-> [m \in Nodes |-> st.indegree[m] - (IF m \in Children(n) THEN 1 ELSE 0)],
              ordered |-> Append(st.ordered, n)]

\* One round of the queue: the node leaves it, and its children lose a dependency.
topological_step(st) ==
    IF st.queue = << >> THEN st
    ELSE LET n == Head(st.queue)
             new == {m \in Children(n) : st.indegree[m] = 1}
         IN  [queue |-> Tail(st.queue) \o Sorted(new),
              indegree |-> [m \in Nodes |-> st.indegree[m] - (IF m \in Children(n) THEN 1 ELSE 0)],
              ordered |-> Append(st.ordered, n)]

topological_start ==
    [queue |-> Sorted({n \in Nodes : deps[n] = {}}),
     indegree |-> [n \in Nodes |-> Cardinality(deps[n])],
     ordered |-> << >>]

\* The queue is empty after a round for each node.
topological_rounds[k \in 0 .. N] ==
    IF k = 0 THEN topological_start ELSE topological_step(topological_rounds[k - 1])

\* _topological_sort.
topological_sort == topological_rounds[N].ordered

-----------------------------------------------------------------------------
(* The thread of the run. *)

Node == order[at]

Goto(l) == pc' = l

\* run_pipeline: a graph with a cycle is refused, before there is a run.
run_pipeline ==
    /\ pc = "start"
    /\ IF Len(topological_sort) = N
       THEN run' = "running" /\ order' = topological_sort /\ Goto("charge")
       ELSE run' = "rejected" /\ UNCHANGED order /\ Goto("done")
    /\ UNCHANGED <<deps, at, results, funds, stepVars, closed, faults, cut>>

\* Mutant: the balance is not looked at.
ChargeStep_overdraws ==
    /\ pc = "charge"
    /\ at <= N
    /\ funds' = funds - 1
    /\ charge' = [charge EXCEPT ![Node] = "held"]
    /\ Goto("create")
    /\ UNCHANGED <<deps, run, order, at, results, job, settled, worker, closed,
                   faults, cut>>

\* pre_call_charge of the next step; its agent or an input of it may be gone.
ChargeStep ==
    /\ pc = "charge"
    /\ at <= N
    /\ \/ /\ funds > 0
          /\ funds' = funds - 1
          /\ charge' = [charge EXCEPT ![Node] = "held"]
          /\ Goto("create")
       \/ UNCHANGED <<funds, charge>> /\ Goto("abort")
    /\ UNCHANGED <<deps, run, order, at, results, job, settled, worker, closed,
                   faults, cut>>

CreateStep ==
    /\ pc = "create"
    /\ job' = [job EXCEPT ![Node] = "pending"]
    /\ Goto("fetch")
    /\ UNCHANGED <<deps, run, order, at, results, funds, charge, settled, worker,
                   closed, faults, cut>>

\* create_job or update_run_step raises: the run fails, and nobody gives the
\* charge back.
StepRaises ==
    /\ pc \in {"create", "record"}
    /\ faults < MaxFaults
    /\ faults' = faults + 1
    /\ Goto("abort")
    /\ UNCHANGED <<deps, run, order, at, results, funds, stepVars, closed, cut>>

\* _fetch_agent_output: an answer, or an exception.
FetchOutput ==
    /\ pc = "fetch"
    /\ Goto("complete") \/ Goto("fail")
    /\ UNCHANGED <<deps, run, order, at, results, funds, stepVars, closed,
                   faults, cut>>

\* update_job_status changes nothing once the job has ended.
Ended(n) == job[n] \in {"complete", "failed", "cancelled"}

update_job_status(n, s) == job' = IF Ended(n) THEN job ELSE [job EXCEPT ![n] = s]

\* post_call_payout and post_call_refund: one of them, once.
Distribute(n, to) ==
    /\ charge' = IF charge[n] = "held" THEN [charge EXCEPT ![n] = to] ELSE charge
    /\ funds' = IF charge[n] = "held" /\ to = "refunded" THEN funds + 1 ELSE funds

\* _settle_step_success.
StepComplete ==
    /\ pc = "complete"
    /\ update_job_status(Node, "complete")
    /\ Goto("payout")
    /\ UNCHANGED <<deps, run, order, at, results, funds, charge, settled, worker,
                   closed, faults, cut>>

StepPayout ==
    /\ pc = "payout"
    /\ Distribute(Node, "paid")
    /\ Goto("settle")
    /\ UNCHANGED <<deps, run, order, at, results, job, settled, worker, closed,
                   faults, cut>>

mark_settled(next) ==
    /\ settled' = [settled EXCEPT ![Node] = TRUE]
    /\ Goto(next)
    /\ UNCHANGED <<deps, run, order, at, results, funds, charge, job, worker,
                   closed, faults, cut>>

StepSettled == pc = "settle" /\ mark_settled("price")

\* The rest of the success path, which changes no state of the step.
StepPriced ==
    /\ pc = "price"
    /\ Goto("record")
    /\ UNCHANGED <<deps, run, order, at, results, funds, stepVars, closed,
                   faults, cut>>

\* An exception on the success path: the failure path follows, whatever has been
\* done.
SettleRaises ==
    /\ pc \in {"complete", "payout", "settle", "price"}
    /\ faults < MaxFaults
    /\ faults' = faults + 1
    /\ Goto("fail")
    /\ UNCHANGED <<deps, run, order, at, results, funds, stepVars, closed, cut>>

\* _settle_step_failure.
StepFail ==
    /\ pc = "fail"
    /\ update_job_status(Node, "failed")
    /\ Goto("refund")
    /\ UNCHANGED <<deps, run, order, at, results, funds, charge, settled, worker,
                   closed, faults, cut>>

\* Mutant: a failed step is not refunded.
StepRefund_skips ==
    /\ pc = "refund"
    /\ Goto("close")
    /\ UNCHANGED <<deps, run, order, at, results, funds, stepVars, closed,
                   faults, cut>>

StepRefund ==
    /\ pc = "refund"
    /\ Distribute(Node, "refunded")
    /\ Goto("close")
    /\ UNCHANGED <<deps, run, order, at, results, job, settled, worker, closed,
                   faults, cut>>

StepClosed == pc = "close" /\ mark_settled("abort")

\* An exception of the failure path ends it.
FailureRaises ==
    /\ pc \in {"fail", "refund", "close"}
    /\ faults < MaxFaults
    /\ faults' = faults + 1
    /\ cut' = TRUE
    /\ Goto("abort")
    /\ UNCHANGED <<deps, run, order, at, results, funds, stepVars, closed>>

\* update_run_step, and on to the next node.
RecordStep ==
    /\ pc = "record"
    /\ results' = results \cup {Node}
    /\ at' = at + 1
    /\ Goto("charge")
    /\ UNCHANGED <<deps, run, order, funds, stepVars, closed, faults, cut>>

\* Mutant: the run goes on behind a failed step.
fail_run_goes_on ==
    /\ pc = "abort"
    /\ at' = at + 1
    /\ Goto("charge")
    /\ UNCHANGED <<deps, run, order, results, funds, stepVars, closed, faults,
                   cut>>

fail_run ==
    /\ pc = "abort"
    /\ run' = "failed"
    /\ Goto("done")
    /\ UNCHANGED <<deps, order, at, results, funds, stepVars, closed, faults, cut>>

\* complete_run, unless the results contradict each other.
FinishRun ==
    /\ pc = "charge"
    /\ at = N + 1
    /\ \/ run' = "complete" /\ Goto("done")
       \/ UNCHANGED run /\ Goto("abort")
    /\ UNCHANGED <<deps, order, at, results, funds, stepVars, closed, faults, cut>>

\* The daemon thread dies with its process; nothing takes the run up again.
Crash ==
    /\ pc \notin {"start", "done"}
    /\ faults < MaxFaults
    /\ faults' = faults + 1
    /\ cut' = TRUE
    /\ Goto("done")
    /\ UNCHANGED <<deps, run, order, at, results, funds, stepVars, closed>>

-----------------------------------------------------------------------------
(* The worker pool, the caller and the sweeper, on the job row of a step. *)

WorkerClaim(n) ==
    /\ job[n] = "pending"
    /\ worker[n] = "none"
    /\ job' = [job EXCEPT ![n] = "running"]
    /\ worker' = [worker EXCEPT ![n] = "has"]
    /\ UNCHANGED <<deps, run, order, at, pc, results, funds, charge, settled, closed,
                   faults, cut>>

\* _settle_successful_job and _settle_failed_job look at settled_at and not at the
\* status of the row.
Settle(n, to) ==
    IF settled[n] THEN UNCHANGED <<charge, funds, settled>>
    ELSE Distribute(n, to) /\ settled' = [settled EXCEPT ![n] = TRUE]

\* The worker reports, and settles the job.
WorkerEnds(n) ==
    /\ worker[n] = "has"
    /\ worker' = [worker EXCEPT ![n] = "had"]
    /\ \/ update_job_status(n, "complete") /\ Settle(n, "paid")
       \/ update_job_status(n, "failed") /\ Settle(n, "refunded")
    /\ UNCHANGED <<deps, run, order, at, pc, results, closed, faults, cut>>

Open(n) == job[n] \in {"pending", "running"}

\* jobs_cancel; it answers with a conflict when the job has ended meanwhile.
jobs_cancel(n) ==
    /\ Open(n)
    /\ update_job_status(n, "cancelled")
    /\ Settle(n, "refunded")
    /\ closed' = closed \cup {n}
    /\ UNCHANGED <<deps, run, order, at, pc, results, worker, faults, cut>>

\* A sweep that listed the job as past its SLA or its claim deadline fails and
\* refunds it, as a2a_tasks_cancel does with a job it read as pending.  Every job was
\* open once: the job may have ended since the row was read, only settled_at is
\* looked at again.
SweepFails(n) ==
    /\ job[n] # "none"
    /\ ~settled[n]
    /\ update_job_status(n, "failed")
    /\ Settle(n, "refunded")
    /\ closed' = closed \cup {n}
    /\ UNCHANGED <<deps, run, order, at, pc, results, worker, faults, cut>>

\* _sweep_jobs settles a complete job that its thread left.
SweepComplete(n) ==
    /\ job[n] = "complete"
    /\ ~settled[n]
    /\ Settle(n, "paid")
    /\ UNCHANGED <<deps, run, order, at, pc, results, job, worker, closed, faults,
                   cut>>

Thread ==
    \/ run_pipeline
    \/ ChargeStep
    \/ CreateStep
    \/ FetchOutput
    \/ StepComplete
    \/ StepPayout
    \/ StepSettled
    \/ StepPriced
    \/ StepFail
    \/ StepRefund
    \/ StepClosed
    \/ RecordStep
    \/ fail_run
    \/ FinishRun

Pool(n) ==
    \/ WorkerClaim(n)
    \/ WorkerEnds(n)
    \/ jobs_cancel(n)
    \/ SweepFails(n)
    \/ SweepComplete(n)

\* What every pass of the sweeper finds: a job that is open past its deadlines, or
\* complete and not settled.
Sweep(n) == (Open(n) /\ SweepFails(n)) \/ SweepComplete(n)

Next ==
    \/ Thread
    \/ StepRaises
    \/ SettleRaises
    \/ FailureRaises
    \/ Crash
    \/ \E n \in Nodes : Pool(n)

Spec == Init /\ [][Next]_vars

\* The thread runs on while its process lives, and the sweeper keeps coming back.
LiveSpec == Spec /\ WF_vars(Thread) /\ \A n \in Nodes : WF_vars(Sweep(n))

-----------------------------------------------------------------------------
(* Properties. *)

\* A path of dependencies that comes back to its node.
Cyclic ==
    \E k \in 1 .. N : \E path \in [0 .. k -> Nodes] :
        path[0] = path[k] /\ \A i \in 1 .. k : path[i - 1] \in deps[path[i]]

\* Exactly the definitions with a cycle are refused, the others run in an order of
\* their dependencies; a step is charged when every step it depends on has a recorded
\* result, and a complete run has them all.
DependenciesFirst ==
    /\ run # "new" => (run = "rejected" <=> Cyclic)
    /\ \A i \in 1 .. Len(order) : deps[order[i]] \subseteq {order[k] : k \in 1 .. i - 1}
    /\ \A n \in Nodes : charge[n] # "none" => deps[n] \subseteq results
    /\ run = "complete" => results = Nodes

\* Only the step a run is at, or failed at, can be without its payment: every
\* other charged step was recorded and paid, or refunded because a worker had its
\* job as well, or the caller or the sweeper ended it under the thread.
OnlyLastStepUnpaid ==
    \A n \in Nodes :
        /\ charge[n] # "none" /\ (at > N \/ n # order[at])
           => /\ n \in results
              /\ \/ charge[n] = "paid"
                 \/ charge[n] = "refunded" /\ (worker[n] # "none" \/ n \in closed)
        /\ settled[n] => charge[n] \in {"paid", "refunded"}

\* Every charge of a run is paid out or refunded in the end, wherever the thread dies,
\* unless it dies before the job row is created or, like its failure path that
\* raises, between the failure of the job and its refund.
StepChargeEnds ==
    \A n \in Nodes :
        (charge[n] = "held") ~>
            (charge[n] # "held" \/ job[n] = "none" \/ (cut /\ job[n] = "failed"))
=============================================================================
