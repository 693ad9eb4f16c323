------------------------------- MODULE Watchers -------------------------------
(***************************************************************************)
(* Diff-watchers: the sweeper looks at a target on every tick of a watcher *)
(* and hires an agent when the target has changed, within a daily budget.  *)
(*                                                                         *)
(* One watcher, the passes of the sweepers (an action is a transaction, or *)
(* the look at the target with the statements around it), its owner, the   *)
(* clock and crashes.  A sweeper works on the row as it read it when it    *)
(* listed the due watchers.  One process runs the sweeper for good;        *)
(* another may still be in its last pass, and `alone` says whether two     *)
(* passes ever overlapped.  The notification of the owner is left out.     *)
(***************************************************************************)
EXTENDS Integers, Sequences, FiniteSets, FiniteSetsExt

CONSTANTS
    Sweepers,
    Leader,         \* the sweeper that goes on; the others make one more pass
    Policies,       \* the values of on_change_policy that are stored
    Fingerprints,   \* what the target may look like
    Price, Fee,     \* what a fire costs: the agent's price, and the fee on top
    Budget,         \* budget_per_day_cents
    Funds,          \* cents in the owner's wallet
    MaxErrors,      \* MAX_CONSECUTIVE_ERRORS_BEFORE_PAUSE
    Interval,       \* tick_interval_seconds
    Day,            \* 24 hours
    MaxNow,         \* bound on the clock
    MaxFaults       \* bound on crashes and on passes of other sweepers

ASSUME WatchersAssumption ==
    /\ IsFiniteSet(Sweepers) /\ Leader \in Sweepers
    /\ Policies \subseteq {"on_change", "always", "fire_once_per_change"}
    /\ IsFiniteSet(Fingerprints) /\ "none" \notin Fingerprints
    /\ {Price, Interval, Day, MaxErrors} \subseteq Nat \ {0}
    /\ {Fee, Budget, Funds, MaxNow, MaxFaults} \subseteq Nat

VARIABLES
    policy,
    row,        \* the row of table watchers
    funds,      \* balance of the owner's wallet
    fires,      \* the charges of the watcher, oldest first
    now,
    spc,        \* where a sweeper is in its pass
    seen,       \* the row as the sweeper listed it
    found,      \* the fingerprint it took
    fire,       \* the charge it made
    crashes,
    alone,      \* no two passes have overlapped so far
    quiet       \* the owner paused the watcher while no tick was under way

sweepVars == <<spc, seen, found, fire>>
ghosts == <<alone, quiet>>
vars == <<policy, row, funds, fires, now, sweepVars, crashes, ghosts>>

Charge == Price + Fee
Today == now \div Day
LastDay == MaxNow \div Day

NewRow == [status |-> "active", next |-> 0, spend |-> 0, window |-> 0, errors |-> 0,
           last |-> "none"]

Rows == [status : {"active", "paused", "budget_exhausted", "deleted"},
         next : 0 .. MaxNow + Interval, spend : 0 .. Funds, window : 0 .. LastDay,
         errors : 0 .. MaxErrors, last : Fingerprints \cup {"none"}]

Fire == [tick : 0 .. MaxNow, day : 0 .. LastDay, seen : Fingerprints,
         job : {"none", "created", "refunded"}]

TypeOK ==
    /\ policy \in Policies
    /\ row \in Rows
    /\ funds \in 0 .. Funds
    /\ fires \in Seq(Fire)
    /\ now \in 0 .. MaxNow
    /\ spc \in [Sweepers -> {"idle", "reset", "due", "claim", "look", "pause", "charge",
                             "create", "record", "gone"}]
    /\ seen \in [Sweepers -> Rows]
    /\ found \in [Sweepers -> Fingerprints \cup {"none"}]
    /\ fire \in [Sweepers -> 0 .. Len(fires)]
    /\ crashes \in 0 .. MaxFaults
    /\ alone \in BOOLEAN /\ quiet \in BOOLEAN

Init ==
    /\ policy \in Policies
    /\ row = NewRow
    /\ funds = Funds
    /\ fires = << >>
    /\ now = 0
    /\ spc = [s \in Sweepers |-> "idle"]
    /\ seen = [s \in Sweepers |-> NewRow]
    /\ found = [s \in Sweepers |-> "none"]
    /\ fire = [s \in Sweepers |-> 0]
    /\ crashes = 0
    /\ alone = TRUE
    /\ quiet = FALSE

Exists == row.status # "deleted"

Faults == crashes + Cardinality({s \in Sweepers \ {Leader} : spc[s] # "idle"})

Goto(s, l) == spc' = [spc EXCEPT ![s] = l] /\ UNCHANGED <<seen, found, fire>>

\* The end of a pass, and what a crash leaves of it.
Forget(s) ==
    /\ spc' = [spc EXCEPT ![s] = IF s = Leader THEN "idle" ELSE "gone"]
    /\ seen' = [seen EXCEPT ![s] = NewRow]
    /\ found' = [found EXCEPT ![s] = "none"]
    /\ fire' = [fire EXCEPT ![s] = 0]

-----------------------------------------------------------------------------
(* Statements on the row.  A statement on a deleted row changes nothing. *)

Update(r) == row' = IF Exists THEN r ELSE row

update_status(status) == Update([row EXCEPT !.status = status])

\* Mutant: every watcher is made active again.
reset_spend_window_wakes ==
    [row EXCEPT !.spend = 0, !.window = Today, !.status = "active"]

reset_spend_window ==
    [row EXCEPT !.spend = 0, !.window = Today,
                !.status = IF @ = "budget_exhausted" THEN "active" ELSE @]

\* Mutant: the fire is recorded without its cost.
record_fire_atomic_free(fp) ==
    Update([row EXCEPT !.last = fp, !.window = Today, !.errors = 0])

\* The spend of another day is kept when the date is moved.
record_fire_atomic(fp) ==
    Update([row EXCEPT !.last = fp, !.spend = @ + Charge, !.window = Today, !.errors = 0])

-----------------------------------------------------------------------------
(* A pass of the sweeper: spend windows, then due watchers. *)

\* Mutant: only active watchers are listed.
needs_rollover_active == row.status = "active" /\ row.window < Today

\* list_watchers_needing_rollover: watchers of an earlier day, whatever their
\* status.
needs_rollover == Exists /\ row.window < Today

SweepStart(s) ==
    /\ spc[s] = "idle"
    /\ s = Leader \/ Faults < MaxFaults
    /\ Goto(s, IF needs_rollover THEN "reset" ELSE "due")
    /\ alone' = (alone /\ \A t \in Sweepers \ {s} : spc[t] \in {"idle", "gone"})
    /\ UNCHANGED <<policy, row, funds, fires, now, crashes, quiet>>

SweepReset(s) ==
    /\ spc[s] = "reset"
    /\ Update(reset_spend_window)
    /\ Goto(s, "due")
    /\ UNCHANGED <<policy, funds, fires, now, crashes, ghosts>>

\* list_due_watchers.
SweepDue(s) ==
    /\ spc[s] = "due"
    /\ IF row.status = "active" /\ row.next <= now
       THEN /\ spc' = [spc EXCEPT ![s] = "claim"]
            /\ seen' = [seen EXCEPT ![s] = row]
            /\ UNCHANGED <<found, fire>>
       ELSE Forget(s)
    /\ UNCHANGED <<policy, row, funds, fires, now, crashes, ghosts>>

-----------------------------------------------------------------------------
(* _process_due_watcher *)

\* Mutant: the tick is advanced without a look at its old value.
claim_watcher_tick_blind(s) ==
    /\ spc[s] = "claim"
    /\ IF row.status = "active"
       THEN row' = [row EXCEPT !.next = now + Interval] /\ Goto(s, "look")
       ELSE UNCHANGED row /\ Forget(s)
    /\ UNCHANGED <<policy, funds, fires, now, crashes, ghosts>>

claim_watcher_tick(s) ==
    /\ spc[s] = "claim"
    /\ IF row.status = "active" /\ row.next = seen[s].next
       THEN row' = [row EXCEPT !.next = now + Interval] /\ Goto(s, "look")
       ELSE UNCHANGED row /\ Forget(s)
    /\ UNCHANGED <<policy, funds, fires, now, crashes, ghosts>>

\* What the rest of the tick needs of the row that was listed.
Keep(s, fp) ==
    /\ spc' = [spc EXCEPT ![s] = "charge"]
    /\ seen' = [seen EXCEPT ![s] = [NewRow EXCEPT !.next = seen[s].next]]
    /\ found' = [found EXCEPT ![s] = fp]
    /\ UNCHANGED fire

\* The spend window once more, for a watcher listed before midnight.
Stale(s) == seen[s].window # Today

Windowed(s) == IF Stale(s) THEN reset_spend_window ELSE row

\* fingerprint_target fails: record_fingerprint_error.
TickFails(s) ==
    LET errors == row.errors + 1
    IN  /\ spc[s] = "look"
        /\ Update([Windowed(s) EXCEPT !.errors = Min({errors, MaxErrors})])
        /\ IF Exists /\ errors >= MaxErrors THEN Goto(s, "pause") ELSE Forget(s)
        /\ UNCHANGED <<policy, funds, fires, now, crashes, ghosts>>

TickPause(s) ==
    /\ spc[s] = "pause"
    /\ update_status("paused")
    /\ Forget(s)
    /\ UNCHANGED <<policy, funds, fires, now, crashes, ghosts>>

\* The diff gate.  A policy other than on_change fires on every tick.
Unchanged(s, fp) == policy = "on_change" /\ fp = seen[s].last

\* The target is fetched: clear_consecutive_errors and the two gates, on the row
\* as it was listed.  The budget is compared with the price, without the fee.
TickLook(s) ==
    /\ spc[s] = "look"
    /\ \E fp \in Fingerprints :
          LET spend == IF Stale(s) THEN 0 ELSE seen[s].spend
              exhausted == ~Unchanged(s, fp) /\ spend + Price > Budget
          IN  /\ Update([Windowed(s) EXCEPT
                           !.errors = 0,
                           !.status = IF exhausted THEN "budget_exhausted" ELSE @])
              /\ IF Unchanged(s, fp) \/ exhausted THEN Forget(s) ELSE Keep(s, fp)
    /\ UNCHANGED <<policy, funds, fires, now, crashes, ghosts>>

\* Mutant: the balance is not looked at.
FireCharge_overdraws(s) ==
    /\ spc[s] = "charge"
    /\ funds' = funds - Charge
    /\ fires' = Append(fires, [tick |-> seen[s].next, day |-> Today,
                               seen |-> found[s], job |-> "none"])
    /\ spc' = [spc EXCEPT ![s] = "create"]
    /\ fire' = [fire EXCEPT ![s] = Len(fires) + 1]
    /\ UNCHANGED <<policy, row, now, seen, found, crashes, ghosts>>

\* pre_call_charge; an empty wallet, which also exhausts the budget; or a charge
\* that is refused for another reason, or an agent that is gone, which ends the tick.
FireCharge(s) ==
    /\ spc[s] = "charge"
    /\ \/ /\ funds >= Charge
          /\ funds' = funds - Charge
          /\ fires' = Append(fires, [tick |-> seen[s].next, day |-> Today,
                                     seen |-> found[s], job |-> "none"])
          /\ spc' = [spc EXCEPT ![s] = "create"]
          /\ fire' = [fire EXCEPT ![s] = Len(fires) + 1]
          /\ UNCHANGED <<row, seen, found>>
       \/ /\ funds < Charge
          /\ update_status("budget_exhausted")
          /\ Forget(s)
          /\ UNCHANGED <<funds, fires>>
       \/ /\ Forget(s)
          /\ UNCHANGED <<row, funds, fires>>
    /\ UNCHANGED <<policy, now, crashes, ghosts>>

\* create_job, or a refund when it fails.
FireCreate(s) ==
    /\ spc[s] = "create"
    /\ \/ /\ fires' = [fires EXCEPT ![fire[s]].job = "created"]
          /\ Goto(s, "record")
          /\ UNCHANGED funds
       \/ /\ fires' = [fires EXCEPT ![fire[s]].job = "refunded"]
          /\ funds' = funds + Charge
          /\ Forget(s)
    /\ UNCHANGED <<policy, row, now, crashes, ghosts>>

FireRecord(s) ==
    /\ spc[s] = "record"
    /\ record_fire_atomic(found[s])
    /\ Forget(s)
    /\ UNCHANGED <<policy, funds, fires, now, crashes, ghosts>>

-----------------------------------------------------------------------------
(* The owner, the clock and crashes. *)

Ticking(s) ==
    spc[s] \in {"look", "pause", "charge", "create", "record"}

\* watcher_update: pause, resume.  watcher_delete.
OwnerPause ==
    /\ row.status \in {"active", "budget_exhausted"}
    /\ row' = [row EXCEPT !.status = "paused"]
    /\ quiet' = \A s \in Sweepers : ~Ticking(s)
    /\ UNCHANGED <<policy, funds, fires, now, sweepVars, crashes, alone>>

OwnerResume ==
    /\ row.status \in {"paused", "budget_exhausted"}
    /\ row' = [row EXCEPT !.status = "active", !.errors = 0]
    /\ quiet' = FALSE
    /\ UNCHANGED <<policy, funds, fires, now, sweepVars, crashes, alone>>

OwnerDelete ==
    /\ Exists
    /\ row' = [NewRow EXCEPT !.status = "deleted"]
    /\ quiet' = FALSE
    /\ UNCHANGED <<policy, funds, fires, now, sweepVars, crashes, alone>>

Tick ==
    /\ now < MaxNow
    /\ now' = now + 1
    /\ UNCHANGED <<policy, row, funds, fires, sweepVars, crashes, ghosts>>

SweeperCrash(s) ==
    /\ spc[s] \notin {"idle", "gone"}
    /\ Faults < MaxFaults
    /\ crashes' = crashes + 1
    /\ Forget(s)
    /\ UNCHANGED <<policy, row, funds, fires, now, ghosts>>

Sweep(s) ==
    \/ SweepStart(s)
    \/ SweepReset(s)
    \/ SweepDue(s)
    \/ claim_watcher_tick(s)
    \/ TickFails(s)
    \/ TickPause(s)
    \/ TickLook(s)
    \/ FireCharge(s)
    \/ FireCreate(s)
    \/ FireRecord(s)

Next ==
    \/ \E s \in Sweepers : Sweep(s) \/ SweeperCrash(s)
    \/ OwnerPause
    \/ OwnerResume
    \/ OwnerDelete
    \/ Tick

Spec == Init /\ [][Next]_vars

\* The loop of watchers_sweeper_loop catches every exception and goes on, and
\* time passes.
LiveSpec ==
    /\ Spec
    /\ WF_vars(Tick)
    /\ \A s \in Sweepers : WF_vars(Sweep(s))

-----------------------------------------------------------------------------
(* Properties. *)

Kept == {i \in DOMAIN fires : fires[i].job # "refunded"}

\* The claim of a tick is a compare-and-swap on next_check_at: however two
\* sweepers overlap, a tick charges the owner at most once.
TickFiresOnce ==
    \A i, j \in Kept : i # j => fires[i].tick # fires[j].tick

\* As long as passes do not overlap, what a watcher takes from the wallet in a
\* day stays within its budget, but for the fee of one fire and a fire for each
\* crash that came between the job and its record.
BudgetHolds ==
    alone => \A d \in 0 .. LastDay :
        Charge * Cardinality({i \in Kept : fires[i].day = d})
            <= Budget + Fee + crashes * Charge

\* A watcher that its owner pauses between two ticks stays paused until the
\* owner resumes it: neither midnight nor a late pass wakes it.
PauseStands == quiet => row.status = "paused"

\* Without an overlap and without a crash, a watcher that is to fire on change is
\* charged once for a change: two fires in a row saw different targets.
FiresOncePerChange ==
    policy # "always" /\ alone /\ crashes = 0 =>
        \A i, j \in Kept :
            i < j /\ (\A k \in Kept : ~(i < k /\ k < j)) => fires[i].seen # fires[j].seen

\* A watcher that ran out of budget is woken by the next day.
ExhaustedEnds ==
    (alone /\ row.status = "budget_exhausted" /\ Today < LastDay)
        ~> (row.status # "budget_exhausted" \/ ~alone)
=============================================================================
