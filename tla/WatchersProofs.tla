---------------------------- MODULE WatchersProofs ----------------------------
(* A tick charges its owner once however sweepers overlap, an owner's pause  *)
(* stands, and without an overlap the daily budget holds, for every number   *)
(* of sweepers, price, fee, budget, interval and length of a day.            *)
EXTENDS Watchers, FiniteSetTheorems, TLAPS

-----------------------------------------------------------------------------
(* The inductive invariant, part by part. *)

AnyRow == [status : {"active", "paused", "budget_exhausted", "deleted"},
           next : 0 .. MaxNow + Interval, spend : Nat, window : 0 .. LastDay,
           errors : 0 .. MaxErrors, last : Fingerprints \cup {"none"}]

\* TypeOK, without the bounds that the owner's funds put on the cents.
Shape ==
    /\ policy \in Policies
    /\ row \in AnyRow
    /\ funds \in Nat
    /\ fires \in Seq(Fire)
    /\ now \in 0 .. MaxNow
    /\ spc \in [Sweepers -> {"idle", "reset", "due", "claim", "look", "pause", "charge",
                             "create", "record", "gone"}]
    /\ seen \in [Sweepers -> AnyRow]
    /\ found \in [Sweepers -> Fingerprints \cup {"none"}]
    /\ fire \in [Sweepers -> Nat]
    /\ crashes \in 0 .. MaxFaults
    /\ alone \in BOOLEAN /\ quiet \in BOOLEAN

\* A sweeper that has charged for its tick.
Charged(s) == spc[s] \in {"create", "record"}

\* What a sweeper knows at each point of its pass.
Position ==
    \A s \in Sweepers :
        /\ spc[s] \in {"claim", "look", "charge"} => seen[s].next <= now
        /\ spc[s] \in {"charge", "create", "record"} => found[s] \in Fingerprints
        /\ fire[s] <= Len(fires)
        /\ Charged(s) => 1 <= fire[s]
        /\ spc[s] = "create" => fires[fire[s]].job = "none"
        /\ spc[s] = "record" => fires[fire[s]].job = "created"

OwnFire ==
    \A s, t \in Sweepers : s # t /\ Charged(s) /\ Charged(t) => fire[s] # fire[t]

\* A sweeper that owns its tick and has not charged for it.
Holds(s) == spc[s] \in {"look", "charge"}

\* The next tick lies after every tick that was claimed, and no claimed tick
\* is claimed or charged for twice.
TicksBehind ==
    Exists => /\ \A i \in DOMAIN fires : fires[i].tick < row.next
              /\ \A s \in Sweepers : Holds(s) => seen[s].next < row.next

TicksApart ==
    /\ \A s, t \in Sweepers : s # t /\ Holds(s) /\ Holds(t) => seen[s].next # seen[t].next
    /\ \A s \in Sweepers, i \in DOMAIN fires : Holds(s) => fires[i].tick # seen[s].next
    /\ \A i, j \in DOMAIN fires : i # j => fires[i].tick # fires[j].tick

\* After a pause between two ticks, no tick is under way.
PausedIdle == quiet => row.status = "paused" /\ \A s \in Sweepers : ~Ticking(s)

Created == {i \in DOMAIN fires : fires[i].job = "created"}

Recording == {s \in Sweepers : spc[s] = "record"}

\* The wallet paid for the fires that were kept, and the row counts no fire
\* that made no job.
WalletPaid == funds + Charge * Cardinality(Kept) = Funds

SpendCounted ==
    row.spend + Charge * Cardinality(Recording) <= Charge * Cardinality(Created)

SeenCounted == \A s \in Sweepers : seen[s].spend <= Funds

-----------------------------------------------------------------------------
(* The daily budget. *)

OffDuty == {"idle", "gone"}

\* Without an overlap one sweeper at most is in a pass.
OnePass ==
    alone => \A s, t \in Sweepers : s # t => spc[s] \in OffDuty \/ spc[t] \in OffDuty

FiresOf(d) == {i \in Kept : fires[i].day = d}

Cost(d) == Charge * Cardinality(FiresOf(d))

\* Fires that a crash kept off the books.
Lost == crashes * Charge

\* The spend of today that a row knows of.
Known(r) == IF r.window = Today THEN r.spend ELSE 0

\* A fire of today that is not recorded yet.
Pending(s) == Charged(s) /\ fires[fire[s]].day = Today

\* What the row and the sweeper in its pass know of today's cost.
TodayKnown ==
    alone /\ Exists =>
        /\ (\A s \in Sweepers : ~Pending(s)) => Cost(Today) <= Known(row) + Lost
        /\ Cost(Today) <= Known(row) + Lost + Charge

SeenKnown ==
    alone => \A s \in Sweepers :
        /\ spc[s] \in {"claim", "look"} => Cost(Today) <= Known(seen[s]) + Lost
        /\ spc[s] = "charge" => Price <= Budget /\ Cost(Today) <= (Budget - Price) + Lost

WindowKnown ==
    /\ Exists => row.window <= Today
    /\ \A i \in DOMAIN fires : fires[i].day <= Today
    /\ alone /\ Exists => \A s \in Sweepers :
          /\ spc[s] = "reset" => row.window < Today
          /\ spc[s] \in {"claim", "look"} => seen[s].window = row.window

IInv ==
    /\ Shape /\ Position /\ OwnFire /\ TicksBehind /\ TicksApart /\ PausedIdle
    /\ WalletPaid /\ SpendCounted /\ SeenCounted
    /\ OnePass /\ TodayKnown /\ SeenKnown /\ WindowKnown /\ BudgetHolds
-----------------------------------------------------------------------------
(* Days and rows. *)

\* A later moment lies on the same day or on a later one.
LEMMA DaysGrow ==
    ASSUME NEW a \in Nat, NEW b \in Nat, NEW d \in Nat \ {0}, a <= b
    PROVE  a \div d \in Nat /\ a \div d <= b \div d
  <1> DEFINE qa == a \div d  ra == a % d  qb == b \div d  rb == b % d
  <1>1. qa \in Nat /\ qb \in Nat /\ ra \in Nat /\ rb \in Nat /\ ra < d /\ rb < d
    OBVIOUS
  <1>2. a = d * qa + ra /\ b = d * qb + rb
    OBVIOUS
  <1> HIDE DEF qa, ra, qb, rb
  <1>3. SUFFICES ASSUME qb < qa PROVE FALSE
    BY <1>1 DEF qa, qb
  <1>4. d * (qb + 1) <= d * qa
    BY <1>1, <1>3
  <1> QED
    BY <1>1, <1>2, <1>4

\* Today is one of the days of the model, and the clock moves it forward.
LEMMA TodayRange ==
    ASSUME now \in 0 .. MaxNow
    PROVE  Today \in 0 .. LastDay
  BY DaysGrow, WatchersAssumption DEF Today, LastDay

LEMMA TodayGrows ==
    ASSUME now \in 0 .. MaxNow, Tick
    PROVE  Today <= Today' /\ Today \in Nat /\ Today' \in Nat
  BY DaysGrow, WatchersAssumption DEF Today, Tick

LEMMA ConstantsTyped ==
    /\ Price \in Nat \ {0} /\ Interval \in Nat \ {0} /\ Day \in Nat \ {0}
    /\ MaxErrors \in Nat \ {0} /\ Fee \in Nat /\ Budget \in Nat /\ Funds \in Nat
    /\ MaxNow \in Nat /\ MaxFaults \in Nat /\ Charge \in Nat \ {0}
    /\ Charge = Price + Fee /\ 0 \in 0 .. MaxErrors
  BY WatchersAssumption DEF Charge

LEMMA MinIsLeast ==
    ASSUME NEW a \in Nat, NEW b \in Nat
    PROVE  Min({a, b}) \in Nat /\ Min({a, b}) <= b
  <1>1. \E x \in {a, b} : \A y \in {a, b} : x <= y
    OBVIOUS
  <1> QED
    BY <1>1 DEF Min

LEMMA NewRowTyped == NewRow \in AnyRow
  <1>1. 0 \in 0 .. LastDay
    BY DaysGrow, WatchersAssumption DEF LastDay
  <1> QED
    BY <1>1, WatchersAssumption DEF NewRow, AnyRow

LEMMA ResetTyped ==
    ASSUME Shape
    PROVE  /\ reset_spend_window \in AnyRow
           /\ reset_spend_window.next = row.next
           /\ reset_spend_window.errors = row.errors
  BY TodayRange DEF Shape, reset_spend_window, AnyRow

LEMMA WindowedTyped ==
    ASSUME Shape, NEW s \in Sweepers
    PROVE  /\ Windowed(s) \in AnyRow
           /\ Windowed(s).next = row.next
           /\ Windowed(s).errors = row.errors
  BY ResetTyped DEF Shape, Windowed

\* Every statement leaves a row.
LEMMA RowStep ==
    ASSUME Shape, Next
    PROVE  row' \in AnyRow
  <1>0. /\ row \in AnyRow /\ now \in 0 .. MaxNow
        /\ \A s \in Sweepers : found[s] \in Fingerprints \cup {"none"}
    BY DEF Shape
  <1>1. ASSUME NEW s \in Sweepers, SweepStart(s) PROVE row' \in AnyRow
    BY <1>0, <1>1 DEF SweepStart
  <1>2. ASSUME NEW s \in Sweepers, SweepReset(s) PROVE row' \in AnyRow
    BY <1>0, <1>2, ResetTyped DEF SweepReset, Update
  <1>3. ASSUME NEW s \in Sweepers, SweepDue(s) PROVE row' \in AnyRow
    BY <1>0, <1>3 DEF SweepDue
  <1>4. ASSUME NEW s \in Sweepers, claim_watcher_tick(s) PROVE row' \in AnyRow
    <2>1. now + Interval \in 0 .. MaxNow + Interval
      BY <1>0, ConstantsTyped
    <2> QED
      BY <1>0, <1>4, <2>1 DEF claim_watcher_tick, AnyRow
  <1>5. ASSUME NEW s \in Sweepers, TickFails(s) PROVE row' \in AnyRow
    <2> DEFINE m == Min({row.errors + 1, MaxErrors})
    <2>1. m \in 0 .. MaxErrors
      <3>1. row.errors + 1 \in Nat /\ MaxErrors \in Nat
        BY <1>0, ConstantsTyped DEF AnyRow
      <3> QED
        BY <3>1, MinIsLeast
    <2> HIDE DEF m
    <2>2. [Windowed(s) EXCEPT !.errors = m] \in AnyRow
      BY <2>1, WindowedTyped DEF AnyRow
    <2>3. row' = IF Exists THEN [Windowed(s) EXCEPT !.errors = m] ELSE row
      BY <1>5 DEF TickFails, Update, m
    <2> QED
      BY <1>0, <2>2, <2>3
  <1>6. ASSUME NEW s \in Sweepers, TickPause(s) PROVE row' \in AnyRow
    BY <1>0, <1>6 DEF TickPause, update_status, Update, AnyRow
  <1>7. ASSUME NEW s \in Sweepers, TickLook(s) PROVE row' \in AnyRow
    <2>1. PICK x \in BOOLEAN :
             row' = IF Exists
                    THEN [Windowed(s) EXCEPT !.errors = 0,
                              !.status = IF x THEN "budget_exhausted" ELSE @]
                    ELSE row
      BY <1>7 DEF TickLook, Update
    <2>2. ASSUME NEW r \in AnyRow
          PROVE  [r EXCEPT !.errors = 0,
                           !.status = IF x THEN "budget_exhausted" ELSE @] \in AnyRow
      <3>1. CASE x
        BY <3>1, ConstantsTyped DEF AnyRow
      <3>2. CASE ~x
        BY <3>2, ConstantsTyped DEF AnyRow
      <3> QED
        BY <3>1, <3>2
    <2> QED
      BY <1>0, <2>1, <2>2, WindowedTyped
  <1>8. ASSUME NEW s \in Sweepers, FireCharge(s) PROVE row' \in AnyRow
    BY <1>0, <1>8 DEF FireCharge, update_status, Update, AnyRow
  <1>9. ASSUME NEW s \in Sweepers, FireCreate(s) PROVE row' \in AnyRow
    BY <1>0, <1>9 DEF FireCreate
  <1>10. ASSUME NEW s \in Sweepers, FireRecord(s) PROVE row' \in AnyRow
    <2>1. Today \in 0 .. LastDay /\ Charge \in Nat /\ found[s] \in Fingerprints \cup {"none"}
      BY <1>0, TodayRange, ConstantsTyped DEF Charge
    <2>2. row' = IF Exists
                 THEN [row EXCEPT !.last = found[s], !.spend = row.spend + Charge,
                                  !.window = Today, !.errors = 0]
                 ELSE row
      BY <1>10 DEF FireRecord, record_fire_atomic, Update
    <2>3. row.spend + Charge \in Nat
      BY <1>0, <2>1 DEF AnyRow
    <2> QED
      BY <1>0, <2>1, <2>2, <2>3, ConstantsTyped DEF AnyRow
  <1>11. ASSUME NEW s \in Sweepers, SweeperCrash(s) PROVE row' \in AnyRow
    BY <1>0, <1>11 DEF SweeperCrash
  <1>12. CASE OwnerPause
    BY <1>0, <1>12 DEF OwnerPause, AnyRow
  <1>15. CASE OwnerResume
    BY <1>0, <1>15, ConstantsTyped DEF OwnerResume, AnyRow
  <1>13. CASE OwnerDelete
    BY <1>0, <1>13, NewRowTyped DEF OwnerDelete, AnyRow
  <1>14. CASE Tick
    BY <1>0, <1>14 DEF Tick
  <1> QED
    BY <1>1, <1>2, <1>3, <1>4, <1>5, <1>6, <1>7, <1>8, <1>9, <1>10, <1>11, <1>12,
       <1>13, <1>14, <1>15 DEF Next, Sweep

-----------------------------------------------------------------------------
(* The shape of the state. *)

Places == {"idle", "reset", "due", "claim", "look", "pause", "charge", "create",
           "record", "gone"}

SweepShape ==
    /\ spc \in [Sweepers -> Places]
    /\ seen \in [Sweepers -> AnyRow]
    /\ found \in [Sweepers -> Fingerprints \cup {"none"}]
    /\ fire \in [Sweepers -> Nat]

\* What an action leaves of the sweepers' own state.
LEMMA GotoTyped ==
    ASSUME SweepShape, NEW s \in Sweepers, NEW l \in Places, Goto(s, l)
    PROVE  SweepShape'
  BY DEF SweepShape, Goto

LEMMA ForgetTyped ==
    ASSUME SweepShape, NEW s \in Sweepers, Forget(s)
    PROVE  SweepShape'
  BY NewRowTyped DEF SweepShape, Forget, Places

LEMMA KeepTyped ==
    ASSUME SweepShape, NEW s \in Sweepers, NEW fp \in Fingerprints, Keep(s, fp)
    PROVE  SweepShape'
  <1>1. [NewRow EXCEPT !.next = seen[s].next] \in AnyRow
    BY NewRowTyped DEF SweepShape, AnyRow
  <1> QED
    BY <1>1 DEF SweepShape, Keep, Places

\* A fire joins the list, or one of the list changes its job.
LEMMA FiresTyped ==
    ASSUME Shape, Position, NEW s \in Sweepers
    PROVE  /\ FireCharge(s) => fires' \in Seq(Fire)
           /\ FireCreate(s) => fires' \in Seq(Fire)
  <1>1. ASSUME FireCharge(s) PROVE fires' \in Seq(Fire)
    <2> DEFINE f == [tick |-> seen[s].next, day |-> Today, seen |-> found[s],
                     job |-> "none"]
    <2>1. seen[s].next \in 0 .. MaxNow /\ found[s] \in Fingerprints
      <3>1. seen[s] \in AnyRow /\ now \in 0 .. MaxNow /\ spc[s] = "charge"
        BY <1>1 DEF FireCharge, Shape
      <3>2. seen[s].next <= now /\ found[s] \in Fingerprints
        BY <3>1 DEF Position
      <3>3. seen[s].next \in Nat
        BY <3>1, ConstantsTyped DEF AnyRow
      <3> QED
        BY <3>1, <3>2, <3>3, ConstantsTyped
    <2>2. f \in Fire
      BY <2>1, TodayRange DEF Shape, Fire
    <2>3. fires' = Append(fires, f) \/ fires' = fires
      BY <1>1 DEF FireCharge
    <2>4. fires \in Seq(Fire)
      BY DEF Shape
    <2> HIDE DEF f
    <2> QED
      BY <2>2, <2>3, <2>4
  <1>2. ASSUME FireCreate(s) PROVE fires' \in Seq(Fire)
    <2>1. fire[s] \in DOMAIN fires /\ fires[fire[s]] \in Fire
      BY <1>2 DEF FireCreate, Shape, Position, Charged
    <2>2. PICK j \in {"created", "refunded"} : fires' = [fires EXCEPT ![fire[s]].job = j]
      BY <1>2 DEF FireCreate
    <2>3. [fires[fire[s]] EXCEPT !.job = j] \in Fire
      BY <2>1 DEF Fire
    <2> QED
      BY <2>1, <2>2, <2>3 DEF Shape
  <1> QED
    BY <1>1, <1>2

LEMMA SweepShapeStep ==
    ASSUME Shape, [Next]_vars
    PROVE  SweepShape'
  <1>0. SweepShape
    BY DEF Shape, SweepShape, Places
  <1> USE DEF Places
  <1>1. ASSUME NEW s \in Sweepers, SweepStart(s) PROVE SweepShape'
    BY <1>0, <1>1, GotoTyped DEF SweepStart
  <1>2. ASSUME NEW s \in Sweepers, SweepReset(s) PROVE SweepShape'
    BY <1>0, <1>2, GotoTyped DEF SweepReset
  <1>3. ASSUME NEW s \in Sweepers, SweepDue(s) PROVE SweepShape'
    <2>1. CASE row.status = "active" /\ row.next <= now
      BY <1>0, <1>3, <2>1 DEF SweepDue, Shape, SweepShape
    <2>2. CASE ~(row.status = "active" /\ row.next <= now)
      BY <1>0, <1>3, <2>2, ForgetTyped DEF SweepDue
    <2> QED
      BY <2>1, <2>2
  <1>4. ASSUME NEW s \in Sweepers, claim_watcher_tick(s) PROVE SweepShape'
    BY <1>0, <1>4, GotoTyped, ForgetTyped DEF claim_watcher_tick
  <1>5. ASSUME NEW s \in Sweepers, TickFails(s) PROVE SweepShape'
    <2>1. Goto(s, "pause") \/ Forget(s)
      BY <1>5 DEF TickFails
    <2> QED
      BY <1>0, <2>1, GotoTyped, ForgetTyped
  <1>6. ASSUME NEW s \in Sweepers, TickPause(s) PROVE SweepShape'
    BY <1>0, <1>6, ForgetTyped DEF TickPause
  <1>7. ASSUME NEW s \in Sweepers, TickLook(s) PROVE SweepShape'
    <2>1. Forget(s) \/ \E fp \in Fingerprints : Keep(s, fp)
      BY <1>7 DEF TickLook
    <2> QED
      BY <1>0, <2>1, KeepTyped, ForgetTyped
  <1>8. ASSUME NEW s \in Sweepers, FireCharge(s) PROVE SweepShape'
    <2>1. CASE Forget(s)
      BY <1>0, <2>1, ForgetTyped
    <2>2. CASE /\ spc' = [spc EXCEPT ![s] = "create"]
               /\ fire' = [fire EXCEPT ![s] = Len(fires) + 1]
               /\ UNCHANGED <<seen, found>>
      <3>1. Len(fires) + 1 \in Nat
        BY DEF Shape
      <3> QED
        BY <1>0, <2>2, <3>1 DEF SweepShape
    <2> QED
      BY <1>8, <2>1, <2>2 DEF FireCharge
  <1>9. ASSUME NEW s \in Sweepers, FireCreate(s) PROVE SweepShape'
    BY <1>0, <1>9, GotoTyped, ForgetTyped DEF FireCreate
  <1>10. ASSUME NEW s \in Sweepers, FireRecord(s) PROVE SweepShape'
    BY <1>0, <1>10, ForgetTyped DEF FireRecord
  <1>11. ASSUME NEW s \in Sweepers, SweeperCrash(s) PROVE SweepShape'
    BY <1>0, <1>11, ForgetTyped DEF SweeperCrash
  <1>12. CASE UNCHANGED sweepVars
    BY <1>0, <1>12 DEF SweepShape, sweepVars
  <1> QED
    BY <1>1, <1>2, <1>3, <1>4, <1>5, <1>6, <1>7, <1>8, <1>9, <1>10, <1>11, <1>12
    DEF Next, Sweep, OwnerPause, OwnerResume, OwnerDelete, Tick, vars

\* A sweeper's step changes the charges at FireCharge and FireCreate only.
LEMMA FiresStep ==
    ASSUME Shape, Position, [Next]_vars
    PROVE  fires' \in Seq(Fire)
  <1>1. CASE UNCHANGED fires
    BY <1>1 DEF Shape
  <1>2. ASSUME NEW s \in Sweepers, FireCharge(s) \/ FireCreate(s)
        PROVE  fires' \in Seq(Fire)
    BY <1>2, FiresTyped
  <1> QED
    BY <1>1, <1>2
    DEF Next, Sweep, SweepStart, SweepReset, SweepDue, claim_watcher_tick, TickFails,
        TickPause, TickLook, FireRecord, SweeperCrash, OwnerPause, OwnerResume,
        OwnerDelete, Tick, vars

LEMMA FaultsBound ==
    ASSUME Shape
    PROVE  Faults < MaxFaults => crashes + 1 \in 0 .. MaxFaults
  <1> DEFINE R == {s \in Sweepers \ {Leader} : spc[s] # "idle"}
  <1>1. IsFiniteSet(R)
    BY FS_Subset, WatchersAssumption
  <1>2. Cardinality(R) \in Nat /\ Faults = crashes + Cardinality(R)
    BY <1>1, FS_CardinalityType DEF Faults
  <1> HIDE DEF R
  <1> QED
    BY <1>2, ConstantsTyped DEF Shape

LEMMA ShapeStep ==
    ASSUME Shape, Position, [Next]_vars
    PROVE  Shape'
  <1>1. row' \in AnyRow
    BY RowStep DEF vars, Shape
  <1>2. SweepShape'
    BY SweepShapeStep
  <1>3. fires' \in Seq(Fire)
    BY FiresStep
  <1>4. policy' = policy
    BY DEF Next, Sweep, SweepStart, SweepReset, SweepDue, claim_watcher_tick, TickFails,
           TickPause, TickLook, FireCharge, FireCreate, FireRecord, SweeperCrash,
           OwnerPause, OwnerResume, OwnerDelete, Tick, vars
  <1>5. now' \in 0 .. MaxNow
    <2>1. CASE Tick
      BY <2>1, ConstantsTyped DEF Tick, Shape
    <2>2. CASE UNCHANGED now
      BY <2>2 DEF Shape
    <2> QED
      BY <2>1, <2>2
      DEF Next, Sweep, SweepStart, SweepReset, SweepDue, claim_watcher_tick, TickFails,
          TickPause, TickLook, FireCharge, FireCreate, FireRecord, SweeperCrash,
          OwnerPause, OwnerResume, OwnerDelete, vars
  <1>6. crashes' \in 0 .. MaxFaults
    <2>1. ASSUME NEW s \in Sweepers, SweeperCrash(s) PROVE crashes' \in 0 .. MaxFaults
      BY <2>1, FaultsBound DEF SweeperCrash
    <2>2. CASE UNCHANGED crashes
      BY <2>2 DEF Shape
    <2> QED
      BY <2>1, <2>2
      DEF Next, Sweep, SweepStart, SweepReset, SweepDue, claim_watcher_tick, TickFails,
          TickPause, TickLook, FireCharge, FireCreate, FireRecord, Tick,
          OwnerPause, OwnerResume, OwnerDelete, vars
  <1>7. funds' \in Nat
    <2>1. ASSUME NEW s \in Sweepers, FireCharge(s) \/ FireCreate(s) PROVE funds' \in Nat
      <3>1. \/ funds' = funds \/ funds' = funds + Charge
            \/ funds >= Charge /\ funds' = funds - Charge
        BY <2>1 DEF FireCharge, FireCreate
      <3>2. funds \in Nat
        BY DEF Shape
      <3> QED
        BY <3>1, <3>2, ConstantsTyped
    <2>2. CASE UNCHANGED funds
      BY <2>2 DEF Shape
    <2> QED
      BY <2>1, <2>2
      DEF Next, Sweep, SweepStart, SweepReset, SweepDue, claim_watcher_tick, TickFails,
          TickPause, TickLook, FireRecord, SweeperCrash, Tick,
          OwnerPause, OwnerResume, OwnerDelete, vars
  <1>8. alone' \in BOOLEAN /\ quiet' \in BOOLEAN
    <2>1. alone \in BOOLEAN /\ quiet \in BOOLEAN
      BY DEF Shape
    <2>2. ASSUME NEW s \in Sweepers, Sweep(s) \/ SweeperCrash(s)
          PROVE  alone' \in BOOLEAN /\ quiet' \in BOOLEAN
      <3>1. CASE SweepStart(s)
        BY <2>1, <3>1 DEF SweepStart
      <3>2. CASE ~SweepStart(s)
        BY <2>1, <2>2, <3>2
        DEF Sweep, SweepReset, SweepDue, claim_watcher_tick, TickFails, TickPause, TickLook,
            FireCharge, FireCreate, FireRecord, SweeperCrash, ghosts
      <3> QED
        BY <3>1, <3>2
    <2>3. CASE OwnerPause \/ OwnerResume \/ OwnerDelete
      BY <2>1, <2>3 DEF OwnerPause, OwnerResume, OwnerDelete
    <2> QED
      BY <2>1, <2>2, <2>3 DEF Next, Tick, vars, ghosts
  <1> QED
    BY <1>1, <1>2, <1>3, <1>4, <1>5, <1>6, <1>7, <1>8 DEF Shape, SweepShape, Places

-----------------------------------------------------------------------------
(* Positions, ticks and pauses. *)

\* The parts of Shape that the proofs below read.
LEMMA ShapeFacts ==
    ASSUME Shape
    PROVE  /\ row \in AnyRow /\ row.next \in Nat /\ row.spend \in Nat /\ row.window \in Nat
           /\ now \in Nat /\ fires \in Seq(Fire) /\ Len(fires) \in Nat
           /\ DOMAIN fires = 1 .. Len(fires)
           /\ \A s \in Sweepers : seen[s].next \in Nat /\ fire[s] \in Nat
           /\ DOMAIN spc = Sweepers /\ DOMAIN seen = Sweepers
           /\ DOMAIN found = Sweepers /\ DOMAIN fire = Sweepers
  <1>1. \A r \in AnyRow : r.next \in Nat /\ r.spend \in Nat /\ r.window \in Nat
    BY ConstantsTyped, DaysGrow DEF AnyRow
  <1>2. /\ row \in AnyRow /\ fires \in Seq(Fire) /\ now \in 0 .. MaxNow
        /\ \A s \in Sweepers : seen[s] \in AnyRow /\ fire[s] \in Nat
        /\ DOMAIN spc = Sweepers /\ DOMAIN seen = Sweepers
        /\ DOMAIN found = Sweepers /\ DOMAIN fire = Sweepers
    BY DEF Shape
  <1> QED
    BY <1>1, <1>2, ConstantsTyped

\* The sweepers that take no part in a step keep their place.
LEMMA PositionStep ==
    ASSUME Shape, Position, OwnFire, [Next]_vars
    PROVE  Position'
  <1>0. /\ now \in Nat /\ fires \in Seq(Fire) /\ Len(fires) \in Nat
        /\ \A s \in Sweepers : seen[s].next \in Nat /\ fire[s] \in Nat
        /\ DOMAIN spc = Sweepers /\ DOMAIN seen = Sweepers
        /\ DOMAIN found = Sweepers /\ DOMAIN fire = Sweepers
    BY ShapeFacts
  <1> USE DEF Position, Charged
  <1>1. ASSUME NEW s \in Sweepers, Forget(s), UNCHANGED <<fires, now>> PROVE Position'
    BY <1>0, <1>1 DEF Forget
  <1>2. ASSUME NEW s \in Sweepers, SweepStart(s) PROVE Position'
    BY <1>0, <1>2 DEF SweepStart, Goto
  <1>3. ASSUME NEW s \in Sweepers, SweepReset(s) PROVE Position'
    BY <1>0, <1>3 DEF SweepReset, Goto
  <1>4. ASSUME NEW s \in Sweepers, SweepDue(s) PROVE Position'
    <2>1. CASE row.status = "active" /\ row.next <= now
      BY <1>0, <1>4, <2>1 DEF SweepDue
    <2> QED
      BY <1>1, <1>4, <2>1 DEF SweepDue
  <1>5. ASSUME NEW s \in Sweepers, claim_watcher_tick(s) PROVE Position'
    <2>1. CASE Goto(s, "look")
      BY <1>0, <1>5, <2>1 DEF claim_watcher_tick, Goto
    <2> QED
      BY <1>1, <1>5, <2>1 DEF claim_watcher_tick
  <1>6. ASSUME NEW s \in Sweepers, TickFails(s) PROVE Position'
    <2>1. UNCHANGED <<fires, now>> /\ (Goto(s, "pause") \/ Forget(s))
      BY <1>6 DEF TickFails
    <2>2. CASE Goto(s, "pause")
      BY <1>0, <2>1, <2>2 DEF Goto
    <2> QED
      BY <1>1, <2>1, <2>2
  <1>7. ASSUME NEW s \in Sweepers, TickLook(s) PROVE Position'
    <2>1. /\ UNCHANGED <<fires, now>> /\ spc[s] = "look"
          /\ Forget(s) \/ \E fp \in Fingerprints : Keep(s, fp)
      BY <1>7 DEF TickLook
    <2>2. ASSUME NEW fp \in Fingerprints, Keep(s, fp) PROVE Position'
      <3>1. /\ spc' = [spc EXCEPT ![s] = "charge"] /\ found' = [found EXCEPT ![s] = fp]
            /\ fire' = fire /\ seen'[s].next = seen[s].next
            /\ \A t \in Sweepers : t # s => seen'[t] = seen[t]
        BY <1>0, <2>2 DEF Keep, NewRow
      <3> QED
        BY <1>0, <2>1, <3>1
    <2> QED
      BY <1>1, <2>1, <2>2
  <1>8. ASSUME NEW s \in Sweepers, FireCharge(s) PROVE Position'
    <2>1. CASE UNCHANGED <<fires, now>> /\ Forget(s)
      BY <1>1, <2>1
    <2>2. CASE ~(UNCHANGED <<fires, now>> /\ Forget(s))
      <3>1. PICK f : /\ fires' = Append(fires, f) /\ f.job = "none"
                     /\ spc' = [spc EXCEPT ![s] = "create"]
                     /\ fire' = [fire EXCEPT ![s] = Len(fires) + 1]
                     /\ UNCHANGED <<seen, found, now>> /\ spc[s] = "charge"
        BY <1>8, <2>2 DEF FireCharge
      <3>2. /\ Len(fires') = Len(fires) + 1 /\ fires'[Len(fires) + 1] = f
            /\ \A i \in 1 .. Len(fires) : fires'[i] = fires[i]
        BY <1>0, <3>1
      <3>3. \A t \in Sweepers : t # s => spc'[t] = spc[t] /\ fire'[t] = fire[t]
        BY <1>0, <3>1
      <3>4. spc'[s] = "create" /\ fire'[s] = Len(fires) + 1
        BY <1>0, <3>1
      <3>5. ASSUME NEW t \in Sweepers, t # s PROVE Position!(t)'
        BY <1>0, <3>1, <3>2, <3>3, <3>5
      <3>6. Position!(s)'
        BY <1>0, <3>1, <3>2, <3>4
      <3> QED
        BY <3>5, <3>6
    <2> QED
      BY <2>1, <2>2
  <1>9. ASSUME NEW s \in Sweepers, FireCreate(s) PROVE Position'
    <2>1. PICK j \in {"created", "refunded"} :
             /\ fires' = [fires EXCEPT ![fire[s]].job = j]
             /\ spc[s] = "create" /\ now' = now
             /\ (j = "created" /\ Goto(s, "record")) \/ Forget(s)
      BY <1>9 DEF FireCreate
    <2>2. fire[s] \in 1 .. Len(fires)
      BY <1>0, <2>1
    <2>3. /\ Len(fires') = Len(fires) /\ fires'[fire[s]].job = j
          /\ \A i \in 1 .. Len(fires) : i # fire[s] => fires'[i] = fires[i]
      <3>1. fires[fire[s]] \in Fire
        BY <1>0, <2>2
      <3> QED
        BY <1>0, <2>1, <2>2, <3>1 DEF Fire
    <2>4. \A t \in Sweepers : t # s /\ Charged(t) => fire[t] # fire[s]
      BY <2>1 DEF OwnFire
    <2>5. ASSUME NEW t \in Sweepers, t # s PROVE Position!(t)'
      <3>1. spc'[t] = spc[t] /\ seen'[t] = seen[t] /\ found'[t] = found[t] /\ fire'[t] = fire[t]
        BY <1>0, <2>1, <2>5 DEF Goto, Forget
      <3> QED
        BY <1>0, <2>1, <2>3, <2>4, <2>5, <3>1
    <2>6. Position!(s)'
      BY <1>0, <2>1, <2>2, <2>3 DEF Goto, Forget
    <2> QED
      BY <2>5, <2>6
  <1>10. ASSUME NEW s \in Sweepers, TickPause(s) \/ FireRecord(s) \/ SweeperCrash(s)
         PROVE  Position'
    BY <1>1, <1>10 DEF TickPause, FireRecord, SweeperCrash
  <1>11. CASE UNCHANGED <<fires, sweepVars>> /\ (now' = now \/ now' = now + 1)
    BY <1>0, <1>11 DEF sweepVars
  <1> QED
    BY <1>2, <1>3, <1>4, <1>5, <1>6, <1>7, <1>8, <1>9, <1>10, <1>11
    DEF Next, Sweep, OwnerPause, OwnerResume, OwnerDelete, Tick, vars

LEMMA OwnFireStep ==
    ASSUME Shape, Position, OwnFire, [Next]_vars
    PROVE  OwnFire'
  <1>0. /\ fires \in Seq(Fire) /\ Len(fires) \in Nat
        /\ \A s \in Sweepers : fire[s] \in Nat
        /\ DOMAIN spc = Sweepers /\ DOMAIN fire = Sweepers
    BY ShapeFacts
  <1> USE DEF OwnFire, Charged
  <1>1. ASSUME NEW s \in Sweepers, Forget(s) PROVE OwnFire'
    BY <1>0, <1>1 DEF Forget
  <1>2. ASSUME NEW s \in Sweepers, NEW l \in {"reset", "due", "look", "pause"}, Goto(s, l)
        PROVE  OwnFire'
    BY <1>0, <1>2 DEF Goto
  <1>3. ASSUME NEW s \in Sweepers, NEW fp, Keep(s, fp) PROVE OwnFire'
    BY <1>0, <1>3 DEF Keep
  <1>4. ASSUME NEW s \in Sweepers, SweepDue(s) PROVE OwnFire'
    <2>1. CASE spc' = [spc EXCEPT ![s] = "claim"] /\ UNCHANGED fire
      BY <1>0, <2>1
    <2> QED
      BY <1>1, <1>4, <2>1 DEF SweepDue
  <1>5. ASSUME NEW s \in Sweepers, FireCharge(s) PROVE OwnFire'
    <2>1. CASE /\ spc' = [spc EXCEPT ![s] = "create"]
               /\ fire' = [fire EXCEPT ![s] = Len(fires) + 1]
      <3>1. \A t \in Sweepers : t # s => fire[t] # Len(fires) + 1
        BY <1>0 DEF Position
      <3> QED
        BY <1>0, <2>1, <3>1
    <2> QED
      BY <1>1, <1>5, <2>1 DEF FireCharge
  <1>6. ASSUME NEW s \in Sweepers, FireCreate(s) PROVE OwnFire'
    <2>1. CASE Goto(s, "record")
      BY <1>0, <1>6, <2>1 DEF Goto, FireCreate
    <2> QED
      BY <1>1, <1>6, <2>1 DEF FireCreate
  <1>7. ASSUME NEW s \in Sweepers, TickLook(s) PROVE OwnFire'
    BY <1>1, <1>3, <1>7 DEF TickLook
  <1>8. ASSUME NEW s \in Sweepers, TickFails(s) PROVE OwnFire'
    BY <1>1, <1>2, <1>8 DEF TickFails
  <1>9. CASE UNCHANGED sweepVars
    BY <1>9 DEF sweepVars
  <1> QED
    BY <1>1, <1>2, <1>4, <1>5, <1>6, <1>7, <1>8, <1>9
    DEF Next, Sweep, SweepStart, SweepReset, claim_watcher_tick, TickPause, FireRecord,
        SweeperCrash, OwnerPause, OwnerResume, OwnerDelete, Tick, vars

\* The next tick moves by a claim only, and a deleted watcher stays deleted.
LEMMA NextTickStep ==
    ASSUME Shape, [Next]_vars, Exists'
    PROVE  /\ Exists
           /\ \/ row'.next = row.next
              \/ \E s \in Sweepers : claim_watcher_tick(s)
  <1>0. row \in AnyRow
    BY DEF Shape
  <1> DEFINE Same == Exists /\ row'.next = row.next
  <1> USE DEF Exists
  <1>1. ASSUME NEW s \in Sweepers, SweepReset(s) PROVE Same
    BY <1>0, <1>1, ResetTyped DEF SweepReset, Update
  <1>2. ASSUME NEW s \in Sweepers, claim_watcher_tick(s) PROVE Exists
    BY <1>0, <1>2 DEF claim_watcher_tick, AnyRow
  <1>3. ASSUME NEW s \in Sweepers, TickFails(s) PROVE Same
    <2>1. PICK m : row' = IF Exists THEN [Windowed(s) EXCEPT !.errors = m] ELSE row
      BY <1>3 DEF TickFails, Update
    <2> QED
      BY <1>0, <2>1, WindowedTyped DEF AnyRow
  <1>4. ASSUME NEW s \in Sweepers, TickLook(s) PROVE Same
    <2>1. PICK x : row' = IF Exists
                         THEN [Windowed(s) EXCEPT !.errors = 0, !.status = x]
                         ELSE row
      BY <1>4 DEF TickLook, Update
    <2> QED
      BY <1>0, <2>1, WindowedTyped DEF AnyRow
  <1>5. ASSUME NEW s \in Sweepers, TickPause(s) \/ FireCharge(s) PROVE Same
    BY <1>0, <1>5 DEF TickPause, FireCharge, update_status, Update, AnyRow
  <1>6. ASSUME NEW s \in Sweepers, FireRecord(s) PROVE Same
    BY <1>0, <1>6 DEF FireRecord, record_fire_atomic, Update, AnyRow
  <1>7. CASE OwnerPause \/ OwnerResume
    BY <1>0, <1>7 DEF OwnerPause, OwnerResume, AnyRow
  <1>8. ~OwnerDelete
    BY DEF OwnerDelete, NewRow
  <1>9. CASE UNCHANGED row
    BY <1>9
  <1> QED
    BY <1>1, <1>2, <1>3, <1>4, <1>5, <1>6, <1>7, <1>8, <1>9
    DEF Next, Sweep, SweepStart, SweepDue, FireCreate, SweeperCrash, Tick, vars

\* A step that claims no tick and charges for none keeps the ticks apart: the
\* charges have the ticks they had, and no other sweeper holds a tick.
TicksKept ==
    /\ DOMAIN fires' = DOMAIN fires
    /\ \A i \in DOMAIN fires : fires'[i].tick = fires[i].tick
    /\ \A s \in Sweepers : Holds(s)' => Holds(s) /\ seen'[s].next = seen[s].next

LEMMA TicksKeptApart ==
    ASSUME TicksBehind, TicksApart, TicksKept, Exists' => Exists /\ row'.next = row.next
    PROVE  TicksBehind' /\ TicksApart'
  <1>1. TicksApart'
    BY DEF TicksApart, TicksKept
  <1>2. TicksBehind'
    BY DEF TicksBehind, TicksKept
  <1> QED
    BY <1>1, <1>2

LEMMA ForgetKeepsTicks ==
    ASSUME Shape, NEW s \in Sweepers, Forget(s), UNCHANGED fires
    PROVE  TicksKept
  BY ShapeFacts DEF Forget, TicksKept, Holds

LEMMA TicksStep ==
    ASSUME Shape, Position, TicksBehind, TicksApart, [Next]_vars
    PROVE  TicksBehind' /\ TicksApart'
  <1> DEFINE Goal == TicksBehind' /\ TicksApart'
  <1>0. /\ row.next \in Nat /\ now \in Nat /\ fires \in Seq(Fire) /\ Len(fires) \in Nat
        /\ DOMAIN fires = 1 .. Len(fires)
        /\ \A s \in Sweepers : seen[s].next \in Nat
        /\ DOMAIN spc = Sweepers /\ DOMAIN seen = Sweepers
    BY ShapeFacts
  <1>1. ASSUME TicksKept, ~\E s \in Sweepers : claim_watcher_tick(s) PROVE Goal
    BY <1>1, NextTickStep, TicksKeptApart
  <1>2. ASSUME NEW s \in Sweepers, NEW l \in {"reset", "due", "pause", "record"}, Goto(s, l),
               UNCHANGED fires
        PROVE  TicksKept
    BY <1>0, <1>2 DEF Goto, TicksKept, Holds
  <1>3. ASSUME NEW s \in Sweepers, claim_watcher_tick(s) PROVE Goal
    <2>1. CASE row.status = "active" /\ row.next = seen[s].next
      <3>1. /\ row' = [row EXCEPT !.next = now + Interval]
            /\ spc' = [spc EXCEPT ![s] = "look"] /\ UNCHANGED <<seen, fires>>
            /\ spc[s] = "claim"
        BY <1>3, <2>1 DEF claim_watcher_tick, Goto
      <3>2. seen[s].next <= now /\ seen[s].next < now + Interval
        BY <1>0, <3>1, ConstantsTyped DEF Position
      <3>3. Exists /\ row'.next = now + Interval
        BY <2>1, <3>1, ShapeFacts DEF Exists, AnyRow
      <3>4. /\ \A i \in DOMAIN fires : fires[i].tick < seen[s].next
            /\ \A t \in Sweepers : Holds(t) => seen[t].next < seen[s].next
        BY <2>1, <3>3 DEF TicksBehind
      <3>5. \A t \in Sweepers : Holds(t)' => t = s \/ Holds(t)
        BY <1>0, <3>1 DEF Holds
      <3>6. \A i \in DOMAIN fires : fires[i].tick \in Nat
        <4>1. \A i \in DOMAIN fires : fires[i] \in Fire
          BY <1>0
        <4> QED
          BY <4>1, ConstantsTyped DEF Fire
      <3>7. TicksBehind'
        <4>1. \A i \in DOMAIN fires : fires[i].tick < now + Interval
          BY <1>0, <3>2, <3>4, <3>6, ConstantsTyped
        <4>2. \A t \in Sweepers : Holds(t)' => seen[t].next < now + Interval
          BY <1>0, <3>2, <3>4, <3>5, ConstantsTyped
        <4> QED
          BY <3>1, <3>3, <4>1, <4>2 DEF TicksBehind
      <3>8. TicksApart'
        BY <1>0, <3>1, <3>4, <3>5, <3>6 DEF TicksApart
      <3> QED
        BY <3>7, <3>8
    <2>2. CASE ~(row.status = "active" /\ row.next = seen[s].next)
      <3>1. Forget(s) /\ UNCHANGED <<fires, row>>
        BY <1>3, <2>2 DEF claim_watcher_tick
      <3> QED
        BY <3>1, ForgetKeepsTicks, TicksKeptApart DEF Exists
    <2> QED
      BY <2>1, <2>2
  <1>4. ASSUME NEW s \in Sweepers, SweepDue(s) PROVE TicksKept
    <2>1. CASE row.status = "active" /\ row.next <= now
      BY <1>0, <1>4, <2>1 DEF SweepDue, TicksKept, Holds
    <2> QED
      BY <1>4, <2>1, ForgetKeepsTicks DEF SweepDue
  <1>5. ASSUME NEW s \in Sweepers, TickLook(s) PROVE TicksKept
    <2>1. /\ UNCHANGED fires /\ spc[s] = "look"
          /\ Forget(s) \/ \E fp \in Fingerprints : Keep(s, fp)
      BY <1>5 DEF TickLook
    <2>2. ASSUME NEW fp \in Fingerprints, Keep(s, fp) PROVE TicksKept
      <3>1. /\ spc' = [spc EXCEPT ![s] = "charge"] /\ seen'[s].next = seen[s].next
            /\ \A t \in Sweepers : t # s => seen'[t] = seen[t]
        BY <1>0, <2>2 DEF Keep, NewRow
      <3> QED
        BY <1>0, <2>1, <3>1 DEF TicksKept, Holds
    <2> QED
      BY <2>1, <2>2, ForgetKeepsTicks
  <1>6. ASSUME NEW s \in Sweepers, FireCharge(s),
               ~\E t \in Sweepers : claim_watcher_tick(t)
        PROVE  Goal
    <2>1. CASE Forget(s) /\ UNCHANGED fires
      BY <1>1, <1>6, <2>1, ForgetKeepsTicks
    <2>2. CASE ~(Forget(s) /\ UNCHANGED fires)
      <3>1. PICK f : /\ fires' = Append(fires, f) /\ f.tick = seen[s].next
                     /\ spc' = [spc EXCEPT ![s] = "create"]
                     /\ UNCHANGED <<row, seen>> /\ spc[s] = "charge"
        BY <1>6, <2>2 DEF FireCharge
      <3>2. /\ DOMAIN fires' = 1 .. Len(fires) + 1 /\ fires'[Len(fires) + 1] = f
            /\ \A i \in 1 .. Len(fires) : fires'[i] = fires[i]
        BY <1>0, <3>1
      <3>3. \A t \in Sweepers : Holds(t)' => t # s /\ Holds(t)
        BY <1>0, <3>1 DEF Holds
      <3>4. Holds(s)
        BY <3>1 DEF Holds
      <3>5. \A i \in DOMAIN fires' : i = Len(fires) + 1 \/ i \in DOMAIN fires
        BY <1>0, <3>2
      <3>6. TicksBehind'
        BY <1>0, <3>1, <3>2, <3>3, <3>4, <3>5 DEF TicksBehind, Exists
      <3>7. TicksApart'
        <4>1. \A t, u \in Sweepers : t # u /\ Holds(t)' /\ Holds(u)' => seen'[t].next # seen'[u].next
          BY <3>1, <3>3 DEF TicksApart
        <4>2. \A t \in Sweepers, i \in DOMAIN fires' : Holds(t)' => fires'[i].tick # seen'[t].next
          BY <1>0, <3>1, <3>2, <3>3, <3>4, <3>5 DEF TicksApart
        <4>3. \A i, j \in DOMAIN fires' : i # j => fires'[i].tick # fires'[j].tick
          BY <1>0, <3>1, <3>2, <3>4, <3>5 DEF TicksApart
        <4> QED
          BY <4>1, <4>2, <4>3 DEF TicksApart
      <3> QED
        BY <3>6, <3>7
    <2> QED
      BY <2>1, <2>2
  <1>7. ASSUME NEW s \in Sweepers, FireCreate(s) PROVE TicksKept
    <2>1. PICK j : /\ fires' = [fires EXCEPT ![fire[s]].job = j]
                   /\ Goto(s, "record") \/ Forget(s)
      BY <1>7 DEF FireCreate
    <2>2. \A i \in DOMAIN fires : fires[i] \in Fire
      BY <1>0
    <2>3. DOMAIN fires' = DOMAIN fires /\ \A i \in DOMAIN fires : fires'[i].tick = fires[i].tick
      BY <1>0, <2>1, <2>2 DEF Fire
    <2> QED
      BY <1>0, <2>1, <2>3 DEF TicksKept, Holds, Goto, Forget
  <1>8. ASSUME NEW s \in Sweepers,
               SweepStart(s) \/ SweepReset(s) \/ TickFails(s) \/ TickPause(s)
                  \/ FireRecord(s) \/ SweeperCrash(s)
        PROVE  TicksKept
    BY <1>2, <1>8, ForgetKeepsTicks
    DEF SweepStart, SweepReset, TickFails, TickPause, FireRecord, SweeperCrash
  <1>9. CASE UNCHANGED <<fires, sweepVars>>
    <2>1. TicksKept
      BY <1>9 DEF TicksKept, Holds, sweepVars
    <2> QED
      BY <1>1, <1>3, <2>1
  <1> QED
    BY <1>1, <1>3, <1>4, <1>5, <1>6, <1>7, <1>8, <1>9
    DEF Next, Sweep, OwnerPause, OwnerResume, OwnerDelete, Tick, vars

\* Nothing but its owner touches a paused watcher when no tick is under way.
LEMMA PausedIdleStep ==
    ASSUME Shape, PausedIdle, [Next]_vars
    PROVE  PausedIdle'
  <1>0. row \in AnyRow /\ DOMAIN spc = Sweepers
    BY ShapeFacts
  <1> USE DEF PausedIdle, Ticking
  <1>1. ASSUME NEW s \in Sweepers, Sweep(s) \/ SweeperCrash(s) PROVE PausedIdle'
    <2>1. SUFFICES ASSUME quiet' PROVE row'.status = "paused" /\ \A t \in Sweepers : ~Ticking(t)'
      OBVIOUS
    <2>2. quiet
      BY <1>1, <2>1
      DEF Sweep, SweepStart, SweepReset, SweepDue, claim_watcher_tick, TickFails, TickPause,
          TickLook, FireCharge, FireCreate, FireRecord, SweeperCrash, ghosts
    <2>3. row.status = "paused" /\ \A t \in Sweepers : ~Ticking(t)
      BY <2>2
    <2>4. \/ SweepStart(s) \/ SweepReset(s) \/ SweepDue(s) \/ claim_watcher_tick(s)
          \/ SweeperCrash(s)
      BY <1>1, <2>3 DEF Sweep, TickFails, TickPause, TickLook, FireCharge, FireCreate, FireRecord
    <2>5. row'.status = "paused"
      <3>1. CASE SweepReset(s)
        <4>1. reset_spend_window.status = "paused"
          BY <1>0, <2>3 DEF reset_spend_window, AnyRow
        <4> QED
          BY <2>3, <3>1, <4>1 DEF SweepReset, Update
      <3> QED
        BY <2>3, <2>4, <3>1 DEF SweepStart, SweepDue, claim_watcher_tick, SweeperCrash
    <2>6. \A t \in Sweepers : ~Ticking(t)'
      BY <1>0, <2>3, <2>4
      DEF SweepStart, SweepReset, SweepDue, claim_watcher_tick, SweeperCrash, Goto, Forget
    <2> QED
      BY <2>5, <2>6
  <1>2. CASE OwnerPause
    <2>1. row'.status = "paused"
      BY <1>0, <1>2 DEF OwnerPause, AnyRow
    <2> QED
      BY <1>2, <2>1 DEF OwnerPause, sweepVars
  <1>3. CASE OwnerResume \/ OwnerDelete
    BY <1>3 DEF OwnerResume, OwnerDelete
  <1>4. CASE UNCHANGED <<row, sweepVars, quiet>>
    BY <1>4 DEF sweepVars
  <1> QED
    BY <1>1, <1>2, <1>3, <1>4 DEF Next, Tick, vars, ghosts

-----------------------------------------------------------------------------
(* Cents. *)

LEMMA ChargeTimes ==
    ASSUME NEW n \in Nat, NEW c \in Nat
    PROVE  /\ c * n \in Nat /\ c * (n + 1) = c * n + c /\ n * c = c * n
           /\ (n + 1) * c = n * c + c
  OBVIOUS

LEMMA ChargeTimesGrows ==
    ASSUME NEW n \in Nat, NEW m \in Nat, NEW c \in Nat, m <= n
    PROVE  c * m <= c * n
  OBVIOUS

\* The sets of charges that the cents are counted over are finite.
LEMMA ChargesFinite ==
    ASSUME Shape
    PROVE  /\ IsFiniteSet(DOMAIN fires)
           /\ IsFiniteSet(Kept) /\ IsFiniteSet(Created)
           /\ \A d : IsFiniteSet(FiresOf(d))
           /\ IsFiniteSet(Recording)
           /\ Created \subseteq Kept
  <1>1. IsFiniteSet(DOMAIN fires)
    BY ShapeFacts, FS_Interval
  <1>2. /\ Kept \subseteq DOMAIN fires /\ Created \subseteq Kept
        /\ \A d : FiresOf(d) \subseteq Kept
    BY DEF Kept, Created, FiresOf
  <1>3. Recording \subseteq Sweepers
    BY DEF Recording
  <1>4. IsFiniteSet(Kept)
    BY <1>1, <1>2, FS_Subset
  <1> QED
    BY <1>1, <1>2, <1>3, <1>4, FS_Subset, WatchersAssumption

\* A new charge is kept and has no job.
LEMMA NewCharge ==
    ASSUME Shape, NEW f, f.job = "none", fires' = Append(fires, f)
    PROVE  /\ Kept' = Kept \cup {Len(fires) + 1} /\ Len(fires) + 1 \notin Kept
           /\ Created' = Created
           /\ \A d : FiresOf(d)' = IF f.day = d THEN FiresOf(d) \cup {Len(fires) + 1}
                                   ELSE FiresOf(d)
  <1>1. Len(fires) \in Nat /\ DOMAIN fires = 1 .. Len(fires) /\ fires \in Seq(Fire)
    BY ShapeFacts
  <1>2. /\ DOMAIN fires' = DOMAIN fires \cup {Len(fires) + 1}
        /\ fires'[Len(fires) + 1] = f
        /\ \A i \in DOMAIN fires : fires'[i] = fires[i]
        /\ Len(fires) + 1 \notin DOMAIN fires
    BY <1>1
  <1>3. Kept' = Kept \cup {Len(fires) + 1}
    BY <1>2 DEF Kept
  <1>4. \A d : FiresOf(d)' = {i \in Kept' : fires'[i].day = d}
    BY DEF FiresOf
  <1>5. \A i \in Kept : i \in DOMAIN fires
    BY DEF Kept
  <1> QED
    BY <1>2, <1>3, <1>4, <1>5 DEF Created, FiresOf

\* A job joins the charge of its sweeper, or the charge is given back.
LEMMA ChargeCreated ==
    ASSUME Shape, Position, NEW s \in Sweepers, spc[s] = "create",
           fires' = [fires EXCEPT ![fire[s]].job = "created"]
    PROVE  /\ Kept' = Kept
           /\ Created' = Created \cup {fire[s]} /\ fire[s] \notin Created
           /\ \A d : FiresOf(d)' = FiresOf(d)
  <1>1. fire[s] \in DOMAIN fires /\ fires[fire[s]] \in Fire /\ fires[fire[s]].job = "none"
    BY ShapeFacts DEF Position, Charged
  <1>2. /\ DOMAIN fires' = DOMAIN fires
        /\ fires'[fire[s]].job = "created" /\ fires'[fire[s]].day = fires[fire[s]].day
        /\ \A i \in DOMAIN fires : i # fire[s] => fires'[i] = fires[i]
    BY <1>1 DEF Fire
  <1>3. Kept' = Kept
    BY <1>1, <1>2 DEF Kept
  <1>4. \A d : FiresOf(d)' = {i \in Kept' : fires'[i].day = d}
    BY DEF FiresOf
  <1>5. \A i \in Kept : i \in DOMAIN fires
    BY DEF Kept
  <1>6. \A d : FiresOf(d)' = FiresOf(d)
    BY <1>2, <1>3, <1>4, <1>5 DEF FiresOf
  <1> QED
    BY <1>1, <1>2, <1>3, <1>6 DEF Created

LEMMA ChargeRefunded ==
    ASSUME Shape, Position, NEW s \in Sweepers, spc[s] = "create",
           fires' = [fires EXCEPT ![fire[s]].job = "refunded"]
    PROVE  /\ Kept' = Kept \ {fire[s]} /\ fire[s] \in Kept
           /\ Created' = Created
           /\ \A d : FiresOf(d)' = FiresOf(d) \ {fire[s]}
           /\ fire[s] \in FiresOf(fires[fire[s]].day)
  <1>1. fire[s] \in DOMAIN fires /\ fires[fire[s]] \in Fire /\ fires[fire[s]].job = "none"
    BY ShapeFacts DEF Position, Charged
  <1>2. /\ DOMAIN fires' = DOMAIN fires /\ fires'[fire[s]].job = "refunded"
        /\ \A i \in DOMAIN fires : i # fire[s] => fires'[i] = fires[i]
    BY <1>1 DEF Fire
  <1>3. Kept' = Kept \ {fire[s]}
    BY <1>1, <1>2 DEF Kept
  <1>4. \A d : FiresOf(d)' = {i \in Kept' : fires'[i].day = d}
    BY DEF FiresOf
  <1>5. \A i \in Kept : i \in DOMAIN fires
    BY DEF Kept
  <1>6. \A d : FiresOf(d)' = FiresOf(d) \ {fire[s]}
    BY <1>2, <1>3, <1>4, <1>5 DEF FiresOf
  <1> QED
    BY <1>1, <1>2, <1>3, <1>6 DEF Created, Kept, FiresOf

\* Only a charge and the answer of create_job move cents.
LEMMA WalletPaidStep ==
    ASSUME Shape, Position, WalletPaid, [Next]_vars
    PROVE  WalletPaid'
  <1> DEFINE n == Cardinality(Kept)
  <1>0. IsFiniteSet(Kept) /\ n \in Nat /\ funds \in Nat /\ funds + Charge * n = Funds
    BY ChargesFinite, FS_CardinalityType DEF WalletPaid, Shape
  <1>1. ASSUME NEW s \in Sweepers, FireCharge(s) PROVE WalletPaid'
    <2>1. CASE UNCHANGED <<funds, fires>>
      BY <2>1 DEF WalletPaid, Kept
    <2>2. CASE ~UNCHANGED <<funds, fires>>
      <3>1. PICK f : /\ fires' = Append(fires, f) /\ f.job = "none"
                     /\ funds >= Charge /\ funds' = funds - Charge
        BY <1>1, <2>2 DEF FireCharge
      <3>2. Kept' = Kept \cup {Len(fires) + 1} /\ Len(fires) + 1 \notin Kept
        BY <3>1, NewCharge
      <3>3. Cardinality(Kept') = n + 1
        BY <1>0, <3>2, FS_AddElement
      <3>4. Charge * (n + 1) = Charge * n + Charge /\ Charge * n \in Nat
        BY <1>0, ConstantsTyped, ChargeTimes
      <3> HIDE DEF n
      <3> QED
        BY <1>0, <3>1, <3>3, <3>4, ConstantsTyped DEF WalletPaid
    <2> QED
      BY <2>1, <2>2
  <1>2. ASSUME NEW s \in Sweepers, FireCreate(s) PROVE WalletPaid'
    <2>1. CASE fires' = [fires EXCEPT ![fire[s]].job = "created"] /\ UNCHANGED funds
      BY <1>2, <2>1, ChargeCreated DEF FireCreate, WalletPaid
    <2>2. CASE /\ fires' = [fires EXCEPT ![fire[s]].job = "refunded"]
               /\ funds' = funds + Charge
      <3>1. Kept' = Kept \ {fire[s]} /\ fire[s] \in Kept
        BY <1>2, <2>2, ChargeRefunded DEF FireCreate
      <3>2. Cardinality(Kept') = n - 1 /\ Cardinality(Kept') \in Nat
        BY <1>0, <3>1, FS_RemoveElement, FS_CardinalityType
      <3> DEFINE m == Cardinality(Kept')
      <3>3. Charge * (m + 1) = Charge * m + Charge /\ Charge * m \in Nat
        BY <3>2, ConstantsTyped, ChargeTimes
      <3>4. n = m + 1
        BY <1>0, <3>2
      <3> HIDE DEF n, m
      <3>5. funds' + Charge * m = Funds
        BY <1>0, <2>2, <3>3, <3>4, ConstantsTyped
      <3> QED
        BY <3>5 DEF WalletPaid, m
    <2> QED
      BY <1>2, <2>1, <2>2 DEF FireCreate
  <1>3. CASE UNCHANGED <<funds, fires>>
    BY <1>3 DEF WalletPaid, Kept
  <1> QED
    BY <1>1, <1>2, <1>3
    DEF Next, Sweep, SweepStart, SweepReset, SweepDue, claim_watcher_tick, TickFails,
        TickPause, TickLook, FireRecord, SweeperCrash, OwnerPause, OwnerResume,
        OwnerDelete, Tick, vars

\* The spend of the row grows by a recorded fire only.
LEMMA SpendStep ==
    ASSUME Shape, [Next]_vars
    PROVE  \/ row'.spend <= row.spend
           \/ /\ row'.spend <= row.spend + Charge
              /\ \E s \in Sweepers : FireRecord(s)
  <1>0. row \in AnyRow /\ row.spend \in Nat /\ 0 <= row.spend
    BY ShapeFacts
  <1> DEFINE Less == row'.spend <= row.spend
  <1>1. reset_spend_window.spend = 0
    BY <1>0 DEF reset_spend_window, AnyRow
  <1>2. ASSUME NEW s \in Sweepers, SweepReset(s) PROVE Less
    BY <1>0, <1>1, <1>2 DEF SweepReset, Update
  <1>3. \A s \in Sweepers : Windowed(s) \in AnyRow /\ Windowed(s).spend <= row.spend
    BY <1>0, <1>1, WindowedTyped DEF Windowed
  <1>4. ASSUME NEW s \in Sweepers, claim_watcher_tick(s) PROVE Less
    BY <1>0, <1>4 DEF claim_watcher_tick, AnyRow
  <1>5. ASSUME NEW s \in Sweepers, TickFails(s) PROVE Less
    <2>1. PICK m : row' = IF Exists THEN [Windowed(s) EXCEPT !.errors = m] ELSE row
      BY <1>5 DEF TickFails, Update
    <2> QED
      BY <1>0, <1>3, <2>1 DEF AnyRow
  <1>6. ASSUME NEW s \in Sweepers, TickLook(s) PROVE Less
    <2>1. PICK x : row' = IF Exists
                         THEN [Windowed(s) EXCEPT !.errors = 0, !.status = x]
                         ELSE row
      BY <1>6 DEF TickLook, Update
    <2> QED
      BY <1>0, <1>3, <2>1 DEF AnyRow
  <1>7. ASSUME NEW s \in Sweepers, TickPause(s) \/ FireCharge(s) PROVE Less
    BY <1>0, <1>7 DEF TickPause, FireCharge, update_status, Update, AnyRow
  <1>8. ASSUME NEW s \in Sweepers, FireRecord(s) PROVE row'.spend <= row.spend + Charge
    BY <1>0, <1>8, ConstantsTyped DEF FireRecord, record_fire_atomic, Update, AnyRow
  <1>9. ASSUME OwnerPause PROVE Less
    BY <1>0, <1>9 DEF OwnerPause, AnyRow
  <1>12. ASSUME OwnerResume PROVE Less
    BY <1>0, <1>12 DEF OwnerResume, AnyRow
  <1>10. ASSUME OwnerDelete PROVE Less
    BY <1>0, <1>10 DEF OwnerDelete, NewRow
  <1>11. CASE UNCHANGED row
    BY <1>0, <1>11
  <1> QED
    BY <1>2, <1>4, <1>5, <1>6, <1>7, <1>8, <1>9, <1>10, <1>11, <1>12
    DEF Next, Sweep, SweepStart, SweepDue, FireCreate, SweeperCrash, Tick, vars

\* A sweeper comes to its record by a job, and no step but that adds one.
LEMMA RecordingStep ==
    ASSUME Shape, [Next]_vars
    PROVE  /\ ~(\E s \in Sweepers : FireCreate(s)) => Recording' \subseteq Recording
           /\ \A s \in Sweepers :
                 /\ FireCreate(s) => Recording' \subseteq Recording \cup {s} /\ s \notin Recording
                 /\ FireRecord(s) => Recording' = Recording \ {s} /\ s \in Recording
  <1>0. DOMAIN spc = Sweepers
    BY ShapeFacts
  <1>1. ASSUME NEW s \in Sweepers, NEW l, l # "record", spc' = [spc EXCEPT ![s] = l]
        PROVE  Recording' \subseteq Recording
    BY <1>0, <1>1 DEF Recording
  <1>2. ASSUME NEW s \in Sweepers, FireCreate(s)
        PROVE  Recording' \subseteq Recording \cup {s} /\ s \notin Recording
    BY <1>0, <1>2 DEF FireCreate, Goto, Forget, Recording
  <1>3. ASSUME NEW s \in Sweepers, FireRecord(s)
        PROVE  Recording' = Recording \ {s} /\ s \in Recording
    BY <1>0, <1>3 DEF FireRecord, Forget, Recording
  <1>4. ASSUME NEW s \in Sweepers, Sweep(s) \/ SweeperCrash(s), ~FireCreate(s)
        PROVE  Recording' \subseteq Recording
    <2>1. \E l : l # "record" /\ spc' = [spc EXCEPT ![s] = l]
      <3>1. CASE Forget(s)
        <4> DEFINE l == IF s = Leader THEN "idle" ELSE "gone"
        <4>1. l # "record" /\ spc' = [spc EXCEPT ![s] = l]
          BY <3>1 DEF Forget
        <4> QED
          BY <4>1
      <3>2. CASE Goto(s, "due") \/ Goto(s, "reset") \/ Goto(s, "look") \/ Goto(s, "pause")
        BY <3>2 DEF Goto
      <3>3. CASE SweepDue(s) \/ FireCharge(s)
        BY <3>1, <3>3 DEF SweepDue, FireCharge
      <3>4. CASE TickLook(s)
        BY <3>1, <3>4 DEF TickLook, Keep
      <3>5. CASE SweepStart(s)
        BY <3>2, <3>5 DEF SweepStart
      <3> QED
        BY <1>4, <3>1, <3>2, <3>3, <3>4, <3>5
        DEF Sweep, SweepReset, claim_watcher_tick, TickFails, TickPause, FireRecord,
            SweeperCrash
    <2> QED
      BY <1>1, <2>1
  <1>5. ASSUME UNCHANGED spc PROVE Recording' \subseteq Recording
    BY <1>5 DEF Recording
  <1>6. ~(\E s \in Sweepers : FireCreate(s)) => Recording' \subseteq Recording
    BY <1>4, <1>5
    DEF Next, OwnerPause, OwnerResume, OwnerDelete, Tick, vars, sweepVars
  <1> QED
    BY <1>2, <1>3, <1>6

LEMMA SpendCountedStep ==
    ASSUME Shape, Position, SpendCounted, [Next]_vars
    PROVE  SpendCounted'
  <1> DEFINE r == Cardinality(Recording)  c == Cardinality(Created)
             r1 == Cardinality(Recording')  c1 == Cardinality(Created')
  <1>0. /\ IsFiniteSet(Recording) /\ IsFiniteSet(Created) /\ r \in Nat /\ c \in Nat
        /\ row.spend \in Nat /\ row.spend + Charge * r <= Charge * c
    BY ChargesFinite, ShapeFacts, FS_CardinalityType DEF SpendCounted
  <1>01. row'.spend \in Nat /\ IsFiniteSet(Recording') /\ r1 \in Nat
    <2>1. Shape'
      BY ShapeStep
    <2>2. row'.spend \in Nat
      BY <2>1, ConstantsTyped DEF Shape, AnyRow
    <2>3. Recording' \subseteq Sweepers
      BY DEF Recording
    <2> QED
      BY <2>2, <2>3, WatchersAssumption, FS_Subset, FS_CardinalityType
  <1>1. ASSUME NEW s \in Sweepers, FireCreate(s) PROVE SpendCounted'
    <2>1. row' = row
      BY <1>1 DEF FireCreate
    <2>2. CASE fires' = [fires EXCEPT ![fire[s]].job = "created"]
      <3>1. Created' = Created \cup {fire[s]} /\ fire[s] \notin Created
        BY <1>1, <2>2, ChargeCreated DEF FireCreate
      <3>2. c1 = c + 1
        BY <1>0, <3>1, FS_AddElement
      <3>3. r1 <= r + 1
        <4>1. Recording' \subseteq Recording \cup {s} /\ s \notin Recording
          BY <1>1, RecordingStep
        <4>2. IsFiniteSet(Recording \cup {s}) /\ Cardinality(Recording \cup {s}) = r + 1
          BY <1>0, <4>1, FS_AddElement
        <4> QED
          BY <4>1, <4>2, FS_Subset
      <3>4. /\ Charge * (c + 1) = Charge * c + Charge /\ Charge * c \in Nat
            /\ Charge * (r + 1) = Charge * r + Charge /\ Charge * r \in Nat
        BY <1>0, ConstantsTyped, ChargeTimes
      <3>5. Charge * r1 <= Charge * (r + 1) /\ Charge * r1 \in Nat
        BY <1>0, <1>01, <3>3, ConstantsTyped, ChargeTimesGrows, ChargeTimes
      <3>6. row.spend + Charge * r1 <= Charge * (c + 1)
        <4> HIDE DEF r, c, r1, c1
        <4> QED
          BY <1>0, <3>4, <3>5, ConstantsTyped
      <3> QED
        BY <2>1, <3>2, <3>6 DEF SpendCounted
    <2>3. CASE fires' = [fires EXCEPT ![fire[s]].job = "refunded"] /\ Forget(s)
      <3>1. Created' = Created
        BY <1>1, <2>3, ChargeRefunded DEF FireCreate
      <3>2. Recording' = Recording
        BY <1>1, <2>3, ShapeFacts DEF Recording, Forget, FireCreate
      <3> QED
        BY <2>1, <3>1, <3>2 DEF SpendCounted
    <2> QED
      BY <1>1, <2>2, <2>3 DEF FireCreate
  <1>2. ASSUME ~\E s \in Sweepers : FireCreate(s) PROVE SpendCounted'
    <2>1. Created' = Created
      <3>1. ASSUME NEW s \in Sweepers, FireCharge(s), ~UNCHANGED fires PROVE Created' = Created
        <4>1. PICK f : fires' = Append(fires, f) /\ f.job = "none"
          BY <3>1 DEF FireCharge
        <4> QED
          BY <4>1, NewCharge
      <3>2. CASE UNCHANGED fires
        BY <3>2 DEF Created
      <3> QED
        BY <1>2, <3>1, <3>2
        DEF Next, Sweep, SweepStart, SweepReset, SweepDue, claim_watcher_tick, TickFails,
            TickPause, TickLook, FireRecord, SweeperCrash, OwnerPause, OwnerResume,
            OwnerDelete, Tick, vars
    <2>2. Recording' \subseteq Recording
      BY <1>2, RecordingStep
    <2>3. r1 <= r
      BY <1>0, <2>2, FS_Subset
    <2>4. /\ Charge * r1 <= Charge * r
          /\ Charge * r \in Nat /\ Charge * r1 \in Nat /\ Charge * c \in Nat
      BY <1>0, <1>01, <2>3, ConstantsTyped, ChargeTimesGrows, ChargeTimes
    <2>5. CASE row'.spend <= row.spend
      <3>1. row'.spend + Charge * r1 <= Charge * c
        <4> HIDE DEF r, c, r1, c1
        <4> QED
          BY <1>0, <1>01, <2>4, <2>5, ConstantsTyped
      <3> QED
        BY <2>1, <3>1 DEF SpendCounted
    <2>6. ASSUME NEW s \in Sweepers, FireRecord(s), row'.spend <= row.spend + Charge
          PROVE  SpendCounted'
      <3>1. Recording' = Recording \ {s} /\ s \in Recording
        BY <2>6, RecordingStep
      <3>2. r1 = r - 1
        BY <1>0, <3>1, FS_RemoveElement
      <3>3. Charge * (r1 + 1) = Charge * r1 + Charge /\ r1 + 1 = r
        BY <1>0, <1>01, <3>2, ConstantsTyped, ChargeTimes
      <3>4. row'.spend + Charge * r1 <= Charge * c
        <4> HIDE DEF r, c, r1, c1
        <4> QED
          BY <1>0, <1>01, <2>4, <2>6, <3>3, ConstantsTyped
      <3> QED
        BY <2>1, <3>4 DEF SpendCounted
    <2> QED
      BY <2>5, <2>6, SpendStep
  <1> QED
    BY <1>1, <1>2

\* What the row counts is within what the owner had.
LEMMA SpendBound ==
    ASSUME Shape, WalletPaid, SpendCounted
    PROVE  row.spend \in 0 .. Funds /\ funds \in 0 .. Funds
  <1> DEFINE r == Cardinality(Recording)  c == Cardinality(Created)  k == Cardinality(Kept)
  <1>1. /\ r \in Nat /\ c \in Nat /\ k \in Nat /\ c <= k
        /\ row.spend \in Nat /\ funds \in Nat
    BY ChargesFinite, FS_CardinalityType, FS_Subset, ShapeFacts DEF Shape
  <1>2. /\ Charge * r \in Nat /\ Charge * c \in Nat /\ Charge * k \in Nat
        /\ Charge * c <= Charge * k
    BY <1>1, ConstantsTyped, ChargeTimes, ChargeTimesGrows
  <1>3. funds + Charge * k = Funds /\ row.spend + Charge * r <= Charge * c
    BY DEF WalletPaid, SpendCounted
  <1> HIDE DEF r, c, k
  <1> QED
    BY <1>1, <1>2, <1>3, ConstantsTyped

LEMMA SeenCountedStep ==
    ASSUME Shape, SeenCounted, WalletPaid, SpendCounted, [Next]_vars
    PROVE  SeenCounted'
  <1>0. row.spend <= Funds /\ DOMAIN seen = Sweepers /\ NewRow.spend <= Funds
    BY SpendBound, ShapeFacts, ConstantsTyped DEF NewRow
  <1> USE DEF SeenCounted
  <1>1. CASE UNCHANGED seen
    BY <1>1
  <1>2. ASSUME NEW s \in Sweepers, Forget(s) PROVE SeenCounted'
    BY <1>0, <1>2 DEF Forget
  <1>3. ASSUME NEW s \in Sweepers, SweepDue(s) PROVE SeenCounted'
    <2>1. CASE seen' = [seen EXCEPT ![s] = row]
      BY <1>0, <2>1
    <2> QED
      BY <1>2, <1>3, <2>1 DEF SweepDue
  <1>4. ASSUME NEW s \in Sweepers, NEW fp, Keep(s, fp) PROVE SeenCounted'
    BY <1>0, <1>4 DEF Keep, NewRow
  <1>5. ASSUME NEW s \in Sweepers, TickLook(s) PROVE SeenCounted'
    BY <1>2, <1>4, <1>5 DEF TickLook
  <1>6. ASSUME NEW s \in Sweepers, TickFails(s) \/ FireCharge(s) \/ FireCreate(s)
        PROVE  SeenCounted'
    BY <1>1, <1>2, <1>6 DEF TickFails, FireCharge, FireCreate, Goto
  <1> QED
    BY <1>1, <1>2, <1>3, <1>5, <1>6
    DEF Next, Sweep, SweepStart, SweepReset, claim_watcher_tick, TickPause, FireRecord,
        SweeperCrash, Goto, OwnerPause, OwnerResume, OwnerDelete, Tick, vars, sweepVars

-----------------------------------------------------------------------------
(* The daily budget. *)

\* A pass ends or goes on; only SweepStart opens one, and it looks for others.
LEMMA OnePassStep ==
    ASSUME Shape, OnePass, [Next]_vars
    PROVE  /\ OnePass'
           /\ alone' => alone
           /\ \A s \in Sweepers :
                 alone' /\ (Sweep(s) \/ SweeperCrash(s))
                    => \A t \in Sweepers \ {s} : spc[t] \in OffDuty /\ spc'[t] \in OffDuty
  <1>0. DOMAIN spc = Sweepers
    BY ShapeFacts
  <1> USE DEF OffDuty
  <1>1. ASSUME NEW s \in Sweepers, Sweep(s) \/ SweeperCrash(s)
        PROVE  /\ alone' => alone
               /\ alone' => \A t \in Sweepers \ {s} : spc[t] \in OffDuty /\ spc'[t] \in OffDuty
    <2>1. \A t \in Sweepers \ {s} : spc'[t] = spc[t]
      <3>1. \E l : spc' = [spc EXCEPT ![s] = l]
        BY <1>1
        DEF Sweep, SweepStart, SweepReset, SweepDue, claim_watcher_tick, TickFails, TickPause,
            TickLook, FireCharge, FireCreate, FireRecord, SweeperCrash, Goto, Forget, Keep
      <3> QED
        BY <1>0, <3>1
    <2>2. CASE SweepStart(s)
      BY <2>1, <2>2 DEF SweepStart
    <2>3. CASE ~SweepStart(s)
      <3>1. alone' = alone /\ spc[s] \notin OffDuty
        BY <1>1, <2>3
        DEF Sweep, SweepReset, SweepDue, claim_watcher_tick, TickFails, TickPause, TickLook,
            FireCharge, FireCreate, FireRecord, SweeperCrash, ghosts
      <3> QED
        BY <2>1, <3>1 DEF OnePass
    <2> QED
      BY <2>2, <2>3
  <1>2. ASSUME NEW s \in Sweepers, Sweep(s) \/ SweeperCrash(s) PROVE OnePass'
    BY <1>1, <1>2 DEF OnePass
  <1>3. CASE UNCHANGED <<sweepVars, alone>>
    <2>1. OnePass'
      BY <1>3 DEF OnePass, sweepVars
    <2> QED
      BY <1>1, <1>3, <2>1
  <1> QED
    BY <1>1, <1>2, <1>3
    DEF Next, OwnerPause, OwnerResume, OwnerDelete, Tick, vars, ghosts

LEMMA BooksTyped ==
    ASSUME Shape
    PROVE  /\ \A d : Cost(d) \in Nat
           /\ Lost \in Nat
           /\ \A r \in AnyRow : Known(r) \in Nat /\ r.window \in Nat /\ r.spend \in Nat
           /\ Today \in 0 .. LastDay /\ Today \in Nat
  <1>1. \A d : Cardinality(FiresOf(d)) \in Nat
    BY ChargesFinite, FS_CardinalityType
  <1>2. \A d : Cost(d) \in Nat
    BY <1>1, ConstantsTyped, ChargeTimes DEF Cost
  <1>3. Lost \in Nat
    <2>1. crashes \in Nat
      BY ConstantsTyped DEF Shape
    <2> QED
      BY <2>1, ConstantsTyped, ChargeTimes DEF Lost
  <1>4. Today \in 0 .. LastDay /\ LastDay \in Nat
    BY TodayRange, DaysGrow, ConstantsTyped DEF Shape, LastDay
  <1>5. \A r \in AnyRow : Known(r) \in Nat /\ r.window \in Nat /\ r.spend \in Nat
    BY <1>4 DEF AnyRow, Known
  <1> QED
    BY <1>2, <1>3, <1>4, <1>5

\* BudgetHolds in the terms of this proof.
LEMMA BudgetIsCost ==
    BudgetHolds <=> (alone => \A d \in 0 .. LastDay : Cost(d) <= Budget + Fee + Lost)
  BY DEF BudgetHolds, Cost, Lost, FiresOf

\* A step that moves neither the clock nor the charges nor the crashes.
SameBooks ==
    /\ Today' = Today /\ Lost' = Lost
    /\ Cost(Today)' = Cost(Today) /\ \A d : Cost(d)' = Cost(d)

LEMMA SameBooksStep ==
    ASSUME UNCHANGED <<fires, now, crashes>>
    PROVE  SameBooks
  <1>1. \A d : Cost(d)' = Cost(d)
    BY DEF Cost, FiresOf, Kept
  <1>2. Cost(Today)' = Cost(Today)
    BY DEF Cost, FiresOf, Kept, Today
  <1> QED
    BY <1>1, <1>2 DEF SameBooks, Today, Lost

\* What such a step keeps of the three parts of the argument.
LEMMA BudgetFrame ==
    ASSUME SameBooks, BudgetHolds, alone' => alone
    PROVE  BudgetHolds'
  <1>1. alone' => \A d \in 0 .. LastDay : Cost(d)' <= Budget + Fee + Lost'
    BY BudgetIsCost DEF SameBooks
  <1>2. BudgetHolds' <=> (alone' => \A d \in 0 .. LastDay : Cost(d)' <= Budget + Fee + Lost')
    BY DEF BudgetHolds, Cost, Lost, FiresOf
  <1> QED
    BY <1>1, <1>2

LEMMA TodayFrame ==
    ASSUME Shape, Shape', SameBooks, TodayKnown, alone' => alone,
           alone' /\ Exists' => Exists /\ Known(row) <= Known(row)',
           alone' => \A t \in Sweepers : Pending(t) => Pending(t)'
    PROVE  TodayKnown'
  <1>1. SUFFICES ASSUME alone', Exists'
                 PROVE  /\ (\A s \in Sweepers : ~Pending(s)')
                             => Cost(Today)' <= Known(row)' + Lost'
                        /\ Cost(Today)' <= Known(row)' + Lost' + Charge
    BY DEF TodayKnown
  <1>2. Cost(Today)' = Cost(Today) /\ Lost' = Lost
    BY DEF SameBooks
  <1>3. Cost(Today) \in Nat /\ Lost \in Nat /\ Known(row) \in Nat /\ row \in AnyRow
    BY BooksTyped DEF Shape
  <1>4. Known(row)' \in Nat /\ Known(row) <= Known(row)'
    BY <1>1 DEF Shape, Known, AnyRow
  <1> QED
    BY <1>1, <1>2, <1>3, <1>4, ConstantsTyped DEF TodayKnown

LEMMA SeenFrame ==
    ASSUME SameBooks, SeenKnown, alone' => alone,
           alone' => \A t \in Sweepers :
              /\ spc'[t] \in {"claim", "look"} =>
                    spc[t] \in {"claim", "look"} /\ seen'[t] = seen[t]
              /\ spc'[t] = "charge" => spc[t] = "charge"
    PROVE  SeenKnown'
  <1>2. Cost(Today)' = Cost(Today) /\ Lost' = Lost /\ Today' = Today
    BY DEF SameBooks
  <1> QED
    BY <1>2 DEF SeenKnown, Known

\* What each step does to the spend and to the window of a row that stays.
SameSpend == Exists /\ row'.spend = row.spend /\ row'.window = row.window

NoSpend == Exists /\ row'.spend = 0 /\ row'.window = Today

LEMMA RowBooks ==
    ASSUME Shape, Exists', NEW s \in Sweepers
    PROVE  /\ SweepReset(s) => NoSpend
           /\ TickFails(s) \/ TickLook(s) => IF Stale(s) THEN NoSpend ELSE SameSpend
           /\ FireRecord(s) => /\ Exists /\ row'.window = Today
                               /\ row'.spend = row.spend + Charge
           /\ \/ SweepStart(s) \/ SweepDue(s) \/ claim_watcher_tick(s) \/ TickPause(s)
              \/ FireCharge(s) \/ FireCreate(s) \/ SweeperCrash(s)
              => SameSpend
           /\ OwnerPause \/ OwnerResume \/ Tick => SameSpend
           /\ ~OwnerDelete
  <1>0. row \in AnyRow
    BY DEF Shape
  <1> USE DEF Exists, SameSpend, NoSpend
  <1>1. reset_spend_window.spend = 0 /\ reset_spend_window.window = Today
    BY <1>0 DEF reset_spend_window, AnyRow
  <1>2. SweepReset(s) => NoSpend
    BY <1>1 DEF SweepReset, Update
  <1>3. /\ Windowed(s) \in AnyRow
        /\ IF Stale(s) THEN Windowed(s).spend = 0 /\ Windowed(s).window = Today
                       ELSE Windowed(s) = row
    BY <1>0, <1>1, WindowedTyped DEF Windowed
  <1>4. ASSUME TickFails(s) PROVE IF Stale(s) THEN NoSpend ELSE SameSpend
    <2>1. PICK m : row' = IF Exists THEN [Windowed(s) EXCEPT !.errors = m] ELSE row
      BY <1>4 DEF TickFails, Update
    <2> QED
      BY <1>0, <1>3, <2>1 DEF AnyRow
  <1>5. ASSUME TickLook(s) PROVE IF Stale(s) THEN NoSpend ELSE SameSpend
    <2>1. PICK x : row' = IF Exists
                         THEN [Windowed(s) EXCEPT !.errors = 0, !.status = x]
                         ELSE row
      BY <1>5 DEF TickLook, Update
    <2> QED
      BY <1>0, <1>3, <2>1 DEF AnyRow
  <1>6. FireRecord(s) => Exists /\ row'.window = Today /\ row'.spend = row.spend + Charge
    BY <1>0 DEF FireRecord, record_fire_atomic, Update, AnyRow
  <1>7. ASSUME claim_watcher_tick(s) PROVE SameSpend
    BY <1>0, <1>7 DEF claim_watcher_tick, AnyRow
  <1>8. ASSUME TickPause(s) \/ FireCharge(s) PROVE SameSpend
    BY <1>0, <1>8 DEF TickPause, FireCharge, update_status, Update, AnyRow
  <1>9. ASSUME SweepStart(s) \/ SweepDue(s) \/ FireCreate(s) \/ SweeperCrash(s) \/ Tick
        PROVE  SameSpend
    BY <1>9 DEF SweepStart, SweepDue, FireCreate, SweeperCrash, Tick
  <1>10. ASSUME OwnerPause PROVE SameSpend
    BY <1>0, <1>10 DEF OwnerPause, AnyRow
  <1>11. ASSUME OwnerResume PROVE SameSpend
    BY <1>0, <1>11 DEF OwnerResume, AnyRow
  <1>12. ~OwnerDelete
    BY DEF OwnerDelete, NewRow
  <1> QED
    BY <1>2, <1>4, <1>5, <1>6, <1>7, <1>8, <1>9, <1>10, <1>11, <1>12

\* The window of the row never lies ahead, and the sweeper in its pass knows it.
LEMMA WindowStep ==
    ASSUME Shape, Shape', Position, WindowKnown, OnePass, [Next]_vars
    PROVE  WindowKnown'
  <1>0. /\ Today \in Nat /\ row.window \in Nat
        /\ DOMAIN spc = Sweepers /\ DOMAIN seen = Sweepers
    BY BooksTyped, ShapeFacts
  <1>01. Today' \in Nat /\ Today <= Today' /\ (Today' = Today \/ Tick)
    <2>1. CASE Tick
      BY <2>1, TodayGrows DEF Shape
    <2>2. CASE UNCHANGED now
      BY <1>0, <2>2 DEF Today
    <2> QED
      BY <2>1, <2>2
      DEF Next, Sweep, SweepStart, SweepReset, SweepDue, claim_watcher_tick, TickFails,
          TickPause, TickLook, FireCharge, FireCreate, FireRecord, SweeperCrash,
          OwnerPause, OwnerResume, OwnerDelete, vars
  <1>1. ASSUME Exists' PROVE row'.window <= Today'
    <2>1. Exists /\ (row'.window = row.window \/ row'.window = Today)
      <3>1. CASE UNCHANGED row
        BY <1>1, <3>1 DEF Exists
      <3>2. CASE \E s \in Sweepers : Sweep(s) \/ SweeperCrash(s)
        <4>1. PICK s \in Sweepers : Sweep(s) \/ SweeperCrash(s)
          BY <3>2
        <4> QED
          BY <1>1, <4>1, RowBooks DEF Sweep, SameSpend, NoSpend
      <3>3. CASE OwnerPause \/ OwnerResume \/ OwnerDelete \/ Tick
        BY <1>1, <3>3, RowBooks, WatchersAssumption DEF SameSpend
      <3> QED
        BY <3>1, <3>2, <3>3 DEF Next, vars
    <2> QED
      BY <1>0, <1>01, <2>1 DEF WindowKnown
  <1>2. \A i \in DOMAIN fires' : fires'[i].day <= Today'
    <2>0. /\ \A i \in DOMAIN fires : fires[i].day <= Today /\ fires[i].day \in Nat
          /\ fires \in Seq(Fire) /\ Len(fires) \in Nat
      <3>1. \A i \in DOMAIN fires : fires[i] \in Fire
        BY ShapeFacts
      <3> QED
        BY <3>1, ShapeFacts DEF WindowKnown, Fire
    <2>1. CASE UNCHANGED fires
      BY <1>0, <1>01, <2>0, <2>1
    <2>2. ASSUME NEW s \in Sweepers, FireCharge(s), ~UNCHANGED fires
          PROVE  \A i \in DOMAIN fires' : fires'[i].day <= Today'
      <3>1. PICK f : fires' = Append(fires, f) /\ f.day = Today
        BY <2>2 DEF FireCharge
      <3>2. \A i \in DOMAIN fires' : (i \in DOMAIN fires /\ fires'[i] = fires[i]) \/ fires'[i] = f
        BY <2>0, <3>1
      <3> QED
        BY <1>0, <1>01, <2>0, <3>1, <3>2
    <2>3. ASSUME NEW s \in Sweepers, FireCreate(s)
          PROVE  \A i \in DOMAIN fires' : fires'[i].day <= Today'
      <3>1. PICK j : fires' = [fires EXCEPT ![fire[s]].job = j]
        BY <2>3 DEF FireCreate
      <3>2. \A i \in DOMAIN fires : fires[i] \in Fire
        BY <2>0
      <3>3. DOMAIN fires' = DOMAIN fires /\ \A i \in DOMAIN fires : fires'[i].day = fires[i].day
        BY <2>0, <3>1, <3>2 DEF Fire
      <3> QED
        BY <1>0, <1>01, <2>0, <3>3
    <2> QED
      BY <2>1, <2>2, <2>3
      DEF Next, Sweep, SweepStart, SweepReset, SweepDue, claim_watcher_tick, TickFails,
          TickPause, TickLook, FireRecord, SweeperCrash, OwnerPause, OwnerResume,
          OwnerDelete, Tick, vars
  <1>3. ASSUME alone', Exists', NEW t \in Sweepers
        PROVE  /\ spc'[t] = "reset" => row'.window < Today'
               /\ spc'[t] \in {"claim", "look"} => seen'[t].window = row'.window
    <2>0. /\ alone
          /\ \A s \in Sweepers : Sweep(s) \/ SweeperCrash(s) =>
                t = s \/ spc'[t] \in OffDuty
      BY <1>3, OnePassStep
    <2>1. ASSUME spc'[t] = spc[t], seen'[t] = seen[t], SameSpend
          PROVE  /\ spc'[t] = "reset" => row'.window < Today'
                 /\ spc'[t] \in {"claim", "look"} => seen'[t].window = row'.window
      BY <1>0, <1>01, <2>0, <2>1 DEF WindowKnown, SameSpend
    <2>2. CASE OwnerPause \/ OwnerResume \/ OwnerDelete \/ Tick
      <3>1. SameSpend
        BY <1>3, <2>2, RowBooks
      <3> QED
        BY <2>1, <2>2, <3>1 DEF OwnerPause, OwnerResume, OwnerDelete, Tick, sweepVars
    <2>3. CASE UNCHANGED vars
      BY <1>3, <2>1, <2>3 DEF vars, sweepVars, SameSpend, Exists
    <2>4. CASE Sweep(t) \/ SweeperCrash(t)
      <3>1. CASE SweepStart(t)
        <4>1. SameSpend /\ Exists
          BY <1>3, <3>1, RowBooks DEF SameSpend
        <4>2. spc'[t] = IF needs_rollover THEN "reset" ELSE "due"
          BY <1>0, <3>1 DEF SweepStart, Goto
        <4> QED
          BY <1>0, <1>01, <4>1, <4>2 DEF needs_rollover, SameSpend
      <3>2. CASE SweepDue(t)
        <4>1. row' = row
          BY <3>2 DEF SweepDue
        <4>2. spc'[t] = "claim" => seen'[t] = row
          BY <1>0, <3>2 DEF SweepDue, Forget
        <4>3. spc'[t] \notin {"reset", "look"}
          BY <1>0, <3>2 DEF SweepDue, Forget
        <4> QED
          BY <4>1, <4>2, <4>3
      <3>3. CASE claim_watcher_tick(t)
        <4>1. SameSpend /\ Exists /\ spc[t] = "claim"
          BY <1>3, <3>3, RowBooks DEF SameSpend, claim_watcher_tick
        <4>2. (spc'[t] = "look" /\ seen'[t] = seen[t]) \/ spc'[t] \in OffDuty
          BY <1>0, <3>3 DEF claim_watcher_tick, Goto, Forget, OffDuty
        <4> QED
          BY <1>0, <2>0, <4>1, <4>2 DEF WindowKnown, SameSpend, OffDuty
      <3>4. CASE ~(SweepStart(t) \/ SweepDue(t) \/ claim_watcher_tick(t))
        <4>1. spc'[t] \notin {"reset", "claim", "look"}
          BY <1>0, <2>4, <3>4
          DEF Sweep, SweepReset, TickFails, TickPause, TickLook, FireCharge, FireCreate,
              FireRecord, SweeperCrash, Goto, Forget, Keep
        <4> QED
          BY <4>1
      <3> QED
        BY <3>1, <3>2, <3>3, <3>4
    <2>5. CASE \E s \in Sweepers \ {t} : Sweep(s) \/ SweeperCrash(s)
      BY <2>0, <2>5 DEF OffDuty
    <2> QED
      BY <2>2, <2>3, <2>4, <2>5 DEF Next
  <1> QED
    BY <1>1, <1>2, <1>3 DEF WindowKnown

Books == TodayKnown /\ SeenKnown /\ BudgetHolds

\* A step of the pass that makes no charge and sees nothing new.
LEMMA PassFrame ==
    ASSUME Shape, Shape', OnePass, Books, [Next]_vars, SameBooks, NEW s \in Sweepers,
           Sweep(s) \/ SweeperCrash(s),
           alone' /\ Exists' => Exists /\ Known(row) <= Known(row)',
           Pending(s) => Pending(s)'
    PROVE  TodayKnown' /\ BudgetHolds'
  <1>1. alone' => alone
    BY OnePassStep
  <1>2. alone' => \A t \in Sweepers : Pending(t) => Pending(t)'
    BY OnePassStep DEF Pending, Charged, OffDuty
  <1> QED
    BY <1>1, <1>2, TodayFrame, BudgetFrame DEF Books

\* The sweeper alone in its pass carries SeenKnown.
LEMMA SeenOfOne ==
    ASSUME Shape, OnePass, [Next]_vars, NEW s \in Sweepers, Sweep(s) \/ SweeperCrash(s),
           alone' => /\ spc'[s] \in {"claim", "look"} => Cost(Today)' <= Known(seen[s])' + Lost'
                     /\ spc'[s] = "charge" =>
                           Price <= Budget /\ Cost(Today)' <= (Budget - Price) + Lost'
    PROVE  SeenKnown'
  <1>1. alone' => \A t \in Sweepers \ {s} : spc'[t] \in OffDuty
    BY OnePassStep
  <1> QED
    BY <1>1 DEF SeenKnown, OffDuty

LEMMA NothingPending ==
    ASSUME Shape, OnePass, [Next]_vars, alone', NEW s \in Sweepers, Sweep(s) \/ SweeperCrash(s),
           ~Charged(s)
    PROVE  \A t \in Sweepers : ~Pending(t)
  BY OnePassStep DEF Pending, Charged, OffDuty

\* Steps before the target is looked at.
LEMMA BooksBeforeLook ==
    ASSUME Shape, Shape', OnePass, WindowKnown, Books, [Next]_vars, NEW s \in Sweepers,
           SweepStart(s) \/ SweepReset(s) \/ SweepDue(s) \/ claim_watcher_tick(s)
    PROVE  Books'
  <1>0. /\ DOMAIN spc = Sweepers /\ DOMAIN seen = Sweepers /\ row \in AnyRow
        /\ Known(row) \in Nat /\ row.window \in Nat /\ Today \in Nat
    BY ShapeFacts, BooksTyped
  <1>1. UNCHANGED <<fires, now, crashes>> /\ Sweep(s)
    BY DEF SweepStart, SweepReset, SweepDue, claim_watcher_tick, Sweep
  <1>2. SameBooks
    BY <1>1, SameBooksStep
  <1>3. ~Charged(s)
    BY DEF SweepStart, SweepReset, SweepDue, claim_watcher_tick, Charged
  <1>4. ASSUME alone', Exists' PROVE Exists /\ Known(row) <= Known(row)'
    <2>1. Today' = Today
      BY <1>2 DEF SameBooks
    <2>2. CASE SweepReset(s)
      <3>1. alone /\ spc[s] = "reset" /\ NoSpend
        BY <1>4, <2>2, OnePassStep, RowBooks DEF SweepReset
      <3>2. row.window < Today
        BY <3>1 DEF WindowKnown, NoSpend
      <3>3. Known(row) = 0 /\ Known(row)' = 0
        BY <1>0, <2>1, <3>1, <3>2 DEF Known, NoSpend
      <3> QED
        BY <3>1, <3>3 DEF NoSpend
    <2>3. CASE ~SweepReset(s)
      <3>1. SameSpend
        BY <1>4, <2>3, RowBooks
      <3> QED
        BY <1>0, <2>1, <3>1 DEF SameSpend, Known
    <2> QED
      BY <2>2, <2>3
  <1>5. TodayKnown' /\ BudgetHolds'
    BY <1>1, <1>2, <1>3, <1>4, PassFrame DEF Pending
  <1>6. SeenKnown'
    <2>1. CASE SweepDue(s)
      <3>1. CASE row.status = "active" /\ row.next <= now
        <4>1. spc'[s] = "claim" /\ seen'[s] = row
          BY <1>0, <2>1, <3>1 DEF SweepDue
        <4>2. ASSUME alone' PROVE Cost(Today) <= Known(row) + Lost
          <5>1. alone /\ Exists
            BY <3>1, <4>2, OnePassStep DEF Exists
          <5> QED
            BY <1>1, <1>3, <4>2, <5>1, NothingPending DEF Books, TodayKnown
        <4>3. Known(seen[s])' = Known(row) /\ Cost(Today)' = Cost(Today) /\ Lost' = Lost
          BY <1>2, <4>1 DEF SameBooks, Known
        <4> QED
          BY <1>1, <4>1, <4>2, <4>3, SeenOfOne
      <3>2. CASE ~(row.status = "active" /\ row.next <= now)
        <4>1. spc'[s] \in OffDuty
          BY <1>0, <2>1, <3>2 DEF SweepDue, Forget, OffDuty
        <4> QED
          BY <1>1, <4>1, SeenOfOne DEF OffDuty
      <3> QED
        BY <3>1, <3>2
    <2>2. CASE ~SweepDue(s)
      <3>1. \A t \in Sweepers : spc'[t] \in {"claim", "look"} =>
                spc[t] \in {"claim", "look"} /\ seen'[t] = seen[t]
        BY <1>0, <2>2 DEF SweepStart, SweepReset, claim_watcher_tick, Goto, Forget
      <3>2. \A t \in Sweepers : spc'[t] = "charge" => spc[t] = "charge"
        BY <1>0, <2>2 DEF SweepStart, SweepReset, claim_watcher_tick, Goto, Forget
      <3>3. alone' => alone
        BY OnePassStep
      <3> QED
        BY <1>2, <3>1, <3>2, <3>3, SeenFrame DEF Books
    <2> QED
      BY <2>1, <2>2
  <1> QED
    BY <1>5, <1>6 DEF Books

\* The look at the target, where the budget is checked.
LEMMA BooksAtLook ==
    ASSUME Shape, Shape', OnePass, WindowKnown, Books, [Next]_vars, NEW s \in Sweepers,
           TickFails(s) \/ TickLook(s)
    PROVE  Books'
  <1>0. /\ DOMAIN spc = Sweepers /\ DOMAIN seen = Sweepers /\ row \in AnyRow
        /\ Known(row) \in Nat /\ row.window \in Nat /\ Today \in Nat
        /\ seen[s] \in AnyRow /\ Known(seen[s]) \in Nat /\ seen[s].spend \in Nat
        /\ Cost(Today) \in Nat /\ Lost \in Nat
    BY ShapeFacts, BooksTyped DEF Shape
  <1>1. UNCHANGED <<fires, now, crashes>> /\ Sweep(s) /\ spc[s] = "look" /\ alone' = alone
    BY DEF TickFails, TickLook, Sweep, ghosts
  <1>2. SameBooks
    BY <1>1, SameBooksStep
  <1>3. ASSUME alone', Exists' PROVE Exists /\ Known(row) <= Known(row)'
    <2>1. Today' = Today
      BY <1>2 DEF SameBooks
    <2>2. CASE Stale(s)
      <3>1. NoSpend
        BY <1>3, <2>2, RowBooks
      <3>2. row.window # Today
        BY <1>1, <1>3, <2>2, <3>1 DEF Stale, WindowKnown, NoSpend
      <3> QED
        BY <1>0, <2>1, <3>1, <3>2 DEF Known, NoSpend
    <2>3. CASE ~Stale(s)
      <3>1. SameSpend
        BY <1>3, <2>3, RowBooks
      <3> QED
        BY <1>0, <2>1, <3>1 DEF SameSpend, Known
    <2> QED
      BY <2>2, <2>3
  <1>4. TodayKnown' /\ BudgetHolds'
    BY <1>1, <1>2, <1>3, PassFrame DEF Pending, Charged
  <1>5. SeenKnown'
    <2>1. spc'[s] \notin {"claim", "look"}
      BY <1>0 DEF TickFails, TickLook, Goto, Forget, Keep
    <2>2. ASSUME alone', spc'[s] = "charge"
          PROVE  Price <= Budget /\ Cost(Today) <= (Budget - Price) + Lost
      <3>1. Known(seen[s]) + Price <= Budget
        <4>1. ~TickFails(s)
          BY <1>0, <2>2 DEF TickFails, Goto, Forget
        <4>2. PICK fp \in Fingerprints :
                 LET spend == IF Stale(s) THEN 0 ELSE seen[s].spend
                     exhausted == ~Unchanged(s, fp) /\ spend + Price > Budget
                 IN  IF Unchanged(s, fp) \/ exhausted THEN Forget(s) ELSE Keep(s, fp)
          BY <4>1 DEF TickLook
        <4>3. ~Forget(s)
          BY <1>0, <2>2 DEF Forget
        <4>4. ~((IF Stale(s) THEN 0 ELSE seen[s].spend) + Price > Budget)
          BY <4>2, <4>3
        <4>5. Known(seen[s]) = IF Stale(s) THEN 0 ELSE seen[s].spend
          BY DEF Known, Stale
        <4> QED
          BY <1>0, <4>4, <4>5, ConstantsTyped
      <3>2. Cost(Today) <= Known(seen[s]) + Lost
        BY <1>1, <2>2 DEF Books, SeenKnown
      <3> QED
        BY <1>0, <3>1, <3>2, ConstantsTyped
    <2> QED
      BY <1>1, <1>2, <2>1, <2>2, SeenOfOne DEF SameBooks
  <1> QED
    BY <1>4, <1>5 DEF Books

\* A step that ends the pass, or pauses, without a charge.
LEMMA BooksAtEnd ==
    ASSUME Shape, Shape', OnePass, Books, [Next]_vars, NEW s \in Sweepers,
           Sweep(s), Forget(s), UNCHANGED <<fires, now, crashes>>, ~Charged(s),
           Exists' => SameSpend
    PROVE  Books'
  <1>1. SameBooks
    BY SameBooksStep
  <1>2. Known(row) \in Nat /\ DOMAIN spc = Sweepers
    BY ShapeFacts, BooksTyped
  <1>3. Exists' => Exists /\ Known(row) <= Known(row)'
    BY <1>1, <1>2 DEF SameBooks, SameSpend, Known
  <1>4. TodayKnown' /\ BudgetHolds'
    BY <1>1, <1>3, PassFrame DEF Pending
  <1>5. spc'[s] \in OffDuty
    BY <1>2 DEF Forget, OffDuty
  <1>6. SeenKnown'
    BY <1>5, SeenOfOne DEF OffDuty
  <1> QED
    BY <1>4, <1>6 DEF Books

\* The charge: what it adds to today was within the budget but for the fee.
LEMMA BooksAtCharge ==
    ASSUME Shape, Shape', OnePass, Books, [Next]_vars, NEW s \in Sweepers, FireCharge(s)
    PROVE  Books'
  <1>0. /\ DOMAIN spc = Sweepers /\ DOMAIN fire = Sweepers /\ row \in AnyRow
        /\ Known(row) \in Nat /\ Today \in Nat /\ Today \in 0 .. LastDay
        /\ Cost(Today) \in Nat /\ Lost \in Nat
        /\ fires \in Seq(Fire) /\ Len(fires) \in Nat
    BY ShapeFacts, BooksTyped
  <1>1. UNCHANGED <<now, crashes>> /\ Sweep(s) /\ spc[s] = "charge" /\ alone' = alone
    BY DEF FireCharge, Sweep, ghosts
  <1>2. CASE UNCHANGED fires /\ Forget(s)
    BY <1>1, <1>2, BooksAtEnd, RowBooks DEF Charged
  <1>3. CASE ~(UNCHANGED fires /\ Forget(s))
    <2>1. PICK f : /\ fires' = Append(fires, f) /\ f.job = "none" /\ f.day = Today
                   /\ spc' = [spc EXCEPT ![s] = "create"]
                   /\ fire' = [fire EXCEPT ![s] = Len(fires) + 1] /\ row' = row
      BY <1>3 DEF FireCharge
    <2>2. Today' = Today /\ Lost' = Lost
      BY <1>1 DEF Today, Lost
    <2>3. /\ \A d : d # Today => Cost(d)' = Cost(d)
          /\ Cost(Today)' = Cost(Today) + Charge
          /\ \A d : d = Today => Cost(d)' = Cost(Today) + Charge
      <3>1. /\ \A d : FiresOf(d)' = IF f.day = d THEN FiresOf(d) \cup {Len(fires) + 1}
                                    ELSE FiresOf(d)
            /\ Len(fires) + 1 \notin Kept
        BY <2>1, NewCharge
      <3>2. /\ IsFiniteSet(FiresOf(Today)) /\ Len(fires) + 1 \notin FiresOf(Today)
            /\ Cardinality(FiresOf(Today)) \in Nat
        BY <3>1, ChargesFinite, FS_CardinalityType DEF FiresOf
      <3>3. Cardinality(FiresOf(Today) \cup {Len(fires) + 1})
               = Cardinality(FiresOf(Today)) + 1
        BY <3>2, FS_AddElement
      <3>4. Charge * (Cardinality(FiresOf(Today)) + 1) = Cost(Today) + Charge
        BY <3>2, ConstantsTyped, ChargeTimes DEF Cost
      <3>5. FiresOf(Today)' = FiresOf(Today) \cup {Len(fires) + 1}
        <4>1. \A d : d = Today => FiresOf(d)' = FiresOf(Today) \cup {Len(fires) + 1}
          BY <2>1, <3>1
        <4> QED
          BY <2>2, <4>1 DEF FiresOf
      <3>6. Cost(Today)' = Cost(Today) + Charge
        BY <3>3, <3>4, <3>5 DEF Cost
      <3>7. \A d : d = Today => Cost(d)' = Cost(Today) + Charge
        BY <2>1, <3>1, <3>3, <3>4 DEF Cost
      <3>8. \A d : d # Today => Cost(d)' = Cost(d)
        BY <2>1, <3>1 DEF Cost
      <3> QED
        BY <3>6, <3>7, <3>8
    <2>4. ASSUME alone'
          PROVE  Cost(Today) <= (Budget - Price) + Lost
      BY <1>1, <2>4 DEF Books, SeenKnown
    <2>5. BudgetHolds'
      <3>1. alone' => \A d \in 0 .. LastDay : Cost(d)' <= Budget + Fee + Lost'
        <4>1. SUFFICES ASSUME alone', NEW d \in 0 .. LastDay
                       PROVE  Cost(d)' <= Budget + Fee + Lost
          BY <2>2
        <4>2. CASE d = Today
          BY <1>0, <2>3, <2>4, <4>1, <4>2, ConstantsTyped
        <4>3. CASE d # Today
          BY <1>1, <2>3, <4>1, <4>3, BudgetIsCost DEF Books
        <4> QED
          BY <4>2, <4>3
      <3> QED
        BY <3>1 DEF BudgetHolds, Cost, Lost, FiresOf
    <2>6. TodayKnown'
      <3>1. Pending(s)'
        <4>1. spc'[s] = "create" /\ fire'[s] = Len(fires) + 1
          BY <1>0, <2>1
        <4>2. fires'[Len(fires) + 1] = f
          BY <1>0, <2>1
        <4> QED
          BY <2>1, <2>2, <4>1, <4>2 DEF Pending, Charged
      <3>2. Known(row)' = Known(row) /\ Exists' = Exists
        BY <2>1, <2>2 DEF Known, Exists
      <3>3. ASSUME alone', Exists' PROVE Cost(Today)' <= Known(row)' + Lost' + Charge
        <4>1. Cost(Today) <= Known(row) + Lost
          BY <1>1, <3>2, <3>3, NothingPending DEF Books, TodayKnown, Charged
        <4> QED
          BY <1>0, <2>2, <2>3, <3>2, <4>1, ConstantsTyped
      <3> QED
        BY <3>1, <3>3 DEF TodayKnown
    <2>7. SeenKnown'
      <3>1. spc'[s] = "create"
        BY <1>0, <2>1
      <3> QED
        BY <1>1, <3>1, SeenOfOne
    <2> QED
      BY <2>5, <2>6, <2>7 DEF Books
  <1> QED
    BY <1>2, <1>3

\* create_job answers, or the charge is given back.
LEMMA BooksAtCreate ==
    ASSUME Shape, Shape', Position, OnePass, Books, [Next]_vars, NEW s \in Sweepers,
           FireCreate(s)
    PROVE  Books'
  <1>0. /\ DOMAIN spc = Sweepers /\ row \in AnyRow
        /\ Known(row) \in Nat /\ Today \in Nat
        /\ \A d : Cost(d) \in Nat
        /\ Lost \in Nat
    BY ShapeFacts, BooksTyped
  <1>1. /\ UNCHANGED <<now, crashes, row>> /\ Sweep(s) /\ spc[s] = "create" /\ alone' = alone
        /\ Today' = Today /\ Lost' = Lost /\ Known(row)' = Known(row) /\ Exists' = Exists
    BY DEF FireCreate, Sweep, ghosts, Today, Lost, Known, Exists
  <1>2. CASE fires' = [fires EXCEPT ![fire[s]].job = "created"] /\ Goto(s, "record")
    <2>1. \A d : FiresOf(d)' = FiresOf(d)
      BY <1>1, <1>2, ChargeCreated
    <2>2. SameBooks
      <3>1. \A d : Cost(d)' = Cost(d)
        BY <2>1 DEF Cost
      <3>2. FiresOf(Today)' = FiresOf(Today)
        BY <1>1, <2>1 DEF FiresOf
      <3> QED
        BY <1>1, <3>1, <3>2 DEF SameBooks, Cost
    <2>3. fire[s] \in DOMAIN fires /\ fires[fire[s]] \in Fire
      BY <1>1, ShapeFacts DEF Position, Charged
    <2>4. fires'[fire[s]].day = fires[fire[s]].day
      BY <1>2, <2>3 DEF Fire
    <2>5. Pending(s) => Pending(s)'
      BY <1>0, <1>1, <1>2, <2>4 DEF Pending, Charged, Goto
    <2>6. TodayKnown' /\ BudgetHolds'
      BY <1>0, <1>1, <2>2, <2>5, PassFrame
    <2>7. spc'[s] = "record"
      BY <1>0, <1>2 DEF Goto
    <2> QED
      BY <1>1, <2>6, <2>7, SeenOfOne DEF Books
  <1>3. CASE fires' = [fires EXCEPT ![fire[s]].job = "refunded"] /\ Forget(s)
    <2> DEFINE D == fires[fire[s]].day
    <2>1. /\ \A d : FiresOf(d)' = FiresOf(d) \ {fire[s]}
          /\ fire[s] \in FiresOf(D)
      BY <1>1, <1>3, ChargeRefunded
    <2>2. \A d : IsFiniteSet(FiresOf(d)) /\ Cardinality(FiresOf(d)) \in Nat
      BY ChargesFinite, FS_CardinalityType
    <2>3. ASSUME NEW d
          PROVE  /\ Cardinality(FiresOf(d) \ {fire[s]}) \in Nat
                 /\ Cardinality(FiresOf(d) \ {fire[s]}) <= Cardinality(FiresOf(d))
      BY <2>2, FS_Subset, FS_CardinalityType
    <2>4. ASSUME NEW d PROVE Cost(d)' <= Cost(d) /\ Cost(d)' \in Nat
      <3> DEFINE m == Cardinality(FiresOf(d) \ {fire[s]})  n == Cardinality(FiresOf(d))
      <3>1. m \in Nat /\ n \in Nat /\ m <= n
        BY <2>2, <2>3
      <3>2. Cost(d)' = Charge * m /\ Cost(d) = Charge * n
        BY <2>1 DEF Cost
      <3> HIDE DEF m, n
      <3>3. Charge * m <= Charge * n /\ Charge * m \in Nat
        BY <3>1, ConstantsTyped, ChargeTimesGrows, ChargeTimes
      <3> QED
        BY <3>2, <3>3
    <2>5. /\ Cost(Today)' \in Nat /\ Cost(Today)' <= Cost(Today)
          /\ D = Today => Cost(Today)' + Charge = Cost(Today)
      <3>1. FiresOf(Today)' = FiresOf(Today) \ {fire[s]}
        BY <1>1, <2>1 DEF FiresOf
      <3> DEFINE m == Cardinality(FiresOf(Today) \ {fire[s]})
      <3>2. Cost(Today)' = Charge * m /\ m \in Nat /\ m <= Cardinality(FiresOf(Today))
        BY <2>3, <3>1 DEF Cost
      <3>3. ASSUME D = Today PROVE Cardinality(FiresOf(Today)) = m + 1
        <4>1. fire[s] \in FiresOf(Today) /\ IsFiniteSet(FiresOf(Today))
          BY <2>1, <2>2, <3>3
        <4>2. m = Cardinality(FiresOf(Today)) - 1
          BY <4>1, FS_RemoveElement
        <4> QED
          BY <2>2, <4>2
      <3> HIDE DEF m
      <3>4. Charge * (m + 1) = Charge * m + Charge /\ Charge * m \in Nat
        BY <3>2, ConstantsTyped, ChargeTimes
      <3>5. Charge * m <= Cost(Today)
        BY <2>2, <3>2, ConstantsTyped, ChargeTimesGrows DEF Cost
      <3>6. D = Today => Cost(Today) = Charge * (m + 1)
        BY <3>3 DEF Cost
      <3> HIDE DEF D
      <3> QED
        BY <3>2, <3>4, <3>5, <3>6
    <2>6. BudgetHolds'
      <3>1. alone' => \A d \in 0 .. LastDay : Cost(d)' <= Budget + Fee + Lost'
        <4>1. SUFFICES ASSUME alone', NEW d \in 0 .. LastDay
                       PROVE  Cost(d)' <= Budget + Fee + Lost
          BY <1>1
        <4>2. Cost(d) <= Budget + Fee + Lost
          BY <1>1, <4>1, BudgetIsCost DEF Books
        <4> QED
          BY <1>0, <2>4, <4>2, ConstantsTyped
      <3> QED
        BY <3>1 DEF BudgetHolds, Cost, Lost, FiresOf
    <2>7. ASSUME alone', Exists' PROVE Cost(Today)' <= Known(row)' + Lost'
      <3>1. Cost(Today) <= Known(row) + Lost + Charge
        BY <1>1, <2>7 DEF Books, TodayKnown
      <3>2. CASE D = Today
        <4> HIDE DEF D
        <4> QED
          BY <1>0, <1>1, <2>5, <3>1, <3>2, ConstantsTyped
      <3>3. CASE D # Today
        <4>1. \A t \in Sweepers : ~Pending(t)
          BY <1>1, <2>7, <3>3, OnePassStep DEF Pending, Charged, OffDuty
        <4>2. Cost(Today) <= Known(row) + Lost
          BY <1>1, <2>7, <4>1 DEF Books, TodayKnown
        <4> HIDE DEF D
        <4> QED
          BY <1>0, <1>1, <2>5, <4>2
      <3> QED
        BY <3>2, <3>3
    <2>8. TodayKnown'
      <3>1. Cost(Today)' \in Nat /\ Known(row)' \in Nat /\ Lost' \in Nat
        BY <1>0, <1>1, <2>5
      <3> QED
        BY <2>7, <3>1, ConstantsTyped DEF TodayKnown
    <2>9. spc'[s] \in OffDuty
      BY <1>0, <1>3 DEF Forget, OffDuty
    <2> QED
      BY <1>1, <2>6, <2>8, <2>9, SeenOfOne DEF Books, OffDuty
  <1> QED
    BY <1>2, <1>3 DEF FireCreate

\* The record catches up with the fire, or a crash loses it.
LEMMA BooksAtRecord ==
    ASSUME Shape, Shape', OnePass, Books, [Next]_vars, NEW s \in Sweepers,
           FireRecord(s) \/ SweeperCrash(s)
    PROVE  Books'
  <1>0. /\ DOMAIN spc = Sweepers /\ row \in AnyRow /\ row.spend \in Nat
        /\ Known(row) \in Nat /\ Today \in Nat
        /\ Cost(Today) \in Nat /\ Lost \in Nat /\ crashes \in Nat
    BY ShapeFacts, BooksTyped, ConstantsTyped DEF Shape
  <1>1. /\ UNCHANGED <<now, fires>> /\ Forget(s) /\ alone' = alone /\ Today' = Today
        /\ Cost(Today)' = Cost(Today) /\ (Sweep(s) \/ SweeperCrash(s))
    BY DEF FireRecord, SweeperCrash, Sweep, ghosts, Today, Cost, FiresOf, Kept
  <1>2. \A d : Cost(d)' = Cost(d)
    BY <1>1 DEF Cost, FiresOf, Kept
  <1>3. Lost' \in Nat /\ Lost <= Lost' /\ (SweeperCrash(s) => Lost' = Lost + Charge)
    <2>1. CASE SweeperCrash(s)
      <3>1. Lost' = (crashes + 1) * Charge
        BY <2>1 DEF SweeperCrash, Lost
      <3>2. Lost' = Lost + Charge
        BY <1>0, <3>1, ConstantsTyped, ChargeTimes DEF Lost
      <3> QED
        BY <1>0, <3>2, ConstantsTyped
    <2>2. CASE ~SweeperCrash(s)
      BY <1>0, <2>2 DEF FireRecord, Lost
    <2> QED
      BY <2>1, <2>2
  <1>4. BudgetHolds'
    <2>1. alone' => \A d \in 0 .. LastDay : Cost(d)' <= Budget + Fee + Lost'
      <3>1. SUFFICES ASSUME alone', NEW d \in 0 .. LastDay
                     PROVE  Cost(d) <= Budget + Fee + Lost'
        BY <1>2
      <3>2. Cost(d) <= Budget + Fee + Lost /\ Cost(d) \in Nat
        BY <1>1, <3>1, BudgetIsCost, BooksTyped DEF Books
      <3> QED
        BY <1>0, <1>3, <3>2, ConstantsTyped
    <2> QED
      BY <2>1 DEF BudgetHolds, Cost, Lost, FiresOf
  <1>5. TodayKnown'
    <2>1. SUFFICES ASSUME alone', Exists'
                   PROVE  /\ Cost(Today)' <= Known(row)' + Lost'
                          /\ Cost(Today)' <= Known(row)' + Lost' + Charge
      BY DEF TodayKnown
    <2>2. CASE SweeperCrash(s)
      <3>1. SameSpend
        BY <2>1, <2>2, RowBooks
      <3>2. Known(row)' = Known(row)
        BY <1>1, <3>1 DEF SameSpend, Known
      <3>3. Cost(Today) <= Known(row) + Lost + Charge
        BY <1>1, <2>1, <3>1 DEF Books, TodayKnown, SameSpend
      <3> QED
        BY <1>0, <1>1, <1>3, <2>2, <3>2, <3>3, ConstantsTyped
    <2>3. CASE FireRecord(s)
      <3>1. Exists /\ row'.window = Today /\ row'.spend = row.spend + Charge
        BY <2>1, <2>3, RowBooks
      <3>2. Known(row)' = row.spend + Charge /\ Known(row) <= row.spend
        BY <1>0, <1>1, <3>1 DEF Known
      <3>3. Cost(Today) <= Known(row) + Lost + Charge
        BY <1>1, <2>1, <3>1 DEF Books, TodayKnown
      <3> QED
        BY <1>0, <1>1, <1>3, <3>2, <3>3, ConstantsTyped
    <2> QED
      BY <2>2, <2>3
  <1>6. spc'[s] \in OffDuty
    BY <1>0, <1>1 DEF Forget, OffDuty
  <1> QED
    BY <1>1, <1>4, <1>5, <1>6, SeenOfOne DEF Books, OffDuty

\* The owner and the clock.  A new day starts without a cost.
LEMMA BooksOutside ==
    ASSUME Shape, Shape', OnePass, WindowKnown, Books, [Next]_vars,
           OwnerPause \/ OwnerResume \/ OwnerDelete \/ Tick \/ UNCHANGED vars
    PROVE  Books'
  <1>0. /\ Known(row) \in Nat /\ Today \in Nat /\ Today' \in Nat /\ Lost \in Nat
        /\ Known(row)' \in Nat
    <2>1. Today' \in 0 .. LastDay /\ row' \in AnyRow /\ LastDay \in Nat
      <3>1. now' \in 0 .. MaxNow /\ row' \in AnyRow
        BY DEF Shape
      <3>2. MaxNow \in Nat /\ now' \in Nat /\ now' <= MaxNow /\ Day \in Nat \ {0}
        BY <3>1, ConstantsTyped
      <3>3. /\ now' \div Day \in Nat /\ MaxNow \div Day \in Nat
            /\ now' \div Day <= MaxNow \div Day
        <4> DEFINE n == now'
        <4>1. n \in Nat /\ n <= MaxNow
          BY <3>2
        <4> HIDE DEF n
        <4>2. n \div Day \in Nat /\ n \div Day <= MaxNow \div Day
          BY <3>2, <4>1, DaysGrow
        <4>3. MaxNow \div Day \in Nat
          BY <3>2, DaysGrow
        <4> QED
          BY <4>2, <4>3 DEF n
      <3> QED
        BY <3>1, <3>3 DEF Today, LastDay
    <2> QED
      BY <2>1, BooksTyped, ShapeFacts DEF Known, AnyRow
  <1>1. UNCHANGED <<fires, sweepVars, crashes, alone>>
    BY DEF OwnerPause, OwnerResume, OwnerDelete, Tick, vars, ghosts
  <1>2. Exists' => SameSpend
    <2>1. CASE UNCHANGED vars
      BY <2>1 DEF vars, Exists, SameSpend
    <2> QED
      BY <2>1, RowBooks, WatchersAssumption
  <1>3. CASE Today' = Today
    <2>1. SameBooks
      <3>1. \A d : Cost(d)' = Cost(d)
        BY <1>1 DEF Cost, FiresOf, Kept
      <3>2. Cost(Today)' = Cost(Today)
        BY <1>1, <1>3 DEF Cost, FiresOf, Kept
      <3> QED
        BY <1>1, <1>3, <3>1, <3>2 DEF SameBooks, Lost
    <2>2. \A t \in Sweepers : Pending(t) => Pending(t)'
      BY <1>1, <1>3 DEF Pending, Charged, sweepVars
    <2>3. Exists' => Exists /\ Known(row) <= Known(row)'
      BY <1>0, <1>2, <1>3 DEF SameSpend, Known
    <2>4. TodayKnown'
      BY <1>1, <2>1, <2>2, <2>3, TodayFrame DEF Books
    <2>5. BudgetHolds'
      BY <1>1, <2>1, BudgetFrame DEF Books
    <2>6. SeenKnown'
      BY <1>1, <2>1, SeenFrame DEF Books, sweepVars
    <2> QED
      BY <2>4, <2>5, <2>6 DEF Books
  <1>4. CASE Today' # Today
    <2>1. Today < Today'
      <3>1. Tick
        BY <1>4 DEF OwnerPause, OwnerResume, OwnerDelete, vars, Today
      <3> QED
        BY <1>0, <1>4, <3>1, TodayGrows DEF Shape
    <2>2. FiresOf(Today)' = {}
      <3>1. \A i \in DOMAIN fires : fires[i].day <= Today /\ fires[i].day \in Nat
        <4>1. \A i \in DOMAIN fires : fires[i] \in Fire
          BY ShapeFacts
        <4> QED
          BY <4>1 DEF WindowKnown, Fire
      <3>2. \A i \in DOMAIN fires : fires[i].day # Today'
        BY <1>0, <2>1, <3>1
      <3> QED
        BY <1>1, <3>2 DEF FiresOf, Kept
    <2>3. Cost(Today)' = 0 /\ Lost' = Lost /\ \A d : Cost(d)' = Cost(d)
      <3>1. Cost(Today)' = Charge * 0
        BY <2>2, FS_EmptySet DEF Cost
      <3>2. \A d : Cost(d)' = Cost(d)
        BY <1>1 DEF Cost, FiresOf, Kept
      <3> QED
        BY <1>1, <3>1, <3>2, ConstantsTyped DEF Lost
    <2>4. TodayKnown'
      BY <1>0, <2>3, ConstantsTyped DEF TodayKnown
    <2>5. SeenKnown'
      <3>1. \A t \in Sweepers : spc'[t] = spc[t]
        BY <1>1 DEF sweepVars
      <3>2. \A t \in Sweepers : Known(seen[t])' \in Nat
        <4>1. \A t \in Sweepers : seen'[t] \in AnyRow
          BY DEF Shape
        <4> QED
          BY <4>1, BooksTyped DEF Known
      <3>3. \A t \in Sweepers : alone' /\ spc'[t] = "charge" => Price <= Budget
        BY <1>1, <3>1 DEF Books, SeenKnown
      <3> QED
        BY <1>0, <2>3, <3>2, <3>3, ConstantsTyped DEF SeenKnown
    <2>6. BudgetHolds'
      <3>1. alone' => \A d \in 0 .. LastDay : Cost(d)' <= Budget + Fee + Lost'
        BY <1>1, <2>3, BudgetIsCost DEF Books
      <3> QED
        BY <3>1 DEF BudgetHolds, Cost, Lost, FiresOf
    <2> QED
      BY <2>4, <2>5, <2>6 DEF Books
  <1> QED
    BY <1>3, <1>4

LEMMA BooksStep ==
    ASSUME Shape, Shape', Position, OnePass, WindowKnown, Books, [Next]_vars
    PROVE  Books'
  <1>1. ASSUME NEW s \in Sweepers, Sweep(s) \/ SweeperCrash(s) PROVE Books'
    <2>1. CASE TickPause(s)
      BY <2>1, BooksAtEnd, RowBooks DEF TickPause, Charged, Sweep
    <2> QED
      BY <1>1, <2>1, BooksBeforeLook, BooksAtLook, BooksAtCharge, BooksAtCreate, BooksAtRecord
      DEF Sweep
  <1> QED
    BY <1>1, BooksOutside DEF Next

-----------------------------------------------------------------------------
(* The theorems. *)

LEMMA InitHolds == Init => IInv
  <1> SUFFICES ASSUME Init PROVE IInv
    OBVIOUS
  <1>1. /\ policy \in Policies /\ row = NewRow /\ funds = Funds /\ fires = << >> /\ now = 0
        /\ \A s \in Sweepers : spc[s] = "idle" /\ seen[s] = NewRow /\ fire[s] = 0
        /\ crashes = 0 /\ ~quiet
    BY DEF Init
  <1>2. Kept = {} /\ Created = {} /\ Recording = {} /\ \A d : FiresOf(d) = {}
    BY <1>1 DEF Kept, Created, Recording, FiresOf
  <1>3. Shape
    <2>1. funds \in Nat /\ now \in 0 .. MaxNow /\ crashes \in 0 .. MaxFaults
      BY <1>1, ConstantsTyped
    <2>2. alone \in BOOLEAN /\ quiet \in BOOLEAN /\ row \in AnyRow /\ fires \in Seq(Fire)
      <3>1. alone \in BOOLEAN /\ quiet \in BOOLEAN
        BY DEF Init
      <3>2. << >> \in Seq(Fire)
        OBVIOUS
      <3> QED
        BY <1>1, <3>1, <3>2, NewRowTyped
    <2>3. SweepShape
      BY NewRowTyped DEF Init, SweepShape, Places
    <2> QED
      BY <1>1, <2>1, <2>2, <2>3 DEF Shape, SweepShape, Places
  <1>4. Position /\ OwnFire /\ TicksBehind /\ TicksApart /\ PausedIdle /\ OnePass
    BY <1>1
    DEF Position, OwnFire, TicksBehind, TicksApart, PausedIdle, OnePass, Charged, Holds, OffDuty
  <1>0. Charge * 0 = 0 /\ 0 * Charge = 0 /\ Cardinality({}) = 0
    BY FS_EmptySet, ConstantsTyped
  <1>5. WalletPaid /\ SpendCounted /\ SeenCounted
    BY <1>0, <1>1, <1>2, ConstantsTyped
    DEF WalletPaid, SpendCounted, SeenCounted, NewRow
  <1>6. Cost(Today) = 0 /\ Lost = 0 /\ Known(row) \in Nat /\ Today \in Nat
    BY <1>0, <1>1, <1>2, <1>3, BooksTyped DEF Cost, Lost, Shape
  <1>7. TodayKnown /\ SeenKnown /\ WindowKnown
    <2>1. row.window = 0 /\ DOMAIN fires = {}
      BY <1>1 DEF NewRow
    <2>2. WindowKnown
      BY <1>1, <1>6, <2>1 DEF WindowKnown
    <2>3. TodayKnown
      BY <1>6, ConstantsTyped DEF TodayKnown
    <2>4. SeenKnown
      BY <1>1 DEF SeenKnown
    <2> QED
      BY <2>2, <2>3, <2>4
  <1>8. BudgetHolds
    <2>1. \A d : Cost(d) = 0
      BY <1>0, <1>2 DEF Cost
    <2>2. \A d \in 0 .. LastDay : Cost(d) <= Budget + Fee + Lost
      BY <1>6, <2>1, ConstantsTyped
    <2> QED
      BY <2>2, BudgetIsCost
  <1> QED
    BY <1>3, <1>4, <1>5, <1>7, <1>8 DEF IInv

LEMMA StepHolds == IInv /\ [Next]_vars => IInv'
  <1> SUFFICES ASSUME IInv, [Next]_vars PROVE IInv'
    OBVIOUS
  <1>1. Shape'
    BY ShapeStep DEF IInv
  <1>2. Position' /\ OwnFire' /\ TicksBehind' /\ TicksApart' /\ PausedIdle'
    BY PositionStep, OwnFireStep, TicksStep, PausedIdleStep DEF IInv
  <1>3. WalletPaid' /\ SpendCounted' /\ SeenCounted'
    BY WalletPaidStep, SpendCountedStep, SeenCountedStep DEF IInv
  <1>4. OnePass' /\ WindowKnown'
    BY <1>1, OnePassStep, WindowStep DEF IInv
  <1>5. Books'
    BY <1>1, BooksStep DEF IInv, Books
  <1> QED
    BY <1>1, <1>2, <1>3, <1>4, <1>5 DEF IInv, Books

LEMMA IInvAlways == Spec => []IInv
  BY InitHolds, StepHolds, PTL DEF Spec

LEMMA IInvTyped == IInv => TypeOK
  <1> SUFFICES ASSUME IInv PROVE TypeOK
    OBVIOUS
  <1>0. Shape /\ Position /\ SeenCounted
    BY DEF IInv
  <1>1. row.spend \in 0 .. Funds /\ funds \in 0 .. Funds
    BY SpendBound DEF IInv
  <1>2. \A r \in AnyRow : r.spend \in 0 .. Funds => r \in Rows
    BY DEF AnyRow, Rows
  <1>3. row \in Rows
    BY <1>0, <1>1, <1>2 DEF Shape
  <1>4. \A s \in Sweepers : seen[s] \in Rows
    <2>1. \A s \in Sweepers : seen[s] \in AnyRow
      BY <1>0 DEF Shape
    <2>2. \A s \in Sweepers : seen[s].spend \in 0 .. Funds
      BY <1>0, <2>1, ConstantsTyped DEF SeenCounted, AnyRow
    <2> QED
      BY <1>2, <2>1, <2>2
  <1>5. \A s \in Sweepers : fire[s] \in 0 .. Len(fires)
    BY <1>0, ShapeFacts DEF Position
  <1> QED
    BY <1>0, <1>1, <1>3, <1>4, <1>5 DEF Shape, TypeOK

\* The watcher's row, its wallet and its charges keep their types, and neither
\* the wallet nor the counted spend leaves what the owner had.
THEOREM TypeCorrect == Spec => []TypeOK
  BY IInvAlways, IInvTyped, PTL

\* The compare-and-swap of claim_watcher_tick: a tick is charged for once,
\* however many sweepers overlap and wherever they crash.
THEOREM TickFiresOnceHolds == Spec => []TickFiresOnce
  <1>1. IInv => TickFiresOnce
    BY DEF IInv, TicksApart, TickFiresOnce, Kept
  <1> QED
    BY <1>1, IInvAlways, PTL

\* A watcher paused between two ticks stays paused until its owner acts.
THEOREM PauseStandsHolds == Spec => []PauseStands
  <1>1. IInv => PauseStands
    BY DEF IInv, PausedIdle, PauseStands
  <1> QED
    BY <1>1, IInvAlways, PTL

\* Without an overlap of passes, a day costs its owner no more than the budget,
\* the fee of one fire, and a fire for each crash.
THEOREM BudgetHoldsAlways == Spec => []BudgetHolds
  <1>1. IInv => BudgetHolds
    BY DEF IInv
  <1> QED
    BY <1>1, IInvAlways, PTL

\* Every cent that left the owner's wallet is a charge that was not given back.
THEOREM WalletPaidAlways == Spec => []WalletPaid
  <1>1. IInv => WalletPaid
    BY DEF IInv
  <1> QED
    BY <1>1, IInvAlways, PTL

=============================================================================
