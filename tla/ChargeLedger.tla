---------------------------- MODULE ChargeLedger ----------------------------
(***************************************************************************)
(* The cents of one charge: the fee arithmetic of core/payments, and the   *)
(* ledger rows that the settlement operations insert for the charge, for   *)
(* every price, fee percentage, fee-bearer policy and refund fraction of   *)
(* the instance.  Module Settlement has the same operations with fixed     *)
(* amounts and concurrent callers; here the amounts vary and an operation  *)
(* is one transaction.                                                     *)
(*                                                                         *)
(* A charge belongs to an asynchronous job, whose worker may fail it with a*)
(* partial refund, or to a synchronous call, whose price may turn out lower*)
(* than the estimate that was charged.                                     *)
(***************************************************************************)
EXTENDS Integers

CONSTANTS
    Prices,     \* price_cents
    FeePcts,    \* platform_fee_pct
    Fractions,  \* refund_fraction of JobFailRequest, in hundredths
    Backends    \* the databases of core/db.py, "sqlite" and "postgres"

\* JobFailRequest bounds the fraction (0.5 to 1.0), PLATFORM_FEE_PCT is read
\* with maximum=100; a price of zero cents charges nothing and is left out.
ASSUME RangesAssumption ==
    /\ Prices \subseteq Nat \ {0}
    /\ FeePcts \subseteq 0 .. 100
    /\ Fractions \subseteq 50 .. 100
    /\ Backends \subseteq {"sqlite", "postgres"}

Policies == {"caller", "worker", "split"}

-----------------------------------------------------------------------------
(* The arithmetic. *)

\* Hundredths of a cent, rounded half up.
HalfUp(x) == (x + 50) \div 100

compute_platform_fee_cents(price, pct) == HalfUp(price * pct)

\* Mutant: both halves of an odd fee are rounded up.
compute_success_distribution_both_up(price, pct, policy) ==
    LET fee == compute_platform_fee_cents(price, pct)
        callerFee == CASE policy = "caller" -> fee
                       [] policy = "worker" -> 0
                       [] policy = "split" -> (fee + 1) \div 2
        workerFee == CASE policy = "caller" -> 0
                       [] policy = "worker" -> fee
                       [] policy = "split" -> (fee + 1) \div 2
    IN  [charge |-> price + callerFee,
         payout |-> IF price > workerFee THEN price - workerFee ELSE 0,
         fee |-> fee]

\* The caller's half of a split fee is rounded up.
compute_success_distribution(price, pct, policy) ==
    LET fee == compute_platform_fee_cents(price, pct)
        callerFee == CASE policy = "caller" -> fee
                       [] policy = "worker" -> 0
                       [] policy = "split" -> (fee + 1) \div 2
        workerFee == fee - callerFee
    IN  [charge |-> price + callerFee,
         payout |-> IF price > workerFee THEN price - workerFee ELSE 0,
         fee |-> fee]

\* The platform's share of the cents kept in a partial settlement: kept * ratio
\* rounded to the nearest cent.  The ratio is a Decimal of 28 digits, so that
\* an exact half may come out a hair below and round down: either neighbour.
KeptFees(d, kept) ==
    LET total == d.payout + d.fee
    IN  {x \in 0 .. kept : /\ 2 * kept * d.fee - total <= 2 * x * total
                           /\ 2 * x * total <= 2 * kept * d.fee + total}

Positive(x) == IF x > 0 THEN x ELSE 0

\* The legs of maybe_refund_pricing_diff: the difference of the two
\* distributions, with any residue on the platform's leg, or on the agent's
\* when the platform's would go negative.
PricingDiff(billed, actual) ==
    LET caller == Positive(billed.charge - actual.charge)
        agent == Positive(billed.payout - actual.payout)
        platform == caller - agent
    IN  [caller |-> caller,
         agent |-> IF platform < 0 THEN Positive(agent + platform) ELSE agent,
         platform |-> Positive(platform)]

-----------------------------------------------------------------------------
VARIABLES
    price, pct, policy, mode,   \* fixed when the charge is made
    backend,                    \* the database the server runs on
    refund, payout, fee,        \* cents of the rows keyed by the charge
    diff,                       \* legs of the pricing-difference rows
    agentBal, platformBal,      \* wallets.balance_cents, other money left out
    agentRows, platformRows,    \* the sum of each wallet's transaction rows
    called,                     \* the synchronous call has paid its agent
    actual                      \* the price the call turned out to have

inputs == <<price, pct, policy, mode, backend>>
rows == <<refund, payout, fee, diff>>
wallets == <<agentBal, platformBal, agentRows, platformRows>>
vars == <<inputs, rows, wallets, called, actual>>

Dist == compute_success_distribution(price, pct, policy)

NoDiff == [caller |-> 0, agent |-> 0, platform |-> 0]

TypeOK ==
    /\ price \in Prices
    /\ pct \in FeePcts
    /\ policy \in Policies
    /\ mode \in {"job", "call"}
    /\ backend \in Backends
    /\ refund \in Nat
    /\ payout \in Nat
    /\ fee \in Nat
    /\ diff \in [caller : Nat, agent : Nat, platform : Nat]
    /\ agentBal \in Nat
    /\ platformBal \in Nat
    /\ agentRows \in Int
    /\ platformRows \in Int
    /\ called \in BOOLEAN
    /\ actual \in Nat

Init ==
    /\ price \in Prices
    /\ pct \in FeePcts
    /\ policy \in Policies
    /\ mode \in {"job", "call"}
    /\ backend \in Backends
    /\ refund = 0
    /\ payout = 0
    /\ fee = 0
    /\ diff = NoDiff
    /\ agentBal = 0
    /\ platformBal = 0
    /\ agentRows = 0
    /\ platformRows = 0
    /\ called = FALSE
    /\ actual = price

\* _insert_tx writes the row and adds the same cents to the wallet.
Credit ==
    /\ agentBal' = agentBal + (payout' - payout)
    /\ agentRows' = agentRows + (payout' - payout)
    /\ platformBal' = platformBal + (fee' - fee)
    /\ platformRows' = platformRows + (fee' - fee)

post_call_payout ==
    /\ payout' = IF refund = 0 /\ payout = 0 THEN Dist.payout ELSE payout
    /\ fee' = IF refund = 0 /\ fee = 0 THEN Dist.fee ELSE fee
    /\ called' = (mode = "call")
    /\ Credit
    /\ UNCHANGED <<inputs, refund, diff, actual>>

post_call_refund ==
    /\ refund' = IF payout = 0 /\ fee = 0 /\ refund = 0 THEN Dist.charge
                 ELSE refund
    /\ UNCHANGED <<inputs, payout, fee, diff, wallets, called, actual>>

\* Mutant: the refund is rounded down.
RefundShare_down(d, fraction) == (d.charge * fraction) \div 100

RefundShare(d, fraction) == HalfUp(d.charge * fraction)

\* post_call_partial_settle: nothing when the charge has any row.  Called with
\* a fraction below 1 only; _settle_failed_job takes post_call_refund for 1.
post_call_partial_settle(fraction) ==
    /\ mode = "job"
    /\ fraction < 100
    /\ IF refund = 0 /\ payout = 0 /\ fee = 0
       THEN LET kept == Dist.charge - RefundShare(Dist, fraction)
            IN  \E x \in KeptFees(Dist, kept) :
                   /\ refund' = RefundShare(Dist, fraction)
                   /\ fee' = x
                   /\ payout' = kept - x
       ELSE UNCHANGED <<refund, payout, fee>>
    /\ Credit
    /\ UNCHANGED <<inputs, diff, called, actual>>

\* What the agent's and the platform's _insert_tx calls leave behind, in this
\* order and before the caller's: the rows written (legs, each leg's row comes
\* before its wallet's UPDATE) and the cents really taken from the wallets.
Bounced(leg) == [legs |-> leg, agent |-> 0, platform |-> 0]

\* Mutant: the caller is credited before the clawbacks are tried.
ClawBack_caller_first(d) ==
    CASE agentBal < d.agent -> Bounced([d EXCEPT !.platform = 0])
      [] agentBal >= d.agent /\ platformBal < d.platform ->
           [legs |-> d, agent |-> d.agent, platform |-> 0]
      [] OTHER -> [legs |-> d, agent |-> d.agent, platform |-> d.platform]

\* The wallets' CHECK (balance_cents >= 0) rejects the UPDATE of an emptied
\* wallet.  The IntegrityError is swallowed inside `with _conn()`, so the
\* connection commits.  PostgreSQL turns the commit of an aborted transaction
\* into a rollback; SQLite undoes the failing statement alone, and keeps the row
\* that was inserted before it and the legs before that.
ClawBack(d) ==
    CASE agentBal < d.agent ->
           Bounced(IF backend = "sqlite"
                   THEN [NoDiff EXCEPT !.agent = d.agent] ELSE NoDiff)
      [] agentBal >= d.agent /\ platformBal < d.platform ->
           IF backend = "sqlite"
           THEN [legs |-> [d EXCEPT !.caller = 0], agent |-> d.agent, platform |-> 0]
           ELSE Bounced(NoDiff)
      [] OTHER -> [legs |-> d, agent |-> d.agent, platform |-> d.platform]

\* Mutant: a short wallet is skipped, and the caller's leg still follows.
post_call_refund_difference_goes_on(d) ==
    IF /\ diff = NoDiff
       /\ d.caller = d.agent + d.platform
       /\ d.caller <= Dist.charge - refund
    THEN /\ diff' = d
         /\ agentBal' = Positive(agentBal - d.agent)
         /\ platformBal' = Positive(platformBal - d.platform)
         /\ agentRows' = agentRows - d.agent
         /\ platformRows' = platformRows - d.platform
    ELSE UNCHANGED <<diff, wallets>>

\* post_call_refund_difference: at most once per charge (any tagged row, a stray
\* one too, counts), zero-sum, within what the caller has not got back yet.
post_call_refund_difference(d) ==
    IF /\ diff = NoDiff
       /\ d.caller = d.agent + d.platform
       /\ d.caller <= Dist.charge - refund
    THEN /\ diff' = ClawBack(d).legs
         /\ agentBal' = agentBal - ClawBack(d).agent
         /\ platformBal' = platformBal - ClawBack(d).platform
         /\ agentRows' = agentRows - ClawBack(d).legs.agent
         /\ platformRows' = platformRows - ClawBack(d).legs.platform
    ELSE UNCHANGED <<diff, wallets>>

\* maybe_refund_pricing_diff, after the payout of a call that used fewer units
\* than estimated.  A price of zero is possible here.
maybe_refund_pricing_diff(q) ==
    /\ mode = "call"
    /\ called
    /\ q < price
    /\ LET d == PricingDiff(Dist, compute_success_distribution(q, pct, policy))
       IN  /\ d.caller > 0
           /\ post_call_refund_difference(d)
    /\ actual' = IF diff'.caller > diff.caller THEN q ELSE actual
    /\ called' = FALSE
    /\ UNCHANGED <<inputs, refund, payout, fee>>

\* The agent's owner withdraws some of the balance.
Withdraw(n) ==
    /\ n <= agentBal
    /\ agentBal' = agentBal - n
    /\ agentRows' = agentRows - n
    /\ UNCHANGED <<inputs, rows, platformBal, platformRows, called, actual>>

\* record_judge_fee, for another charge, debits the platform's wallet.
record_judge_fee(n) ==
    /\ n <= platformBal
    /\ platformBal' = platformBal - n
    /\ platformRows' = platformRows - n
    /\ UNCHANGED <<inputs, rows, agentBal, agentRows, called, actual>>

Next ==
    \/ post_call_payout
    \/ post_call_refund
    \/ \E f \in Fractions : post_call_partial_settle(f)
    \/ \E q \in Prices \cup {0} : maybe_refund_pricing_diff(q)
    \/ \E n \in 1 .. agentBal : Withdraw(n)
    \/ \E n \in 1 .. platformBal : record_judge_fee(n)

Spec == Init /\ [][Next]_vars

-----------------------------------------------------------------------------
(* Properties. *)

\* A difference whose legs stopped half way: rows, and none of them the caller's.
HalfWritten == diff # NoDiff /\ diff.caller = 0

\* The rows of a charge distribute all of it or none of it, and the pricing
\* difference gives the caller what was clawed back or nothing: the roundings of
\* the fee, of its halves and of the partial refund never lose or make a cent,
\* and a difference that stops half way never credits anybody.
LedgerBalances ==
    /\ refund + payout + fee \in {0, Dist.charge}
    /\ diff.caller \in {0, diff.agent + diff.platform}

\* compute_ledger_invariants: the wallets of the charge hold what their rows add
\* up to, except after a half-written difference, and then the drift is exactly
\* the leg whose wallet was short.  On PostgreSQL there is no such difference.
DriftIsStrayLeg ==
    LET agent == agentBal - agentRows
        platform == platformBal - platformRows
    IN  /\ ~HalfWritten => agent = 0 /\ platform = 0
        /\ HalfWritten => /\ backend = "sqlite"
                          /\ \/ agent = diff.agent /\ diff.platform = 0 /\ platform = 0
                             \/ platform = diff.platform /\ agent = 0
                          /\ agent + platform > 0

\* Whatever the worker reports, a charge that is partly refunded gives at least
\* half of it back to the caller.
CallerGetsHalf == refund > 0 => 2 * refund >= Dist.charge

\* A pricing difference that reaches the caller leaves every party exactly as if
\* the actual price had been charged: the two roundings of the fee and the residue
\* rule agree.  One that stops half way leaves the caller at the estimate and
\* takes from agent and platform no more than they got.
ActualPriceCharged ==
    LET net == compute_success_distribution(actual, pct, policy)
    IN  /\ diff.caller > 0 =>
             /\ Dist.charge - diff.caller = net.charge
             /\ payout - diff.agent = net.payout
             /\ fee - diff.platform = net.fee
        /\ diff # NoDiff => /\ diff.agent <= payout
                            /\ diff.platform <= fee
        /\ diff.caller = 0 => actual = price
=============================================================================
