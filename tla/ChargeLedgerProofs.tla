-------------------------- MODULE ChargeLedgerProofs --------------------------
(* The cents of a charge add up for every price, every fee percentage up to  *)
(* 100, every fee-bearer policy and every refund fraction from one half up.  *)
EXTENDS ChargeLedger, TLAPS

-----------------------------------------------------------------------------
(* Rounding. *)

\* Half-up rounding of hundredths, for a whole number of them.
LEMMA HalfUpBounds ==
    ASSUME NEW x \in Nat
    PROVE  /\ HalfUp(x) \in Nat
           /\ 100 * HalfUp(x) <= x + 50
           /\ x < 100 * HalfUp(x) + 50
  BY DEF HalfUp

\* A share of at most all of n rounds to at most n.
LEMMA ShareIsNat ==
    ASSUME NEW n \in Nat, NEW c \in 0 .. 100
    PROVE  n * c \in Nat /\ n * c <= 100 * n
  OBVIOUS

\* The platform fee lies between nothing and the price.
LEMMA FeeRange ==
    ASSUME NEW p \in Nat, NEW c \in 0 .. 100
    PROVE  /\ compute_platform_fee_cents(p, c) \in Nat
           /\ compute_platform_fee_cents(p, c) <= p
  <1> DEFINE x == p * c
  <1>1. x \in Nat /\ x <= 100 * p
    BY ShareIsNat
  <1>2. HalfUp(x) \in Nat /\ 100 * HalfUp(x) <= x + 50
    BY <1>1, HalfUpBounds
  <1> HIDE DEF x
  <1>3. HalfUp(x) <= p
    BY <1>1, <1>2
  <1> QED
    BY <1>2, <1>3 DEF x, compute_platform_fee_cents

\* What the caller pays is what the agent and the platform get, in whole
\* cents, under each fee-bearer policy: compute_success_distribution.
LEMMA DistributionBalances ==
    ASSUME NEW p \in Nat, NEW c \in 0 .. 100, NEW b \in Policies
    PROVE  LET d == compute_success_distribution(p, c, b)
           IN  /\ d \in [charge : Nat, payout : Nat, fee : Nat]
               /\ d.charge = d.payout + d.fee
               /\ p <= d.charge
               /\ d.fee = compute_platform_fee_cents(p, c)
  <1> DEFINE f == compute_platform_fee_cents(p, c)
  <1>1. f \in Nat /\ f <= p
    BY FeeRange
  <1> HIDE DEF f
  <1>2. CASE b = "caller"
    BY <1>1, <1>2 DEF compute_success_distribution, f
  <1>3. CASE b = "worker"
    BY <1>1, <1>3 DEF compute_success_distribution, f
  <1>4. CASE b = "split"
    BY <1>1, <1>4 DEF compute_success_distribution, f
  <1> QED
    BY <1>2, <1>3, <1>4 DEF Policies

\* The fee grows with the price, and by no more than the price does.
LEMMA FeeStep ==
    ASSUME NEW p \in Nat, NEW q \in Nat, q <= p, NEW c \in 0 .. 100
    PROVE  LET f == compute_platform_fee_cents(p, c)
               g == compute_platform_fee_cents(q, c)
           IN  g <= f /\ f <= g + (p - q)
  <1> DEFINE x == p * c
             y == q * c
             z == (p - q) * c
  <1>1. x \in Nat /\ y \in Nat /\ z \in Nat /\ z <= 100 * (p - q)
    <2>1. p - q \in Nat
      OBVIOUS
    <2> QED
      BY <2>1, ShareIsNat
  <1>2. x = y + z
    OBVIOUS
  <1>3. /\ HalfUp(x) \in Nat /\ 100 * HalfUp(x) <= x + 50 /\ x < 100 * HalfUp(x) + 50
        /\ HalfUp(y) \in Nat /\ 100 * HalfUp(y) <= y + 50 /\ y < 100 * HalfUp(y) + 50
    BY <1>1, HalfUpBounds
  <1> HIDE DEF x, y, z
  <1>4. HalfUp(y) <= HalfUp(x) /\ HalfUp(x) <= HalfUp(y) + (p - q)
    BY <1>1, <1>2, <1>3
  <1> QED
    BY <1>4 DEF x, y, compute_platform_fee_cents

\* The legs of a pricing difference are exactly the differences of the two
\* distributions: the clamps and the residue rule of maybe_refund_pricing_diff
\* never have anything to correct.
LEMMA PricingDiffExact ==
    ASSUME NEW p \in Nat, NEW q \in Nat, q <= p, NEW c \in 0 .. 100,
           NEW b \in Policies
    PROVE  LET d == compute_success_distribution(p, c, b)
               e == compute_success_distribution(q, c, b)
               r == PricingDiff(d, e)
           IN  /\ r \in [caller : Nat, agent : Nat, platform : Nat]
               /\ r.caller = d.charge - e.charge
               /\ r.agent = d.payout - e.payout
               /\ r.platform = d.fee - e.fee
  <1> DEFINE f == compute_platform_fee_cents(p, c)
             g == compute_platform_fee_cents(q, c)
             d == compute_success_distribution(p, c, b)
             e == compute_success_distribution(q, c, b)
  <1>1. f \in Nat /\ f <= p /\ g \in Nat /\ g <= q
    BY FeeRange
  <1>2. g <= f /\ f <= g + (p - q)
    BY FeeStep
  <1>3. /\ d \in [charge : Nat, payout : Nat, fee : Nat]
        /\ d.charge = d.payout + d.fee
        /\ d.fee = f
        /\ e \in [charge : Nat, payout : Nat, fee : Nat]
        /\ e.charge = e.payout + e.fee
        /\ e.fee = g
    BY DistributionBalances
  <1>4. e.payout <= d.payout
    <2> HIDE DEF f, g
    <2>1. CASE b = "caller"
      BY <1>1, <1>2, <2>1 DEF compute_success_distribution, f, g
    <2>2. CASE b = "worker"
      BY <1>1, <1>2, <2>2 DEF compute_success_distribution, f, g
    <2>3. CASE b = "split"
      BY <1>1, <1>2, <2>3 DEF compute_success_distribution, f, g
    <2> QED
      BY <2>1, <2>2, <2>3 DEF Policies
  <1> HIDE DEF d, e, f, g
  <1>5. /\ PricingDiff(d, e) \in [caller : Nat, agent : Nat, platform : Nat]
        /\ PricingDiff(d, e).caller = d.charge - e.charge
        /\ PricingDiff(d, e).agent = d.payout - e.payout
        /\ PricingDiff(d, e).platform = d.fee - e.fee
    BY <1>1, <1>2, <1>3, <1>4 DEF PricingDiff, Positive
  <1> QED
    BY <1>5 DEF d, e

\* A partial refund of at least one half, rounded half up, gives at least half
\* of the charge back and no more than all of it.
LEMMA RefundShareBounds ==
    ASSUME NEW n \in Nat \ {0}, NEW r \in 50 .. 100
    PROVE  LET s == HalfUp(n * r)
           IN  s \in Nat \ {0} /\ s <= n /\ n <= 2 * s
  <1> DEFINE x == n * r
  <1>1. x \in Nat /\ 50 * n <= x /\ x <= 100 * n
    OBVIOUS
  <1>2. HalfUp(x) \in Nat /\ 100 * HalfUp(x) <= x + 50 /\ x < 100 * HalfUp(x) + 50
    BY <1>1, HalfUpBounds
  <1> HIDE DEF x
  <1>3. HalfUp(x) \in Nat \ {0} /\ HalfUp(x) <= n /\ n <= 2 * HalfUp(x)
    BY <1>1, <1>2
  <1> QED
    BY <1>3 DEF x

-----------------------------------------------------------------------------
(* The invariant. *)

\* What the rows of a charge look like: nothing, the successful distribution,
\* or a refund; a call is never refunded in part, and only a paid call has a
\* pricing difference.
RowsMatch ==
    /\ refund = 0 => \/ payout = 0 /\ fee = 0
                     \/ payout = Dist.payout /\ fee = Dist.fee
    /\ mode = "call" => refund \in {0, Dist.charge}
    /\ called => mode = "call"
    /\ called /\ refund = 0 => payout = Dist.payout /\ fee = Dist.fee
    /\ diff # NoDiff => refund = 0 /\ payout = Dist.payout /\ fee = Dist.fee
    /\ actual <= price

IInv == TypeOK /\ RowsMatch /\ LedgerBalances /\ DriftIsStrayLeg
        /\ CallerGetsHalf /\ ActualPriceCharged

\* The distribution of the charge at hand.
LEMMA DistFacts ==
    ASSUME TypeOK
    PROVE  /\ price \in Nat \ {0}
           /\ pct \in 0 .. 100
           /\ Dist \in [charge : Nat, payout : Nat, fee : Nat]
           /\ Dist.charge = Dist.payout + Dist.fee
           /\ Dist.charge # 0
  <1>1. price \in Nat \ {0} /\ pct \in 0 .. 100 /\ policy \in Policies
    BY RangesAssumption DEF TypeOK
  <1>2. price \in Nat /\ price > 0
    BY <1>1
  <1> DEFINE d == compute_success_distribution(price, pct, policy)
  <1>3. /\ d \in [charge : Nat, payout : Nat, fee : Nat]
        /\ d.charge = d.payout + d.fee
        /\ price <= d.charge
    BY <1>1, <1>2, DistributionBalances
  <1> HIDE DEF d
  <1>4. d.charge # 0
    BY <1>2, <1>3
  <1> QED
    BY <1>1, <1>3, <1>4 DEF Dist, d

LEMMA InitIInv ==
    ASSUME Init PROVE IInv
  <1>1. TypeOK
    <2>1. called \in BOOLEAN
      BY Zenon DEF Init
    <2>2. diff \in [caller : Nat, agent : Nat, platform : Nat]
      BY DEF Init, NoDiff
    <2>3. actual \in Nat
      BY RangesAssumption DEF Init
    <2> QED
      BY <2>1, <2>2, <2>3 DEF Init, TypeOK
  <1> QED
    BY <1>1, DistFacts
       DEF Init, IInv, RowsMatch, LedgerBalances, DriftIsStrayLeg, HalfWritten,
           CallerGetsHalf, ActualPriceCharged, NoDiff

\* The fixed inputs keep Dist fixed.
LEMMA InputsFixDist ==
    ASSUME UNCHANGED inputs
    PROVE  Dist' = Dist
  BY DEF inputs, Dist

LEMMA PayoutKeepsIInv ==
    ASSUME IInv, post_call_payout PROVE IInv'
  <1> USE DEF inputs
  <1>1. Dist' = Dist
    BY InputsFixDist DEF post_call_payout
  <1>2. TypeOK'
    BY DistFacts DEF IInv, TypeOK, post_call_payout, Credit
  <1>3. RowsMatch'
    BY <1>1, DistFacts DEF IInv, RowsMatch, LedgerBalances, TypeOK, post_call_payout
  <1>4. LedgerBalances'
    BY <1>1, DistFacts DEF IInv, RowsMatch, LedgerBalances, TypeOK, post_call_payout
  <1>5. DriftIsStrayLeg'
    BY DistFacts DEF IInv, DriftIsStrayLeg, HalfWritten, TypeOK, post_call_payout,
                     Credit, NoDiff
  <1>6. CallerGetsHalf'
    BY <1>1 DEF IInv, CallerGetsHalf, post_call_payout
  <1>7. ActualPriceCharged'
    <2>1. UNCHANGED <<price, pct, policy, diff, actual>>
      BY DEF post_call_payout
    <2>2. diff # NoDiff => payout' = payout /\ fee' = fee
      BY DistFacts DEF IInv, RowsMatch, TypeOK, post_call_payout
    <2>3. diff.caller > 0 => diff # NoDiff
      BY DEF NoDiff
    <2> QED
      BY <1>1, <2>1, <2>2, <2>3 DEF IInv, ActualPriceCharged, NoDiff
  <1> QED
    BY <1>2, <1>3, <1>4, <1>5, <1>6, <1>7 DEF IInv

LEMMA RefundKeepsIInv ==
    ASSUME IInv, post_call_refund PROVE IInv'
  <1> USE DEF inputs
  <1>1. Dist' = Dist
    BY InputsFixDist DEF post_call_refund
  <1>2. TypeOK'
    BY DistFacts DEF IInv, TypeOK, post_call_refund, wallets
  <1>3. RowsMatch'
    BY <1>1, DistFacts DEF IInv, RowsMatch, LedgerBalances, TypeOK, post_call_refund
  <1>4. LedgerBalances'
    BY <1>1, DistFacts DEF IInv, RowsMatch, LedgerBalances, TypeOK, post_call_refund
  <1>5. DriftIsStrayLeg'
    BY DEF IInv, DriftIsStrayLeg, HalfWritten, NoDiff, post_call_refund, wallets
  <1>6. CallerGetsHalf'
    BY <1>1, DistFacts DEF IInv, CallerGetsHalf, TypeOK, post_call_refund
  <1>7. ActualPriceCharged'
    BY <1>1 DEF IInv, ActualPriceCharged, post_call_refund
  <1> QED
    BY <1>2, <1>3, <1>4, <1>5, <1>6, <1>7 DEF IInv

LEMMA PartialKeepsIInv ==
    ASSUME IInv, NEW r \in Fractions, post_call_partial_settle(r) PROVE IInv'
  <1> USE DEF inputs
  <1>1. Dist' = Dist
    BY InputsFixDist DEF post_call_partial_settle
  <1>2. CASE refund = 0 /\ payout = 0 /\ fee = 0
    <2> DEFINE s == RefundShare(Dist, r)
    <2>1. s \in Nat \ {0} /\ s <= Dist.charge /\ Dist.charge <= 2 * s
      <3>1. r \in 50 .. 100 /\ Dist.charge \in Nat \ {0}
        BY RangesAssumption, DistFacts DEF IInv
      <3> QED
        BY <3>1, RefundShareBounds DEF RefundShare
    <2>2. PICK x \in KeptFees(Dist, Dist.charge - s) :
             refund' = s /\ fee' = x /\ payout' = Dist.charge - s - x
      BY <1>2 DEF post_call_partial_settle
    <2>3. x \in 0 .. (Dist.charge - s)
      BY <2>2 DEF KeptFees
    <2> HIDE DEF s
    <2>4. TypeOK' /\ DriftIsStrayLeg'
      BY <1>2, <2>1, <2>2, <2>3, DistFacts
         DEF IInv, TypeOK, DriftIsStrayLeg, HalfWritten, NoDiff,
             post_call_partial_settle, Credit
    <2>5. LedgerBalances' /\ CallerGetsHalf'
      BY <1>1, <1>2, <2>1, <2>2, <2>3, DistFacts
         DEF IInv, TypeOK, LedgerBalances, CallerGetsHalf, post_call_partial_settle
    <2>6. diff = NoDiff
      BY <1>2, DistFacts DEF IInv, RowsMatch
    <2>7. RowsMatch' /\ ActualPriceCharged'
      BY <1>1, <1>2, <2>1, <2>2, <2>6, DistFacts
         DEF IInv, RowsMatch, ActualPriceCharged, post_call_partial_settle, NoDiff
    <2> QED
      BY <2>4, <2>5, <2>7 DEF IInv
  <1>3. CASE ~(refund = 0 /\ payout = 0 /\ fee = 0)
    <2>1. UNCHANGED <<inputs, rows, wallets, called, actual>>
      BY <1>3 DEF post_call_partial_settle, Credit, rows, wallets, IInv, TypeOK
    <2> QED
      BY <1>1, <2>1
         DEF IInv, TypeOK, RowsMatch, LedgerBalances, DriftIsStrayLeg, HalfWritten,
             CallerGetsHalf, ActualPriceCharged, rows, wallets, NoDiff
  <1> QED
    BY <1>2, <1>3

LEMMA DiffKeepsIInv ==
    ASSUME IInv, NEW q \in Prices \cup {0}, maybe_refund_pricing_diff(q)
    PROVE  IInv'
  <1> USE DEF inputs
  <1> DEFINE e == compute_success_distribution(q, pct, policy)
             d == PricingDiff(Dist, e)
  <1>1. Dist' = Dist
    BY InputsFixDist DEF maybe_refund_pricing_diff
  <1>2. q \in Nat /\ q <= price /\ pct \in 0 .. 100 /\ policy \in Policies
    BY RangesAssumption DEF IInv, TypeOK, maybe_refund_pricing_diff
  <1>3. /\ d \in [caller : Nat, agent : Nat, platform : Nat]
        /\ d.caller = Dist.charge - e.charge
        /\ d.agent = Dist.payout - e.payout
        /\ d.platform = Dist.fee - e.fee
    <2>1. price \in Nat
      BY DistFacts DEF IInv
    <2> QED
      BY <1>2, <2>1, PricingDiffExact DEF Dist
  <1>4. /\ e \in [charge : Nat, payout : Nat, fee : Nat]
        /\ e.charge = e.payout + e.fee
    BY <1>2, DistributionBalances
  <1>5. /\ d.caller > 0 /\ post_call_refund_difference(d)
        /\ actual' = IF diff'.caller > diff.caller THEN q ELSE actual
        /\ called' = FALSE
        /\ UNCHANGED <<inputs, refund, payout, fee>>
    BY DEF maybe_refund_pricing_diff
  <1> HIDE DEF d, e
  <1>6. CASE /\ diff = NoDiff
             /\ d.caller = d.agent + d.platform
             /\ d.caller <= Dist.charge - refund
    <2> DEFINE c == ClawBack(d)
    <2>1. /\ diff' = c.legs
          /\ agentBal' = agentBal - c.agent
          /\ platformBal' = platformBal - c.platform
          /\ agentRows' = agentRows - c.legs.agent
          /\ platformRows' = platformRows - c.legs.platform
      BY <1>5, <1>6 DEF post_call_refund_difference
    <2>2. refund = 0 /\ payout = Dist.payout /\ fee = Dist.fee
      BY <1>3, <1>5, <1>6, DistFacts
         DEF IInv, TypeOK, RowsMatch, maybe_refund_pricing_diff
    <2>3. /\ agentBal \in Nat /\ platformBal \in Nat
          /\ agentRows \in Int /\ platformRows \in Int
          /\ agentBal = agentRows /\ platformBal = platformRows
          /\ actual = price /\ actual \in Nat
      BY <1>6 DEF IInv, TypeOK, DriftIsStrayLeg, HalfWritten, ActualPriceCharged, NoDiff
    <2>4. backend \in {"sqlite", "postgres"}
      BY RangesAssumption DEF IInv, TypeOK
    <2>5. called' \in BOOLEAN
      BY <1>5
    \* The four outcomes: rolled back, agent short, platform short, complete.
    <2>6. \/ c = [legs |-> NoDiff, agent |-> 0, platform |-> 0]
          \/ /\ c = [legs |-> [caller |-> 0, agent |-> d.agent, platform |-> 0],
                     agent |-> 0, platform |-> 0]
             /\ agentBal < d.agent /\ backend = "sqlite"
          \/ /\ c = [legs |-> [caller |-> 0, agent |-> d.agent, platform |-> d.platform],
                     agent |-> d.agent, platform |-> 0]
             /\ agentBal >= d.agent /\ platformBal < d.platform /\ backend = "sqlite"
          \/ /\ c = [legs |-> d, agent |-> d.agent, platform |-> d.platform]
             /\ agentBal >= d.agent /\ platformBal >= d.platform
      <3>1. CASE agentBal < d.agent
        BY <1>3, <2>3, <2>4, <3>1 DEF ClawBack, Bounced, NoDiff
      <3>2. CASE agentBal >= d.agent /\ platformBal < d.platform
        BY <1>3, <2>3, <2>4, <3>2 DEF ClawBack, Bounced, NoDiff
      <3>3. CASE agentBal >= d.agent /\ platformBal >= d.platform
        BY <1>3, <2>3, <2>4, <3>3 DEF ClawBack
      <3> QED
        BY <1>3, <2>3, <3>1, <3>2, <3>3
    <2> HIDE DEF c
    <2>7. TypeOK'
      <3>1. /\ diff' \in [caller : Nat, agent : Nat, platform : Nat]
            /\ agentBal' \in Nat /\ platformBal' \in Nat
            /\ agentRows' \in Int /\ platformRows' \in Int
        BY <1>3, <2>1, <2>3, <2>6 DEF NoDiff
      <3>2. actual' \in Nat
        BY <1>2, <1>5, <2>3
      <3> QED
        BY <1>5, <2>5, <3>1, <3>2 DEF IInv, TypeOK
    <2>8. RowsMatch'
      <3>1. actual' <= price
        BY <1>2, <1>5, <2>3
      <3> QED
        BY <1>1, <1>5, <2>2, <3>1, DistFacts DEF IInv, TypeOK, RowsMatch
    <2>9. LedgerBalances' /\ CallerGetsHalf'
      <3>1. diff'.caller \in {0, diff'.agent + diff'.platform}
        BY <1>3, <1>6, <2>1, <2>6 DEF NoDiff
      <3> QED
        BY <1>1, <1>5, <3>1 DEF IInv, LedgerBalances, CallerGetsHalf
    <2>10. DriftIsStrayLeg'
      <3>1. CASE c = [legs |-> NoDiff, agent |-> 0, platform |-> 0]
        BY <2>1, <2>3, <3>1 DEF DriftIsStrayLeg, HalfWritten, NoDiff
      <3>2. CASE /\ c = [legs |-> [caller |-> 0, agent |-> d.agent, platform |-> 0],
                         agent |-> 0, platform |-> 0]
                 /\ agentBal < d.agent /\ backend = "sqlite"
        BY <1>3, <1>5, <2>1, <2>3, <3>2 DEF DriftIsStrayLeg, HalfWritten, NoDiff
      <3>3. CASE /\ c = [legs |-> [caller |-> 0, agent |-> d.agent, platform |-> d.platform],
                         agent |-> d.agent, platform |-> 0]
                 /\ agentBal >= d.agent /\ platformBal < d.platform
                 /\ backend = "sqlite"
        BY <1>3, <1>5, <2>1, <2>3, <3>3 DEF DriftIsStrayLeg, HalfWritten, NoDiff
      <3>4. CASE c = [legs |-> d, agent |-> d.agent, platform |-> d.platform]
        <4>1. ~HalfWritten'
          BY <1>3, <1>5, <2>1, <3>4 DEF HalfWritten
        <4> QED
          BY <1>3, <2>1, <2>3, <3>4, <4>1 DEF DriftIsStrayLeg
      <3> QED
        BY <2>6, <3>1, <3>2, <3>3, <3>4
    <2>11. ActualPriceCharged'
      <3>1. /\ diff'.agent <= payout /\ diff'.platform <= fee
            /\ diff'.caller = 0 => actual' = price
            /\ diff'.caller > 0 => diff' = d /\ actual' = q
        BY <1>3, <1>4, <1>5, <1>6, <2>1, <2>2, <2>3, <2>6, DistFacts DEF IInv, NoDiff
      <3>2. diff'.caller > 0 => /\ Dist.charge - diff'.caller = e.charge
                                /\ payout - diff'.agent = e.payout
                                /\ fee - diff'.platform = e.fee
        BY <1>3, <1>4, <2>2, <3>1, DistFacts DEF IInv
      <3> QED
        BY <1>1, <1>5, <3>1, <3>2 DEF ActualPriceCharged, e
    <2> QED
      BY <2>7, <2>8, <2>9, <2>10, <2>11 DEF IInv
  <1>7. CASE ~(/\ diff = NoDiff
               /\ d.caller = d.agent + d.platform
               /\ d.caller <= Dist.charge - refund)
    <2>1. UNCHANGED <<inputs, rows, wallets>> /\ called' = FALSE
      BY <1>5, <1>7 DEF post_call_refund_difference, rows
    <2>2. actual' = actual
      BY <1>5, <2>1 DEF rows, IInv, TypeOK
    <2> QED
      BY <1>1, <2>1, <2>2
         DEF IInv, TypeOK, RowsMatch, LedgerBalances, DriftIsStrayLeg, HalfWritten,
             CallerGetsHalf, ActualPriceCharged, rows, wallets, NoDiff
  <1> QED
    BY <1>6, <1>7

LEMMA NextKeepsIInv ==
    ASSUME IInv, [Next]_vars PROVE IInv'
  <1> USE DEF inputs, rows, wallets
  <1>1. ASSUME NEW n \in 1 .. agentBal, Withdraw(n) PROVE IInv'
    <2>1. Dist' = Dist
      BY <1>1, InputsFixDist DEF Withdraw
    <2> QED
      BY <1>1, <2>1
         DEF IInv, TypeOK, RowsMatch, LedgerBalances, DriftIsStrayLeg, HalfWritten,
             CallerGetsHalf, ActualPriceCharged, Withdraw, NoDiff
  <1>2. ASSUME NEW n \in 1 .. platformBal, record_judge_fee(n) PROVE IInv'
    <2>1. Dist' = Dist
      BY <1>2, InputsFixDist DEF record_judge_fee
    <2> QED
      BY <1>2, <2>1
         DEF IInv, TypeOK, RowsMatch, LedgerBalances, DriftIsStrayLeg, HalfWritten,
             CallerGetsHalf, ActualPriceCharged, record_judge_fee, NoDiff
  <1>3. CASE UNCHANGED vars
    <2>1. Dist' = Dist
      BY <1>3, InputsFixDist DEF vars
    <2> QED
      BY <1>3, <2>1
         DEF IInv, TypeOK, RowsMatch, LedgerBalances, DriftIsStrayLeg, HalfWritten,
             CallerGetsHalf, ActualPriceCharged, vars, NoDiff
  <1> QED
    BY <1>1, <1>2, <1>3, PayoutKeepsIInv, RefundKeepsIInv, PartialKeepsIInv,
       DiffKeepsIInv DEF Next

THEOREM Invariance == Spec => []IInv
  BY InitIInv, NextKeepsIInv, PTL DEF Spec

\* For every price, fee percentage, policy and refund fraction, the rows of a
\* charge distribute all of it or nothing, and a pricing difference credits the
\* caller with what both clawbacks took or with nothing, on either database
\* (core/payments/base.py, variable_pricing.py).
THEOREM Balances == Spec => []LedgerBalances
  BY Invariance, PTL DEF IInv

\* The drift that compute_ledger_invariants reports for the wallets of a charge is
\* the bounced leg of a half-written difference, and nothing else.
THEOREM DriftExact == Spec => []DriftIsStrayLeg
  BY Invariance, PTL DEF IInv

\* A failed job gives its caller at least half of the charge back.
THEOREM HalfBack == Spec => []CallerGetsHalf
  BY Invariance, PTL DEF IInv

\* A corrected call leaves all three parties where the actual price would have
\* put them, and a half-written correction takes no more than was paid.
THEOREM Corrected == Spec => []ActualPriceCharged
  BY Invariance, PTL DEF IInv
=============================================================================
