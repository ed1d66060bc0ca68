---------------------- MODULE TholosV2SettlementProofs ----------------------
(***************************************************************************)
(* The money: a dispute's liability record is the sum of the credits, it   *)
(* ends at exactly the eligible total, and the contract's one balance      *)
(* covers every round.                                                     *)
(*                                                                         *)
(* The argument, for a resolved dispute with recipient weight R and pool   *)
(* F: settled_recipient_weight is the amount of the settled recipients, so *)
(* it reaches R with the last of them and not before, because an empty     *)
(* position is never settled; each reward is rounded down, so R times the  *)
(* rewards is at most F times the settled weight; hence the dust that the  *)
(* last settlement adds is not negative and completes R + F.               *)
(***************************************************************************)
EXTENDS TholosV2Proofs, TholosV2Refinement

\* The weight that cause calls recipients, position by position, and the
\* part of it that is settled.
RecipientOf(cause, p) ==
  [v \in Address |-> IF IsRecipient(cause, p[v]) THEN p[v].amount ELSE 0]
SettledOf(cause, p) ==
  [v \in Address |-> IF p[v].settled /\ IsRecipient(cause, p[v])
                     THEN p[v].amount ELSE 0]

\* Nothing was settled, credited or paid yet.
Untouched(r, p, c, w) ==
  /\ r.settled_recipient_weight = 0 /\ r.settled_reward_total = 0
  /\ r.outstanding_liability = 0 /\ r.withdrawn_total = 0
  /\ \A v \in Address : c[v] = 0 /\ w[v] = 0 /\ ~p[v].settled

\* What settle and withdraw have recorded of a resolved dispute.
SettledOK(a, r, p, w) ==
  LET weight == RecipientWeight(a.terminal_cause, r)
      pool == ForfeitedPool(a.terminal_cause, r)
  IN
  /\ r.withdrawn_total = Total(w)
  /\ r.settled_recipient_weight = Total(SettledOf(a.terminal_cause, p))
  /\ weight * r.settled_reward_total <= pool * r.settled_recipient_weight
  /\ r.outstanding_liability + r.withdrawn_total =
       IF r.settled_recipient_weight = weight THEN r.eligible_total
       ELSE r.settled_recipient_weight + r.settled_reward_total

AccountOK(a, r, p, c, w) ==
  /\ c \in [Address -> Nat] /\ w \in [Address -> Nat]
  /\ r.settled_reward_total \in Nat
  /\ r.outstanding_liability = Total(c)
  /\ \A v \in Address : p[v].kind = "None" <=> p[v].amount = 0
  /\ a.disputer # NoAddress => r.eligible_total > 0
  /\ a.disputer = NoAddress => \A v \in Address : c[v] = 0
  /\ a.phase # "Resolved" => Untouched(r, p, c, w)
  /\ a.phase = "Resolved" /\ a.disputer # NoAddress => SettledOK(a, r, p, w)

-----------------------------------------------------------------------------
(* Recipients and pools.                                                   *)

LEMMA RecipientTypes ==
  ASSUME NEW p \in [Address -> Position], NEW cause
  PROVE  /\ RecipientOf(cause, p) \in [Address -> Nat]
         /\ SettledOf(cause, p) \in [Address -> Nat]
BY DEF RecipientOf, SettledOf, Position

\* settlement_pool computes the recipients' weight from the tallies alone;
\* it is the sum of the recipients' positions.
LEMMA PoolOfTallies ==
  ASSUME NEW r \in LooseResolution, NEW p \in [Address -> Position],
         TalliesOK(r, p), NEW cause
  PROVE  /\ RecipientWeight(cause, r) = Total(RecipientOf(cause, p))
         /\ RecipientWeight(cause, r) \in Nat
         /\ RecipientWeight(cause, r) <= r.eligible_total
         /\ ForfeitedPool(cause, r) \in Nat
         /\ RecipientWeight(cause, r) + ForfeitedPool(cause, r) = r.eligible_total
<1> DEFINE f == SideOf(p, "agree")
           g == SideOf(p, "disagree")
           h == RecipientOf(cause, p)
<1>1. /\ r.eligible_total = Total(StakeOf(p)) /\ r.agree_weight = Total(f)
      /\ r.disagree_weight = Total(g) /\ r.eligible_total \in Nat
      /\ r.agree_weight \in Nat /\ r.disagree_weight \in Nat
      /\ r.agree_weight + r.disagree_weight <= r.eligible_total
  BY RevealedWithinStake DEF TalliesOK
<1>2. RecipientWeight(cause, r) = Total(h)
  <2>1. CASE cause = "StrictMajorityFor"
    <3>1. h = f
      BY <2>1 DEF RecipientOf, IsRecipient, SideOf, Shown
    <3> QED
      BY <1>1, <2>1, <3>1 DEF RecipientWeight
  <2>2. CASE cause = "StrictMajorityAgainst"
    <3>1. h = g
      BY <2>2 DEF RecipientOf, IsRecipient, SideOf, Shown
    <3> QED
      BY <1>1, <2>2, <3>1 DEF RecipientWeight
  <2>3. CASE cause = "OptimisticTimeout"
    <3>1. f \in [Address -> Nat] /\ g \in [Address -> Nat] /\ h \in [Address -> Nat]
      BY StakeType, RecipientTypes
    <3>2. \A v \in Address : h[v] = f[v] + g[v]
      BY <2>3 DEF RecipientOf, IsRecipient, SideOf, Shown, Position, Sides
    <3> HIDE DEF f, g, h
    <3>3. Total(h) = Total(f) + Total(g)
      BY <3>1, <3>2, SumOfTotals, AddressAssumption
    <3> QED
      BY <1>1, <2>3, <3>3 DEF RecipientWeight, RevealedWeight
  <2>4. CASE cause \notin {"StrictMajorityFor", "StrictMajorityAgainst",
                           "OptimisticTimeout"}
    <3>1. h = StakeOf(p)
      BY <2>4 DEF RecipientOf, IsRecipient, StakeOf
    <3>2. RecipientWeight(cause, r) = r.eligible_total
      BY <2>4 DEF RecipientWeight
    <3> QED
      BY <1>1, <3>1, <3>2
  <2> QED
    BY <2>1, <2>2, <2>3, <2>4
<1>3. /\ RecipientWeight(cause, r) \in Nat
      /\ RecipientWeight(cause, r) <= r.eligible_total
  BY <1>1 DEF RecipientWeight, RevealedWeight
<1> QED
  BY <1>1, <1>2, <1>3 DEF ForfeitedPool

\* A decided dispute has recipients: settle never divides by zero.
LEMMA PoolHasRecipients ==
  ASSUME NEW a, NEW r \in LooseResolution, DecisionOK(a, r), CauseOK(a),
         a \in AssertionV2, a.phase = "Resolved", a.disputer # NoAddress,
         r.eligible_total > 0
  PROVE  RecipientWeight(a.terminal_cause, r) > 0
<1>1. /\ r.eligible_total \in Nat /\ r.agree_weight \in Nat /\ r.disagree_weight \in Nat
  BY DEF LooseResolution
<1>2. a.terminal_cause \in {"StrictMajorityFor", "StrictMajorityAgainst",
        "OptimisticTimeout", "AdminCancelled", "RevealQuorumNotMet"}
  BY DEF CauseOK, AssertionV2, TerminalCauses, VoidCauses
<1> QED
  BY <1>1, <1>2 DEF DecisionOK, RecipientWeight, RevealedWeight

\* Rounding down never pays more than the exact share.
LEMMA RewardBound ==
  ASSUME NEW n \in Nat, NEW pool \in Nat, NEW weight \in Nat, weight > 0
  PROVE  /\ Reward(n, pool, weight) \in Nat
         /\ weight * Reward(n, pool, weight) <= n * pool
<1> DEFINE x == n * pool
           y == x \div weight
<1>1. x \in Nat
  OBVIOUS
<1> HIDE DEF x
<1>2. y \in Nat /\ weight * y <= x
  BY <1>1
<1> QED
  BY <1>2 DEF Reward, x

-----------------------------------------------------------------------------
(* The accounts of a round.                                                *)

LEMMA NothingIsNothing ==
  ASSUME NEW c \in [Address -> Nat], \A v \in Address : c[v] = 0
  PROVE  Total(c) = 0
BY TotalOfZero

\* A dispute that nobody settled anything of has consistent accounts in
\* every phase, also at the moment it is decided.
LEMMA FreshAccount ==
  ASSUME NEW a, NEW r, NEW p, NEW c \in [Address -> Nat], NEW w \in [Address -> Nat],
         RoundOK(a, r, p), DecisionOK(a, r), a.disputer # NoAddress,
         r.eligible_total > 0, Untouched(r, p, c, w),
         \A v \in Address : p[v].kind = "None" <=> p[v].amount = 0
  PROVE  AccountOK(a, r, p, c, w)
<1> DEFINE cause == a.terminal_cause
           weight == RecipientWeight(cause, r)
           pool == ForfeitedPool(cause, r)
<1>1. /\ a \in AssertionV2 /\ r \in LooseResolution /\ p \in [Address -> Position]
      /\ CauseOK(a) /\ TalliesOK(r, p)
  BY DEF RoundOK
<1>2. /\ r.settled_recipient_weight = 0 /\ r.settled_reward_total = 0
      /\ r.outstanding_liability = 0 /\ r.withdrawn_total = 0
      /\ \A v \in Address : c[v] = 0 /\ w[v] = 0 /\ ~p[v].settled
  BY DEF Untouched
<1>3. Total(c) = 0 /\ Total(w) = 0
  BY <1>2, NothingIsNothing
<1>4. Total(SettledOf(cause, p)) = 0
  <2>1. SettledOf(cause, p) \in [Address -> Nat]
    BY <1>1, RecipientTypes
  <2>2. \A v \in Address : SettledOf(cause, p)[v] = 0
    BY <1>2 DEF SettledOf
  <2> QED
    BY <2>1, <2>2, NothingIsNothing
<1>5. weight \in Nat /\ pool \in Nat
  BY <1>1, PoolOfTallies
<1>6. ASSUME a.phase = "Resolved" PROVE SettledOK(a, r, p, w)
  <2>1. weight > 0
    BY <1>1, <1>6, PoolHasRecipients
  <2>2. weight * 0 = 0 /\ pool * 0 = 0
    BY <1>5
  <2> HIDE DEF weight, pool
  <2>3. weight * r.settled_reward_total <= pool * r.settled_recipient_weight
    BY <1>2, <2>2
  <2> QED
    BY <1>2, <1>3, <1>4, <1>5, <2>1, <2>3 DEF SettledOK, weight, pool
<1> QED
  BY <1>2, <1>3, <1>6 DEF AccountOK

\* The positions once v's is settled.
MarkSettled(p, v) == [p EXCEPT ![v] = [p[v] EXCEPT !.settled = TRUE]]

\* A settled recipient weighs in once.
LEMMA SettledUpdate ==
  ASSUME NEW p \in [Address -> Position], NEW cause, NEW v \in Address,
         ~p[v].settled
  PROVE  LET q == MarkSettled(p, v) IN
         /\ q \in [Address -> Position]
         /\ IsRecipient(cause, p[v]) =>
              Total(SettledOf(cause, q)) = Total(SettledOf(cause, p)) + p[v].amount
         /\ ~IsRecipient(cause, p[v]) => SettledOf(cause, q) = SettledOf(cause, p)
         /\ RecipientOf(cause, q) = RecipientOf(cause, p)
         /\ \A u \in Address : q[u].amount = p[u].amount /\ q[u].kind = p[u].kind
<1> DEFINE q == MarkSettled(p, v)
           x == [p[v] EXCEPT !.settled = TRUE]
           n == p[v].amount
           f == SettledOf(cause, p)
<1>1. /\ x.settled = TRUE /\ x.amount = n /\ x.kind = p[v].kind
      /\ x.agrees_with_outcome = p[v].agrees_with_outcome /\ n \in Nat
  BY DEF Position
<1>2. IsRecipient(cause, x) <=> IsRecipient(cause, p[v])
  BY <1>1 DEF IsRecipient
<1>3. q[v] = x /\ \A u \in Address : u # v => q[u] = p[u]
  BY DEF MarkSettled
<1>8. q \in [Address -> Position]
  BY DEF Position, MarkSettled
<1> HIDE DEF x, q
<1>4. ASSUME IsRecipient(cause, p[v])
      PROVE  Total(SettledOf(cause, q)) = Total(f) + n
  <2>1. SettledOf(cause, q) = [f EXCEPT ![v] = n]
    BY <1>1, <1>2, <1>3, <1>4 DEF SettledOf
  <2>2. f \in [Address -> Nat] /\ f[v] = 0
    BY RecipientTypes DEF SettledOf
  <2>3. IsFiniteSet(Address)
    BY AddressAssumption
  <2> HIDE DEF f, n
  <2>4. Total([f EXCEPT ![v] = n]) = Total(f) - f[v] + n
    BY <1>1, <2>2, <2>3, TotalUpdate
  <2>5. Total(f) \in Nat
    BY <2>2, <2>3, TotalType
  <2> QED
    BY <1>1, <2>1, <2>2, <2>4, <2>5
<1>5. ~IsRecipient(cause, p[v]) => SettledOf(cause, q) = f
  BY <1>2, <1>3 DEF SettledOf
<1>6. RecipientOf(cause, q) = RecipientOf(cause, p)
  BY <1>1, <1>2, <1>3 DEF RecipientOf
<1>7. \A u \in Address : q[u].amount = p[u].amount /\ q[u].kind = p[u].kind
  BY <1>1, <1>3
<1> QED
  BY <1>4, <1>5, <1>6, <1>7, <1>8 DEF q

\* What is settled is part of the recipients' weight.
LEMMA SettledWithinRecipients ==
  ASSUME NEW p \in [Address -> Position], NEW cause
  PROVE  /\ Total(SettledOf(cause, p)) \in Nat
         /\ Total(SettledOf(cause, p)) <= Total(RecipientOf(cause, p))
<1> DEFINE f == SettledOf(cause, p)
           g == RecipientOf(cause, p)
<1>1. f \in [Address -> Nat] /\ g \in [Address -> Nat]
  BY RecipientTypes
<1>2. \A v \in Address : f[v] <= g[v]
  BY DEF SettledOf, RecipientOf, Position
<1> HIDE DEF f, g
<1>3. Total(f) <= Total(g) /\ Total(f) \in Nat
  BY <1>1, <1>2, TotalMonotone, TotalType, AddressAssumption
<1> QED
  BY <1>3 DEF f, g

\* The arithmetic of one settlement: s, y are the settled weight and the
\* rewards before it, n the amount, z its reward.
LEMMA SettlementArithmetic ==
  ASSUME NEW weight \in Nat, NEW pool \in Nat, NEW s \in Nat, NEW y \in Nat,
         NEW n \in Nat, NEW z \in Nat,
         weight > 0, s + n <= weight,
         weight * y <= pool * s, weight * z <= n * pool
  PROVE  /\ weight * (y + z) <= pool * (s + n)
         /\ s + n = weight => y + z <= pool
         /\ pool = 0 => y + z = 0
<1>1. weight * (y + z) = weight * y + weight * z
  OBVIOUS
<1>2. pool * (s + n) = pool * s + n * pool
  OBVIOUS
<1>3. /\ weight * y \in Nat /\ weight * z \in Nat /\ pool * s \in Nat
      /\ n * pool \in Nat
  OBVIOUS
<1>4. weight * (y + z) <= pool * (s + n)
  BY <1>1, <1>2, <1>3
<1>5. ASSUME weight * (y + z) <= pool * weight PROVE y + z <= pool
  BY <1>5
<1>6. s + n = weight => y + z <= pool
  BY <1>4, <1>5
<1>7. pool = 0 => y + z = 0
  <2>1. pool * (s + n) <= pool * weight
    OBVIOUS
  <2>2. pool = 0 => pool * weight = 0 /\ y + z <= 0
    BY <1>4, <1>5, <2>1
  <2> QED
    BY <2>2
<1> QED
  BY <1>4, <1>6, <1>7

\* One payment, and the dust with the payout, whoever they go to.
LEMMA AddressPlus ==
  ASSUME NEW c \in [Address -> Nat], NEW v \in Address, NEW y \in Nat
  PROVE  Plus(c, v, y) \in [Address -> Nat] /\ Total(Plus(c, v, y)) = Total(c) + y
<1>1. IsFiniteSet(Address)
  BY AddressAssumption
<1> QED
  BY <1>1, TotalPlus

\* Two credits raise the credits of a round by their sum.
LEMMA CreditTotal ==
  ASSUME NEW c \in [Address -> Nat], NEW d \in Address, NEW x \in Nat,
         NEW v \in Address, NEW y \in Nat
  PROVE  /\ CreditBoth(c, d, x, v, y) \in [Address -> Nat]
         /\ Total(CreditBoth(c, d, x, v, y)) = Total(c) + x + y
<1> DEFINE e == Plus(c, d, x)
<1>1. e \in [Address -> Nat] /\ Total(e) = Total(c) + x
  BY AddressPlus
<1> HIDE DEF e
<1>2. Plus(e, v, y) \in [Address -> Nat] /\ Total(Plus(e, v, y)) = Total(e) + y
  BY <1>1, AddressPlus
<1>3. Plus(e, v, y) \in [Address -> Nat] /\ Total(Plus(e, v, y)) = Total(c) + x + y
  BY <1>1, <1>2
<1> QED
  BY <1>3 DEF CreditBoth, e

SettlementInv ==
  /\ DecisionInv
  /\ \A id \in Ids :
       AccountOK(assertion[id], resolution[id], position[id], credit[id], paid[id])

\* What is known of a round before a step.
RoundFacts(a, r, p, c, w) ==
  /\ RoundOK(a, r, p) /\ DecisionOK(a, r) /\ AccountOK(a, r, p, c, w)
  /\ a \in AssertionV2 /\ r \in LooseResolution /\ p \in [Address -> Position]
  /\ PartiesOK(a) /\ CauseOK(a) /\ TalliesOK(r, p)

LEMMA FactsOfRound ==
  ASSUME SettlementInv, NEW id \in Ids
  PROVE  /\ RoundFacts(assertion[id], resolution[id], position[id],
                       credit[id], paid[id])
         /\ StructureInv /\ Shape /\ now \in Nat
         /\ assertion \in [Ids -> AssertionV2]
         /\ resolution \in [Ids -> LooseResolution]
         /\ position \in [Ids -> [Address -> Position]]
         /\ credit \in [Ids -> [Address -> Int]]
         /\ paid \in [Ids -> [Address -> Nat]]
BY DEF SettlementInv, DecisionInv, StructureInv, Shape, RoundOK, RoundFacts

\* What settling a recipient's position does to the weights.
LEMMA SettledWeight ==
  ASSUME NEW r \in LooseResolution, NEW p \in [Address -> Position],
         TalliesOK(r, p), NEW cause, NEW v \in Address,
         ~p[v].settled, IsRecipient(cause, p[v])
  PROVE  LET q == MarkSettled(p, v) IN
         /\ Total(SettledOf(cause, q)) = Total(SettledOf(cause, p)) + p[v].amount
         /\ Total(SettledOf(cause, q)) <= RecipientWeight(cause, r)
<1> DEFINE q == MarkSettled(p, v)
<1>1. /\ q \in [Address -> Position]
      /\ Total(SettledOf(cause, q)) = Total(SettledOf(cause, p)) + p[v].amount
      /\ RecipientOf(cause, q) = RecipientOf(cause, p)
  BY SettledUpdate
<1> HIDE DEF q
<1>2. Total(SettledOf(cause, q)) <= Total(RecipientOf(cause, q))
  BY <1>1, SettledWithinRecipients
<1>3. RecipientWeight(cause, r) = Total(RecipientOf(cause, p))
  BY PoolOfTallies
<1> QED
  BY <1>1, <1>2, <1>3 DEF q

\* A settlement brings the settled weight from s to s + n and the rewards
\* from y to y + z; owed is what was accrued before it.
Figures(weight, pool, s, y, n, z, owed) ==
  /\ weight \in Nat /\ pool \in Nat /\ s \in Nat /\ y \in Nat /\ n \in Nat
  /\ z \in Nat /\ owed \in Nat
  /\ weight > 0 /\ n > 0 /\ s + n <= weight
  /\ weight * y <= pool * s /\ weight * z <= n * pool
  /\ owed = IF s = weight THEN weight + pool ELSE s + y
DustOf(weight, pool, s, y) ==
  IF pool > 0 /\ IsLast(s, weight) THEN pool - y ELSE 0

\* A settlement keeps the flooring bound, its dust is never negative, and the
\* last one owes exactly what is left.
LEMMA SettlementDust ==
  ASSUME NEW weight, NEW pool, NEW s, NEW y, NEW n, NEW z, NEW owed,
         Figures(weight, pool, s, y, n, z, owed)
  PROVE  LET dust == DustOf(weight, pool, s + n, y + z) IN
         /\ weight * (y + z) <= pool * (s + n)
         /\ dust \in Nat
         /\ owed + Accrued(n, z, dust)
              = IF s + n = weight THEN weight + pool ELSE (s + n) + (y + z)
<1> DEFINE dust == DustOf(weight, pool, s + n, y + z)
<1>1. /\ weight \in Nat /\ pool \in Nat /\ s \in Nat /\ y \in Nat /\ n \in Nat
      /\ z \in Nat /\ owed \in Nat
      /\ weight > 0 /\ n > 0 /\ s + n <= weight
      /\ weight * y <= pool * s /\ weight * z <= n * pool
      /\ owed = IF s = weight THEN weight + pool ELSE s + y
  BY DEF Figures
<1>2. /\ weight * (y + z) <= pool * (s + n)
      /\ s + n = weight => y + z <= pool
      /\ pool = 0 => y + z = 0
  BY <1>1, SettlementArithmetic
<1>3. owed = s + y
  BY <1>1
<1>4. CASE s + n = weight
  <2>1. dust = pool - (y + z)
    BY <1>1, <1>2, <1>4 DEF DustOf, IsLast
  <2> HIDE DEF dust
  <2>2. dust \in Nat /\ owed + Accrued(n, z, dust) = weight + pool
    BY <1>1, <1>2, <1>3, <1>4, <2>1 DEF Accrued
  <2> QED
    BY <1>2, <1>4, <2>2 DEF dust
<1>5. CASE s + n # weight
  <2>1. dust = 0
    BY <1>1, <1>5 DEF DustOf, IsLast
  <2> HIDE DEF dust
  <2>2. dust \in Nat /\ owed + Accrued(n, z, dust) = (s + n) + (y + z)
    BY <1>1, <1>3, <2>1 DEF Accrued
  <2> QED
    BY <1>2, <1>5, <2>2 DEF dust
<1> QED
  BY <1>4, <1>5

\* r becomes t when v's position, a recipient's, is settled: n is its amount,
\* z its reward, s and y what was settled before it.
RecipientStep(a, r, p, v, weight, pool, n, z, s, y, dust, t) ==
  /\ p[v].kind # "None" /\ ~p[v].settled
  /\ IsRecipient(a.terminal_cause, p[v])
  /\ weight = RecipientWeight(a.terminal_cause, r) /\ weight > 0
  /\ pool = ForfeitedPool(a.terminal_cause, r)
  /\ n = p[v].amount /\ z = Reward(n, pool, weight)
  /\ s = r.settled_recipient_weight /\ y = r.settled_reward_total
  /\ dust = DustOf(weight, pool, s + n, y + z)
  /\ t.eligible_total = r.eligible_total
  /\ t.agree_weight = r.agree_weight /\ t.disagree_weight = r.disagree_weight
  /\ t.withdrawn_total = r.withdrawn_total
  /\ t.settled_recipient_weight = s + n /\ t.settled_reward_total = y + z
  /\ t.outstanding_liability = r.outstanding_liability + Accrued(n, z, dust)

\* What the settlement of a recipient computes.
LEMMA RecipientStepFigures ==
  ASSUME NEW a, NEW r, NEW p, NEW c, NEW w, RoundFacts(a, r, p, c, w),
         NEW v \in Address, NEW weight, NEW pool, NEW n, NEW z, NEW s, NEW y,
         NEW dust, NEW t, a.phase = "Resolved",
         RecipientStep(a, r, p, v, weight, pool, n, z, s, y, dust, t)
  PROVE  /\ s \in Nat /\ y \in Nat /\ n \in Nat /\ z \in Nat
         /\ dust \in Nat /\ n > 0
         /\ weight \in Nat /\ pool \in Nat /\ weight + pool = r.eligible_total
         /\ s = Total(SettledOf(a.terminal_cause, p))
         /\ Total(SettledOf(a.terminal_cause, MarkSettled(p, v))) = s + n
         /\ weight * (y + z) <= pool * (s + n)
         /\ Total(c) \in Nat /\ Total(w) \in Nat
         /\ r.outstanding_liability = Total(c) /\ r.withdrawn_total = Total(w)
         /\ Total(c) + Total(w) + Accrued(n, z, dust)
              = IF s + n = weight THEN r.eligible_total ELSE (s + n) + (y + z)
<1> DEFINE cause == a.terminal_cause
           before == Total(c) + Total(w)
<1>1. /\ p[v].kind # "None" /\ ~p[v].settled /\ IsRecipient(cause, p[v])
      /\ weight = RecipientWeight(cause, r) /\ weight > 0
      /\ pool = ForfeitedPool(cause, r)
      /\ n = p[v].amount /\ z = Reward(n, pool, weight)
      /\ s = r.settled_recipient_weight /\ y = r.settled_reward_total
      /\ dust = DustOf(weight, pool, s + n, y + z)
  BY DEF RecipientStep
<1>2. /\ RoundOK(a, r, p) /\ AccountOK(a, r, p, c, w)
      /\ r \in LooseResolution /\ p \in [Address -> Position] /\ TalliesOK(r, p)
  BY DEF RoundFacts
<1>3. a.disputer # NoAddress
  <2>1. a.disputer \in Address
    BY <1>1, <1>2, PositionsAreDisputed
  <2> QED
    BY <2>1, AddressAssumption
<1>4. /\ c \in [Address -> Nat] /\ w \in [Address -> Nat]
      /\ r.outstanding_liability = Total(c) /\ r.settled_reward_total \in Nat
      /\ p[v].kind = "None" <=> p[v].amount = 0
      /\ SettledOK(a, r, p, w)
  BY <1>2, <1>3 DEF AccountOK
<1>5. /\ r.withdrawn_total = Total(w)
      /\ r.settled_recipient_weight = Total(SettledOf(cause, p))
      /\ weight * y <= pool * s
      /\ r.outstanding_liability + r.withdrawn_total
            = IF s = weight THEN r.eligible_total ELSE s + y
  BY <1>1, <1>4 DEF SettledOK
<1>6. /\ weight \in Nat /\ pool \in Nat /\ weight + pool = r.eligible_total
  BY <1>1, <1>2, PoolOfTallies
<1>7. Total(c) \in Nat /\ Total(w) \in Nat
  <2>1. IsFiniteSet(Address)
    BY AddressAssumption
  <2> QED
    BY <1>4, <2>1, TotalType
<1>8. s \in Nat /\ n \in Nat /\ n > 0 /\ y \in Nat
  BY <1>1, <1>2, <1>4 DEF LooseResolution, Position
<1>9. z \in Nat /\ weight * z <= n * pool
  BY <1>1, <1>6, <1>8, RewardBound
<1>10. /\ Total(SettledOf(cause, MarkSettled(p, v)))
             = Total(SettledOf(cause, p)) + p[v].amount
       /\ Total(SettledOf(cause, MarkSettled(p, v))) <= RecipientWeight(cause, r)
  BY <1>1, <1>2, SettledWeight
<1> HIDE DEF cause
<1>11. /\ Total(SettledOf(cause, MarkSettled(p, v))) = s + n /\ s + n <= weight
  BY <1>1, <1>5, <1>10
<1>12. before \in Nat /\ before = IF s = weight THEN weight + pool ELSE s + y
  BY <1>4, <1>5, <1>6, <1>7
<1> HIDE DEF before
<1>13. Figures(weight, pool, s, y, n, z, before)
  BY <1>1, <1>5, <1>6, <1>8, <1>9, <1>11, <1>12 DEF Figures
<1>14. /\ weight * (y + z) <= pool * (s + n)
       /\ dust \in Nat
       /\ before + Accrued(n, z, dust)
              = IF s + n = weight THEN weight + pool ELSE (s + n) + (y + z)
  BY <1>1, <1>13, SettlementDust
<1>15. Total(c) + Total(w) + Accrued(n, z, dust)
              = IF s + n = weight THEN r.eligible_total ELSE (s + n) + (y + z)
  BY <1>6, <1>14 DEF before
<1> QED
  BY <1>1, <1>4, <1>5, <1>6, <1>7, <1>8, <1>9, <1>11, <1>14, <1>15 DEF cause

\* Settling a recipient's position keeps the accounts.
LEMMA SettlementResult ==
  ASSUME NEW a, NEW r, NEW p, NEW c, NEW w, RoundFacts(a, r, p, c, w),
         NEW v \in Address, NEW weight, NEW pool, NEW n, NEW z, NEW s, NEW y,
         NEW dust, NEW t, a.phase = "Resolved",
         RecipientStep(a, r, p, v, weight, pool, n, z, s, y, dust, t)
  PROVE  AccountOK(a, t, MarkSettled(p, v),
                   CreditBoth(c, DustRecipient(a), dust, v, n + z), w)
<1> DEFINE cause == a.terminal_cause
           d == DustRecipient(a)
           x == n + z
           q == MarkSettled(p, v)
           c2 == CreditBoth(c, d, dust, v, x)
<1>1. /\ s \in Nat /\ y \in Nat /\ n \in Nat /\ z \in Nat
      /\ dust \in Nat /\ n > 0
      /\ weight \in Nat /\ pool \in Nat /\ weight + pool = r.eligible_total
      /\ s = Total(SettledOf(cause, p))
      /\ Total(SettledOf(cause, q)) = s + n
      /\ weight * (y + z) <= pool * (s + n)
      /\ Total(c) \in Nat /\ Total(w) \in Nat
      /\ r.outstanding_liability = Total(c) /\ r.withdrawn_total = Total(w)
      /\ Total(c) + Total(w) + Accrued(n, z, dust)
           = IF s + n = weight THEN r.eligible_total ELSE (s + n) + (y + z)
  BY RecipientStepFigures
<1>2. /\ p[v].kind # "None" /\ ~p[v].settled /\ n = p[v].amount
      /\ weight = RecipientWeight(cause, r) /\ pool = ForfeitedPool(cause, r)
      /\ t.eligible_total = r.eligible_total
      /\ t.agree_weight = r.agree_weight /\ t.disagree_weight = r.disagree_weight
      /\ t.withdrawn_total = r.withdrawn_total
      /\ t.settled_recipient_weight = s + n /\ t.settled_reward_total = y + z
      /\ t.outstanding_liability = r.outstanding_liability + Accrued(n, z, dust)
  BY DEF RecipientStep
<1>3. /\ RoundOK(a, r, p) /\ AccountOK(a, r, p, c, w)
      /\ p \in [Address -> Position]
  BY DEF RoundFacts
<1>4. d \in Address /\ a.disputer # NoAddress
  <2>1. d \in Address /\ a.disputer \in Address
    BY <1>2, <1>3, PositionsAreDisputed
  <2> QED
    BY <2>1, AddressAssumption
<1>5. /\ c \in [Address -> Nat] /\ w \in [Address -> Nat]
      /\ \A u \in Address : p[u].kind = "None" <=> p[u].amount = 0
      /\ r.eligible_total > 0
  BY <1>3, <1>4 DEF AccountOK
<1>6. \A u \in Address : q[u].amount = p[u].amount /\ q[u].kind = p[u].kind
  BY <1>2, <1>3, SettledUpdate
<1>7. x \in Nat /\ Accrued(n, z, dust) = dust + x
  BY <1>1 DEF Accrued
<1> HIDE DEF cause, d, x, q
<1>8. c2 \in [Address -> Nat] /\ Total(c2) = Total(c) + dust + x
  <2>1. c \in [Address -> Nat] /\ d \in Address /\ dust \in Nat /\ x \in Nat
    BY <1>1, <1>4, <1>5, <1>7
  <2> QED
    BY <2>1, CreditTotal, ZenonT(60)
<1> HIDE DEF c2
<1>9. t.outstanding_liability = Total(c2)
  BY <1>1, <1>2, <1>7, <1>8
<1>10. RecipientWeight(cause, t) = weight /\ ForfeitedPool(cause, t) = pool
  BY <1>2 DEF RecipientWeight, ForfeitedPool, RevealedWeight
<1>11. t.outstanding_liability + t.withdrawn_total
         = IF s + n = weight THEN t.eligible_total ELSE (s + n) + (y + z)
  <2>1. t.outstanding_liability + t.withdrawn_total
          = Total(c) + Total(w) + Accrued(n, z, dust)
    BY <1>1, <1>2, <1>7
  <2> QED
    BY <1>1, <1>2, <2>1
<1>12. SettledOK(a, t, q, w)
  BY <1>1, <1>2, <1>10, <1>11 DEF SettledOK, cause
<1>13. y + z \in Nat
  BY <1>1
<1>14. AccountOK(a, t, q, c2, w)
  BY <1>2, <1>4, <1>5, <1>6, <1>8, <1>9, <1>12, <1>13 DEF AccountOK
<1> QED
  BY <1>14 DEF c2, d, q, x

LEMMA SettleRecipientAccount ==
  ASSUME SettlementInv, NEW id \in Ids, NEW v \in Address, SettleRecipient(id, v)
  PROVE  AccountOK(assertion'[id], resolution'[id], position'[id], credit'[id],
                   paid'[id])
<1> DEFINE a == assertion[id]
           r == resolution[id]
           p == position[id]
           c == credit[id]
           w == paid[id]
           weight == RecipientWeight(a.terminal_cause, r)
           pool == ForfeitedPool(a.terminal_cause, r)
           n == p[v].amount
           z == Reward(n, pool, weight)
           s == r.settled_recipient_weight
           y == r.settled_reward_total
           dust == DustOf(weight, pool, s + n, y + z)
           accrued == Accrued(n, z, dust)
           t == [r EXCEPT !.settled_recipient_weight = s + n,
                          !.settled_reward_total = y + z,
                          !.outstanding_liability = @ + accrued]
<1>1. /\ RoundFacts(a, r, p, c, w) /\ Shape
      /\ assertion \in [Ids -> AssertionV2]
      /\ resolution \in [Ids -> LooseResolution]
      /\ position \in [Ids -> [Address -> Position]]
      /\ credit \in [Ids -> [Address -> Int]]
  BY FactsOfRound
<1>2. /\ a.phase = "Resolved" /\ p[v].kind # "None" /\ ~p[v].settled
      /\ IsRecipient(a.terminal_cause, p[v]) /\ weight > 0
  BY DEF SettleRecipient, Settleable, SettleInRange
<1>3. Settlement(id, v) =
        [weight |-> weight, product |-> n * pool, payout |-> n + z,
         settled_weight |-> s + n, rewards |-> y + z, dust |-> dust,
         accrued |-> accrued]
  BY DEF Settlement, DustOf
<1>4. /\ assertion'[id] = a /\ position'[id] = MarkSettled(p, v) /\ paid'[id] = w
      /\ resolution'[id] = [r EXCEPT
            !.settled_recipient_weight = Settlement(id, v).settled_weight,
            !.settled_reward_total = Settlement(id, v).rewards,
            !.outstanding_liability = @ + Settlement(id, v).accrued]
      /\ credit'[id] = CreditBoth(c, DustRecipient(a), Settlement(id, v).dust, v,
                                 Settlement(id, v).payout)
  BY <1>1 DEF SettleRecipient, MarkSettled
<1> HIDE DEF accrued, dust
<1>5. /\ resolution'[id] = t
      /\ credit'[id] = CreditBoth(c, DustRecipient(a), dust, v, n + z)
  BY <1>3, <1>4
<1>6. r \in LooseResolution
  BY <1>1 DEF RoundFacts
<1>7. /\ t.eligible_total = r.eligible_total
      /\ t.agree_weight = r.agree_weight /\ t.disagree_weight = r.disagree_weight
      /\ t.withdrawn_total = r.withdrawn_total
      /\ t.settled_recipient_weight = s + n /\ t.settled_reward_total = y + z
      /\ t.outstanding_liability = r.outstanding_liability + accrued
  BY <1>6 DEF LooseResolution
<1> HIDE DEF t
<1>8. RecipientStep(a, r, p, v, weight, pool, n, z, s, y, dust, t)
  BY <1>2, <1>7 DEF RecipientStep, accrued, dust
<1> HIDE DEF a, r, p, c, w, weight, pool, n, z, s, y
<1>9. AccountOK(a, t, MarkSettled(p, v),
                CreditBoth(c, DustRecipient(a), dust, v, n + z), w)
  BY <1>1, <1>2, <1>8, SettlementResult
<1> QED
  BY <1>4, <1>5, <1>9

\* Settling a forfeited position changes no amount.
LEMMA SettleForfeitedAccount ==
  ASSUME SettlementInv, NEW id \in Ids, NEW v \in Address, SettleForfeited(id, v)
  PROVE  AccountOK(assertion'[id], resolution'[id], position'[id], credit'[id],
                   paid'[id])
<1> DEFINE a == assertion[id]
           r == resolution[id]
           p == position[id]
           c == credit[id]
           w == paid[id]
           q == MarkSettled(p, v)
<1>1. /\ RoundFacts(a, r, p, c, w)
      /\ position \in [Ids -> [Address -> Position]]
  BY FactsOfRound
<1>2. /\ a.phase = "Resolved" /\ ~p[v].settled
      /\ ~IsRecipient(a.terminal_cause, p[v])
  BY DEF SettleForfeited, Settleable
<1>3. /\ assertion'[id] = a /\ position'[id] = q /\ paid'[id] = w
      /\ resolution'[id] = r /\ credit'[id] = c
  BY <1>1 DEF SettleForfeited, MarkSettled
<1>4. /\ AccountOK(a, r, p, c, w) /\ p \in [Address -> Position]
  BY <1>1 DEF RoundFacts
<1>5. /\ SettledOf(a.terminal_cause, q) = SettledOf(a.terminal_cause, p)
      /\ \A u \in Address : q[u].amount = p[u].amount /\ q[u].kind = p[u].kind
  BY <1>2, <1>4, SettledUpdate
<1> HIDE DEF a, r, p, c, w, q
<1>6. SettledOK(a, r, p, w) => SettledOK(a, r, q, w)
  BY <1>5 DEF SettledOK
<1>7. AccountOK(a, r, q, c, w)
  BY <1>2, <1>4, <1>5, <1>6 DEF AccountOK
<1> QED
  BY <1>3, <1>7

\* A withdrawal moves an amount from the credits to the payments.
LEMMA WithdrawAccount ==
  ASSUME SettlementInv, NEW id \in Ids, NEW v \in Address,
         NEW dst \in Address \cup {Contract}, Withdraw(v, id, dst)
  PROVE  AccountOK(assertion'[id], resolution'[id], position'[id], credit'[id],
                   paid'[id])
<1> DEFINE a == assertion[id]
           r == resolution[id]
           p == position[id]
           c == credit[id]
           w == paid[id]
           n == c[v]
           c2 == [c EXCEPT ![v] = 0]
           w2 == Plus(w, v, n)
           t == [r EXCEPT !.outstanding_liability = @ - n, !.withdrawn_total = @ + n]
<1>1. /\ RoundFacts(a, r, p, c, w)
      /\ resolution \in [Ids -> LooseResolution]
      /\ credit \in [Ids -> [Address -> Int]]
      /\ paid \in [Ids -> [Address -> Nat]]
  BY FactsOfRound
<1>2. /\ assertion'[id] = a /\ position'[id] = p /\ n > 0
      /\ resolution'[id] = t /\ credit'[id] = c2 /\ paid'[id] = w2
  BY <1>1 DEF Withdraw
<1>3. /\ AccountOK(a, r, p, c, w) /\ r \in LooseResolution
  BY <1>1 DEF RoundFacts
<1>4. /\ c \in [Address -> Nat] /\ w \in [Address -> Nat] /\ n \in Nat
      /\ r.outstanding_liability = Total(c)
  BY <1>3 DEF AccountOK
<1>5. a.phase = "Resolved" /\ a.disputer # NoAddress
  BY <1>2, <1>3 DEF AccountOK, Untouched
<1>6. /\ t.eligible_total = r.eligible_total
      /\ t.agree_weight = r.agree_weight /\ t.disagree_weight = r.disagree_weight
      /\ t.settled_recipient_weight = r.settled_recipient_weight
      /\ t.settled_reward_total = r.settled_reward_total
      /\ t.outstanding_liability = r.outstanding_liability - n
      /\ t.withdrawn_total = r.withdrawn_total + n
  BY <1>3 DEF LooseResolution
<1> HIDE DEF t
<1>7. c2 \in [Address -> Nat] /\ Total(c2) = Total(c) - n
  <2>1. IsFiniteSet(Address) /\ Total(c) \in Nat
    BY <1>4, TotalType, AddressAssumption
  <2>2. c2 \in [Address -> Nat]
    BY <1>4
  <2>3. Total([c EXCEPT ![v] = 0]) = Total(c) - c[v] + 0
    BY <1>4, <2>1, TotalUpdate
  <2> QED
    BY <1>4, <2>1, <2>2, <2>3
<1> HIDE DEF c2, n
<1>8. w2 \in [Address -> Nat] /\ Total(w2) = Total(w) + n
  BY <1>4, AddressPlus
<1>9. Total(c) \in Nat /\ Total(w) \in Nat
  BY <1>4, TotalType, AddressAssumption
<1> HIDE DEF w2, a, r, p, c, w
<1>10. SettledOK(a, r, p, w)
  BY <1>3, <1>5 DEF AccountOK
<1>11. SettledOK(a, t, p, w2)
  <2>1. /\ RecipientWeight(a.terminal_cause, t) = RecipientWeight(a.terminal_cause, r)
        /\ ForfeitedPool(a.terminal_cause, t) = ForfeitedPool(a.terminal_cause, r)
    BY <1>6 DEF RecipientWeight, ForfeitedPool, RevealedWeight
  <2>2. r.withdrawn_total = Total(w)
    BY <1>10 DEF SettledOK
  <2>3. /\ t.withdrawn_total = Total(w2)
        /\ t.outstanding_liability + t.withdrawn_total
             = r.outstanding_liability + r.withdrawn_total
    BY <1>4, <1>6, <1>8, <1>9, <2>2
  <2> QED
    BY <1>6, <1>10, <2>1, <2>3 DEF SettledOK
<1>12. t.outstanding_liability = Total(c2)
  BY <1>4, <1>6, <1>7
<1>13. AccountOK(a, t, p, c2, w2)
  BY <1>3, <1>5, <1>6, <1>7, <1>8, <1>11, <1>12 DEF AccountOK
<1> QED
  BY <1>2, <1>13

-----------------------------------------------------------------------------
(* Rounds that nobody settled anything of yet.                             *)

SameLedger(r, t) ==
  /\ t.settled_recipient_weight = r.settled_recipient_weight
  /\ t.settled_reward_total = r.settled_reward_total
  /\ t.outstanding_liability = r.outstanding_liability
  /\ t.withdrawn_total = r.withdrawn_total

FundedOrEmpty(q) == \A v \in Address : q[v].kind = "None" <=> q[v].amount = 0
NoneSettled(q) == \A v \in Address : ~q[v].settled

\* A step on a dispute that was not resolved, up to its decision.
LEMMA StillUntouched ==
  ASSUME NEW a, NEW r, NEW p, NEW c, NEW w, RoundFacts(a, r, p, c, w),
         a.phase # "Resolved",
         NEW b, NEW t, NEW q, RoundOK(b, t, q), DecisionOK(b, t),
         b.disputer # NoAddress, SameLedger(r, t), t.eligible_total > 0,
         NoneSettled(q), FundedOrEmpty(q)
  PROVE  AccountOK(b, t, q, c, w)
<1>1. /\ c \in [Address -> Nat] /\ w \in [Address -> Nat] /\ Untouched(r, p, c, w)
  BY DEF RoundFacts, AccountOK
<1>2. Untouched(t, q, c, w)
  BY <1>1 DEF Untouched, SameLedger, NoneSettled
<1> QED
  BY <1>1, <1>2, FreshAccount DEF FundedOrEmpty

LEMMA UnsettledFacts ==
  ASSUME NEW a, NEW r, NEW p, NEW c, NEW w, RoundFacts(a, r, p, c, w),
         a.phase # "Resolved"
  PROVE  /\ NoneSettled(p) /\ FundedOrEmpty(p)
         /\ a.disputer # NoAddress => r.eligible_total > 0
BY DEF RoundFacts, AccountOK, Untouched, NoneSettled, FundedOrEmpty

LEMMA DisputeAccount ==
  ASSUME SettlementInv, DecisionInv', NEW id \in Ids, NEW v \in Address,
         Dispute(v, id)
  PROVE  AccountOK(assertion'[id], resolution'[id], position'[id], credit'[id],
                   paid'[id])
<1> DEFINE a == assertion[id]
           r == resolution[id]
           p == position[id]
           b == assertion'[id]
           t == resolution'[id]
           q == position'[id]
           bond == a.policy.base_bond
           x == FixedPosition("FixedFor", bond)
           y == FixedPosition("FixedAgainst", bond)
<1>1. /\ RoundFacts(a, r, p, credit[id], paid[id])
      /\ assertion \in [Ids -> AssertionV2]
      /\ resolution \in [Ids -> LooseResolution]
      /\ position \in [Ids -> [Address -> Position]]
  BY FactsOfRound
<1>2. /\ a \in AssertionV2 /\ PartiesOK(a) /\ RoundOK(a, r, p)
      /\ p \in [Address -> Position]
  BY <1>1 DEF RoundFacts
<1>3. /\ a.phase = "Pending"
      /\ b = [a EXCEPT !.disputer = v, !.phase = "Registration"]
      /\ q = [p EXCEPT ![a.asserter] = x, ![v] = y]
      /\ credit'[id] = credit[id] /\ paid'[id] = paid[id]
  BY <1>1 DEF Dispute
<1>4. /\ t.settled_recipient_weight = 0 /\ t.settled_reward_total = 0
      /\ t.outstanding_liability = 0 /\ t.withdrawn_total = 0
      /\ t.eligible_total = bond * 2
  BY <1>1 DEF Dispute, NoResolution
<1>5. bond \in Nat /\ bond > 0
  BY <1>2, <1>3, PolicyFacts DEF PartiesOK
<1>6. /\ x.amount = bond /\ x.kind = "FixedFor" /\ ~x.settled
      /\ y.amount = bond /\ y.kind = "FixedAgainst" /\ ~y.settled
  BY DEF FixedPosition, NoPosition
<1>7. b.disputer = v /\ v # NoAddress
  BY <1>2, <1>3, AddressAssumption DEF AssertionV2
<1>8. RoundOK(b, t, q) /\ DecisionOK(b, t)
  BY DEF DecisionInv, StructureInv
<1>9. NoneSettled(p) /\ FundedOrEmpty(p) /\ Untouched(r, p, credit[id], paid[id])
  BY <1>1, <1>3, UnsettledFacts DEF RoundFacts, AccountOK
<1> HIDE DEF x, y, bond
<1>10. NoneSettled(q) /\ FundedOrEmpty(q)
  BY <1>2, <1>3, <1>5, <1>6, <1>9 DEF NoneSettled, FundedOrEmpty
<1>11. SameLedger(r, t) /\ t.eligible_total > 0
  BY <1>4, <1>5, <1>9 DEF SameLedger, Untouched
<1> HIDE DEF a, r, p, b, t, q
<1> QED
  BY <1>1, <1>3, <1>7, <1>8, <1>10, <1>11, StillUntouched DEF b, t, q

LEMMA RegisterAccount ==
  ASSUME SettlementInv, DecisionInv', NEW id \in Ids, NEW v \in Address,
         NEW d \in Deposits, NEW o \in Outcomes, Register(v, id, d, o)
  PROVE  AccountOK(assertion'[id], resolution'[id], position'[id], credit'[id],
                   paid'[id])
<1> DEFINE a == assertion[id]
           r == resolution[id]
           p == position[id]
           b == assertion'[id]
           t == resolution'[id]
           q == position'[id]
           n == p[v].amount + d
           total == TotalAfter(r, p[v].amount, n)
           deadline == ExtendedDeadline(a.policy, r)
           x == [NoPosition EXCEPT !.amount = n, !.kind = CommitTo(o)]
<1>1. /\ RoundFacts(a, r, p, credit[id], paid[id])
      /\ resolution \in [Ids -> LooseResolution]
      /\ position \in [Ids -> [Address -> Position]]
  BY FactsOfRound
<1>2. /\ PartiesOK(a) /\ r \in LooseResolution /\ p \in [Address -> Position]
  BY <1>1 DEF RoundFacts
<1>3. /\ a.phase = "Registration" /\ d > 0 /\ b = a
      /\ q = [p EXCEPT ![v] = x]
      /\ t = [r EXCEPT !.registration_deadline = deadline, !.eligible_total = total]
      /\ credit'[id] = credit[id] /\ paid'[id] = paid[id]
  BY <1>1 DEF Register
<1>4. a.disputer # NoAddress
  BY <1>2, <1>3 DEF PartiesOK
<1>5. /\ p[v].amount \in Nat /\ d \in Nat /\ r.eligible_total \in Nat
  BY <1>2, <1>3, BoundAssumption DEF Position, LooseResolution
<1>6. n \in Nat /\ n > 0 /\ total = r.eligible_total + d
  BY <1>3, <1>5 DEF TotalAfter
<1>7. x.amount = n /\ x.kind # "None" /\ ~x.settled
  BY DEF NoPosition, CommitTo
<1>8. RoundOK(b, t, q) /\ DecisionOK(b, t)
  BY DEF DecisionInv, StructureInv
<1> HIDE DEF x, n, total, deadline
<1>9. SameLedger(r, t) /\ t.eligible_total = total
  BY <1>2, <1>3 DEF SameLedger, LooseResolution
<1>10. NoneSettled(p) /\ FundedOrEmpty(p)
  BY <1>1, <1>3, UnsettledFacts
<1>11. NoneSettled(q) /\ FundedOrEmpty(q)
  BY <1>2, <1>3, <1>6, <1>7, <1>10 DEF NoneSettled, FundedOrEmpty
<1>12. t.eligible_total > 0
  BY <1>3, <1>5, <1>6, <1>9
<1> HIDE DEF a, r, p, b, t, q
<1> QED
  BY <1>1, <1>3, <1>4, <1>8, <1>9, <1>11, <1>12, StillUntouched DEF b, t, q

\* Opening the reveal phase and counting a position leave the ledger of
\* settle and withdraw alone.
LEMMA OpeningLedger ==
  ASSUME NEW id \in Ids, resolution[id] \in LooseResolution
  PROVE  SameLedger(resolution[id], RoundInReveal(id).r)
<1> DEFINE a == assertion[id]
           r == resolution[id]
           p == position[id]
           deadline == now + a.policy.reveal_duration_secs
           x == p[a.asserter].amount
           y == p[a.disputer].amount
           t == [r EXCEPT !.reveal_opened_at = now, !.reveal_deadline = deadline,
                          !.agree_weight = @ + x, !.disagree_weight = @ + y]
<1>1. RoundInReveal(id).r = IF a.phase = "Registration" THEN t ELSE r
  BY DEF RoundInReveal, OpenRevealPhase
<1> HIDE DEF deadline, x, y
<1>2. SameLedger(r, t) /\ SameLedger(r, r)
  BY DEF SameLedger, LooseResolution
<1> QED
  BY <1>1, <1>2

LEMMA CountedLedger ==
  ASSUME NEW r \in LooseResolution, NEW side, NEW n
  PROVE  SameLedger(r, Counted(r, side, n))
BY DEF SameLedger, Counted, LooseResolution

\* A step of the reveal phase, and the lazy opening.
LEMMA RevealedAccount ==
  ASSUME SettlementInv, DecisionInv', NEW id \in Ids,
         RegistrationOver(id),
         assertion'[id].disputer # NoAddress,
         SameLedger(resolution[id], resolution'[id]),
         resolution'[id].eligible_total = resolution[id].eligible_total,
         SameBonds(position[id], position'[id]),
         credit'[id] = credit[id], paid'[id] = paid[id]
  PROVE  AccountOK(assertion'[id], resolution'[id], position'[id], credit'[id],
                   paid'[id])
<1> DEFINE a == assertion[id]
           r == resolution[id]
           p == position[id]
           b == assertion'[id]
           t == resolution'[id]
           q == position'[id]
<1>1. RoundFacts(a, r, p, credit[id], paid[id])
  BY FactsOfRound
<1>2. a.phase # "Resolved" /\ a.disputer # NoAddress
  BY <1>1 DEF RegistrationOver, RoundFacts, PartiesOK
<1>3. NoneSettled(p) /\ FundedOrEmpty(p) /\ r.eligible_total > 0
  BY <1>1, <1>2, UnsettledFacts
<1>4. NoneSettled(q) /\ FundedOrEmpty(q)
  BY <1>3 DEF NoneSettled, FundedOrEmpty, SameBonds
<1>5. RoundOK(b, t, q) /\ DecisionOK(b, t)
  BY DEF DecisionInv, StructureInv
<1>6. t.eligible_total > 0
  BY <1>3
<1> HIDE DEF a, r, p, b, t, q
<1>7. b.disputer # NoAddress /\ SameLedger(r, t)
  BY DEF b, r, t
<1>8. AccountOK(b, t, q, credit[id], paid[id])
  BY <1>1, <1>2, <1>4, <1>5, <1>6, <1>7, StillUntouched
<1> QED
  BY <1>8 DEF b, t, q

LEMMA RevealAccount ==
  ASSUME SettlementInv, DecisionInv', NEW id \in Ids, NEW v \in Address,
         NEW o \in Outcomes, Reveal(v, id, o)
  PROVE  AccountOK(assertion'[id], resolution'[id], position'[id], credit'[id],
                   paid'[id])
<1> DEFINE s == RoundInReveal(id)
           side == IF o = s.a.outcome THEN "agree" ELSE "disagree"
           n == s.p[v].amount
           tally == Counted(s.r, side, n)
           c == CloseRevealIfReady(s.a, tally, FALSE)
           q == ShowAt(s.p, v, side)
<1>1. /\ RoundOK(assertion[id], resolution[id], position[id])
      /\ resolution[id] \in LooseResolution /\ now \in Nat
      /\ assertion \in [Ids -> AssertionV2]
      /\ resolution \in [Ids -> LooseResolution]
      /\ position \in [Ids -> [Address -> Position]]
  BY FactsOfRound DEF RoundFacts
<1>2. /\ RegistrationOver(id) /\ s.p[v].agrees_with_outcome = "none"
      /\ assertion'[id] = c /\ resolution'[id] = tally /\ position'[id] = q
      /\ credit'[id] = credit[id] /\ paid'[id] = paid[id]
  BY <1>1 DEF Reveal, ShowAt
<1>3. /\ RoundOK(s.a, s.r, s.p)
      /\ s.a.phase \in {"Reveal", "Resolved"} /\ s.a.disputer # NoAddress
      /\ s.r.eligible_total = resolution[id].eligible_total
      /\ SameBonds(position[id], s.p)
  BY <1>1, <1>2, LazyOpening
<1>4. SameLedger(resolution[id], s.r)
  BY <1>1, OpeningLedger
<1>5. side \in {"agree", "disagree"}
  OBVIOUS
<1> HIDE DEF s, side
<1>6. s.r \in LooseResolution /\ s.p \in [Address -> Position]
  BY <1>3 DEF RoundOK
<1>7. SameClaim(s.a, c)
  BY <1>2, <1>3, <1>5, RevealResult
<1>8. SameLedger(s.r, tally) /\ tally.eligible_total = s.r.eligible_total
  BY <1>6, CountedLedger DEF Counted, LooseResolution
<1>9. SameBonds(s.p, q)
  BY <1>2, <1>5, <1>6, ShowTallies
<1>10. /\ SameLedger(resolution[id], tally)
       /\ SameBonds(position[id], q) /\ c.disputer # NoAddress
       /\ tally.eligible_total = resolution[id].eligible_total
  BY <1>3, <1>4, <1>7, <1>8, <1>9 DEF SameLedger, SameBonds, SameClaim
<1> HIDE DEF tally, c, q
<1> QED
  BY <1>2, <1>10, RevealedAccount

LEMMA ResolveOutcomeAccount ==
  ASSUME SettlementInv, DecisionInv', NEW id \in Ids, ResolveOutcome(id)
  PROVE  AccountOK(assertion'[id], resolution'[id], position'[id], credit'[id],
                   paid'[id])
<1> DEFINE s == RoundInReveal(id)
           c == IF s.a.phase = "Resolved" THEN s.a
                ELSE CloseRevealIfReady(s.a, s.r, TRUE)
<1>1. /\ RoundOK(assertion[id], resolution[id], position[id])
      /\ resolution[id] \in LooseResolution /\ now \in Nat
      /\ assertion \in [Ids -> AssertionV2]
      /\ resolution \in [Ids -> LooseResolution]
      /\ position \in [Ids -> [Address -> Position]]
  BY FactsOfRound DEF RoundFacts
<1>2. /\ RegistrationOver(id)
      /\ assertion'[id] = c /\ resolution'[id] = s.r /\ position'[id] = s.p
      /\ credit'[id] = credit[id] /\ paid'[id] = paid[id]
  BY <1>1 DEF ResolveOutcome
<1>3. /\ RoundOK(s.a, s.r, s.p)
      /\ s.a.phase \in {"Reveal", "Resolved"} /\ s.a.disputer # NoAddress
      /\ s.r.eligible_total = resolution[id].eligible_total
      /\ SameBonds(position[id], s.p)
  BY <1>1, <1>2, LazyOpening
<1>4. SameLedger(resolution[id], s.r)
  BY <1>1, OpeningLedger
<1> HIDE DEF s
<1>5. c.disputer # NoAddress
  <2>1. s.a \in AssertionV2 /\ s.r \in LooseResolution /\ PartiesOK(s.a)
        /\ CauseOK(s.a)
    BY <1>3 DEF RoundOK
  <2>2. s.a.phase # "Resolved" =>
          SameClaim(s.a, CloseRevealIfReady(s.a, s.r, TRUE))
    BY <1>3, <2>1, CloseResult
  <2> QED
    BY <1>3, <2>2 DEF SameClaim
<1> HIDE DEF c
<1> QED
  BY <1>2, <1>3, <1>4, <1>5, RevealedAccount

-----------------------------------------------------------------------------
(* The other steps.                                                        *)

\* A step that rewrites the record of a round nobody disputed.
LEMMA UndisputedAccount ==
  ASSUME NEW a, NEW r, NEW p, NEW c, NEW w, RoundFacts(a, r, p, c, w),
         a.phase # "Resolved", a.disputer = NoAddress,
         NEW b, b.disputer = NoAddress,
         NEW w2, w2 \in [Address -> Nat], b.phase # "Resolved" => w2 = w
  PROVE  AccountOK(b, r, p, c, w2)
BY DEF RoundFacts, AccountOK

LEMMA AssertOutcomeAccount ==
  ASSUME SettlementInv, NEW id \in Ids, id = next_id, NEW v \in Address,
         NEW o \in Outcomes, AssertOutcome(v, o)
  PROVE  AccountOK(assertion'[id], resolution'[id], position'[id], credit'[id],
                   paid'[id])
<1> DEFINE a == assertion[id]
           b == [NoAssertion EXCEPT !.phase = "Pending", !.asserter = v,
                       !.opened_at = now, !.outcome = o, !.policy = policy]
<1>1. /\ RoundFacts(a, resolution[id], position[id], credit[id], paid[id])
      /\ Shape /\ assertion \in [Ids -> AssertionV2]
  BY FactsOfRound
<1>2. a.phase = "Absent"
  BY <1>1 DEF Shape, Ids
<1>3. a.disputer = NoAddress /\ paid[id] \in [Address -> Nat]
  BY <1>1, <1>2 DEF RoundFacts, PartiesOK, Shape
<1>4. b.disputer = NoAddress /\ b.phase = "Pending"
  BY DEF NoAssertion
<1>5. /\ assertion'[id] = b /\ resolution'[id] = resolution[id]
      /\ position'[id] = position[id] /\ credit'[id] = credit[id]
      /\ paid'[id] = paid[id]
  BY <1>1 DEF AssertOutcome
<1> HIDE DEF a, b
<1> QED
  BY <1>1, <1>2, <1>3, <1>4, <1>5, UndisputedAccount

LEMMA FinalizeAccount ==
  ASSUME SettlementInv, StructureInv', NEW id \in Ids, NEW v \in Address,
         Finalize(v, id)
  PROVE  AccountOK(assertion'[id], resolution'[id], position'[id], credit'[id],
                   paid'[id])
<1> DEFINE a == assertion[id]
           b == assertion'[id]
<1>1. /\ RoundFacts(a, resolution[id], position[id], credit[id], paid[id])
      /\ assertion \in [Ids -> AssertionV2]
  BY FactsOfRound
<1>2. a.phase = "Pending" /\ a \in AssertionV2
  BY <1>1 DEF Finalize
<1>3. a.disputer = NoAddress
  BY <1>1, <1>2 DEF RoundFacts, PartiesOK
<1>4. /\ b = [a EXCEPT !.phase = "Resolved",
                       !.terminal_cause = "UncontestedFinalize",
                       !.final_outcome = a.outcome]
      /\ resolution'[id] = resolution[id] /\ position'[id] = position[id]
      /\ credit'[id] = credit[id]
  BY <1>1 DEF Finalize
<1>5. b.disputer = NoAddress /\ b.phase = "Resolved"
  BY <1>2, <1>3, <1>4 DEF AssertionV2
<1>6. paid'[id] \in [Address -> Nat]
  BY DEF StructureInv, Shape
<1> HIDE DEF a, b
<1> QED
  BY <1>1, <1>2, <1>3, <1>4, <1>5, <1>6, UndisputedAccount DEF b

LEMMA CancelRoundAccount ==
  ASSUME SettlementInv, DecisionInv', NEW id \in Ids, NEW k \in AdminKeys,
         CancelRound(k, id)
  PROVE  AccountOK(assertion'[id], resolution'[id], position'[id], credit'[id],
                   paid'[id])
<1> DEFINE a == assertion[id]
           r == resolution[id]
           p == position[id]
           b == assertion'[id]
           refund == IF a.phase = "Pending" THEN a.policy.base_bond ELSE 0
<1>1. /\ RoundFacts(a, r, p, credit[id], paid[id])
      /\ assertion \in [Ids -> AssertionV2] /\ paid \in [Ids -> [Address -> Nat]]
  BY FactsOfRound
<1>2. /\ Undecided(a) /\ b = [a EXCEPT !.phase = "Resolved",
                                       !.terminal_cause = "AdminCancelled"]
      /\ resolution'[id] = r /\ position'[id] = p /\ credit'[id] = credit[id]
      /\ paid'[id] = Plus(paid[id], a.asserter, refund)
  BY <1>1 DEF CancelRound
<1>3. a \in AssertionV2 /\ CauseOK(a) /\ PartiesOK(a) /\ paid[id] \in [Address -> Nat]
  BY <1>1 DEF RoundFacts
<1>4. a.phase # "Absent" /\ a.phase # "Resolved" /\ a.asserter \in Address
  BY <1>2, <1>3 DEF Undecided, CauseOK, PartiesOK
<1>5. b.phase = "Resolved" /\ b.disputer = a.disputer
  BY <1>2, <1>3 DEF AssertionV2
<1>6. RoundOK(b, r, p) /\ DecisionOK(b, r) /\ paid'[id] \in [Address -> Nat]
  BY <1>2 DEF DecisionInv, StructureInv, Shape
<1>7. CASE a.disputer = NoAddress
  <2> HIDE DEF a, b, r, p
  <2> QED
    BY <1>1, <1>2, <1>4, <1>5, <1>6, <1>7, UndisputedAccount DEF b
<1>8. CASE a.disputer # NoAddress
  <2>1. refund = 0
    BY <1>3, <1>8 DEF PartiesOK
  <2>2. paid'[id] = paid[id]
    BY <1>2, <1>3, <1>4, <2>1 DEF Plus
  <2> HIDE DEF a, b, r, p
  <2>3. NoneSettled(p) /\ FundedOrEmpty(p) /\ r.eligible_total > 0
    BY <1>1, <1>4, <1>8, UnsettledFacts
  <2>4. SameLedger(r, r)
    BY DEF SameLedger
  <2>5. AccountOK(b, r, p, credit[id], paid[id])
    BY <1>1, <1>4, <1>5, <1>6, <1>8, <2>3, <2>4, StillUntouched
  <2> QED
    BY <1>2, <2>2, <2>5 DEF b
<1> QED
  BY <1>7, <1>8

LEMMA InitSettlement == Init => SettlementInv
<1> SUFFICES ASSUME Init, NEW id \in Ids
             PROVE  AccountOK(assertion[id], resolution[id], position[id],
                              credit[id], paid[id])
  BY InitDecision DEF SettlementInv
<1>1. /\ assertion[id] = NoAssertion /\ resolution[id] = NoResolution
      /\ position[id] = [v \in Address |-> NoPosition]
      /\ credit[id] = NoWeight /\ paid[id] = NoWeight
  BY DEF Init
<1>2. /\ NoAssertion.phase = "Absent" /\ NoAssertion.disputer = NoAddress
      /\ NoResolution.settled_recipient_weight = 0
      /\ NoResolution.settled_reward_total = 0
      /\ NoResolution.outstanding_liability = 0 /\ NoResolution.withdrawn_total = 0
      /\ NoPosition.kind = "None" /\ NoPosition.amount = 0 /\ ~NoPosition.settled
  BY DEF NoAssertion, NoResolution, NoPosition
<1>3. NoWeight \in [Address -> Nat] /\ \A v \in Address : NoWeight[v] = 0
  BY DEF NoWeight
<1>4. Total(NoWeight) = 0
  BY <1>3, NothingIsNothing
<1> QED
  BY <1>1, <1>2, <1>3, <1>4 DEF AccountOK, Untouched

\* SettlementInv is inductive.
LEMMA SettlementStep == SettlementInv /\ [Next]_vars => SettlementInv'
<1> SUFFICES ASSUME SettlementInv, [Next]_vars PROVE SettlementInv'
  OBVIOUS
<1>1. DecisionInv /\ StructureInv
  BY DEF SettlementInv, DecisionInv
<1>2. DecisionInv' /\ StructureInv'
  BY <1>1, DecisionStep, StructureStep
<1>3. ASSUME NEW id \in Ids
      PROVE  AccountOK(assertion'[id], resolution'[id], position'[id],
                       credit'[id], paid'[id])
  <2>1. CASE SameRound(id)
    BY <2>1 DEF SameRound, SettlementInv
  <2>2. CASE id = next_id /\ \E v \in Address, o \in Outcomes : AssertOutcome(v, o)
    BY <2>2, AssertOutcomeAccount
  <2>3. CASE \E k \in AdminKeys : CancelRound(k, id)
    BY <1>2, <2>3, CancelRoundAccount
  <2>4. CASE \E v \in Address : Finalize(v, id)
    BY <1>2, <2>4, FinalizeAccount
  <2>5. CASE \E v \in Address : Dispute(v, id)
    BY <1>2, <2>5, DisputeAccount
  <2>6. CASE \E v \in Address, d \in Deposits, o \in Outcomes : Register(v, id, d, o)
    BY <1>2, <2>6, RegisterAccount
  <2>7. CASE \E v \in Address, o \in Outcomes : Reveal(v, id, o)
    BY <1>2, <2>7, RevealAccount
  <2>8. CASE ResolveOutcome(id)
    BY <1>2, <2>8, ResolveOutcomeAccount
  <2>9. CASE \E v \in Address : Settle(id, v)
    BY <2>9, SettleRecipientAccount, SettleForfeitedAccount DEF Settle
  <2>10. CASE \E v \in Address, d \in Address \cup {Contract} : Withdraw(v, id, d)
    BY <2>10, WithdrawAccount
  <2> QED
    BY <1>1, <2>1, <2>2, <2>3, <2>4, <2>5, <2>6, <2>7, <2>8, <2>9, <2>10,
       StepOfRound DEF RoundNext
<1> QED
  BY <1>2, <1>3 DEF SettlementInv

LEMMA SettlementInvariant == Spec => []SettlementInv
BY InitSettlement, SettlementStep, PTL DEF Spec

-----------------------------------------------------------------------------
(* Types and liabilities.                                                  *)

\* The storage entries and the token balance have their types: nothing that
\* settle and withdraw compute is ever negative.
THEOREM TypesAlwaysOK == Spec => []TypeOK
<1>1. ASSUME SettlementInv PROVE TypeOK
  <2>1. Shape
    BY <1>1 DEF SettlementInv, DecisionInv, StructureInv
  <2>2. ASSUME NEW id \in Ids
        PROVE  resolution[id] \in Resolution /\ credit[id] \in [Address -> Nat]
    <3>1. RoundFacts(assertion[id], resolution[id], position[id], credit[id], paid[id])
      BY <1>1, FactsOfRound
    <3>2. /\ resolution[id] \in LooseResolution /\ credit[id] \in [Address -> Nat]
          /\ resolution[id].settled_reward_total \in Nat
          /\ resolution[id].outstanding_liability = Total(credit[id])
      BY <3>1 DEF RoundFacts, AccountOK
    <3>3. Total(credit[id]) \in Nat
      BY <3>2, TotalType, AddressAssumption
    <3> QED
      BY <3>2, <3>3 DEF LooseResolution, Resolution
  <2>3. /\ resolution \in [Ids -> Resolution]
        /\ credit \in [Ids -> [Address -> Nat]]
    BY <2>1, <2>2 DEF Shape
  <2>4. now \in 0..MaxTime
    BY <2>1, BoundAssumption DEF Shape
  <2> QED
    BY <2>1, <2>3, <2>4 DEF Shape, TypeOK
<1> QED
  BY <1>1, SettlementInvariant, PTL

\* The flooring bound keeps the rewards within the forfeited pool.
LEMMA RewardsWithinPool ==
  ASSUME NEW weight \in Nat, NEW pool \in Nat, NEW s \in Nat, NEW y \in Nat,
         weight > 0, s <= weight, weight * y <= pool * s
  PROVE  y <= pool
<1>1. pool * s <= pool * weight
  OBVIOUS
<1>2. pool * weight = weight * pool
  OBVIOUS
<1>3. /\ weight * y \in Nat /\ pool * s \in Nat /\ pool * weight \in Nat
      /\ weight * pool \in Nat
  OBVIOUS
<1>4. weight * y <= weight * pool
  BY <1>1, <1>2, <1>3
<1> QED
  BY <1>4

\* The liability record of a dispute.
LEMMA RoundLiability ==
  ASSUME NEW a, NEW r, NEW p, NEW c, NEW w, RoundFacts(a, r, p, c, w),
         a.disputer # NoAddress
  PROVE  /\ r.outstanding_liability = Total(c)
         /\ r.withdrawn_total = Total(w)
         /\ Total(c) \in Nat /\ Total(w) \in Nat /\ r.eligible_total \in Nat
         /\ r.outstanding_liability + r.withdrawn_total <= r.eligible_total
         /\ (\A v \in Address :
                p[v].kind # "None" /\ IsRecipient(a.terminal_cause, p[v])
                  => p[v].settled)
              /\ a.phase = "Resolved" =>
              r.outstanding_liability + r.withdrawn_total = r.eligible_total
<1> DEFINE cause == a.terminal_cause
           weight == RecipientWeight(cause, r)
           pool == ForfeitedPool(cause, r)
           s == r.settled_recipient_weight
           y == r.settled_reward_total
<1>1. /\ a \in AssertionV2 /\ CauseOK(a) /\ DecisionOK(a, r) /\ AccountOK(a, r, p, c, w)
      /\ r \in LooseResolution /\ p \in [Address -> Position] /\ TalliesOK(r, p)
  BY DEF RoundFacts
<1>2. /\ c \in [Address -> Nat] /\ w \in [Address -> Nat]
      /\ r.outstanding_liability = Total(c) /\ y \in Nat
      /\ \A u \in Address : p[u].kind = "None" <=> p[u].amount = 0
      /\ r.eligible_total > 0
      /\ a.phase # "Resolved" => Untouched(r, p, c, w)
      /\ a.phase = "Resolved" => SettledOK(a, r, p, w)
  BY <1>1 DEF AccountOK
<1>3. Total(c) \in Nat /\ Total(w) \in Nat /\ r.eligible_total \in Nat
  BY <1>1, <1>2, TotalType, AddressAssumption DEF LooseResolution
<1>4. CASE a.phase # "Resolved"
  <2>1. /\ r.outstanding_liability = 0 /\ r.withdrawn_total = 0
        /\ \A v \in Address : w[v] = 0
    BY <1>2, <1>4 DEF Untouched
  <2>2. Total(w) = 0
    BY <1>2, <2>1, NothingIsNothing
  <2> QED
    BY <1>2, <1>3, <1>4, <2>1, <2>2
<1>5. CASE a.phase = "Resolved"
  <2>1. /\ r.withdrawn_total = Total(w) /\ s = Total(SettledOf(cause, p))
        /\ weight * y <= pool * s
        /\ r.outstanding_liability + r.withdrawn_total
             = IF s = weight THEN r.eligible_total ELSE s + y
    BY <1>2, <1>5 DEF SettledOK
  <2>2. /\ weight = Total(RecipientOf(cause, p)) /\ weight \in Nat /\ pool \in Nat
        /\ weight + pool = r.eligible_total
    BY <1>1, PoolOfTallies
  <2>3. weight > 0
    BY <1>1, <1>2, <1>5, PoolHasRecipients
  <2>4. s \in Nat /\ s <= weight
    BY <1>1, <2>1, <2>2, SettledWithinRecipients
  <2> HIDE DEF weight, pool, s, y, cause
  <2>5. y <= pool
    BY <1>2, <2>1, <2>2, <2>3, <2>4, RewardsWithinPool
  <2>6. r.outstanding_liability + r.withdrawn_total <= r.eligible_total
    BY <1>2, <2>1, <2>2, <2>4, <2>5
  <2>7. ASSUME \A v \in Address : p[v].kind # "None" /\ IsRecipient(cause, p[v])
                                   => p[v].settled
        PROVE  r.outstanding_liability + r.withdrawn_total = r.eligible_total
    <3>1. SettledOf(cause, p) = RecipientOf(cause, p)
      BY <1>2, <2>7 DEF SettledOf, RecipientOf
    <3> QED
      BY <2>1, <2>2, <3>1
  <2> QED
    BY <1>2, <1>3, <2>1, <2>6, <2>7 DEF cause
<1> QED
  BY <1>4, <1>5

\* In rounds of any size and any order of settle and withdraw, the liability
\* record is the sum of the credits, no more than the bonded weight is ever
\* promised, and all of it is once the recipients are settled: rounding
\* neither mints nor burns a unit.
THEOREM LiabilitiesAlwaysMatch == Spec => []LiabilityMatchesCredits
<1>1. ASSUME SettlementInv, NEW id \in Ids, Disputed(id)
      PROVE  LET r == resolution[id] IN
             /\ r.outstanding_liability = Total(credit[id])
             /\ r.withdrawn_total = Total(paid[id])
             /\ r.outstanding_liability + r.withdrawn_total <= r.eligible_total
             /\ (\A v \in Recipients(id) : position[id][v].settled)
                  /\ assertion[id].phase = "Resolved" =>
                  r.outstanding_liability + r.withdrawn_total = r.eligible_total
  <2> DEFINE a == assertion[id]
             r == resolution[id]
             p == position[id]
             c == credit[id]
             w == paid[id]
  <2>1. RoundFacts(a, r, p, c, w) /\ a.disputer # NoAddress
    BY <1>1, FactsOfRound DEF Disputed
  <2>2. (\A v \in Recipients(id) : p[v].settled) =>
           \A v \in Address :
             p[v].kind # "None" /\ IsRecipient(a.terminal_cause, p[v]) => p[v].settled
    BY DEF Recipients
  <2> HIDE DEF a, r, p, c, w
  <2>3. /\ r.outstanding_liability = Total(c)
        /\ r.withdrawn_total = Total(w)
        /\ r.outstanding_liability + r.withdrawn_total <= r.eligible_total
        /\ (\A v \in Address :
                p[v].kind # "None" /\ IsRecipient(a.terminal_cause, p[v])
                  => p[v].settled)
              /\ a.phase = "Resolved" =>
              r.outstanding_liability + r.withdrawn_total = r.eligible_total
    BY <2>1, RoundLiability
  <2> QED
    BY <2>2, <2>3 DEF a, r, p, c, w
<1>2. SettlementInv => LiabilityMatchesCredits
  BY <1>1 DEF LiabilityMatchesCredits
<1> QED
  BY <1>2, SettlementInvariant, PTL

-----------------------------------------------------------------------------
(***************************************************************************)
(* The money of the contract.  Solvency: one token balance for all         *)
(* assertions, and the contract never owes more than it holds, because a   *)
(* step changes what one round is owed by no more than it changes the      *)
(* balance; that a round is never owed a negative amount, which would hide *)
(* another round's deficit, is the liability theorem above.  Entitlements: *)
(* what each participant is credited or paid depends on the frozen weights *)
(* only, never on the order of settlements.  Arithmetic: settle never      *)
(* overflows.  Refinement: the contract implements BondedOracle.           *)
(***************************************************************************)

SolvencyInv == SettlementInv /\ Solvency

Books == [id \in Ids |-> Owed(id)]
SameRecords(id) ==
  assertion'[id] = assertion[id] /\ resolution'[id] = resolution[id]

NothingOwedBack == \A id \in Ids : Owed(id) \in Nat

LEMMA OwedType == SettlementInv => NothingOwedBack
<1> SUFFICES ASSUME SettlementInv, NEW id \in Ids PROVE Owed(id) \in Nat
  BY DEF NothingOwedBack
<1> DEFINE a == assertion[id]
           r == resolution[id]
<1>1. /\ RoundFacts(a, r, position[id], credit[id], paid[id])
      /\ PartiesOK(a)
  BY FactsOfRound DEF RoundFacts
<1>2. CASE a.disputer # NoAddress
  <2>1. Owed(id) = r.eligible_total - r.withdrawn_total
    BY <1>2 DEF Owed, Disputed
  <2> HIDE DEF a, r
  <2>2. /\ r.outstanding_liability \in Nat /\ r.withdrawn_total \in Nat
        /\ r.eligible_total \in Nat
        /\ r.outstanding_liability + r.withdrawn_total <= r.eligible_total
    BY <1>1, <1>2, RoundLiability
  <2> QED
    BY <2>1, <2>2
<1>3. CASE a.disputer = NoAddress /\ a.phase = "Pending"
  <2>1. Owed(id) = a.policy.base_bond
    BY <1>3 DEF Owed, Disputed
  <2> QED
    BY <1>1, <1>3, <2>1, PolicyFacts DEF PartiesOK
<1>4. CASE a.disputer = NoAddress /\ a.phase # "Pending"
  BY <1>4 DEF Owed, Disputed
<1> QED
  BY <1>2, <1>3, <1>4

\* Of one round's claim and the balance, the balance gains at least as much.
LEMMA Balance ==
  ASSUME SettlementInv, SettlementInv', Solvency, NEW id \in Ids,
         \A i \in Ids : i # id => SameRecords(i),
         custody' - custody >= Owed(id)' - Owed(id)
  PROVE  Solvency'
<1> DEFINE x == Owed(id)'
<1>1. Books \in [Ids -> Nat] /\ x \in Nat /\ Owed(id) \in Nat
  <2>1. NothingOwedBack /\ NothingOwedBack'
    BY OwedType, PTL
  <2> QED
    BY <2>1 DEF Books, NothingOwedBack
<1>2. Books' = [Books EXCEPT ![id] = x]
  BY DEF Books, SameRecords, Owed, Disputed
<1>3. IsFiniteSet(Ids)
  BY FS_Interval, BoundAssumption DEF Ids
<1>4. Books[id] = Owed(id)
  BY DEF Books
<1>5. custody \in Int /\ custody' \in Int /\ custody >= Total(Books)
  BY DEF SettlementInv, DecisionInv, StructureInv, Shape, Solvency, Books
<1> HIDE DEF x
<1>6. Total([Books EXCEPT ![id] = x]) = Total(Books) - Books[id] + x
  BY <1>1, <1>3, TotalUpdate
<1>7. Total(Books) \in Nat
  BY <1>1, <1>3, TotalType
<1>8. custody' >= Total(Books')
  BY <1>1, <1>2, <1>4, <1>5, <1>6, <1>7 DEF x
<1> QED
  BY <1>8 DEF Solvency, Books

-----------------------------------------------------------------------------
(* What each action does to the round's claim and to the balance.          *)

\* The claim of a round, before and after, by the round's phase.
LEMMA Claims ==
  ASSUME NEW id \in Ids
  PROVE  /\ assertion[id].disputer # NoAddress =>
              Owed(id) = resolution[id].eligible_total
                           - resolution[id].withdrawn_total
         /\ assertion[id].disputer = NoAddress =>
              Owed(id) = IF assertion[id].phase = "Pending"
                         THEN assertion[id].policy.base_bond ELSE 0
         /\ assertion'[id].disputer # NoAddress =>
              Owed(id)' = resolution'[id].eligible_total
                           - resolution'[id].withdrawn_total
         /\ assertion'[id].disputer = NoAddress =>
              Owed(id)' = IF assertion'[id].phase = "Pending"
                          THEN assertion'[id].policy.base_bond ELSE 0
BY DEF Owed, Disputed

LEMMA AssertOutcomeBalance ==
  ASSUME SettlementInv, NEW id \in Ids, id = next_id, NEW v \in Address,
         NEW o \in Outcomes, AssertOutcome(v, o)
  PROVE  /\ \A i \in Ids : i # id => SameRecords(i)
         /\ custody' - custody >= Owed(id)' - Owed(id)
<1>1. Shape /\ StructureInv
  BY DEF SettlementInv, DecisionInv, StructureInv
<1>2. /\ policy \in CandidatePolicies /\ ValidPolicy(policy) /\ custody \in Nat
  BY <1>1 DEF Shape, AssertOutcome
<1> DEFINE b == [NoAssertion EXCEPT !.phase = "Pending", !.asserter = v,
                       !.opened_at = now, !.outcome = o, !.policy = policy]
<1>3. /\ b.phase = "Pending" /\ b.disputer = NoAddress /\ b.policy = policy
  BY DEF NoAssertion
<1>4. /\ assertion' = [assertion EXCEPT ![id] = b] /\ resolution' = resolution
      /\ custody' = custody + policy.base_bond
  BY DEF AssertOutcome
<1> HIDE DEF b
<1>5. assertion'[id] = b /\ \A i \in Ids : i # id => SameRecords(i)
  BY <1>1, <1>2, <1>4 DEF Shape, SameRecords
<1>6. assertion[id].phase = "Absent" /\ assertion[id].disputer = NoAddress
  <2>1. assertion[id].phase = "Absent"
    BY <1>1, <1>2 DEF Shape, Ids
  <2>2. PartiesOK(assertion[id])
    BY <1>1, <1>2 DEF StructureInv, RoundOK
  <2> QED
    BY <2>1, <2>2 DEF PartiesOK
<1>7. Owed(id) = 0 /\ Owed(id)' = policy.base_bond /\ policy.base_bond \in Nat
  <2>1. Owed(id) = 0
    BY <1>2, <1>6, Claims
  <2>2. Owed(id)' = policy.base_bond
    BY <1>3, <1>5, Claims
  <2> QED
    BY <1>2, <2>1, <2>2, PolicyFacts
<1> QED
  BY <1>2, <1>4, <1>5, <1>7

LEMMA FinalizeBalance ==
  ASSUME SettlementInv, NEW id \in Ids, NEW v \in Address, Finalize(v, id)
  PROVE  /\ \A i \in Ids : i # id => SameRecords(i)
         /\ custody' - custody >= Owed(id)' - Owed(id)
<1> DEFINE a == assertion[id]
           b == [a EXCEPT !.phase = "Resolved",
                          !.terminal_cause = "UncontestedFinalize",
                          !.final_outcome = a.outcome]
           reward == FinalizeReward(a.policy)
           rest == AsserterRest(a.policy)
           bond == a.policy.base_bond
<1>1. /\ RoundFacts(a, resolution[id], position[id], credit[id], paid[id])
      /\ assertion \in [Ids -> AssertionV2] /\ Shape
  BY FactsOfRound
<1>2. /\ a \in AssertionV2 /\ PartiesOK(a) /\ a.phase = "Pending" /\ custody \in Nat
  BY <1>1 DEF RoundFacts, Finalize, Shape
<1>3. /\ a.disputer = NoAddress
      /\ reward \in Nat /\ rest \in Nat /\ reward + rest = bond /\ bond \in Nat
  BY <1>2, PolicyFacts DEF PartiesOK
<1>4. /\ assertion' = [assertion EXCEPT ![id] = b] /\ resolution' = resolution
      /\ custody' = custody - reward - rest
  BY DEF Finalize
<1>5. b.phase = "Resolved" /\ b.disputer = NoAddress
  BY <1>2, <1>3 DEF AssertionV2
<1> HIDE DEF b, reward, rest
<1>6. assertion'[id] = b /\ \A i \in Ids : i # id => SameRecords(i)
  BY <1>1, <1>4 DEF SameRecords
<1>7. Owed(id) = bond /\ Owed(id)' = 0
  BY <1>2, <1>3, <1>5, <1>6, Claims
<1> HIDE DEF bond
<1> QED
  BY <1>2, <1>3, <1>4, <1>6, <1>7

LEMMA CancelRoundBalance ==
  ASSUME SettlementInv, NEW id \in Ids, NEW k \in AdminKeys, CancelRound(k, id)
  PROVE  /\ \A i \in Ids : i # id => SameRecords(i)
         /\ custody' - custody >= Owed(id)' - Owed(id)
<1> DEFINE a == assertion[id]
           r == resolution[id]
           b == [a EXCEPT !.phase = "Resolved", !.terminal_cause = "AdminCancelled"]
           bond == a.policy.base_bond
           refund == IF a.phase = "Pending" THEN bond ELSE 0
<1>1. /\ RoundFacts(a, r, position[id], credit[id], paid[id])
      /\ assertion \in [Ids -> AssertionV2] /\ Shape
  BY FactsOfRound
<1>2. /\ a \in AssertionV2 /\ PartiesOK(a) /\ custody \in Nat
      /\ r \in LooseResolution
  BY <1>1 DEF RoundFacts, Shape
<1>3. /\ assertion' = [assertion EXCEPT ![id] = b] /\ resolution' = resolution
      /\ custody' = custody - refund
  BY DEF CancelRound
<1>4. b.phase = "Resolved" /\ b.disputer = a.disputer
  BY <1>2 DEF AssertionV2
<1> HIDE DEF b
<1>5. assertion'[id] = b /\ \A i \in Ids : i # id => SameRecords(i)
  BY <1>1, <1>3 DEF SameRecords
<1>6. CASE a.disputer = NoAddress
  <2>1. Owed(id) = refund /\ Owed(id)' = 0
    BY <1>4, <1>5, <1>6, Claims
  <2>2. refund \in Nat
    BY <1>2, PolicyFacts DEF PartiesOK
  <2> HIDE DEF refund
  <2> QED
    BY <1>2, <1>3, <1>5, <2>1, <2>2
<1>7. CASE a.disputer # NoAddress
  <2>1. refund = 0
    BY <1>2, <1>7 DEF PartiesOK
  <2> DEFINE n == r.eligible_total - r.withdrawn_total
  <2>2. Owed(id) = n /\ Owed(id)' = n
    BY <1>3, <1>4, <1>5, <1>7, Claims
  <2>3. n \in Int
    BY <1>2 DEF LooseResolution
  <2> HIDE DEF n, refund
  <2> QED
    BY <1>2, <1>3, <1>5, <2>1, <2>2, <2>3
<1> QED
  BY <1>6, <1>7

LEMMA DisputeBalance ==
  ASSUME SettlementInv, NEW id \in Ids, NEW v \in Address, Dispute(v, id)
  PROVE  /\ \A i \in Ids : i # id => SameRecords(i)
         /\ custody' - custody >= Owed(id)' - Owed(id)
<1> DEFINE a == assertion[id]
           bond == a.policy.base_bond
           b == assertion'[id]
           t == resolution'[id]
<1>1. /\ RoundFacts(a, resolution[id], position[id], credit[id], paid[id])
      /\ assertion \in [Ids -> AssertionV2]
      /\ resolution \in [Ids -> LooseResolution] /\ Shape
  BY FactsOfRound
<1>2. /\ a \in AssertionV2 /\ PartiesOK(a) /\ a.phase = "Pending" /\ custody \in Nat
  BY <1>1 DEF RoundFacts, Dispute, Shape
<1>3. a.disputer = NoAddress /\ bond \in Nat
  BY <1>2, PolicyFacts DEF PartiesOK
<1>4. /\ b = [a EXCEPT !.disputer = v, !.phase = "Registration"]
      /\ custody' = custody + bond
      /\ \A i \in Ids : i # id => SameRecords(i)
  BY <1>1 DEF Dispute, SameRecords
<1>5. t.eligible_total = bond * 2 /\ t.withdrawn_total = 0
  BY <1>1 DEF Dispute, NoResolution
<1>6. b.disputer # NoAddress
  BY <1>2, <1>4, AddressAssumption DEF AssertionV2
<1>7. Owed(id) = bond
  BY <1>2, <1>3, Claims
<1>8. Owed(id)' = bond * 2 - 0
  BY <1>5, <1>6, Claims
<1> HIDE DEF bond
<1> QED
  BY <1>2, <1>3, <1>4, <1>7, <1>8

LEMMA RegisterBalance ==
  ASSUME SettlementInv, NEW id \in Ids, NEW v \in Address, NEW d \in Deposits,
         NEW o \in Outcomes, Register(v, id, d, o)
  PROVE  /\ \A i \in Ids : i # id => SameRecords(i)
         /\ custody' - custody >= Owed(id)' - Owed(id)
<1> DEFINE a == assertion[id]
           r == resolution[id]
           t == resolution'[id]
           n == position[id][v].amount
           total == TotalAfter(r, n, n + d)
           deadline == ExtendedDeadline(a.policy, r)
<1>1. /\ RoundFacts(a, r, position[id], credit[id], paid[id])
      /\ resolution \in [Ids -> LooseResolution] /\ Shape
  BY FactsOfRound
<1>2. /\ PartiesOK(a) /\ a.phase = "Registration" /\ custody \in Nat
      /\ r \in LooseResolution /\ n \in Nat
  BY <1>1 DEF RoundFacts, Register, Shape, Position
<1>3. a.disputer # NoAddress /\ d \in Int
  BY <1>2, BoundAssumption DEF PartiesOK
<1>4. /\ assertion' = assertion /\ custody' = custody + d
      /\ t = [r EXCEPT !.registration_deadline = deadline, !.eligible_total = total]
      /\ \A i \in Ids : i # id => SameRecords(i)
  BY <1>1 DEF Register, SameRecords
<1>5. /\ r.eligible_total \in Nat /\ r.withdrawn_total \in Nat
  BY <1>2 DEF LooseResolution
<1>6. total = r.eligible_total + d
  BY <1>2, <1>3, <1>5 DEF TotalAfter
<1> HIDE DEF total, deadline
<1>7. t.eligible_total = total /\ t.withdrawn_total = r.withdrawn_total
  BY <1>2, <1>4 DEF LooseResolution
<1>8. Owed(id) = r.eligible_total - r.withdrawn_total
  BY <1>3, Claims
<1>9. Owed(id)' = total - r.withdrawn_total
  BY <1>3, <1>4, <1>7, Claims
<1> QED
  BY <1>2, <1>3, <1>4, <1>5, <1>6, <1>8, <1>9

\* Opening, revealing and closing move no weight.
LEMMA RevealBalance ==
  ASSUME SettlementInv, DecisionInv', NEW id \in Ids, NEW v \in Address,
         NEW o \in Outcomes, Reveal(v, id, o)
  PROVE  /\ \A i \in Ids : i # id => SameRecords(i)
         /\ custody' - custody >= Owed(id)' - Owed(id)
<1> DEFINE a == assertion[id]
           r == resolution[id]
           s == RoundInReveal(id)
           side == IF o = s.a.outcome THEN "agree" ELSE "disagree"
           n == s.p[v].amount
           tally == Counted(s.r, side, n)
           c == CloseRevealIfReady(s.a, tally, FALSE)
<1>1. /\ RoundOK(a, r, position[id]) /\ PartiesOK(a)
      /\ r \in LooseResolution /\ now \in Nat /\ custody \in Nat
      /\ assertion \in [Ids -> AssertionV2]
      /\ resolution \in [Ids -> LooseResolution]
  BY FactsOfRound DEF RoundFacts, Shape
<1>2. /\ RegistrationOver(id) /\ s.p[v].agrees_with_outcome = "none"
      /\ assertion'[id] = c /\ resolution'[id] = tally /\ custody' = custody
      /\ \A i \in Ids : i # id => SameRecords(i)
  BY <1>1 DEF Reveal, SameRecords
<1>3. /\ RoundOK(s.a, s.r, s.p)
      /\ s.a.phase \in {"Reveal", "Resolved"} /\ s.a.disputer # NoAddress
      /\ s.r.eligible_total = r.eligible_total
  BY <1>1, <1>2, LazyOpening
<1>4. a.disputer # NoAddress
  BY <1>1, <1>2 DEF RegistrationOver, PartiesOK
<1>5. SameLedger(r, s.r)
  BY <1>1, OpeningLedger
<1>6. side \in {"agree", "disagree"}
  OBVIOUS
<1> HIDE DEF s, side
<1>7. SameClaim(s.a, c)
  BY <1>2, <1>3, <1>6, RevealResult
<1>8. SameLedger(s.r, tally) /\ tally.eligible_total = s.r.eligible_total
  BY <1>3, CountedLedger DEF Counted, RoundOK, LooseResolution
<1>9. /\ c.disputer # NoAddress /\ tally.eligible_total = r.eligible_total
      /\ tally.withdrawn_total = r.withdrawn_total
  BY <1>3, <1>5, <1>7, <1>8 DEF SameLedger, SameClaim
<1> HIDE DEF tally, c
<1> DEFINE x == r.eligible_total - r.withdrawn_total
<1>10. Owed(id) = x /\ Owed(id)' = x /\ x \in Int
  BY <1>1, <1>2, <1>4, <1>9, Claims DEF LooseResolution
<1> HIDE DEF x
<1> QED
  BY <1>1, <1>2, <1>10

LEMMA ResolveOutcomeBalance ==
  ASSUME SettlementInv, DecisionInv', NEW id \in Ids, ResolveOutcome(id)
  PROVE  /\ \A i \in Ids : i # id => SameRecords(i)
         /\ custody' - custody >= Owed(id)' - Owed(id)
<1> DEFINE a == assertion[id]
           r == resolution[id]
           s == RoundInReveal(id)
           c == IF s.a.phase = "Resolved" THEN s.a
                ELSE CloseRevealIfReady(s.a, s.r, TRUE)
<1>1. /\ RoundOK(a, r, position[id]) /\ PartiesOK(a)
      /\ r \in LooseResolution /\ now \in Nat /\ custody \in Nat
      /\ assertion \in [Ids -> AssertionV2]
      /\ resolution \in [Ids -> LooseResolution]
  BY FactsOfRound DEF RoundFacts, Shape
<1>2. /\ RegistrationOver(id)
      /\ assertion'[id] = c /\ resolution'[id] = s.r /\ custody' = custody
      /\ \A i \in Ids : i # id => SameRecords(i)
  BY <1>1 DEF ResolveOutcome, SameRecords
<1>3. /\ RoundOK(s.a, s.r, s.p)
      /\ s.a.phase \in {"Reveal", "Resolved"} /\ s.a.disputer # NoAddress
      /\ s.r.eligible_total = r.eligible_total
  BY <1>1, <1>2, LazyOpening
<1>4. a.disputer # NoAddress
  BY <1>1, <1>2 DEF RegistrationOver, PartiesOK
<1>5. SameLedger(r, s.r)
  BY <1>1, OpeningLedger
<1> HIDE DEF s
<1>6. c.disputer # NoAddress
  <2>1. /\ s.a \in AssertionV2 /\ s.r \in LooseResolution /\ PartiesOK(s.a)
        /\ CauseOK(s.a)
    BY <1>3 DEF RoundOK
  <2>2. s.a.phase # "Resolved" =>
          SameClaim(s.a, CloseRevealIfReady(s.a, s.r, TRUE))
    BY <1>3, <2>1, CloseResult
  <2> QED
    BY <1>3, <2>2 DEF SameClaim
<1> HIDE DEF c
<1> DEFINE x == r.eligible_total - r.withdrawn_total
<1>7. Owed(id) = x /\ Owed(id)' = x /\ x \in Int
  BY <1>1, <1>2, <1>3, <1>4, <1>5, <1>6, Claims DEF SameLedger, LooseResolution
<1> HIDE DEF x
<1> QED
  BY <1>1, <1>2, <1>7

\* A settlement only moves a round's claim into credits.
LEMMA SettleBalance ==
  ASSUME SettlementInv, NEW id \in Ids, NEW v \in Address, Settle(id, v)
  PROVE  /\ \A i \in Ids : i # id => SameRecords(i)
         /\ custody' - custody >= Owed(id)' - Owed(id)
<1> DEFINE r == resolution[id]
           t == resolution'[id]
<1>1. /\ r \in LooseResolution /\ custody \in Nat
      /\ resolution \in [Ids -> LooseResolution]
  BY FactsOfRound DEF Shape
<1>2. /\ assertion' = assertion /\ custody' = custody
      /\ \A i \in Ids : i # id => SameRecords(i)
  BY <1>1 DEF Settle, SettleRecipient, SettleForfeited, SameRecords
<1>3. t.eligible_total = r.eligible_total /\ t.withdrawn_total = r.withdrawn_total
  <2>1. CASE SettleForfeited(id, v)
    BY <2>1 DEF SettleForfeited
  <2>2. CASE SettleRecipient(id, v)
    <3> DEFINE x == Settlement(id, v)
    <3>1. t = [r EXCEPT !.settled_recipient_weight = x.settled_weight,
                        !.settled_reward_total = x.rewards,
                        !.outstanding_liability = @ + x.accrued]
      BY <1>1, <2>2 DEF SettleRecipient
    <3> HIDE DEF x
    <3> QED
      BY <1>1, <3>1 DEF LooseResolution
  <2> QED
    BY <2>1, <2>2 DEF Settle
<1>4. Owed(id)' = Owed(id)
  BY <1>2, <1>3, Claims
<1>5. Owed(id) \in Nat
  BY OwedType DEF NothingOwedBack
<1> QED
  BY <1>1, <1>2, <1>4, <1>5

\* A withdrawal lowers the round's claim by what it pays.
LEMMA WithdrawBalance ==
  ASSUME SettlementInv, NEW id \in Ids, NEW v \in Address,
         NEW dst \in Address \cup {Contract}, Withdraw(v, id, dst)
  PROVE  /\ \A i \in Ids : i # id => SameRecords(i)
         /\ custody' - custody >= Owed(id)' - Owed(id)
<1> DEFINE a == assertion[id]
           r == resolution[id]
           t == resolution'[id]
           n == credit[id][v]
<1>1. /\ RoundFacts(a, r, position[id], credit[id], paid[id])
      /\ resolution \in [Ids -> LooseResolution] /\ Shape
  BY FactsOfRound
<1>2. /\ r \in LooseResolution /\ custody \in Nat
      /\ AccountOK(a, r, position[id], credit[id], paid[id])
  BY <1>1 DEF RoundFacts, Shape
<1>3. /\ assertion' = assertion /\ custody' \in {custody, custody - n} /\ n > 0
      /\ t = [r EXCEPT !.outstanding_liability = @ - n, !.withdrawn_total = @ + n]
      /\ \A i \in Ids : i # id => SameRecords(i)
  BY <1>1 DEF Withdraw, SameRecords
<1>4. a.disputer # NoAddress /\ n \in Nat
  BY <1>2, <1>3 DEF AccountOK
<1>5. t.eligible_total = r.eligible_total /\ t.withdrawn_total = r.withdrawn_total + n
  BY <1>2, <1>3 DEF LooseResolution
<1>6. /\ Owed(id) = r.eligible_total - r.withdrawn_total
      /\ Owed(id)' = r.eligible_total - (r.withdrawn_total + n)
  BY <1>3, <1>4, <1>5, Claims
<1>7. r.eligible_total \in Nat /\ r.withdrawn_total \in Nat
  BY <1>2 DEF LooseResolution
<1> HIDE DEF n
<1> QED
  BY <1>2, <1>3, <1>4, <1>6, <1>7

-----------------------------------------------------------------------------
LEMMA InitSolvency == Init => SolvencyInv
<1> SUFFICES ASSUME Init PROVE Solvency
  BY InitSettlement DEF SolvencyInv
<1>1. \A id \in Ids : Owed(id) = 0
  BY DEF Init, Owed, Disputed, NoAssertion
<1>2. [id \in Ids |-> Owed(id)] \in [Ids -> Nat]
  BY <1>1
<1>3. Total([id \in Ids |-> Owed(id)]) = 0
  <2> DEFINE f == [id \in Ids |-> Owed(id)]
  <2>1. f \in [Ids -> Nat] /\ \A id \in Ids : f[id] = 0
    BY <1>1, <1>2
  <2> HIDE DEF f
  <2>2. Total(f) = 0
    BY <2>1, TotalOfZero
  <2> QED
    BY <2>2 DEF f
<1> QED
  BY <1>3 DEF Init, Solvency

\* SolvencyInv is inductive.
LEMMA SolvencyStep == SolvencyInv /\ [Next]_vars => SolvencyInv'
<1> SUFFICES ASSUME SolvencyInv, [Next]_vars PROVE Solvency'
  BY SettlementStep DEF SolvencyInv
<1>1. SettlementInv /\ Solvency /\ Shape /\ DecisionInv
  BY DEF SolvencyInv, SettlementInv, DecisionInv, StructureInv
<1>2. SettlementInv' /\ DecisionInv'
  BY <1>1, SettlementStep, DecisionStep
<1>3. CASE \/ \E k \in AdminKeys, p \in CandidatePolicies : Initialize(k, p)
           \/ \E k \in AdminKeys, n \in AdminKeys : SetAdmin(k, n)
           \/ \E k \in AdminKeys, b \in BOOLEAN : SetPaused(k, b)
           \/ Tick \/ UNCHANGED vars
  BY <1>1, <1>3 DEF Initialize, SetAdmin, SetPaused, Tick, vars, Solvency, Owed,
     Disputed
<1>4. CASE \E v \in Address, o \in Outcomes : AssertOutcome(v, o)
  <2>1. PICK v \in Address, o \in Outcomes : AssertOutcome(v, o)
    BY <1>4
  <2>2. next_id \in Ids
    BY <1>1, <2>1, BoundAssumption DEF AssertOutcome, Shape, Ids
  <2>3. PICK id \in Ids : id = next_id
    BY <2>2
  <2>4. /\ \A i \in Ids : i # id => SameRecords(i)
        /\ custody' - custody >= Owed(id)' - Owed(id)
    BY <1>1, <2>1, <2>3, AssertOutcomeBalance
  <2> QED
    BY <1>1, <1>2, <2>4, Balance
<1>5. CASE \E k \in AdminKeys, id \in Ids : CancelRound(k, id)
  BY <1>1, <1>2, <1>5, CancelRoundBalance, Balance
<1>6. ASSUME NEW id \in Ids, RoundNext(id) PROVE Solvency'
  <2>1. CASE \E v \in Address : Finalize(v, id)
    BY <1>1, <1>2, <2>1, FinalizeBalance, Balance
  <2>2. CASE \E v \in Address : Dispute(v, id)
    BY <1>1, <1>2, <2>2, DisputeBalance, Balance
  <2>3. CASE \E v \in Address, d \in Deposits, o \in Outcomes : Register(v, id, d, o)
    BY <1>1, <1>2, <2>3, RegisterBalance, Balance
  <2>4. CASE \E v \in Address, o \in Outcomes : Reveal(v, id, o)
    BY <1>1, <1>2, <2>4, RevealBalance, Balance
  <2>5. CASE ResolveOutcome(id)
    BY <1>1, <1>2, <2>5, ResolveOutcomeBalance, Balance
  <2>6. CASE \E v \in Address : Settle(id, v)
    BY <1>1, <1>2, <2>6, SettleBalance, Balance
  <2>7. CASE \E v \in Address, d \in Address \cup {Contract} : Withdraw(v, id, d)
    BY <1>1, <1>2, <2>7, WithdrawBalance, Balance
  <2> QED
    BY <1>6, <2>1, <2>2, <2>3, <2>4, <2>5, <2>6, <2>7 DEF RoundNext
<1> QED
  BY <1>3, <1>4, <1>5, <1>6 DEF Next, AdminNext

\* However many assertions share the balance, and whatever their phases, the
\* contract holds at least what it still owes on all of them together.
THEOREM AlwaysSolvent == Spec => []Solvency
<1>1. SolvencyInv => Solvency
  BY DEF SolvencyInv
<1> QED
  BY <1>1, InitSolvency, SolvencyStep, PTL DEF Spec

-----------------------------------------------------------------------------
(* Entitlements: what each address was credited or paid, whatever the      *)
(* order of settlements and withdrawals.                                   *)

\* What a position is worth to its owner so far: nothing before it is
\* settled, and nothing ever when it is forfeited.
Share(a, r, q) ==
  LET cause == a.terminal_cause
  IN IF q.settled /\ IsRecipient(cause, q)
     THEN q.amount + Reward(q.amount, ForfeitedPool(cause, r),
                            RecipientWeight(cause, r))
     ELSE 0

\* What rounding left over, once the last recipient is settled.
Remainder(a, r) ==
  DustOf(RecipientWeight(a.terminal_cause, r), ForfeitedPool(a.terminal_cause, r),
         r.settled_recipient_weight, r.settled_reward_total)

EntitledOK(a, r, p, c, w) ==
  \A v \in Address :
    c[v] + w[v] = Share(a, r, p[v])
                  + (IF v = DustRecipient(a) THEN Remainder(a, r) ELSE 0)

\* A dispute that was decided by its votes has shown its parties' positions,
\* the asserter's with the outcome and the disputer's against it.
PartiesShown(a, p) ==
  a.phase = "Reveal" \/ (a.phase = "Resolved" /\ a.terminal_cause # "AdminCancelled")
    => /\ p[a.asserter].agrees_with_outcome = "agree"
       /\ p[a.disputer].agrees_with_outcome = "disagree"

EntitlementOK(a, r, p, c, w) ==
  a.disputer # NoAddress =>
    /\ a.phase = "Resolved" => EntitledOK(a, r, p, c, w)
    /\ PartiesShown(a, p)

EntitlementInv ==
  /\ SettlementInv
  /\ \A id \in Ids :
       EntitlementOK(assertion[id], resolution[id], position[id], credit[id], paid[id])

\* The figures of a resolved dispute.
LEMMA ResolvedFigures ==
  ASSUME NEW a, NEW r, NEW p, NEW c, NEW w, RoundFacts(a, r, p, c, w),
         a.phase = "Resolved", a.disputer # NoAddress
  PROVE  LET cause == a.terminal_cause
             weight == RecipientWeight(cause, r)
             pool == ForfeitedPool(cause, r)
         IN /\ weight \in Nat /\ weight > 0 /\ pool \in Nat
            /\ weight + pool = r.eligible_total
            /\ r.settled_recipient_weight = Total(SettledOf(cause, p))
            /\ Remainder(a, r) \in Nat
            /\ \A v \in Address : Share(a, r, p[v]) \in Nat
<1> DEFINE cause == a.terminal_cause
           weight == RecipientWeight(cause, r)
           pool == ForfeitedPool(cause, r)
           s == r.settled_recipient_weight
           y == r.settled_reward_total
<1>1. /\ a \in AssertionV2 /\ CauseOK(a) /\ DecisionOK(a, r)
      /\ AccountOK(a, r, p, c, w)
      /\ r \in LooseResolution /\ p \in [Address -> Position] /\ TalliesOK(r, p)
  BY DEF RoundFacts
<1>2. y \in Nat /\ r.eligible_total > 0 /\ SettledOK(a, r, p, w)
  BY <1>1 DEF AccountOK
<1>3. s = Total(SettledOf(cause, p)) /\ weight * y <= pool * s
  BY <1>2 DEF SettledOK
<1>4. /\ weight = Total(RecipientOf(cause, p)) /\ weight \in Nat /\ pool \in Nat
      /\ weight + pool = r.eligible_total
  BY <1>1, PoolOfTallies
<1>5. weight > 0
  BY <1>1, <1>2, PoolHasRecipients
<1>6. s \in Nat /\ s <= weight
  BY <1>1, <1>3, <1>4, SettledWithinRecipients
<1>7. ASSUME NEW v \in Address PROVE Share(a, r, p[v]) \in Nat
  <2>1. p[v].amount \in Nat
    BY <1>1 DEF Position
  <2>2. Reward(p[v].amount, pool, weight) \in Nat
    BY <1>4, <1>5, <2>1, RewardBound
  <2> QED
    BY <2>1, <2>2 DEF Share
<1> HIDE DEF weight, pool, s, y
<1>8. y <= pool
  BY <1>2, <1>3, <1>4, <1>5, <1>6, RewardsWithinPool
<1>9. Remainder(a, r) = DustOf(weight, pool, s, y)
  BY DEF Remainder, weight, pool, s, y
<1>10. Remainder(a, r) \in Nat
  BY <1>2, <1>4, <1>8, <1>9 DEF DustOf
<1> QED
  BY <1>3, <1>4, <1>5, <1>7, <1>10 DEF weight, pool, s

\* Just resolved: nothing is settled, so nobody is owed a credit yet.
LEMMA FreshEntitled ==
  ASSUME NEW a, NEW r, NEW p, NEW c, NEW w, RoundFacts(a, r, p, c, w),
         a.phase = "Resolved", a.disputer # NoAddress, NoneSettled(p),
         \A v \in Address : c[v] = 0 /\ w[v] = 0
  PROVE  EntitledOK(a, r, p, c, w)
<1> DEFINE cause == a.terminal_cause
<1>1. /\ RecipientWeight(cause, r) > 0
      /\ r.settled_recipient_weight = Total(SettledOf(cause, p))
  BY ResolvedFigures
<1>2. Total(SettledOf(cause, p)) = 0
  <2>1. SettledOf(cause, p) \in [Address -> Nat]
    BY RecipientTypes DEF RoundFacts
  <2>2. \A v \in Address : SettledOf(cause, p)[v] = 0
    BY DEF SettledOf, NoneSettled
  <2> QED
    BY <2>1, <2>2, NothingIsNothing
<1>3. Remainder(a, r) = 0
  BY <1>1, <1>2 DEF Remainder, DustOf, IsLast
<1>4. \A v \in Address : Share(a, r, p[v]) = 0
  BY DEF Share, NoneSettled
<1> QED
  BY <1>3, <1>4 DEF EntitledOK

\* What u gets of an amount that goes to v.
Gain(u, v, amount) == IF u = v THEN amount ELSE 0

\* A settlement credits the position's share, and the remainder if it is the
\* last: before it the remainder was nothing.
LEMMA SettlementEntitled ==
  ASSUME NEW a, NEW r, NEW p, NEW c, NEW w, RoundFacts(a, r, p, c, w),
         NEW v \in Address, NEW weight, NEW pool, NEW n, NEW z, NEW s, NEW y,
         NEW dust, NEW t, a.phase = "Resolved",
         RecipientStep(a, r, p, v, weight, pool, n, z, s, y, dust, t),
         EntitledOK(a, r, p, c, w)
  PROVE  EntitledOK(a, t, MarkSettled(p, v),
                    CreditBoth(c, DustRecipient(a), dust, v, n + z), w)
<1> DEFINE cause == a.terminal_cause
           d == DustRecipient(a)
           q == MarkSettled(p, v)
           x == n + z
           c2 == CreditBoth(c, d, dust, v, x)
<1>1. /\ p[v].kind # "None" /\ ~p[v].settled /\ IsRecipient(cause, p[v])
      /\ weight = RecipientWeight(cause, r) /\ pool = ForfeitedPool(cause, r)
      /\ n = p[v].amount /\ z = Reward(n, pool, weight)
      /\ s = r.settled_recipient_weight /\ y = r.settled_reward_total
      /\ dust = DustOf(weight, pool, s + n, y + z)
      /\ t.eligible_total = r.eligible_total
      /\ t.agree_weight = r.agree_weight /\ t.disagree_weight = r.disagree_weight
      /\ t.settled_recipient_weight = s + n /\ t.settled_reward_total = y + z
  BY DEF RecipientStep
<1>2. /\ s \in Nat /\ n \in Nat /\ n > 0 /\ z \in Nat /\ dust \in Nat /\ weight \in Nat
      /\ Total(SettledOf(cause, q)) = s + n
  BY RecipientStepFigures
<1>3. /\ RoundOK(a, r, p) /\ AccountOK(a, r, p, c, w)
      /\ r \in LooseResolution /\ p \in [Address -> Position] /\ TalliesOK(r, p)
  BY DEF RoundFacts
<1>4. d \in Address
  BY <1>1, <1>3, PositionsAreDisputed
<1>5. c \in [Address -> Nat] /\ w \in [Address -> Nat]
  BY <1>3 DEF AccountOK
<1>6. Remainder(a, r) = 0
  <2>1. Total(SettledOf(cause, q)) <= RecipientWeight(cause, r)
    BY <1>1, <1>3, SettledWeight
  <2>2. s # weight
    BY <1>1, <1>2, <2>1
  <2> QED
    BY <1>1, <2>2 DEF Remainder, DustOf, IsLast
<1>7. RecipientWeight(cause, t) = weight /\ ForfeitedPool(cause, t) = pool
  BY <1>1 DEF RecipientWeight, ForfeitedPool, RevealedWeight
<1>8. Remainder(a, t) = dust
  BY <1>1, <1>7 DEF Remainder
<1>9. \A u \in Address : u # v => Share(a, t, q[u]) = Share(a, r, p[u])
  BY <1>1, <1>3, <1>7 DEF Share, MarkSettled
<1>10. Share(a, r, p[v]) = 0 /\ Share(a, t, q[v]) = x
  <2>1. q[v].settled /\ q[v].amount = n /\ IsRecipient(cause, q[v])
    BY <1>1, <1>3 DEF MarkSettled, Position, IsRecipient
  <2> QED
    BY <1>1, <1>7, <2>1 DEF Share
<1>11. x \in Nat
  BY <1>2
<1>12. \A u \in Address : c[u] + w[u] = Share(a, r, p[u])
  <2> SUFFICES ASSUME NEW u \in Address PROVE c[u] + w[u] = Share(a, r, p[u])
    OBVIOUS
  <2>1. c[u] + w[u] = Share(a, r, p[u]) + 0
    BY <1>6 DEF EntitledOK
  <2>2. Share(a, r, p[u]) \in Nat
    <3>1. a.disputer # NoAddress
      <4>1. a.disputer \in Address
        BY <1>1, <1>3, PositionsAreDisputed
      <4> QED
        BY <4>1, AddressAssumption
    <3> QED
      BY <3>1, ResolvedFigures
  <2> QED
    BY <2>1, <2>2
<1> HIDE DEF cause, d, q, x
<1>13. \A u \in Address :
             c2[u] = c[u] + Gain(u, d, dust) + Gain(u, v, x)
  <2>1. c \in [Address -> Nat] /\ d \in Address /\ dust \in Nat /\ x \in Nat
    BY <1>2, <1>4, <1>5, <1>11
  <2>2. \A u \in Address : CreditBoth(c, d, dust, v, x)[u]
           = c[u] + Gain(u, d, dust) + Gain(u, v, x)
    BY <2>1 DEF CreditBoth, Plus, Gain
  <2> QED
    BY <2>2
<1>14. ASSUME NEW u \in Address
       PROVE  c2[u] + w[u] = Share(a, t, q[u]) + (IF u = d THEN dust ELSE 0)
  <2>1. c2[u] = c[u] + Gain(u, d, dust) + Gain(u, v, x)
    BY <1>13
  <2>2. c[u] \in Nat /\ w[u] \in Nat
    BY <1>5
  <2> HIDE DEF c2
  <2>3. CASE u = v
    <3>1. c[u] + w[u] = 0
      BY <1>10, <1>12, <2>3
    <3> QED
      BY <1>2, <1>10, <1>11, <2>1, <2>2, <2>3, <3>1 DEF Gain
  <2>4. CASE u # v
    <3>1. c[u] + w[u] = Share(a, t, q[u])
      BY <1>9, <1>12, <2>4
    <3> QED
      BY <1>2, <2>1, <2>2, <2>4, <3>1 DEF Gain
  <2> QED
    BY <2>3, <2>4
<1> QED
  BY <1>8, <1>14 DEF EntitledOK, c2, d, q, x

\* A round whose weights and rewards are the same has the same entitlements.
SameFigures(r, t) ==
  /\ t.eligible_total = r.eligible_total
  /\ t.agree_weight = r.agree_weight /\ t.disagree_weight = r.disagree_weight
  /\ t.settled_recipient_weight = r.settled_recipient_weight
  /\ t.settled_reward_total = r.settled_reward_total

LEMMA SameEntitlements ==
  ASSUME NEW a, NEW r, NEW t, SameFigures(r, t), NEW q
  PROVE  Remainder(a, t) = Remainder(a, r) /\ Share(a, t, q) = Share(a, r, q)
<1>1. /\ RecipientWeight(a.terminal_cause, t) = RecipientWeight(a.terminal_cause, r)
      /\ ForfeitedPool(a.terminal_cause, t) = ForfeitedPool(a.terminal_cause, r)
  BY DEF SameFigures, RecipientWeight, ForfeitedPool, RevealedWeight
<1> QED
  BY <1>1 DEF SameFigures, Remainder, Share

\* Settling a forfeited position credits nothing and entitles to nothing.
LEMMA ForfeitEntitled ==
  ASSUME NEW a, NEW r, NEW p \in [Address -> Position], NEW c, NEW w,
         NEW v \in Address, ~p[v].settled, ~IsRecipient(a.terminal_cause, p[v]),
         EntitledOK(a, r, p, c, w)
  PROVE  EntitledOK(a, r, MarkSettled(p, v), c, w)
<1> DEFINE q == MarkSettled(p, v)
<1>1. \A u \in Address : u # v => q[u] = p[u]
  BY DEF MarkSettled
<1>2. Share(a, r, p[v]) = 0
  BY DEF Share
<1>3. Share(a, r, q[v]) = 0
  <2>1. q[v].agrees_with_outcome = p[v].agrees_with_outcome
    BY DEF MarkSettled, Position
  <2>2. ~IsRecipient(a.terminal_cause, q[v])
    BY <2>1 DEF IsRecipient
  <2> QED
    BY <2>2 DEF Share
<1> QED
  BY <1>1, <1>2, <1>3 DEF EntitledOK

\* A withdrawal moves an amount from the credit to what was paid.
LEMMA WithdrawalEntitled ==
  ASSUME NEW a, NEW r, NEW t, SameFigures(r, t), NEW p,
         NEW c \in [Address -> Nat], NEW w \in [Address -> Nat], NEW v \in Address,
         EntitledOK(a, r, p, c, w)
  PROVE  EntitledOK(a, t, p, [c EXCEPT ![v] = 0], Plus(w, v, c[v]))
<1>1. ASSUME NEW u \in Address
      PROVE  [c EXCEPT ![v] = 0][u] + Plus(w, v, c[v])[u] = c[u] + w[u]
  BY DEF Plus
<1>2. /\ Remainder(a, t) = Remainder(a, r)
      /\ \A u \in Address : Share(a, t, p[u]) = Share(a, r, p[u])
  BY SameEntitlements
<1> QED
  BY <1>1, <1>2 DEF EntitledOK

-----------------------------------------------------------------------------
(* Each action keeps the entitlements.                                     *)

\* A reveal or a closing settles nothing.
LEMMA RevealKeepsBonds ==
  ASSUME SettlementInv, NEW id \in Ids,
         \/ ResolveOutcome(id)
         \/ \E v \in Address, o \in Outcomes : Reveal(v, id, o)
  PROVE  /\ RegistrationOver(id)
         /\ SameBonds(position[id], position'[id])
         /\ credit'[id] = credit[id] /\ paid'[id] = paid[id]
         /\ \A u \in Address :
              RoundInReveal(id).p[u].agrees_with_outcome # "none" =>
                position'[id][u].agrees_with_outcome
                  = RoundInReveal(id).p[u].agrees_with_outcome
<1> DEFINE s == RoundInReveal(id)
<1>1. /\ RoundOK(assertion[id], resolution[id], position[id]) /\ now \in Nat
      /\ position \in [Ids -> [Address -> Position]]
  BY FactsOfRound DEF RoundFacts
<1>2. RegistrationOver(id)
  BY DEF ResolveOutcome, Reveal
<1>3. SameBonds(position[id], s.p) /\ s.p \in [Address -> Position]
  BY <1>1, <1>2, LazyOpening DEF RoundOK
<1>4. CASE ResolveOutcome(id)
  <2>1. /\ position'[id] = s.p
        /\ credit'[id] = credit[id] /\ paid'[id] = paid[id]
    BY <1>1, <1>4 DEF ResolveOutcome
  <2> QED
    BY <1>2, <1>3, <2>1
<1>5. ASSUME NEW v \in Address, NEW o \in Outcomes, Reveal(v, id, o)
      PROVE  /\ SameBonds(position[id], position'[id])
             /\ credit'[id] = credit[id] /\ paid'[id] = paid[id]
             /\ \A u \in Address : s.p[u].agrees_with_outcome # "none" =>
                  position'[id][u].agrees_with_outcome = s.p[u].agrees_with_outcome
  <2> DEFINE side == IF o = s.a.outcome THEN "agree" ELSE "disagree"
             q == ShowAt(s.p, v, side)
  <2>1. /\ s.p[v].agrees_with_outcome = "none" /\ position'[id] = q
        /\ credit'[id] = credit[id] /\ paid'[id] = paid[id]
    BY <1>1, <1>5 DEF Reveal, ShowAt
  <2>2. side \in {"agree", "disagree"}
    OBVIOUS
  <2> HIDE DEF s, side
  <2>3. /\ SameBonds(s.p, q) /\ \A u \in Address : u # v => q[u] = s.p[u]
    BY <1>3, <2>1, <2>2, ShowTallies
  <2> HIDE DEF q
  <2> QED
    BY <1>3, <2>1, <2>3 DEF SameBonds
<1> QED
  BY <1>2, <1>4, <1>5

\* The lazy opening shows the parties' positions.
LEMMA OpeningShowsParties ==
  ASSUME SettlementInv, NEW id \in Ids, RegistrationOver(id),
         PartiesShown(assertion[id], position[id])
  PROVE  LET s == RoundInReveal(id) IN
         /\ s.a.asserter = assertion[id].asserter
         /\ s.a.disputer = assertion[id].disputer
         /\ s.a.asserter \in Address /\ s.a.disputer \in Address
         /\ s.p[s.a.asserter].agrees_with_outcome = "agree"
         /\ s.p[s.a.disputer].agrees_with_outcome = "disagree"
<1> DEFINE s == RoundInReveal(id)
           a == assertion[id]
           p == position[id]
<1>1. /\ RoundOK(a, resolution[id], p) /\ now \in Nat
      /\ a \in AssertionV2 /\ PartiesOK(a) /\ p \in [Address -> Position]
  BY FactsOfRound DEF RoundFacts
<1>2. SameClaim(a, s.a)
  BY <1>1, LazyOpening
<1>3. a.asserter \in Address /\ a.disputer \in Address
  BY <1>1 DEF RegistrationOver, PartiesOK, AssertionV2
<1>4. a.asserter # a.disputer
  BY <1>1 DEF RegistrationOver, PartiesOK
<1>5. CASE a.phase = "Reveal"
  <2>1. s.p = p
    BY <1>5 DEF RoundInReveal
  <2> QED
    BY <1>2, <1>3, <1>5, <2>1 DEF SameClaim, PartiesShown
<1>6. CASE a.phase = "Registration"
  <2>1. s.p = [p EXCEPT ![a.asserter] = Show(@, "agree"),
                        ![a.disputer] = Show(@, "disagree")]
    BY <1>6 DEF RoundInReveal, OpenRevealPhase
  <2>2. /\ s.p[a.asserter].agrees_with_outcome = "agree"
        /\ s.p[a.disputer].agrees_with_outcome = "disagree"
    <3> HIDE DEF s, a
    <3>1. \A x \in Position : Show(x, "agree").agrees_with_outcome = "agree"
      BY DEF Show, Position
    <3>2. \A x \in Position : Show(x, "disagree").agrees_with_outcome = "disagree"
      BY DEF Show, Position
    <3> QED
      BY <1>1, <1>3, <1>4, <2>1, <3>1, <3>2
  <2> QED
    BY <1>2, <1>3, <2>2 DEF SameClaim
<1> QED
  BY <1>5, <1>6 DEF RegistrationOver

LEMMA FactsAfter ==
  ASSUME SettlementInv', NEW id \in Ids
  PROVE  /\ RoundFacts(assertion'[id], resolution'[id], position'[id],
                       credit'[id], paid'[id])
         /\ assertion' \in [Ids -> AssertionV2]
BY DEF SettlementInv, DecisionInv, StructureInv, Shape, RoundOK, RoundFacts

\* A step that resolves a dispute finds it without credits.
LEMMA ResolvingStep ==
  ASSUME SettlementInv, SettlementInv', NEW id \in Ids,
         assertion[id].phase # "Resolved", assertion'[id].phase = "Resolved",
         assertion'[id].disputer # NoAddress,
         SameBonds(position[id], position'[id]),
         credit'[id] = credit[id], paid'[id] = paid[id]
  PROVE  EntitledOK(assertion'[id], resolution'[id], position'[id], credit'[id],
                    paid'[id])
<1>1. RoundFacts(assertion[id], resolution[id], position[id], credit[id], paid[id])
  BY FactsOfRound
<1>2. RoundFacts(assertion'[id], resolution'[id], position'[id], credit'[id], paid'[id])
  BY FactsAfter
<1>3. /\ NoneSettled(position'[id])
      /\ \A v \in Address : credit'[id][v] = 0 /\ paid'[id][v] = 0
  BY <1>1 DEF RoundFacts, AccountOK, Untouched, NoneSettled, SameBonds
<1> QED
  BY <1>2, <1>3, FreshEntitled

LEMMA VoteEntitlement ==
  ASSUME EntitlementInv, SettlementInv', [Next]_vars, NEW id \in Ids,
         \/ ResolveOutcome(id)
         \/ \E v \in Address, o \in Outcomes : Reveal(v, id, o)
  PROVE  EntitlementOK(assertion'[id], resolution'[id], position'[id], credit'[id],
                       paid'[id])
<1> DEFINE a == assertion[id]
           b == assertion'[id]
           s == RoundInReveal(id)
<1>1. /\ SettlementInv /\ StructureInv
      /\ EntitlementOK(a, resolution[id], position[id], credit[id], paid[id])
  BY DEF EntitlementInv, SettlementInv, DecisionInv
<1>2. /\ RegistrationOver(id)
      /\ SameBonds(position[id], position'[id])
      /\ credit'[id] = credit[id] /\ paid'[id] = paid[id]
      /\ \A u \in Address : s.p[u].agrees_with_outcome # "none" =>
           position'[id][u].agrees_with_outcome = s.p[u].agrees_with_outcome
  BY <1>1, RevealKeepsBonds
<1>3. PartiesOK(a) /\ a.phase \in {"Registration", "Reveal"}
  BY <1>1, <1>2, FactsOfRound DEF RoundFacts, RegistrationOver
<1>4. a.disputer # NoAddress
  BY <1>3 DEF PartiesOK
<1>5. b.asserter = a.asserter /\ b.disputer = a.disputer
  BY <1>1, <1>3, <1>4, RoundStepIsFinal DEF FinalStep
<1>6. b.phase = "Resolved" =>
        EntitledOK(b, resolution'[id], position'[id], credit'[id], paid'[id])
  BY <1>1, <1>2, <1>3, <1>4, <1>5, ResolvingStep
<1>7. PartiesShown(a, position[id])
  BY <1>1, <1>4 DEF EntitlementOK
<1>8. PartiesShown(b, position'[id])
  <2>1. /\ s.a.asserter = a.asserter /\ s.a.disputer = a.disputer
        /\ s.a.asserter \in Address /\ s.a.disputer \in Address
        /\ s.p[s.a.asserter].agrees_with_outcome = "agree"
        /\ s.p[s.a.disputer].agrees_with_outcome = "disagree"
    BY <1>1, <1>2, <1>7, OpeningShowsParties
  <2> HIDE DEF s, a, b
  <2> QED
    BY <1>2, <1>5, <2>1 DEF PartiesShown
<1> QED
  BY <1>6, <1>8 DEF EntitlementOK

LEMMA CancelRoundEntitlement ==
  ASSUME EntitlementInv, SettlementInv', NEW id \in Ids, NEW k \in AdminKeys,
         CancelRound(k, id)
  PROVE  EntitlementOK(assertion'[id], resolution'[id], position'[id], credit'[id],
                       paid'[id])
<1> DEFINE a == assertion[id]
           b == assertion'[id]
<1>1. SettlementInv
  BY DEF EntitlementInv
<1>2. /\ a \in AssertionV2 /\ PartiesOK(a) /\ CauseOK(a)
      /\ assertion \in [Ids -> AssertionV2] /\ paid \in [Ids -> [Address -> Nat]]
  BY <1>1, FactsOfRound DEF RoundFacts
<1>3. /\ b = [a EXCEPT !.phase = "Resolved", !.terminal_cause = "AdminCancelled"]
      /\ a.phase # "Absent" /\ a.terminal_cause = "NotYetDecided"
      /\ position'[id] = position[id] /\ credit'[id] = credit[id]
  BY <1>2 DEF CancelRound, Undecided
<1>4. /\ b.phase = "Resolved" /\ b.terminal_cause = "AdminCancelled"
      /\ b.disputer = a.disputer /\ a.phase # "Resolved"
  BY <1>2, <1>3 DEF AssertionV2, CauseOK
<1>5. SUFFICES ASSUME a.disputer # NoAddress
      PROVE  EntitledOK(b, resolution'[id], position'[id], credit'[id], paid'[id])
  BY <1>4 DEF EntitlementOK, PartiesShown
<1>6. paid'[id] = paid[id]
  <2>1. a.asserter \in Address /\ a.phase # "Pending"
    BY <1>2, <1>3, <1>5 DEF PartiesOK
  <2> QED
    BY <1>2, <2>1 DEF CancelRound, Plus
<1>7. SameBonds(position[id], position'[id])
  BY <1>3 DEF SameBonds
<1> QED
  BY <1>1, <1>3, <1>4, <1>5, <1>6, <1>7, ResolvingStep

\* A round that is not resolved after a step has its parties still hidden.
LEMMA EarlyEntitlement ==
  ASSUME NEW b, NEW t, NEW q, NEW c, NEW w,
         b.phase \in {"Pending", "Registration"} \/ b.disputer = NoAddress
  PROVE  EntitlementOK(b, t, q, c, w)
BY DEF EntitlementOK, PartiesShown

LEMMA OptimisticEntitlement ==
  ASSUME EntitlementInv, SettlementInv', NEW id \in Ids,
         \/ id = next_id /\ \E v \in Address, o \in Outcomes : AssertOutcome(v, o)
         \/ \E v \in Address : Finalize(v, id)
         \/ \E v \in Address : Dispute(v, id)
         \/ \E v \in Address, d \in Deposits, o \in Outcomes : Register(v, id, d, o)
  PROVE  EntitlementOK(assertion'[id], resolution'[id], position'[id], credit'[id],
                       paid'[id])
<1> DEFINE a == assertion[id]
           b == assertion'[id]
<1>1. a \in AssertionV2 /\ PartiesOK(a) /\ assertion \in [Ids -> AssertionV2]
  BY FactsOfRound DEF EntitlementInv, RoundFacts
<1>2. CASE id = next_id /\ \E v \in Address, o \in Outcomes : AssertOutcome(v, o)
  BY <1>1, <1>2, EarlyEntitlement DEF AssertOutcome, NoAssertion
<1>3. CASE \E v \in Address : Finalize(v, id)
  <2>1. a.phase = "Pending"
    BY <1>3 DEF Finalize
  <2>2. a.disputer = NoAddress
    BY <1>1, <2>1 DEF PartiesOK
  <2>3. b.disputer = a.disputer
    BY <1>1, <1>3 DEF Finalize, AssertionV2
  <2> QED
    BY <2>2, <2>3, EarlyEntitlement
<1>4. CASE \E v \in Address : Dispute(v, id)
  <2>1. b.phase = "Registration"
    BY <1>1, <1>4, ZenonT(60) DEF Dispute, AssertionV2
  <2> QED
    BY <2>1, EarlyEntitlement
<1>5. CASE \E v \in Address, d \in Deposits, o \in Outcomes : Register(v, id, d, o)
  <2>1. b.phase = "Registration"
    BY <1>5 DEF Register
  <2> QED
    BY <2>1, EarlyEntitlement
<1> QED
  BY <1>2, <1>3, <1>4, <1>5

LEMMA SettleEntitlement ==
  ASSUME EntitlementInv, NEW id \in Ids, NEW v \in Address, Settle(id, v)
  PROVE  EntitlementOK(assertion'[id], resolution'[id], position'[id], credit'[id],
                       paid'[id])
<1> DEFINE a == assertion[id]
           r == resolution[id]
           p == position[id]
           c == credit[id]
           w == paid[id]
           q == MarkSettled(p, v)
<1>1. /\ SettlementInv /\ RoundFacts(a, r, p, c, w) /\ EntitlementOK(a, r, p, c, w)
      /\ p \in [Address -> Position] /\ r \in LooseResolution
      /\ assertion \in [Ids -> AssertionV2]
      /\ resolution \in [Ids -> LooseResolution]
      /\ position \in [Ids -> [Address -> Position]]
      /\ credit \in [Ids -> [Address -> Int]]
  BY FactsOfRound DEF EntitlementInv, RoundFacts
<1>2. a.phase = "Resolved" /\ ~p[v].settled /\ p[v].kind # "None"
  BY DEF Settle, SettleRecipient, SettleForfeited, Settleable
<1>3. a.disputer # NoAddress
  <2>1. RoundOK(a, r, p)
    BY <1>1 DEF RoundFacts
  <2>2. a.disputer \in Address
    BY <1>2, <2>1, PositionsAreDisputed
  <2> QED
    BY <2>2, AddressAssumption
<1>4. EntitledOK(a, r, p, c, w) /\ PartiesShown(a, p)
  BY <1>1, <1>2, <1>3 DEF EntitlementOK
<1>5. assertion'[id] = a /\ position'[id] = q /\ paid'[id] = w
  BY <1>1 DEF Settle, SettleRecipient, SettleForfeited, MarkSettled
<1>6. PartiesShown(a, q)
  <2>1. \A u \in Address : q[u].agrees_with_outcome = p[u].agrees_with_outcome
    BY <1>1 DEF MarkSettled, Position
  <2>2. a.asserter \in Address /\ a.disputer \in Address
    BY <1>1, <1>2, <1>3 DEF RoundFacts, PartiesOK, AssertionV2
  <2> HIDE DEF a, p, q
  <2> QED
    BY <1>4, <2>1, <2>2 DEF PartiesShown
<1>7. CASE SettleForfeited(id, v)
  <2>1. /\ ~IsRecipient(a.terminal_cause, p[v])
        /\ resolution'[id] = r /\ credit'[id] = c
    BY <1>7 DEF SettleForfeited
  <2>2. EntitledOK(a, r, q, c, w)
    BY <1>1, <1>2, <1>4, <2>1, ForfeitEntitled
  <2> QED
    BY <1>5, <1>6, <2>1, <2>2 DEF EntitlementOK
<1>8. CASE SettleRecipient(id, v)
  <2> DEFINE weight == RecipientWeight(a.terminal_cause, r)
             pool == ForfeitedPool(a.terminal_cause, r)
             n == p[v].amount
             z == Reward(n, pool, weight)
             s == r.settled_recipient_weight
             y == r.settled_reward_total
             dust == DustOf(weight, pool, s + n, y + z)
             accrued == Accrued(n, z, dust)
             t == [r EXCEPT !.settled_recipient_weight = s + n,
                            !.settled_reward_total = y + z,
                            !.outstanding_liability = @ + accrued]
  <2>1. IsRecipient(a.terminal_cause, p[v]) /\ weight > 0
    BY <1>8 DEF SettleRecipient, SettleInRange
  <2>2. Settlement(id, v) =
          [weight |-> weight, product |-> n * pool, payout |-> n + z,
           settled_weight |-> s + n, rewards |-> y + z, dust |-> dust,
           accrued |-> accrued]
    BY DEF Settlement, DustOf
  <2>3. /\ resolution'[id] = [r EXCEPT
              !.settled_recipient_weight = Settlement(id, v).settled_weight,
              !.settled_reward_total = Settlement(id, v).rewards,
              !.outstanding_liability = @ + Settlement(id, v).accrued]
        /\ credit'[id] = CreditBoth(c, DustRecipient(a), Settlement(id, v).dust, v,
                                   Settlement(id, v).payout)
    BY <1>1, <1>8 DEF SettleRecipient
  <2> HIDE DEF accrued, dust
  <2>4. /\ resolution'[id] = t
        /\ credit'[id] = CreditBoth(c, DustRecipient(a), dust, v, n + z)
    BY <2>2, <2>3
  <2>5. /\ t.eligible_total = r.eligible_total
        /\ t.agree_weight = r.agree_weight /\ t.disagree_weight = r.disagree_weight
        /\ t.withdrawn_total = r.withdrawn_total
        /\ t.settled_recipient_weight = s + n /\ t.settled_reward_total = y + z
        /\ t.outstanding_liability = r.outstanding_liability + accrued
    BY <1>1 DEF LooseResolution
  <2> HIDE DEF t
  <2>6. RecipientStep(a, r, p, v, weight, pool, n, z, s, y, dust, t)
    BY <1>2, <2>1, <2>5 DEF RecipientStep, accrued, dust
  <2> HIDE DEF a, r, p, c, w, q, weight, pool, n, z, s, y
  <2>7. EntitledOK(a, t, MarkSettled(p, v),
                   CreditBoth(c, DustRecipient(a), dust, v, n + z), w)
    BY <1>1, <1>2, <1>4, <2>6, SettlementEntitled
  <2> QED
    BY <1>5, <1>6, <2>4, <2>7 DEF EntitlementOK, q
<1> QED
  BY <1>7, <1>8 DEF Settle

LEMMA WithdrawEntitlement ==
  ASSUME EntitlementInv, NEW id \in Ids, NEW v \in Address,
         NEW dst \in Address \cup {Contract}, Withdraw(v, id, dst)
  PROVE  EntitlementOK(assertion'[id], resolution'[id], position'[id], credit'[id],
                       paid'[id])
<1> DEFINE a == assertion[id]
           r == resolution[id]
           p == position[id]
           c == credit[id]
           w == paid[id]
           n == c[v]
           t == [r EXCEPT !.outstanding_liability = @ - n, !.withdrawn_total = @ + n]
<1>1. /\ RoundFacts(a, r, p, c, w) /\ EntitlementOK(a, r, p, c, w)
      /\ r \in LooseResolution
      /\ resolution \in [Ids -> LooseResolution]
      /\ credit \in [Ids -> [Address -> Int]]
      /\ paid \in [Ids -> [Address -> Nat]]
  BY FactsOfRound DEF EntitlementInv, RoundFacts
<1>2. /\ assertion'[id] = a /\ position'[id] = p /\ n > 0
      /\ resolution'[id] = t /\ credit'[id] = [c EXCEPT ![v] = 0]
      /\ paid'[id] = Plus(w, v, c[v])
  BY <1>1 DEF Withdraw
<1>3. c \in [Address -> Nat] /\ w \in [Address -> Nat]
  BY <1>1 DEF RoundFacts, AccountOK
<1>4. a.phase = "Resolved" /\ a.disputer # NoAddress
  BY <1>1, <1>2 DEF RoundFacts, AccountOK, Untouched
<1>5. EntitledOK(a, r, p, c, w) /\ PartiesShown(a, p)
  BY <1>1, <1>4 DEF EntitlementOK
<1>6. SameFigures(r, t)
  BY <1>1 DEF SameFigures, LooseResolution
<1> HIDE DEF a, r, p, c, w, n, t
<1>7. EntitledOK(a, t, p, [c EXCEPT ![v] = 0], Plus(w, v, c[v]))
  BY <1>3, <1>5, <1>6, WithdrawalEntitled
<1> QED
  BY <1>2, <1>5, <1>7 DEF EntitlementOK

LEMMA InitEntitlement == Init => EntitlementInv
<1> SUFFICES ASSUME Init, NEW id \in Ids
             PROVE  assertion[id].disputer = NoAddress
  BY InitSettlement, EarlyEntitlement DEF EntitlementInv
<1> QED
  BY DEF Init, NoAssertion

\* EntitlementInv is inductive.
LEMMA EntitlementStep == EntitlementInv /\ [Next]_vars => EntitlementInv'
<1> SUFFICES ASSUME EntitlementInv, [Next]_vars, NEW id \in Ids
             PROVE  EntitlementOK(assertion'[id], resolution'[id], position'[id],
                                  credit'[id], paid'[id])
  BY SettlementStep DEF EntitlementInv
<1>1. SettlementInv /\ StructureInv
  BY DEF EntitlementInv, SettlementInv, DecisionInv
<1>2. SettlementInv'
  BY <1>1, SettlementStep
<1>3. CASE SameRound(id)
  BY <1>3 DEF SameRound, EntitlementInv
<1>4. CASE id = next_id /\ \E v \in Address, o \in Outcomes : AssertOutcome(v, o)
  BY <1>2, <1>4, OptimisticEntitlement
<1>5. CASE \E k \in AdminKeys : CancelRound(k, id)
  BY <1>2, <1>5, CancelRoundEntitlement
<1>6. CASE RoundNext(id)
  <2>1. CASE \/ \E v \in Address : Finalize(v, id)
             \/ \E v \in Address : Dispute(v, id)
             \/ \E v \in Address, d \in Deposits, o \in Outcomes :
                  Register(v, id, d, o)
    BY <1>2, <2>1, OptimisticEntitlement
  <2>2. CASE \/ ResolveOutcome(id)
             \/ \E v \in Address, o \in Outcomes : Reveal(v, id, o)
    BY <1>2, <2>2, VoteEntitlement
  <2>3. CASE \E v \in Address : Settle(id, v)
    BY <2>3, SettleEntitlement
  <2>4. CASE \E v \in Address, d \in Address \cup {Contract} : Withdraw(v, id, d)
    BY <2>4, WithdrawEntitlement
  <2> QED
    BY <1>6, <2>1, <2>2, <2>3, <2>4 DEF RoundNext
<1> QED
  BY <1>1, <1>3, <1>4, <1>5, <1>6, StepOfRound

LEMMA EntitlementInvariant == Spec => []EntitlementInv
BY InitEntitlement, EntitlementStep, PTL DEF Spec

-----------------------------------------------------------------------------
(* What the entitlements say.                                              *)

\* Who has nothing at stake is due nothing.
LEMMA NoStakeNoReward ==
  ASSUME NEW pool \in Nat, NEW weight \in Nat, weight > 0
  PROVE  Reward(0, pool, weight) = 0
<1>1. 0 * pool = 0 /\ 0 \div weight = 0
  OBVIOUS
<1> QED
  BY <1>1 DEF Reward

\* The remainder is nothing while a recipient is left.
LEMMA RecipientLeft ==
  ASSUME NEW a, NEW r, NEW p, NEW c, NEW w, RoundFacts(a, r, p, c, w),
         a.phase = "Resolved", a.disputer # NoAddress,
         NEW v \in Address, p[v].kind # "None", ~p[v].settled,
         IsRecipient(a.terminal_cause, p[v])
  PROVE  Remainder(a, r) = 0
<1> DEFINE cause == a.terminal_cause
           n == p[v].amount
           s == r.settled_recipient_weight
           weight == RecipientWeight(cause, r)
<1>1. /\ r \in LooseResolution /\ p \in [Address -> Position] /\ TalliesOK(r, p)
      /\ n \in Nat /\ n > 0
  BY DEF RoundFacts, AccountOK, Position
<1>2. weight \in Nat /\ s = Total(SettledOf(cause, p)) /\ s \in Nat
  BY <1>1, ResolvedFigures DEF LooseResolution
<1>3. /\ Total(SettledOf(cause, MarkSettled(p, v))) = s + n
      /\ Total(SettledOf(cause, MarkSettled(p, v))) <= weight
  BY <1>1, <1>2, SettledWeight
<1>4. s # weight
  <2> HIDE DEF n, s, weight
  <2> QED
    BY <1>1, <1>2, <1>3
<1> QED
  BY <1>4 DEF Remainder, DustOf, IsLast

\* Once the recipients are settled, everything beyond their shares is the
\* remainder: what they were credited and paid is the eligible total.
LEMMA RemainderCompletes ==
  ASSUME NEW a, NEW r, NEW p, NEW c, NEW w, RoundFacts(a, r, p, c, w),
         a.phase = "Resolved", a.disputer # NoAddress, EntitledOK(a, r, p, c, w),
         \A v \in Address : p[v].kind # "None" /\ IsRecipient(a.terminal_cause, p[v])
                               => p[v].settled
  PROVE  /\ [v \in Address |-> Share(a, r, p[v])] \in [Address -> Nat]
         /\ Remainder(a, r) = r.eligible_total
                                - Total([v \in Address |-> Share(a, r, p[v])])
<1> DEFINE f == [v \in Address |-> Share(a, r, p[v])]
           h == [v \in Address |-> c[v] + w[v]]
           d == DustRecipient(a)
           x == Remainder(a, r)
<1>1. f \in [Address -> Nat] /\ x \in Nat
  BY ResolvedFigures
<1>2. /\ c \in [Address -> Nat] /\ w \in [Address -> Nat]
      /\ a.asserter \in Address /\ a.disputer \in Address
  BY DEF RoundFacts, AccountOK, PartiesOK, AssertionV2
<1>3. d \in Address
  BY <1>2 DEF DustRecipient
<1>4. h = Plus(f, d, x)
  <2>1. ASSUME NEW u \in Address PROVE h[u] = Plus(f, d, x)[u]
    <3>1. h[u] = f[u] + (IF u = d THEN x ELSE 0)
      BY DEF EntitledOK
    <3> HIDE DEF x, d, f, h
    <3> QED
      BY <1>1, <1>3, <3>1 DEF Plus
  <2>2. h = [u \in Address |-> Plus(f, d, x)[u]]
    BY <2>1
  <2> HIDE DEF f, h, d, x
  <2>3. Plus(f, d, x) = [u \in Address |-> Plus(f, d, x)[u]]
    BY <1>1 DEF Plus
  <2> QED
    BY <2>2, <2>3
<1>5. h \in [Address -> Nat] /\ \A u \in Address : h[u] = c[u] + w[u]
  BY <1>2
<1>6. /\ r.outstanding_liability = Total(c) /\ r.withdrawn_total = Total(w)
      /\ Total(c) \in Nat /\ Total(w) \in Nat
      /\ r.outstanding_liability + r.withdrawn_total = r.eligible_total
  BY RoundLiability
<1>7. Total(f) \in Nat
  BY <1>1, TotalType, AddressAssumption
<1> HIDE DEF f, h, d, x
<1>8. Total(h) = Total(c) + Total(w)
  BY <1>2, <1>5, SumOfTotals, AddressAssumption
<1>9. Total(Plus(f, d, x)) = Total(f) + x
  BY <1>1, <1>3, AddressPlus
<1>10. x = r.eligible_total - Total(f)
  BY <1>1, <1>4, <1>6, <1>7, <1>8, <1>9
<1> QED
  BY <1>1, <1>10 DEF f, x

\* The dust of the property is the remainder of the code's running totals.
LEMMA DustIsRemainder ==
  ASSUME EntitlementInv, NEW id \in Ids,
         assertion[id].phase = "Resolved", Disputed(id)
  PROVE  Dust(id) = Remainder(assertion[id], resolution[id])
<1> DEFINE a == assertion[id]
           r == resolution[id]
           p == position[id]
           R == Recipients(id)
           f == [v \in Address |-> Share(a, r, p[v])]
           g == [v \in R |-> Entitlement(id, v)]
<1>1. /\ RoundFacts(a, r, p, credit[id], paid[id])
      /\ a.phase = "Resolved" /\ a.disputer # NoAddress
      /\ EntitledOK(a, r, p, credit[id], paid[id])
  BY FactsOfRound DEF EntitlementInv, EntitlementOK, Disputed
<1>2. /\ R \subseteq Address
      /\ \A v \in Address : v \in R <=> /\ p[v].kind # "None"
                                       /\ IsRecipient(a.terminal_cause, p[v])
  BY DEF Recipients
<1>3. CASE \A v \in R : p[v].settled
  <2>1. f \in [Address -> Nat] /\ Remainder(a, r) = r.eligible_total - Total(f)
    BY <1>1, <1>2, <1>3, RemainderCompletes
  <2>2. \A v \in R : f[v] = Entitlement(id, v)
    BY <1>2, <1>3 DEF Share, Entitlement
  <2>3. \A v \in Address \ R : f[v] = 0
    <3> SUFFICES ASSUME NEW v \in Address, v \notin R,
                        IsRecipient(a.terminal_cause, p[v])
                 PROVE  f[v] = 0
      BY DEF Share
    <3>1. p[v].kind = "None"
      BY <1>2
    <3>2. p[v].amount = 0
      BY <1>1, <3>1 DEF RoundFacts, AccountOK
    <3>3. /\ RecipientWeight(a.terminal_cause, r) \in Nat
          /\ RecipientWeight(a.terminal_cause, r) > 0
          /\ ForfeitedPool(a.terminal_cause, r) \in Nat
      BY <1>1, ResolvedFigures
    <3> QED
      BY <3>2, <3>3, NoStakeNoReward DEF Share
  <2>4. Total(f) = Total(g)
    <3>1. g \in [R -> Nat] /\ \A v \in R : g[v] = f[v]
      BY <1>2, <2>1, <2>2
    <3>2. \A v \in Address : f[v] = IF v \in R THEN g[v] ELSE 0
      BY <2>3, <3>1
    <3> HIDE DEF f, g, R
    <3> QED
      BY <1>2, <2>1, <3>1, <3>2, TotalOfSome
  <2>5. Dust(id) = r.eligible_total - Total(g)
    BY <1>3 DEF Dust
  <2> QED
    BY <2>1, <2>4, <2>5
<1>4. CASE \E v \in R : ~p[v].settled
  <2>1. Remainder(a, r) = 0
    BY <1>1, <1>2, <1>4, RecipientLeft
  <2>2. Dust(id) = 0
    BY <1>4 DEF Dust
  <2> QED
    BY <2>1, <2>2
<1> QED
  BY <1>3, <1>4

\* In rounds of any size, whatever was bonded and in whatever order settle
\* and withdraw are called, each address has been credited or paid exactly
\* its entitlement, and the rounding dust goes to the one party the code names,
\* with the last recipient's settlement.
THEOREM PayoutsAlwaysMatch == Spec => []PayoutsMatchEntitlements
<1>1. ASSUME EntitlementInv, NEW id \in Ids,
             assertion[id].phase = "Resolved", Disputed(id), NEW v \in Address
      PROVE  credit[id][v] + paid[id][v] =
               (IF position[id][v].settled THEN Entitlement(id, v) ELSE 0)
               + (IF v = DustRecipient(assertion[id]) THEN Dust(id) ELSE 0)
  <2>1. EntitledOK(assertion[id], resolution[id], position[id], credit[id], paid[id])
    BY <1>1 DEF EntitlementInv, EntitlementOK, Disputed
  <2>2. Share(assertion[id], resolution[id], position[id][v])
          = IF position[id][v].settled THEN Entitlement(id, v) ELSE 0
    BY DEF Share, Entitlement
  <2>3. Dust(id) = Remainder(assertion[id], resolution[id])
    BY <1>1, DustIsRemainder
  <2> QED
    BY <2>1, <2>2, <2>3 DEF EntitledOK
<1>2. EntitlementInv => PayoutsMatchEntitlements
  BY <1>1 DEF PayoutsMatchEntitlements
<1> QED
  BY <1>2, EntitlementInvariant, PTL

\* In a cancelled or void round everybody gets back exactly the own bond.  In
\* a decided one the recipients, of either side after an optimistic timeout,
\* get at least theirs; and a revealed loser or a hidden position gets
\* nothing, the dust included, because the party that gets the dust has
\* always shown the side that takes part in the pool.
THEOREM PrincipalAlwaysProtected == Spec => []PrincipalProtected
<1>1. ASSUME EntitlementInv, NEW id \in Ids, NEW v \in Address,
             position[id][v].settled
      PROVE  LET pos == position[id][v]
                 side == pos.agrees_with_outcome
                 received == credit[id][v] + paid[id][v]
                 cause == assertion[id].terminal_cause
                 KeptBy(sides) ==
                   IF side \in sides THEN received >= pos.amount ELSE received = 0
             IN /\ cause \in VoidCauses => received = pos.amount
                /\ cause = "StrictMajorityFor" => KeptBy({"agree"})
                /\ cause = "StrictMajorityAgainst" => KeptBy({"disagree"})
                /\ cause = "OptimisticTimeout" => KeptBy({"agree", "disagree"})
  <2> DEFINE a == assertion[id]
             r == resolution[id]
             p == position[id]
             c == credit[id]
             w == paid[id]
             cause == a.terminal_cause
             n == p[v].amount
             weight == RecipientWeight(cause, r)
             pool == ForfeitedPool(cause, r)
             z == Reward(n, pool, weight)
             x == Remainder(a, r)
             d == DustRecipient(a)
  <2>1. /\ RoundFacts(a, r, p, c, w) /\ EntitlementOK(a, r, p, c, w)
        /\ p \in [Address -> Position] /\ a \in AssertionV2
    BY <1>1, FactsOfRound DEF EntitlementInv, RoundFacts
  <2>2. a.phase = "Resolved" /\ a.disputer # NoAddress
    <3>1. a.phase = "Resolved"
      BY <1>1, <2>1 DEF RoundFacts, AccountOK, Untouched
    <3>2. p[v] # NoPosition
      BY <1>1 DEF NoPosition
    <3> QED
      BY <2>1, <3>1, <3>2 DEF RoundFacts, RoundOK, ScopeOK
  <2>3. /\ EntitledOK(a, r, p, c, w) /\ PartiesShown(a, p)
        /\ a.asserter \in Address /\ a.disputer \in Address
        /\ cause \in {"StrictMajorityFor", "StrictMajorityAgainst",
              "OptimisticTimeout", "AdminCancelled", "RevealQuorumNotMet"}
    BY <2>1, <2>2 DEF EntitlementOK, RoundFacts, PartiesOK, CauseOK, AssertionV2,
       TerminalCauses, VoidCauses
  <2>4. /\ weight \in Nat /\ weight > 0 /\ pool \in Nat /\ x \in Nat /\ n \in Nat
        /\ weight + pool = r.eligible_total
    BY <2>1, <2>2, ResolvedFigures DEF Position
  <2>5. z \in Nat
    BY <2>4, RewardBound
  <2>6. c[v] + w[v] = Share(a, r, p[v]) + (IF v = d THEN x ELSE 0)
    BY <2>3 DEF EntitledOK
  <2>7. Share(a, r, p[v]) = IF IsRecipient(cause, p[v]) THEN n + z ELSE 0
    BY <1>1 DEF Share
  <2>8. ASSUME cause \in VoidCauses PROVE c[v] + w[v] = n
    <3>1. weight = r.eligible_total /\ IsRecipient(cause, p[v])
      BY <2>8 DEF RecipientWeight, IsRecipient, VoidCauses
    <3>2. pool = 0
      BY <2>4, <3>1
    <3>3. x = 0
      BY <3>2 DEF Remainder, DustOf
    <3>4. z = 0
      <4>1. n * 0 = 0 /\ 0 \div weight = 0
        BY <2>4
      <4> QED
        BY <3>2, <4>1 DEF Reward
    <3> HIDE DEF weight, pool, z, x, n, d, cause, a, r, p, c, w
    <3> QED
      BY <2>4, <2>6, <2>7, <3>1, <3>3, <3>4
  <2>9. ASSUME IsRecipient(cause, p[v]) PROVE c[v] + w[v] >= n
    <3> HIDE DEF weight, pool, z, x, n, d, cause, a, r, p, c, w
    <3> QED
      BY <2>4, <2>5, <2>6, <2>7, <2>9
  <2>10. ASSUME ~IsRecipient(cause, p[v]), cause \notin VoidCauses
         PROVE  c[v] + w[v] = 0
    <3>1. /\ p[a.asserter].agrees_with_outcome = "agree"
          /\ p[a.disputer].agrees_with_outcome = "disagree"
      BY <2>2, <2>3, <2>10 DEF PartiesShown, VoidCauses
    <3>2. v # d
      BY <2>3, <2>10, <3>1 DEF DustRecipient, IsRecipient, VoidCauses
    <3> QED
      BY <2>6, <2>7, <2>10, <3>2
  <2>11. p[v].agrees_with_outcome \in {"none", "agree", "disagree"}
    BY <2>1 DEF Position, Sides
  <2>12. /\ cause = "StrictMajorityFor" =>
              (IsRecipient(cause, p[v]) <=> p[v].agrees_with_outcome \in {"agree"})
         /\ cause = "StrictMajorityAgainst" =>
              (IsRecipient(cause, p[v]) <=> p[v].agrees_with_outcome \in {"disagree"})
         /\ cause = "OptimisticTimeout" =>
              (IsRecipient(cause, p[v])
                 <=> p[v].agrees_with_outcome \in {"agree", "disagree"})
    BY <2>11 DEF IsRecipient
  <2> QED
    BY <2>8, <2>9, <2>10, <2>12 DEF VoidCauses
<1>2. EntitlementInv => PrincipalProtected
  BY <1>1 DEF PrincipalProtected
<1> QED
  BY <1>2, EntitlementInvariant, PTL

-----------------------------------------------------------------------------
(* Arithmetic.  A round is larger than MAX_SETTLEMENT_TOTAL_WEIGHT only if *)
(* its eligible total is just the two parties' bonds, above a cap that     *)
(* lets nobody else in; the parties then hold half each, so that nothing   *)
(* is forfeited and no product is formed.                                  *)

LargeRound(a, r) ==
  a.disputer # NoAddress /\ r.eligible_total > MaxSettlementTotalWeight

PartiesOnly(a, r, p) ==
  LET bond == a.policy.base_bond IN
  /\ r.eligible_total = 2 * bond
  /\ a.phase = "Registration" =>
       p[a.asserter].amount = bond /\ p[a.disputer].amount = bond
  /\ a.phase \in {"Reveal", "Resolved"} /\ a.terminal_cause \notin VoidCauses =>
       r.agree_weight = bond /\ r.disagree_weight = bond

CapOK(a, r, p) == LargeRound(a, r) => PartiesOnly(a, r, p)

CapInv ==
  /\ SettlementInv
  /\ \A id \in Ids : CapOK(assertion[id], resolution[id], position[id])

\* The tallies once a large round's reveal phase is open.
LEMMA LargeOpening ==
  ASSUME CapInv, NEW id \in Ids, RegistrationOver(id),
         LargeRound(assertion[id], resolution[id])
  PROVE  LET r == RoundInReveal(id).r
             bond == assertion[id].policy.base_bond
         IN r.agree_weight = bond /\ r.disagree_weight = bond
<1> DEFINE a == assertion[id]
           r == resolution[id]
           p == position[id]
           bond == a.policy.base_bond
<1>1. RoundFacts(a, r, p, credit[id], paid[id]) /\ PartiesOnly(a, r, p)
  BY FactsOfRound DEF CapInv, CapOK
<1>2. CASE a.phase = "Registration"
  <2> DEFINE x == p[a.asserter].amount
             y == p[a.disputer].amount
             deadline == now + a.policy.reveal_duration_secs
             t == [r EXCEPT !.reveal_opened_at = now, !.reveal_deadline = deadline,
                            !.agree_weight = @ + x, !.disagree_weight = @ + y]
  <2>1. RoundInReveal(id).r = t
    BY <1>2 DEF RoundInReveal, OpenRevealPhase
  <2>2. x = bond /\ y = bond /\ r.agree_weight = 0 /\ r.disagree_weight = 0
    BY <1>1, <1>2 DEF PartiesOnly, RoundFacts, RoundOK, ScopeOK
  <2>3. r \in LooseResolution /\ bond \in Nat
    BY <1>1, <1>2, PolicyFacts DEF RoundFacts, PartiesOK
  <2> HIDE DEF x, y, deadline, bond
  <2>4. t.agree_weight = 0 + x /\ t.disagree_weight = 0 + y
    BY <2>2, <2>3 DEF LooseResolution
  <2> QED
    BY <2>1, <2>2, <2>3, <2>4 DEF bond
<1>3. CASE a.phase = "Reveal"
  <2>1. RoundInReveal(id).r = r
    BY <1>3 DEF RoundInReveal
  <2>2. a.terminal_cause \notin VoidCauses
    BY <1>1, <1>3 DEF RoundFacts, CauseOK, VoidCauses
  <2> QED
    BY <1>1, <1>3, <2>1, <2>2 DEF PartiesOnly
<1> QED
  BY <1>2, <1>3 DEF RegistrationOver

\* Nobody else has weight in a large round, so a vote changes no tally.
LEMMA VoteCap ==
  ASSUME CapInv, SettlementInv', [Next]_vars, NEW id \in Ids,
         \/ ResolveOutcome(id)
         \/ \E v \in Address, o \in Outcomes : Reveal(v, id, o)
  PROVE  CapOK(assertion'[id], resolution'[id], position'[id])
<1> DEFINE a == assertion[id]
           r == resolution[id]
           p == position[id]
           b == assertion'[id]
           t == resolution'[id]
           q == position'[id]
           s == RoundInReveal(id)
           bond == a.policy.base_bond
<1>1. /\ SettlementInv /\ StructureInv /\ RoundFacts(a, r, p, credit[id], paid[id])
      /\ Shape /\ now \in Nat /\ resolution \in [Ids -> LooseResolution]
      /\ RoundOK(a, r, p)
  BY FactsOfRound DEF CapInv, RoundFacts
<1>2. RegistrationOver(id)
  BY <1>1, RevealKeepsBonds
<1>3. /\ a.disputer # NoAddress /\ a.phase \in {"Registration", "Reveal"}
      /\ bond \in Nat /\ bond > 0
  BY <1>1, <1>2, PolicyFacts DEF RegistrationOver, RoundFacts, PartiesOK
<1>4. b.policy = a.policy /\ b.disputer = a.disputer /\ b.asserter = a.asserter
  BY <1>1, <1>3, RoundStepIsFinal DEF FinalStep
<1>5. /\ s.r \in LooseResolution /\ s.r.eligible_total = r.eligible_total
      /\ s.p \in [Address -> Position]
  BY <1>1, <1>2, LazyOpening DEF RoundOK
<1>6. /\ t.eligible_total = r.eligible_total
      /\ t.agree_weight >= s.r.agree_weight
      /\ t.disagree_weight >= s.r.disagree_weight
  <2>1. CASE ResolveOutcome(id)
    <3>1. t = s.r
      BY <1>1, <2>1 DEF ResolveOutcome
    <3> HIDE DEF s, t
    <3> QED
      BY <1>5, <3>1 DEF LooseResolution
  <2>2. CASE \E v \in Address, o \in Outcomes : Reveal(v, id, o)
    <3>1. PICK v \in Address, o \in Outcomes : Reveal(v, id, o)
      BY <2>2
    <3> DEFINE side == IF o = s.a.outcome THEN "agree" ELSE "disagree"
               n == s.p[v].amount
    <3>2. t = Counted(s.r, side, n)
      BY <1>1, <3>1 DEF Reveal
    <3>3. n \in Nat
      BY <1>5 DEF Position
    <3> HIDE DEF s, n, t, side
    <3>4. /\ t.eligible_total = s.r.eligible_total
          /\ t.agree_weight \in {s.r.agree_weight, s.r.agree_weight + n}
          /\ t.disagree_weight \in {s.r.disagree_weight, s.r.disagree_weight + n}
          /\ s.r.agree_weight \in Nat /\ s.r.disagree_weight \in Nat
      BY <1>5, <3>2 DEF Counted, LooseResolution
    <3> QED
      BY <1>5, <3>3, <3>4
  <2> QED
    BY <2>1, <2>2
<1>7. SUFFICES ASSUME LargeRound(b, t) PROVE PartiesOnly(b, t, q)
  BY DEF CapOK
<1>8. LargeRound(a, r)
  BY <1>3, <1>6, <1>7 DEF LargeRound
<1>9. r.eligible_total = 2 * bond
  BY <1>8 DEF CapInv, CapOK, PartiesOnly
<1>10. s.r.agree_weight = bond /\ s.r.disagree_weight = bond
  BY <1>2, <1>8, LargeOpening
<1>11. /\ RoundOK(b, t, q) /\ t \in LooseResolution
       /\ t.agree_weight + t.disagree_weight <= t.eligible_total
  <2>1. RoundOK(b, t, q)
    BY FactsAfter DEF RoundFacts
  <2> HIDE DEF b, t, q
  <2> QED
    BY <2>1, RevealedWithinStake DEF RoundOK, TalliesOK
<1>12. t.agree_weight = bond /\ t.disagree_weight = bond
  <2>1. t.agree_weight \in Nat /\ t.disagree_weight \in Nat
    BY <1>11 DEF LooseResolution
  <2> HIDE DEF t, s, bond, r
  <2> QED
    BY <1>3, <1>6, <1>9, <1>10, <1>11, <2>1
<1>13. b.phase # "Registration"
  BY <1>3, <1>11, <1>12 DEF RoundOK, ScopeOK
<1> QED
  BY <1>4, <1>6, <1>9, <1>12, <1>13 DEF PartiesOnly

LEMMA DisputeCap ==
  ASSUME CapInv, NEW id \in Ids, NEW v \in Address, Dispute(v, id)
  PROVE  CapOK(assertion'[id], resolution'[id], position'[id])
<1> DEFINE a == assertion[id]
           b == assertion'[id]
           t == resolution'[id]
           q == position'[id]
           bond == a.policy.base_bond
<1>1. /\ a \in AssertionV2 /\ PartiesOK(a) /\ a.phase = "Pending" /\ v # a.asserter
      /\ assertion \in [Ids -> AssertionV2]
      /\ resolution \in [Ids -> LooseResolution]
      /\ position \in [Ids -> [Address -> Position]]
  BY FactsOfRound DEF CapInv, RoundFacts, Dispute
<1>2. /\ b = [a EXCEPT !.disputer = v, !.phase = "Registration"]
      /\ t.eligible_total = bond * 2
      /\ q = [position[id] EXCEPT ![a.asserter] = FixedPosition("FixedFor", bond),
                                  ![v] = FixedPosition("FixedAgainst", bond)]
  BY <1>1 DEF Dispute, NoResolution
<1>3. a.asserter \in Address /\ bond \in Nat
  BY <1>1, PolicyFacts DEF PartiesOK
<1>4. /\ b.phase = "Registration" /\ b.disputer = v /\ b.asserter = a.asserter
      /\ b.policy = a.policy
  BY <1>1, <1>2 DEF AssertionV2
<1>5. q[a.asserter].amount = bond /\ q[v].amount = bond
  <2>1. ASSUME NEW k PROVE FixedPosition(k, bond).amount = bond
    BY DEF FixedPosition, NoPosition
  <2>2. position[id] \in [Address -> Position]
    BY <1>1
  <2> HIDE DEF bond
  <2>3. /\ q[a.asserter] = FixedPosition("FixedFor", bond)
        /\ q[v] = FixedPosition("FixedAgainst", bond)
    BY <1>1, <1>2, <1>3, <2>2
  <2> QED
    BY <2>1, <2>3
<1>6. t.eligible_total = 2 * bond
  BY <1>2, <1>3
<1> QED
  BY <1>4, <1>5, <1>6 DEF CapOK, PartiesOnly

LEMMA RegisterCap ==
  ASSUME CapInv, NEW id \in Ids, NEW v \in Address, NEW d \in Deposits,
         NEW o \in Outcomes, Register(v, id, d, o)
  PROVE  CapOK(assertion'[id], resolution'[id], position'[id])
<1> DEFINE a == assertion[id]
           r == resolution[id]
           n == position[id][v].amount
           total == TotalAfter(r, n, n + d)
           cap == a.policy.max_total_weight
<1>1. /\ r \in LooseResolution /\ PartiesOK(a) /\ a.phase = "Registration"
      /\ resolution \in [Ids -> LooseResolution]
      /\ position[id] \in [Address -> Position]
  BY FactsOfRound DEF CapInv, RoundFacts, Register
<1>2. resolution'[id].eligible_total = total /\ total <= cap
  BY <1>1 DEF Register, LooseResolution
<1>3. /\ cap \in Int /\ cap <= MaxSettlementTotalWeight
      /\ MaxSettlementTotalWeight \in Nat
  BY <1>1, PolicyAssumption, BoundAssumption
     DEF PartiesOK, ValidPolicy, ValidWeightCaps, PolicyArgs
<1>4. total \in Int
  <2>1. r.eligible_total \in Nat /\ n \in Nat /\ d \in Int
    BY <1>1, BoundAssumption DEF LooseResolution, Position
  <2> QED
    BY <2>1 DEF TotalAfter
<1>5. ~(resolution'[id].eligible_total > MaxSettlementTotalWeight)
  BY <1>2, <1>3, <1>4
<1> QED
  BY <1>5 DEF CapOK, LargeRound

\* Steps that leave the weights of a round alone.
LEMMA SameWeightsCap ==
  ASSUME NEW a \in AssertionV2, PartiesOK(a), NEW r, NEW p, NEW b, NEW t, NEW q,
         CapOK(a, r, p), t.eligible_total = r.eligible_total,
         t.agree_weight = r.agree_weight, t.disagree_weight = r.disagree_weight,
         \/ b = a /\ \A v \in Address : q[v].amount = p[v].amount
         \/ /\ b.terminal_cause \in VoidCauses /\ b.phase = "Resolved"
            /\ b.disputer = a.disputer /\ b.policy = a.policy
  PROVE  CapOK(b, t, q)
<1> SUFFICES ASSUME LargeRound(b, t) PROVE PartiesOnly(b, t, q)
  BY DEF CapOK
<1>1. b.disputer = a.disputer /\ b.policy = a.policy
  OBVIOUS
<1>2. LargeRound(a, r)
  BY <1>1 DEF LargeRound
<1>3. PartiesOnly(a, r, p)
  BY <1>2 DEF CapOK
<1>4. CASE b = a /\ \A v \in Address : q[v].amount = p[v].amount
  <2>1. a.disputer \in Address
    BY <1>2 DEF LargeRound, AssertionV2
  <2>2. a.phase = "Registration" => a.asserter \in Address
    BY DEF PartiesOK
  <2> QED
    BY <1>3, <1>4, <2>1, <2>2 DEF PartiesOnly
<1>5. CASE /\ b.terminal_cause \in VoidCauses /\ b.phase = "Resolved"
           /\ b.disputer = a.disputer /\ b.policy = a.policy
  BY <1>3, <1>5 DEF PartiesOnly
<1> QED
  BY <1>4, <1>5

LEMMA SettleCap ==
  ASSUME CapInv, NEW id \in Ids, NEW v \in Address, Settle(id, v)
  PROVE  CapOK(assertion'[id], resolution'[id], position'[id])
<1> DEFINE a == assertion[id]
           r == resolution[id]
           t == resolution'[id]
           p == position[id]
           q == position'[id]
<1>1. /\ a \in AssertionV2 /\ PartiesOK(a) /\ r \in LooseResolution
      /\ p \in [Address -> Position] /\ CapOK(a, r, p)
      /\ resolution \in [Ids -> LooseResolution]
      /\ position \in [Ids -> [Address -> Position]]
  BY FactsOfRound DEF CapInv, RoundFacts
<1>2. assertion'[id] = a /\ q = [p EXCEPT ![v] = [p[v] EXCEPT !.settled = TRUE]]
  BY <1>1 DEF Settle, SettleRecipient, SettleForfeited
<1>3. /\ t.eligible_total = r.eligible_total /\ t.agree_weight = r.agree_weight
      /\ t.disagree_weight = r.disagree_weight
  <2>1. CASE SettleForfeited(id, v)
    BY <2>1 DEF SettleForfeited
  <2>2. CASE SettleRecipient(id, v)
    <3> DEFINE x == Settlement(id, v)
    <3>1. t = [r EXCEPT !.settled_recipient_weight = x.settled_weight,
                        !.settled_reward_total = x.rewards,
                        !.outstanding_liability = @ + x.accrued]
      BY <1>1, <2>2 DEF SettleRecipient
    <3> HIDE DEF x
    <3> QED
      BY <1>1, <3>1 DEF LooseResolution
  <2> QED
    BY <2>1, <2>2 DEF Settle
<1>4. \A u \in Address : q[u].amount = p[u].amount
  BY <1>1, <1>2 DEF Position
<1> HIDE DEF a, r, t, p, q
<1>5. CapOK(a, t, q)
  BY <1>1, <1>3, <1>4, SameWeightsCap
<1> QED
  BY <1>2, <1>5 DEF t, q

\* CapInv is inductive.
LEMMA CapStep == CapInv /\ [Next]_vars => CapInv'
<1> SUFFICES ASSUME CapInv, [Next]_vars, NEW id \in Ids
             PROVE  CapOK(assertion'[id], resolution'[id], position'[id])
  <2>1. CapInv => SettlementInv
    BY DEF CapInv
  <2> QED
    BY <2>1, SettlementStep DEF CapInv
<1> DEFINE a == assertion[id]
           r == resolution[id]
           p == position[id]
           b == assertion'[id]
<1>1. /\ SettlementInv /\ StructureInv /\ a \in AssertionV2 /\ PartiesOK(a)
      /\ r \in LooseResolution /\ CapOK(a, r, p)
      /\ assertion \in [Ids -> AssertionV2]
      /\ resolution \in [Ids -> LooseResolution]
  BY FactsOfRound DEF CapInv, RoundFacts
<1>2. SettlementInv'
  BY <1>1, SettlementStep
<1>3. CASE SameRound(id)
  BY <1>1, <1>3 DEF SameRound
<1>4. CASE id = next_id /\ \E v \in Address, o \in Outcomes : AssertOutcome(v, o)
  <2>1. b.disputer = NoAddress
    BY <1>1, <1>4 DEF AssertOutcome, NoAssertion
  <2> QED
    BY <2>1 DEF CapOK, LargeRound
<1>5. CASE \E k \in AdminKeys : CancelRound(k, id)
  <2>1. /\ b = [a EXCEPT !.phase = "Resolved", !.terminal_cause = "AdminCancelled"]
        /\ resolution'[id] = r
    BY <1>1, <1>5 DEF CancelRound
  <2>2. /\ b.terminal_cause \in VoidCauses /\ b.phase = "Resolved"
        /\ b.disputer = a.disputer /\ b.policy = a.policy
    BY <1>1, <2>1 DEF AssertionV2, VoidCauses
  <2> DEFINE q == position'[id]
  <2> HIDE DEF a, r, p, b, q
  <2>3. CapOK(b, r, q)
    BY <1>1, <2>2, SameWeightsCap
  <2> QED
    BY <2>1, <2>3 DEF b, q
<1>6. CASE \E v \in Address : Finalize(v, id)
  <2>1. a.disputer = NoAddress
    BY <1>1, <1>6 DEF Finalize, PartiesOK
  <2>2. b.disputer = NoAddress
    BY <1>1, <1>6, <2>1 DEF Finalize, AssertionV2
  <2> QED
    BY <2>2 DEF CapOK, LargeRound
<1>7. CASE \E v \in Address : Dispute(v, id)
  BY <1>7, DisputeCap
<1>8. CASE \E v \in Address, d \in Deposits, o \in Outcomes : Register(v, id, d, o)
  BY <1>8, RegisterCap
<1>9. CASE \/ ResolveOutcome(id)
           \/ \E v \in Address, o \in Outcomes : Reveal(v, id, o)
  BY <1>2, <1>9, VoteCap
<1>10. CASE \E v \in Address : Settle(id, v)
  BY <1>10, SettleCap
<1>11. CASE \E v \in Address, d \in Address \cup {Contract} : Withdraw(v, id, d)
  <2>1. /\ b = a /\ position'[id] = p
        /\ resolution'[id].eligible_total = r.eligible_total
        /\ resolution'[id].agree_weight = r.agree_weight
        /\ resolution'[id].disagree_weight = r.disagree_weight
    BY <1>1, <1>11 DEF Withdraw, LooseResolution
  <2> QED
    BY <1>1, <2>1, SameWeightsCap
<1> QED
  BY <1>1, <1>3, <1>4, <1>5, <1>6, <1>7, <1>8, <1>9, <1>10, <1>11, StepOfRound
     DEF RoundNext

LEMMA CapInvariant == Spec => []CapInv
<1>1. Init => CapInv
  <2> SUFFICES ASSUME Init, NEW id \in Ids
               PROVE  CapOK(assertion[id], resolution[id], position[id])
    BY InitSettlement DEF CapInv
  <2> QED
    BY DEF Init, NoAssertion, CapOK, LargeRound
<1> QED
  BY <1>1, CapStep, PTL DEF Spec

\* A product of two amounts below a bound whose square is in range.
LEMMA ProductInRange ==
  ASSUME NEW x \in Nat, NEW y \in Nat, NEW m \in Nat, NEW lim \in Nat,
         x <= m, y <= m, m * m <= lim
  PROVE  x * y <= lim
<1>1. x * y <= m * y
  BY Z3
<1>2. m * y <= m * m
  BY Z3
<1>3. x * y \in Nat /\ m * y \in Nat /\ m * m \in Nat
  OBVIOUS
<1> QED
  BY <1>1, <1>2, <1>3

\* The eligible total itself is in range, and so is every product of shares.
LEMMA TotalsInRange ==
  ASSUME CapInv, NEW id \in Ids,
         assertion[id].phase = "Resolved", assertion[id].disputer # NoAddress,
         NEW n \in Nat, NEW pool \in Nat,
         pool = ForfeitedPool(assertion[id].terminal_cause, resolution[id]),
         n <= resolution[id].eligible_total
  PROVE  resolution[id].eligible_total <= I128Max /\ n * pool <= I128Max
<1> DEFINE a == assertion[id]
           r == resolution[id]
           p == position[id]
           e == r.eligible_total
           m == MaxSettlementTotalWeight
           bond == a.policy.base_bond
           weight == RecipientWeight(a.terminal_cause, r)
<1>1. /\ RoundFacts(a, r, p, credit[id], paid[id]) /\ CapOK(a, r, p)
      /\ a \in AssertionV2 /\ PartiesOK(a) /\ CauseOK(a) /\ DecisionOK(a, r)
      /\ r \in LooseResolution /\ p \in [Address -> Position] /\ TalliesOK(r, p)
  BY FactsOfRound DEF CapInv, RoundFacts
<1>2. /\ e \in Nat /\ weight \in Nat /\ weight + pool = e
      /\ r.agree_weight \in Nat /\ r.disagree_weight \in Nat
  BY <1>1, PoolOfTallies DEF LooseResolution
<1>3. m \in Nat /\ I128Max \in Nat /\ m * m <= I128Max
  BY BoundAssumption, LimitAssumption
<1>4. CASE e <= m
  <2>1. pool <= m /\ n <= m
    BY <1>2, <1>3, <1>4
  <2>2. n * pool <= I128Max
    BY <1>3, <2>1, ProductInRange
  <2>3. e <= I128Max
    <3>1. CASE m = 0
      BY <1>2, <1>3, <1>4, <3>1
    <3>2. CASE m >= 1
      <4>1. e * 1 <= I128Max
        BY <1>2, <1>3, <1>4, <3>2, ProductInRange
      <4> QED
        BY <1>2, <4>1
    <3> QED
      BY <1>3, <3>1, <3>2
  <2> QED
    BY <2>2, <2>3
<1>5. CASE e > m
  <2>1. PartiesOnly(a, r, p)
    BY <1>1, <1>5 DEF CapOK, LargeRound
  <2>2. /\ e = 2 * bond /\ bond \in Nat /\ bond <= MaxBondAmount
    BY <1>1, <2>1, PolicyFacts DEF PartiesOnly, PartiesOK, ValidPolicy
  <2>3. MaxBondAmount \in Nat /\ MaxBondAmount * 1000 <= I128Max
    BY BoundAssumption, LimitAssumption DEF MaxFinalizeRewardBps
  <2>4. e <= I128Max
    BY <1>3, <2>2, <2>3
  <2>5. weight = e
    <3>1. a.terminal_cause \in VoidCauses
            \/ a.terminal_cause \in {"StrictMajorityFor", "StrictMajorityAgainst",
                                     "OptimisticTimeout"}
      BY <1>1 DEF CauseOK, AssertionV2, TerminalCauses
    <3>2. CASE a.terminal_cause \in VoidCauses
      BY <3>2 DEF RecipientWeight, VoidCauses
    <3>3. CASE a.terminal_cause \in {"StrictMajorityFor", "StrictMajorityAgainst",
                                     "OptimisticTimeout"}
      <4>1. r.agree_weight = bond /\ r.disagree_weight = bond
        BY <2>1, <3>3 DEF PartiesOnly, VoidCauses
      <4>2. a.terminal_cause = "OptimisticTimeout"
        BY <1>1, <2>2, <3>3, <4>1 DEF DecisionOK
      <4>3. weight = bond + bond
        BY <4>1, <4>2 DEF RecipientWeight, RevealedWeight
      <4> QED
        BY <2>2, <4>3
    <3> QED
      BY <3>1, <3>2, <3>3
  <2>6. pool = 0
    BY <1>2, <2>5
  <2>7. n * 0 = 0
    OBVIOUS
  <2> QED
    BY <1>3, <2>4, <2>6, <2>7
<1> QED
  BY <1>2, <1>3, <1>4, <1>5

\* No credit exceeds the credits of the round and what two more add to them.
LEMMA CreditAtMostTotal ==
  ASSUME NEW c \in [Address -> Nat], NEW d \in Address, NEW x \in Nat,
         NEW v \in Address, NEW y \in Nat, NEW u \in Address
  PROVE  /\ CreditBoth(c, d, x, v, y)[u] \in Nat
         /\ CreditBoth(c, d, x, v, y)[u] <= Total(c) + x + y
<1> DEFINE f == CreditBoth(c, d, x, v, y)
<1>1. f \in [Address -> Nat]
  BY CreditTotal, Zenon
<1>2. Total(f) = Total(c) + x + y
  BY CreditTotal, SMT
<1> HIDE DEF f
<1>3. f[u] \in Nat /\ f[u] <= Total(f)
  BY <1>1, ShareAtMostTotal, AddressAssumption
<1>4. f[u] \in Nat /\ f[u] <= Total(c) + x + y
  BY <1>2, <1>3
<1> QED
  BY <1>4 DEF f

\* A recipient's settlement is in range once its round's totals are.
LEMMA SettlementFits ==
  ASSUME CapInv, NEW id \in Ids, NEW v \in Address, Settleable(id, v),
         IsRecipient(assertion[id].terminal_cause, position[id][v])
  PROVE  SettleInRange(id, v)
<1> DEFINE a == assertion[id]
           r == resolution[id]
           p == position[id]
           c == credit[id]
           w == paid[id]
           weight == RecipientWeight(a.terminal_cause, r)
           pool == ForfeitedPool(a.terminal_cause, r)
           n == p[v].amount
           z == Reward(n, pool, weight)
           s == r.settled_recipient_weight
           y == r.settled_reward_total
           dust == DustOf(weight, pool, s + n, y + z)
           accrued == Accrued(n, z, dust)
           e == r.eligible_total
           t == [r EXCEPT !.settled_recipient_weight = s + n,
                          !.settled_reward_total = y + z,
                          !.outstanding_liability = @ + accrued]
<1>1. /\ SettlementInv /\ RoundFacts(a, r, p, c, w) /\ RoundOK(a, r, p)
      /\ r \in LooseResolution /\ p \in [Address -> Position] /\ TalliesOK(r, p)
      /\ a.phase = "Resolved" /\ p[v].kind # "None" /\ ~p[v].settled
      /\ AccountOK(a, r, p, c, w) /\ a \in AssertionV2
      /\ IsRecipient(a.terminal_cause, p[v])
  BY FactsOfRound DEF CapInv, RoundFacts, Settleable
<1>2. a.disputer # NoAddress /\ a.disputer \in Address /\ a.asserter \in Address
  <2>1. a.disputer \in Address
    BY <1>1, PositionsAreDisputed
  <2> QED
    BY <1>1, <2>1, AddressAssumption DEF RoundOK, PartiesOK
<1>3. weight > 0 /\ c \in [Address -> Nat]
  BY <1>1, <1>2, ResolvedFigures DEF AccountOK
<1>4. Settlement(id, v) =
        [weight |-> weight, product |-> n * pool, payout |-> n + z,
         settled_weight |-> s + n, rewards |-> y + z, dust |-> dust,
         accrued |-> accrued]
  BY DEF Settlement, DustOf
<1> HIDE DEF accrued, dust
<1>5. /\ t.eligible_total = r.eligible_total
      /\ t.agree_weight = r.agree_weight /\ t.disagree_weight = r.disagree_weight
      /\ t.withdrawn_total = r.withdrawn_total
      /\ t.settled_recipient_weight = s + n /\ t.settled_reward_total = y + z
      /\ t.outstanding_liability = r.outstanding_liability + accrued
  BY <1>1 DEF LooseResolution
<1> HIDE DEF t
<1>6. RecipientStep(a, r, p, v, weight, pool, n, z, s, y, dust, t)
  BY <1>1, <1>3, <1>5 DEF RecipientStep, accrued, dust
<1>7. s + n <= weight
  <2>1. /\ Total(SettledOf(a.terminal_cause, MarkSettled(p, v)))
             = Total(SettledOf(a.terminal_cause, p)) + n
        /\ Total(SettledOf(a.terminal_cause, MarkSettled(p, v))) <= weight
    BY <1>1, SettledWeight
  <2>2. s = Total(SettledOf(a.terminal_cause, p))
    BY <1>1, <1>2, ResolvedFigures
  <2> QED
    BY <2>1, <2>2
<1>8. DustRecipient(a) \in Address
  BY <1>2 DEF DustRecipient
<1>9. n \in Nat /\ pool \in Nat /\ n <= e => e <= I128Max /\ n * pool <= I128Max
  BY <1>1, <1>2, TotalsInRange DEF CapInv
<1>10. I128Max \in Nat
  BY BoundAssumption
<1>11. r.outstanding_liability = Total(c)
  BY <1>1 DEF AccountOK
<1>12. /\ weight = RecipientWeight(a.terminal_cause, r)
       /\ resolution[id].outstanding_liability = r.outstanding_liability
       /\ assertion[id] = a /\ credit[id] = c /\ resolution[id] = r
  OBVIOUS
<1> HIDE DEF a, r, p, c, w, weight, pool, n, z, s, y
<1>13. /\ s \in Nat /\ y \in Nat /\ n \in Nat /\ z \in Nat /\ dust \in Nat
       /\ weight \in Nat /\ pool \in Nat /\ weight + pool = e
       /\ weight * (y + z) <= pool * (s + n)
       /\ Total(c) \in Nat /\ Total(w) \in Nat
       /\ Total(c) + Total(w) + accrued
            = IF s + n = weight THEN e ELSE (s + n) + (y + z)
  BY <1>1, <1>6, RecipientStepFigures DEF accrued
<1>14. y + z <= pool
  <2>1. y + z \in Nat /\ s + n \in Nat
    BY <1>13
  <2> QED
    BY <1>3, <1>7, <1>13, <2>1, RewardsWithinPool
<1>15. accrued = n + z + dust
  BY DEF accrued, Accrued
<1>16. /\ n + z <= accrued /\ accrued <= e /\ Total(c) + accrued <= e
       /\ s + n <= e /\ y + z <= e /\ n <= e
  <2> HIDE DEF e
  <2> QED
    BY <1>7, <1>13, <1>14, <1>15
<1>17. e <= I128Max /\ n * pool <= I128Max /\ e \in Nat
  BY <1>9, <1>13, <1>16
<1>18. /\ n * pool <= I128Max /\ n + z <= I128Max /\ s + n <= I128Max
       /\ y + z <= I128Max /\ accrued <= I128Max
       /\ r.outstanding_liability + accrued <= I128Max
  <2> HIDE DEF e
  <2> QED
    BY <1>10, <1>11, <1>13, <1>15, <1>16, <1>17
<1>19. ASSUME NEW u \in Address
       PROVE  CreditBoth(c, DustRecipient(a), dust, v, n + z)[u] <= I128Max
  <2> DEFINE d == DustRecipient(a)
  <2>1. n + z \in Nat /\ dust \in Nat /\ d \in Address /\ c \in [Address -> Nat]
    BY <1>3, <1>8, <1>13
  <2> HIDE DEF d, e
  <2>2. /\ CreditBoth(c, d, dust, v, n + z)[u] \in Nat
        /\ CreditBoth(c, d, dust, v, n + z)[u] <= Total(c) + dust + (n + z)
    BY <2>1, CreditAtMostTotal
  <2>3. CreditBoth(c, d, dust, v, n + z)[u] <= I128Max
    BY <1>10, <1>13, <1>15, <1>16, <1>17, <2>2
  <2> QED
    BY <2>3 DEF d
<1>20. /\ Settlement(id, v).product = n * pool
       /\ Settlement(id, v).payout = n + z
       /\ Settlement(id, v).settled_weight = s + n
       /\ Settlement(id, v).rewards = y + z
       /\ Settlement(id, v).dust = dust /\ Settlement(id, v).accrued = accrued
  BY <1>4
<1> QED
  BY <1>3, <1>12, <1>18, <1>19, <1>20 DEF SettleInRange

\* Whatever policy initialize accepted and whatever was deposited, the
\* checked arithmetic of settle never fails: no recipient's bond is stuck
\* behind SettlementArithmeticOverflow, although the eligible total may
\* exceed the cap it was bounded by.
THEOREM SettlementAlwaysInRange == Spec => []SettlementInRange
<1>1. CapInv => SettlementInRange
  BY SettlementFits DEF SettlementInRange
<1> QED
  BY <1>1, CapInvariant, PTL

-----------------------------------------------------------------------------
(* The refinement.  A call on one round is a step of the oracle on its     *)
(* claim or changes nothing the oracle shows.  Only a withdrawal needs the *)
(* accounts: what was paid is within what is accrued and paid, which is    *)
(* within the eligible total, and in a void round within the own bond.     *)

\* The bonds the oracle shows for a round.
BondsOf(a, p) ==
  [x \in Address |-> IF a.disputer # NoAddress THEN p[x].amount
                     ELSE IF a.phase # "Absent" /\ a.asserter = x
                     THEN a.policy.base_bond ELSE 0]

ShownVerdict == [id \in Ids |-> Verdict(assertion[id])]
ShownBonds == [id \in Ids |-> [a \in Address |-> Bonded(id, a)]]

\* What the oracle shows of the round stays as it is.
SameView(id) ==
  /\ Verdict(assertion'[id]) = Verdict(assertion[id])
  /\ BondsOf(assertion'[id], position'[id]) = BondsOf(assertion[id], position[id])
  /\ paid'[id] = paid[id]

LEMMA ShownOf ==
  ASSUME NEW id \in Ids
  PROVE  /\ ShownBonds[id] = BondsOf(assertion[id], position[id])
         /\ ShownBonds'[id] = BondsOf(assertion'[id], position'[id])
         /\ ShownVerdict[id] = Verdict(assertion[id])
         /\ ShownVerdict'[id] = Verdict(assertion'[id])
BY DEF ShownBonds, ShownVerdict, Bonded, BondsOf, Disputed

LEMMA SameRoundSameView ==
  ASSUME NEW id \in Ids, SameRound(id)
  PROVE  SameView(id)
BY DEF SameRound, SameView

LEMMA OracleTotal == \A f : Oracle!Total(f) = Total(f)
<1>1. ASSUME NEW S PROVE Oracle!Cardinality(S) = Cardinality(S)
  BY DEF Oracle!Cardinality, Cardinality
<1>2. ASSUME NEW f PROVE Oracle!Units(f) = Units(f)
  BY DEF Oracle!Units, Units
<1> QED
  BY <1>1, <1>2 DEF Oracle!Total, Total

\* The bonds of an open or disputed round.
LEMMA BondsTotal ==
  ASSUME NEW a, NEW r, NEW p, NEW c, NEW w, RoundFacts(a, r, p, c, w)
  PROVE  /\ BondsOf(a, p) \in [Address -> Nat]
         /\ Total(BondsOf(a, p)) \in Nat
         /\ a.disputer # NoAddress => Total(BondsOf(a, p)) = r.eligible_total
         /\ a.phase = "Pending" => Total(BondsOf(a, p)) = a.policy.base_bond
<1> DEFINE f == BondsOf(a, p)
<1>1. /\ RoundOK(a, r, p) /\ a \in AssertionV2 /\ PartiesOK(a) /\ TalliesOK(r, p)
      /\ p \in [Address -> Position] /\ IsFiniteSet(Address)
  BY AddressAssumption DEF RoundFacts
<1>2. a.phase # "Absent" => a.policy.base_bond \in Nat
  BY <1>1, PolicyFacts DEF PartiesOK
<1>3. f \in [Address -> Nat]
  BY <1>1, <1>2 DEF BondsOf, Position
<1>4. ASSUME a.disputer # NoAddress PROVE Total(f) = r.eligible_total
  <2>1. f = StakeOf(p)
    BY <1>4 DEF BondsOf, StakeOf
  <2> QED
    BY <1>1, <2>1 DEF TalliesOK
<1>5. ASSUME a.phase = "Pending" PROVE Total(f) = a.policy.base_bond
  <2> DEFINE n == a.policy.base_bond
             x == a.asserter
  <2>1. x \in Address /\ n \in Nat /\ a.disputer = NoAddress
    BY <1>1, <1>2, <1>5 DEF PartiesOK
  <2>2. NoWeight \in [Address -> Nat] /\ \A v \in Address : NoWeight[v] = 0
    BY DEF NoWeight
  <2>3. f = Plus(NoWeight, x, n)
    BY <1>5, <2>1, <2>2 DEF BondsOf, Plus, NoWeight
  <2> HIDE DEF f, n, x
  <2>4. Total(NoWeight) = 0
    BY <2>2, NothingIsNothing
  <2>5. Total(Plus(NoWeight, x, n)) = 0 + n
    BY <2>1, <2>2, <2>4, AddressPlus
  <2> QED
    BY <2>1, <2>3, <2>5 DEF n
<1>6. Total(f) \in Nat
  BY <1>1, <1>3, TotalType
<1> QED
  BY <1>3, <1>4, <1>5, <1>6

\* Who has a recorded decision no longer shows as open.
LEMMA DecidedVerdict ==
  ASSUME NEW a, NEW r, a \in AssertionV2, DecisionOK(a, r), CauseOK(a)
  PROVE  /\ a.terminal_cause = "NotYetDecided" <=> Verdict(a) = "open"
         /\ a.terminal_cause # "NotYetDecided" =>
              Verdict(a) \in Outcomes \cup {"void"}
         /\ Verdict(a) = "void" /\ a.disputer # NoAddress =>
              a.terminal_cause \in VoidCauses
<1>1. /\ a.final_outcome \in Outcomes \cup {"none"} /\ a.outcome \in Outcomes
      /\ a.terminal_cause \in TerminalCauses
  BY DEF AssertionV2
<1>2. Opposite(a.outcome) \in Outcomes
  BY DEF Opposite, Outcomes
<1> QED
  BY <1>1, <1>2 DEF Verdict, Outcomes, DecisionOK, CauseOK, TerminalCauses, VoidCauses

-----------------------------------------------------------------------------
(* Steps of the oracle from what they show.                                *)

LEMMA OracleStutters ==
  ASSUME SettlementInv, SettlementInv', \A i \in Ids : SameView(i)
  PROVE  UNCHANGED Oracle!oracleVars
<1>1. paid \in [Ids -> [Address -> Nat]] /\ paid' \in [Ids -> [Address -> Nat]]
  BY DEF SettlementInv, DecisionInv, StructureInv, Shape
<1>2. paid' = paid
  BY <1>1 DEF SameView
<1>3. ShownVerdict' = ShownVerdict
  BY DEF SameView, ShownVerdict
<1>4. ShownBonds' = ShownBonds
  <2>1. \A i \in Ids : ShownBonds'[i] = ShownBonds[i]
    BY ShownOf DEF SameView
  <2> QED
    BY <2>1 DEF ShownBonds
<1> QED
  BY <1>2, <1>3, <1>4 DEF Oracle!oracleVars, ShownVerdict, ShownBonds

\* One party puts a bond on a claim.
LEMMA OracleTakes ==
  ASSUME SettlementInv, SettlementInv', NEW id \in Ids, NEW x \in Address,
         \A i \in Ids \ {id} : SameView(i),
         Verdict(assertion[id]) = "open", Verdict(assertion'[id]) = "open",
         paid'[id] = paid[id],
         BondsOf(assertion'[id], position'[id])[x]
           > BondsOf(assertion[id], position[id])[x],
         \A q \in Address \ {x} : BondsOf(assertion'[id], position'[id])[q]
                                    = BondsOf(assertion[id], position[id])[q]
  PROVE  Oracle!Next
<1>1. paid \in [Ids -> [Address -> Nat]] /\ paid' \in [Ids -> [Address -> Nat]]
  BY DEF SettlementInv, DecisionInv, StructureInv, Shape
<1>2. paid' = paid
  BY <1>1 DEF SameView
<1>3. ShownVerdict' = ShownVerdict /\ ShownVerdict[id] = "open"
  BY DEF SameView, ShownVerdict
<1>4. \A d \in Ids \ {id} : ShownBonds'[d] = ShownBonds[d]
  BY ShownOf DEF SameView
<1>5. /\ ShownBonds'[id][x] > ShownBonds[id][x]
      /\ \A q \in Address \ {x} : ShownBonds'[id][q] = ShownBonds[id][q]
  BY ShownOf
<1>6. Oracle!TakeBond(id, x)
  BY <1>2, <1>3, <1>4, <1>5
     DEF Oracle!TakeBond, Oracle!Only, ShownVerdict, ShownBonds
<1> QED
  BY <1>6 DEF Oracle!Next

\* What a call may give on a claim whose bonds stay as they are.
Gives(id, v) ==
  LET b == BondsOf(assertion[id], position[id]) IN
  /\ BondsOf(assertion'[id], position'[id]) = b
  /\ \A q \in Address : paid'[id][q] >= paid[id][q]
  /\ Total(paid'[id]) <= Total(b)
  /\ v = "void" => \A q \in Address : paid'[id][q] <= b[q]

LEMMA OracleGives ==
  ASSUME NEW id \in Ids, \A i \in Ids \ {id} : SameView(i), NEW v, Gives(id, v)
  PROVE  Oracle!MayGive(id, v) /\ ShownBonds' = ShownBonds
<1> DEFINE b == BondsOf(assertion[id], position[id])
<1>1. \A i \in Ids : ShownBonds'[i] = ShownBonds[i]
  BY ShownOf DEF SameView, Gives
<1>2. ShownBonds' = ShownBonds
  BY <1>1 DEF ShownBonds
<1>3. \A i \in Ids \ {id} : paid'[i] = paid[i]
  BY DEF SameView
<1>4. /\ \A q \in Address : paid'[id][q] >= paid[id][q]
      /\ Total(paid'[id]) <= Total(ShownBonds[id])
      /\ v = "void" => \A q \in Address : paid'[id][q] <= ShownBonds[id][q]
  <2>1. ShownBonds[id] = b
    BY ShownOf
  <2> QED
    BY <2>1 DEF Gives
<1> QED
  BY <1>2, <1>3, <1>4, OracleTotal DEF Oracle!MayGive, Oracle!Only, ShownBonds

\* A claim gets its verdict, possibly with payments.
LEMMA OracleDecides ==
  ASSUME NEW id \in Ids, \A i \in Ids \ {id} : SameView(i),
         Verdict(assertion[id]) = "open",
         Verdict(assertion'[id]) \in Outcomes \cup {"void"},
         Gives(id, Verdict(assertion'[id]))
  PROVE  Oracle!Next
<1> DEFINE v == Verdict(assertion'[id])
<1> HIDE DEF v
<1>1. Oracle!MayGive(id, v) /\ ShownBonds' = ShownBonds
  BY OracleGives DEF v
<1>2. ShownVerdict[id] = "open"
  BY ShownOf
<1>3. ShownVerdict' = [ShownVerdict EXCEPT ![id] = v]
  <2>1. \A i \in Ids \ {id} : ShownVerdict'[i] = ShownVerdict[i]
    BY ShownOf DEF SameView
  <2>2. ShownVerdict'[id] = v
    BY ShownOf DEF v
  <2>3. ShownVerdict' = [i \in Ids |-> ShownVerdict'[i]] /\ DOMAIN ShownVerdict = Ids
        /\ ShownVerdict = [i \in Ids |-> ShownVerdict[i]]
    BY DEF ShownVerdict
  <2> QED
    BY <2>1, <2>2, <2>3
<1>4. Oracle!Decide(id, v)
  BY <1>1, <1>2, <1>3 DEF Oracle!Decide, ShownVerdict, ShownBonds
<1> QED
  BY <1>4 DEF Oracle!Next, Oracle!Verdicts, v

\* A decided claim pays.
LEMMA OraclePays ==
  ASSUME NEW id \in Ids, \A i \in Ids \ {id} : SameView(i),
         assertion'[id] = assertion[id], Verdict(assertion[id]) # "open",
         Gives(id, Verdict(assertion[id]))
  PROVE  Oracle!Next
<1>1. Oracle!MayGive(id, Verdict(assertion[id])) /\ ShownBonds' = ShownBonds
  BY OracleGives
<1>2. ShownVerdict' = ShownVerdict
  BY DEF SameView, ShownVerdict
<1>3. Oracle!Give(id)
  BY <1>1, <1>2 DEF Oracle!Give, ShownVerdict, ShownBonds
<1> QED
  BY <1>3 DEF Oracle!Next

-----------------------------------------------------------------------------
(* Each action on what it shows.                                           *)

\* The facts of a round before and after a step.
LEMMA ViewFacts ==
  ASSUME SettlementInv, SettlementInv', NEW id \in Ids
  PROVE  /\ RoundFacts(assertion[id], resolution[id], position[id], credit[id], paid[id])
         /\ RoundFacts(assertion'[id], resolution'[id], position'[id], credit'[id],
                       paid'[id])
BY FactsOfRound, FactsAfter

\* Before its resolution nothing was paid on a round.
LEMMA NothingPaid ==
  ASSUME NEW a, NEW r, NEW p, NEW c, NEW w, RoundFacts(a, r, p, c, w),
         a.phase # "Resolved"
  PROVE  w \in [Address -> Nat] /\ Total(w) = 0 /\ \A v \in Address : w[v] = 0
<1>1. w \in [Address -> Nat] /\ \A v \in Address : w[v] = 0
  BY DEF RoundFacts, AccountOK, Untouched
<1> QED
  BY <1>1, NothingIsNothing

LEMMA AssertOutcomeShown ==
  ASSUME SettlementInv, SettlementInv', NEW v \in Address, NEW o \in Outcomes,
         AssertOutcome(v, o)
  PROVE  Oracle!Next
<1> DEFINE id == next_id
           a == assertion[id]
           b == [NoAssertion EXCEPT !.phase = "Pending", !.asserter = v,
                       !.opened_at = now, !.outcome = o, !.policy = policy]
           f == BondsOf(a, position[id])
           g == BondsOf(b, position'[id])
<1>1. Shape
  BY DEF SettlementInv, DecisionInv, StructureInv
<1>2. /\ id \in Ids /\ policy \in CandidatePolicies /\ ValidPolicy(policy)
      /\ a.phase = "Absent"
  BY <1>1, BoundAssumption DEF AssertOutcome, Shape, Ids
<1>3. /\ a.disputer = NoAddress /\ a.terminal_cause = "NotYetDecided"
      /\ policy.base_bond \in Nat /\ policy.base_bond > 0
  BY <1>2, FactsOfRound, PolicyFacts DEF RoundFacts, PartiesOK, CauseOK
<1>4. /\ b.phase = "Pending" /\ b.asserter = v /\ b.disputer = NoAddress
      /\ b.policy = policy /\ b.terminal_cause = "NotYetDecided"
  BY DEF NoAssertion
<1>5. assertion'[id] = b /\ \A i \in Ids \ {id} : SameRound(i)
  BY <1>1, <1>2 DEF AssertOutcome, Shape, SameRound
<1>6. paid'[id] = paid[id]
  BY DEF AssertOutcome
<1> HIDE DEF b
<1>7. \A x \in Address : f[x] = 0 /\ g[x] = IF x = v THEN policy.base_bond ELSE 0
  BY <1>2, <1>3, <1>4 DEF BondsOf
<1>8. Verdict(a) = "open" /\ Verdict(b) = "open"
  BY <1>3, <1>4 DEF Verdict
<1>9. \A i \in Ids \ {id} : SameView(i)
  BY <1>5, SameRoundSameView
<1>10. g[v] > f[v] /\ \A x \in Address \ {v} : g[x] = f[x]
  BY <1>3, <1>7
<1> HIDE DEF id, f, g
<1>11. /\ BondsOf(assertion[id], position[id]) = f
       /\ BondsOf(assertion'[id], position'[id]) = g
  BY <1>5 DEF f, g
<1> QED
  BY <1>2, <1>5, <1>6, <1>8, <1>9, <1>10, <1>11, OracleTakes

LEMMA DisputeShown ==
  ASSUME SettlementInv, SettlementInv', NEW v \in Address, NEW id \in Ids,
         Dispute(v, id), \A i \in Ids \ {id} : SameView(i)
  PROVE  Oracle!Next
<1> DEFINE a == assertion[id]
           p == position[id]
           n == a.policy.base_bond
           b == [a EXCEPT !.disputer = v, !.phase = "Registration"]
           q == [p EXCEPT ![a.asserter] = FixedPosition("FixedFor", n),
                          ![v] = FixedPosition("FixedAgainst", n)]
           f == BondsOf(a, p)
           g == BondsOf(b, q)
<1>1. /\ RoundFacts(a, resolution[id], p, credit[id], paid[id])
      /\ a \in AssertionV2 /\ PartiesOK(a) /\ CauseOK(a) /\ ScopeOK(a, resolution[id], p)
      /\ p \in [Address -> Position]
      /\ assertion \in [Ids -> AssertionV2]
      /\ position \in [Ids -> [Address -> Position]]
  BY FactsOfRound DEF RoundFacts, RoundOK
<1>2. a.phase = "Pending" /\ v # a.asserter
  BY DEF Dispute
<1>3. /\ a.asserter \in Address /\ a.disputer = NoAddress /\ v # NoAddress
      /\ n \in Nat /\ n > 0 /\ a.terminal_cause = "NotYetDecided"
      /\ \A x \in Address : p[x] = NoPosition
  BY <1>1, <1>2, AddressAssumption, PolicyFacts DEF PartiesOK, CauseOK, ScopeOK
<1>4. /\ b.disputer = v /\ b.terminal_cause = "NotYetDecided"
  BY <1>1, <1>3 DEF AssertionV2
<1>5. /\ assertion'[id] = b /\ position'[id] = q /\ paid'[id] = paid[id]
  BY <1>1 DEF Dispute
<1>6. /\ NoPosition.amount = 0
      /\ \A k : FixedPosition(k, n).amount = n
  BY DEF NoPosition, FixedPosition
<1>7. \A x \in Address : q[x].amount = IF x = v \/ x = a.asserter THEN n ELSE 0
  BY <1>1, <1>3, <1>6
<1> HIDE DEF b, q, n
<1>8. \A x \in Address : /\ f[x] = IF x = a.asserter THEN n ELSE 0
                         /\ g[x] = IF x = v \/ x = a.asserter THEN n ELSE 0
  BY <1>2, <1>3, <1>4, <1>7 DEF BondsOf, n
<1>9. Verdict(a) = "open" /\ Verdict(b) = "open"
  BY <1>3, <1>4 DEF Verdict
<1>10. g[v] > f[v] /\ \A x \in Address \ {v} : g[x] = f[x]
  BY <1>2, <1>3, <1>8
<1> HIDE DEF a, p, f, g
<1>11. /\ BondsOf(assertion[id], position[id]) = f
       /\ BondsOf(assertion'[id], position'[id]) = g
  BY <1>5 DEF f, g, a, p
<1> QED
  BY <1>5, <1>9, <1>10, <1>11, OracleTakes DEF a

LEMMA RegisterShown ==
  ASSUME SettlementInv, SettlementInv', NEW v \in Address, NEW id \in Ids,
         NEW d \in Deposits, NEW o \in Outcomes, Register(v, id, d, o),
         \A i \in Ids \ {id} : SameView(i)
  PROVE  Oracle!Next
<1> DEFINE a == assertion[id]
           p == position[id]
           n == p[v].amount
           q == [p EXCEPT ![v] = [NoPosition EXCEPT !.amount = n + d,
                                                    !.kind = CommitTo(o)]]
           f == BondsOf(a, p)
           g == BondsOf(a, q)
<1>1. /\ a \in AssertionV2 /\ PartiesOK(a) /\ CauseOK(a)
      /\ p \in [Address -> Position]
      /\ position \in [Ids -> [Address -> Position]]
  BY FactsOfRound DEF RoundFacts
<1>2. /\ a.phase = "Registration" /\ d > 0 /\ d \in Int /\ n \in Nat
  BY <1>1, BoundAssumption DEF Register, Position
<1>3. a.disputer # NoAddress /\ a.terminal_cause = "NotYetDecided"
  BY <1>1, <1>2 DEF PartiesOK, CauseOK
<1>4. /\ assertion'[id] = a /\ position'[id] = q /\ paid'[id] = paid[id]
  BY <1>1 DEF Register
<1>5. q[v].amount = n + d /\ \A x \in Address \ {v} : q[x] = p[x]
  BY <1>1 DEF NoPosition
<1> HIDE DEF q
<1>6. \A x \in Address : f[x] = p[x].amount /\ g[x] = q[x].amount
  BY <1>3 DEF BondsOf
<1>7. Verdict(a) = "open"
  BY <1>3 DEF Verdict
<1>8. g[v] > f[v] /\ \A x \in Address \ {v} : g[x] = f[x]
  BY <1>2, <1>5, <1>6
<1> HIDE DEF a, p, f, g, n
<1>9. /\ BondsOf(assertion[id], position[id]) = f
      /\ BondsOf(assertion'[id], position'[id]) = g
  BY <1>4 DEF f, g, a, p
<1> QED
  BY <1>4, <1>7, <1>8, <1>9, OracleTakes DEF a

LEMMA FinalizeShown ==
  ASSUME SettlementInv, SettlementInv', NEW v \in Address, NEW id \in Ids,
         Finalize(v, id), \A i \in Ids \ {id} : SameView(i)
  PROVE  Oracle!Next
<1> DEFINE a == assertion[id]
           b == [a EXCEPT !.phase = "Resolved",
                          !.terminal_cause = "UncontestedFinalize",
                          !.final_outcome = a.outcome]
           w == paid[id]
           n == FinalizeReward(a.policy)
           m == AsserterRest(a.policy)
           x == a.asserter
           f == BondsOf(a, position[id])
<1>1. /\ RoundFacts(a, resolution[id], position[id], credit[id], w)
      /\ a \in AssertionV2 /\ PartiesOK(a) /\ CauseOK(a)
      /\ assertion \in [Ids -> AssertionV2] /\ paid \in [Ids -> [Address -> Nat]]
  BY FactsOfRound DEF RoundFacts
<1>2. a.phase = "Pending"
  BY DEF Finalize
<1>3. /\ x \in Address /\ a.disputer = NoAddress /\ a.outcome \in Outcomes
      /\ n \in Nat /\ m \in Nat /\ n + m = a.policy.base_bond
      /\ a.terminal_cause = "NotYetDecided"
  BY <1>1, <1>2, PolicyFacts DEF PartiesOK, CauseOK, AssertionV2
<1>4. /\ w \in [Address -> Nat] /\ Total(w) = 0 /\ \A y \in Address : w[y] = 0
      /\ Total(f) = a.policy.base_bond
  BY <1>1, <1>2, NothingPaid, BondsTotal
<1>5. /\ b.disputer = a.disputer /\ b.asserter = a.asserter /\ b.policy = a.policy
      /\ b.phase = "Resolved" /\ b.terminal_cause = "UncontestedFinalize"
      /\ b.final_outcome = a.outcome
  BY <1>1 DEF AssertionV2
<1>6. /\ assertion'[id] = b /\ position'[id] = position[id]
      /\ paid'[id] = Plus(Plus(w, v, n), x, m)
  BY <1>1 DEF Finalize
<1>7. BondsOf(b, position[id]) = f
  BY <1>2, <1>3, <1>5 DEF BondsOf
<1>8. Verdict(a) = "open" /\ Verdict(b) \in Outcomes /\ Verdict(b) # "void"
  BY <1>3, <1>5 DEF Verdict, Outcomes
<1> HIDE DEF b, w, n, m, x
<1>9. Plus(w, v, n) \in [Address -> Nat] /\ Total(Plus(w, v, n)) = n
  BY <1>3, <1>4, AddressPlus
<1> DEFINE w1 == Plus(w, v, n)
           w2 == Plus(w1, x, m)
<1> HIDE DEF w1
<1>10. w2 \in [Address -> Nat] /\ Total(w2) = n + m
  BY <1>3, <1>9, AddressPlus DEF w1
<1>11. paid'[id] = w2
  BY <1>6 DEF w1
<1> HIDE DEF w2, f
<1>12. Gives(id, Verdict(assertion'[id]))
  <2>1. \A y \in Address : w2[y] >= w[y]
    BY <1>4, <1>10
  <2> QED
    BY <1>3, <1>4, <1>6, <1>7, <1>8, <1>10, <1>11, <2>1 DEF Gives, f, w
<1> QED
  BY <1>6, <1>8, <1>12, OracleDecides

LEMMA CancelRoundShown ==
  ASSUME SettlementInv, SettlementInv', NEW k \in AdminKeys, NEW id \in Ids,
         CancelRound(k, id), \A i \in Ids \ {id} : SameView(i)
  PROVE  Oracle!Next
<1> DEFINE a == assertion[id]
           b == [a EXCEPT !.phase = "Resolved", !.terminal_cause = "AdminCancelled"]
           w == paid[id]
           n == IF a.phase = "Pending" THEN a.policy.base_bond ELSE 0
           x == a.asserter
           f == BondsOf(a, position[id])
           w1 == Plus(w, x, n)
<1>1. /\ RoundFacts(a, resolution[id], position[id], credit[id], w)
      /\ a \in AssertionV2 /\ PartiesOK(a) /\ CauseOK(a) /\ DecisionOK(a, resolution[id])
      /\ assertion \in [Ids -> AssertionV2] /\ paid \in [Ids -> [Address -> Nat]]
  BY FactsOfRound DEF RoundFacts
<1>2. a.phase # "Absent" /\ a.terminal_cause = "NotYetDecided"
  BY DEF CancelRound, Undecided
<1>3. /\ x \in Address /\ n \in Nat /\ a.phase # "Resolved" /\ a.final_outcome = "none"
      /\ a.phase = "Pending" => a.disputer = NoAddress
  BY <1>1, <1>2, PolicyFacts DEF PartiesOK, CauseOK, DecisionOK
<1>4. /\ w \in [Address -> Nat] /\ \A y \in Address : w[y] = 0
      /\ f \in [Address -> Nat]
  BY <1>1, <1>3, NothingPaid, BondsTotal
<1>5. /\ b.disputer = a.disputer /\ b.asserter = a.asserter /\ b.policy = a.policy
      /\ b.phase = "Resolved" /\ b.terminal_cause = "AdminCancelled"
      /\ b.final_outcome = "none"
  BY <1>1, <1>3 DEF AssertionV2
<1>6. /\ assertion'[id] = b /\ position'[id] = position[id] /\ paid'[id] = w1
  BY <1>1 DEF CancelRound
<1>7. BondsOf(b, position[id]) = f
  BY <1>2, <1>5 DEF BondsOf
<1>8. Verdict(a) = "open" /\ Verdict(b) = "void"
  BY <1>2, <1>5 DEF Verdict
<1>9. a.phase = "Pending" => f[x] = n
  BY <1>3 DEF BondsOf
<1>10. a.phase # "Pending" => n = 0
  OBVIOUS
<1> HIDE DEF b, w, n, x, f
<1>11. /\ w1 \in [Address -> Nat]
       /\ \A y \in Address : w1[y] = IF y = x THEN n ELSE 0
  BY <1>3, <1>4 DEF Plus
<1> HIDE DEF w1
<1>12. \A y \in Address : w[y] <= w1[y] /\ w1[y] <= f[y]
  BY <1>3, <1>4, <1>9, <1>10, <1>11
<1>13. Total(w1) <= Total(f)
  BY <1>4, <1>11, <1>12, AddressAssumption, TotalMonotone
<1>14. Gives(id, Verdict(assertion'[id]))
  <2>1. \A y \in Address : w1[y] >= w[y]
    BY <1>4, <1>11, <1>12
  <2> QED
    BY <1>6, <1>7, <1>12, <1>13, <2>1 DEF Gives, f, w
<1> QED
  BY <1>6, <1>8, <1>14, OracleDecides

\* A reveal or a closing decides at most, and pays nothing.
LEMMA VoteShown ==
  ASSUME SettlementInv, SettlementInv', [Next]_vars, NEW id \in Ids,
         \/ ResolveOutcome(id)
         \/ \E v \in Address, o \in Outcomes : Reveal(v, id, o),
         \A i \in Ids \ {id} : SameView(i)
  PROVE  Oracle!Next \/ UNCHANGED Oracle!oracleVars
<1> DEFINE a == assertion[id]
           b == assertion'[id]
           f == BondsOf(a, position[id])
<1>1. /\ RoundFacts(a, resolution[id], position[id], credit[id], paid[id])
      /\ RoundFacts(b, resolution'[id], position'[id], credit'[id], paid'[id])
      /\ StructureInv /\ PartiesOK(a) /\ CauseOK(a) /\ CauseOK(b)
      /\ a \in AssertionV2 /\ b \in AssertionV2
      /\ DecisionOK(a, resolution[id]) /\ DecisionOK(b, resolution'[id])
  BY ViewFacts DEF RoundFacts, SettlementInv, DecisionInv
<1>2. /\ RegistrationOver(id) /\ SameBonds(position[id], position'[id])
      /\ paid'[id] = paid[id]
  BY RevealKeepsBonds
<1>3. a.disputer # NoAddress
  BY <1>1, <1>2 DEF RegistrationOver, PartiesOK
<1>4. FinalStep(a, b)
  BY <1>1, RoundStepIsFinal
<1>5. BondsOf(b, position'[id]) = f
  BY <1>2, <1>3, <1>4 DEF FinalStep, BondsOf, SameBonds
<1>6. CASE Verdict(b) = Verdict(a)
  <2>1. SameView(id)
    BY <1>2, <1>5, <1>6 DEF SameView
  <2> QED
    BY <2>1, OracleStutters
<1>7. CASE Verdict(b) # Verdict(a)
  <2>1. a.terminal_cause = "NotYetDecided"
    BY <1>4, <1>7 DEF FinalStep, Verdict
  <2>2. Verdict(a) = "open" /\ Verdict(b) \in Outcomes \cup {"void"}
    BY <1>1, <1>7, <2>1, DecidedVerdict
  <2>3. a.phase # "Resolved"
    BY <1>1, <2>1 DEF CauseOK
  <2>4. /\ paid[id] \in [Address -> Nat] /\ Total(paid[id]) = 0
        /\ \A v \in Address : paid[id][v] = 0
        /\ f \in [Address -> Nat] /\ Total(f) \in Nat
    BY <1>1, <2>3, NothingPaid, BondsTotal
  <2>5. Gives(id, Verdict(b))
    <3>1. /\ \A v \in Address : paid[id][v] >= paid[id][v] /\ paid[id][v] <= f[v]
          /\ Total(paid[id]) <= Total(f)
      <4> HIDE DEF f
      <4> QED
        BY <2>4
    <3> QED
      BY <1>2, <1>5, <3>1 DEF Gives
  <2> QED
    BY <2>2, <2>5, OracleDecides
<1> QED
  BY <1>6, <1>7

LEMMA SettleShown ==
  ASSUME SettlementInv, SettlementInv', NEW id \in Ids, NEW v \in Address,
         Settle(id, v), \A i \in Ids \ {id} : SameView(i)
  PROVE  UNCHANGED Oracle!oracleVars
<1> DEFINE a == assertion[id]
           p == position[id]
           q == MarkSettled(p, v)
<1>1. p \in [Address -> Position] /\ position \in [Ids -> [Address -> Position]]
  BY FactsOfRound DEF RoundFacts
<1>2. assertion'[id] = a /\ position'[id] = q /\ paid'[id] = paid[id]
  BY <1>1 DEF Settle, SettleRecipient, SettleForfeited, MarkSettled
<1>3. \A x \in Address : q[x].amount = p[x].amount
  BY <1>1 DEF MarkSettled, Position
<1> HIDE DEF q
<1>4. BondsOf(a, q) = BondsOf(a, p)
  BY <1>3 DEF BondsOf
<1>5. SameView(id)
  BY <1>2, <1>4 DEF SameView
<1> QED
  BY <1>5, OracleStutters

\* A void round entitles nobody to more than the own bond.
LEMMA VoidEntitled ==
  ASSUME NEW a, NEW r, NEW p, NEW c, NEW w, RoundFacts(a, r, p, c, w),
         EntitledOK(a, r, p, c, w), a.phase = "Resolved", a.disputer # NoAddress,
         a.terminal_cause \in VoidCauses, NEW v \in Address
  PROVE  w[v] <= p[v].amount
<1> DEFINE n == p[v].amount
           cause == a.terminal_cause
           weight == RecipientWeight(cause, r)
           pool == ForfeitedPool(cause, r)
           z == Reward(n, pool, weight)
           x == Remainder(a, r)
<1>1. /\ n \in Nat /\ c[v] \in Nat /\ w[v] \in Nat /\ r.eligible_total \in Nat
  BY DEF RoundFacts, AccountOK, Position, LooseResolution
<1>2. weight = r.eligible_total /\ weight \in Nat /\ weight > 0
  <2>1. weight = r.eligible_total
    BY DEF RecipientWeight, VoidCauses
  <2> QED
    BY <2>1, ResolvedFigures
<1>3. pool = 0
  <2>1. pool = r.eligible_total - weight
    BY DEF ForfeitedPool
  <2> HIDE DEF pool, weight
  <2> QED
    BY <1>1, <1>2, <2>1
<1>4. x = 0
  BY <1>3 DEF Remainder, DustOf
<1>5. z = 0
  <2>1. n * 0 = 0 /\ 0 \div weight = 0
    BY <1>1, <1>2
  <2> QED
    BY <1>3, <2>1 DEF Reward
<1>6. Share(a, r, p[v]) = n + z \/ Share(a, r, p[v]) = 0
  BY DEF Share
<1>7. c[v] + w[v] = Share(a, r, p[v]) + (IF v = DustRecipient(a) THEN x ELSE 0)
  BY DEF EntitledOK
<1> HIDE DEF n, z, x
<1> QED
  BY <1>1, <1>4, <1>5, <1>6, <1>7 DEF n

LEMMA WithdrawShown ==
  ASSUME EntitlementInv, EntitlementInv', NEW v \in Address, NEW id \in Ids,
         NEW d \in Address \cup {Contract}, Withdraw(v, id, d),
         \A i \in Ids \ {id} : SameView(i)
  PROVE  Oracle!Next
<1> DEFINE a == assertion[id]
           p == position[id]
           c == credit[id]
           w == paid[id]
           t == resolution'[id]
           c1 == credit'[id]
           w1 == paid'[id]
           n == c[v]
           f == BondsOf(a, p)
<1>1. SettlementInv /\ SettlementInv'
  BY DEF EntitlementInv
<1>2. /\ RoundFacts(a, resolution[id], p, c, w)
      /\ RoundFacts(assertion'[id], t, position'[id], c1, w1)
      /\ EntitlementOK(assertion'[id], t, position'[id], c1, w1)
      /\ a \in AssertionV2 /\ CauseOK(a) /\ DecisionOK(a, resolution[id])
      /\ c \in [Address -> Nat] /\ w \in [Address -> Nat]
      /\ paid \in [Ids -> [Address -> Nat]]
  BY <1>1, ViewFacts, FactsOfRound DEF EntitlementInv, RoundFacts, AccountOK
<1>3. /\ assertion'[id] = a /\ position'[id] = p /\ n > 0
      /\ w1 = Plus(w, v, n)
  BY <1>2 DEF Withdraw
<1>4. a.phase = "Resolved" /\ a.disputer # NoAddress
  BY <1>2, <1>3 DEF RoundFacts, AccountOK, Untouched
<1>5. a.terminal_cause # "NotYetDecided"
  BY <1>2, <1>4 DEF CauseOK
<1>6. Verdict(a) # "open"
  BY <1>2, <1>5, DecidedVerdict
<1>7. \A x \in Address : w1[x] >= w[x]
  <2> HIDE DEF w, w1, n, c
  <2>1. n \in Nat
    BY <1>2 DEF n
  <2>2. \A x \in Address : w[x] \in Nat /\ w1[x] = IF x = v THEN w[x] + n ELSE w[x]
    BY <1>2, <1>3 DEF Plus
  <2> QED
    BY <2>1, <2>2
<1>8. Total(w1) <= Total(f)
  <2>1. /\ t.outstanding_liability = Total(c1) /\ t.withdrawn_total = Total(w1)
        /\ Total(c1) \in Nat /\ Total(w1) \in Nat
        /\ t.outstanding_liability + t.withdrawn_total <= t.eligible_total
        /\ t.eligible_total \in Nat
    BY <1>2, <1>3, <1>4, RoundLiability
  <2>2. Total(f) = t.eligible_total
    BY <1>2, <1>3, <1>4, BondsTotal
  <2> HIDE DEF f, t, c1, w1
  <2> QED
    BY <2>1, <2>2
<1>9. Verdict(a) = "void" => \A x \in Address : w1[x] <= f[x]
  <2> SUFFICES ASSUME Verdict(a) = "void", NEW x \in Address PROVE w1[x] <= f[x]
    OBVIOUS
  <2>1. a.terminal_cause \in VoidCauses
    BY <1>2, <1>4, DecidedVerdict
  <2>2. RoundFacts(a, t, p, c1, w1) /\ EntitledOK(a, t, p, c1, w1)
    BY <1>2, <1>3, <1>4 DEF EntitlementOK
  <2>3. f[x] = p[x].amount
    BY <1>4 DEF BondsOf
  <2> HIDE DEF a, t, p, c1, w1, f
  <2> QED
    BY <1>4, <2>1, <2>2, <2>3, VoidEntitled
<1>10. Gives(id, Verdict(a))
  BY <1>3, <1>7, <1>8, <1>9 DEF Gives
<1> QED
  BY <1>3, <1>6, <1>10, OraclePays

\* Every call is a step of the oracle or changes nothing it shows.
LEMMA CallShown ==
  ASSUME EntitlementInv, EntitlementInv', [Next]_vars
  PROVE  [Oracle!Next]_(Oracle!oracleVars)
<1>1. SettlementInv /\ SettlementInv' /\ StructureInv /\ Shape
  BY DEF EntitlementInv, SettlementInv, DecisionInv, StructureInv
<1>2. CASE \/ \E k \in AdminKeys, p \in CandidatePolicies : Initialize(k, p)
           \/ \E k \in AdminKeys, n \in AdminKeys : SetAdmin(k, n)
           \/ \E k \in AdminKeys, b \in BOOLEAN : SetPaused(k, b)
           \/ Tick \/ UNCHANGED vars
  <2>1. \A i \in Ids : SameView(i)
    BY <1>2 DEF SameView, Initialize, SetAdmin, SetPaused, Tick, vars
  <2> QED
    BY <1>1, <2>1, OracleStutters
<1>3. CASE \E k \in AdminKeys, id \in Ids : CancelRound(k, id)
  <2>1. PICK k \in AdminKeys, id \in Ids : CancelRound(k, id)
    BY <1>3
  <2>2. \A i \in Ids \ {id} : SameRound(i)
    BY <1>1, <2>1 DEF SameRound, CancelRound, Shape
  <2>3. \A i \in Ids \ {id} : SameView(i)
    BY <2>2, SameRoundSameView
  <2> QED
    BY <1>1, <2>1, <2>3, CancelRoundShown
<1>4. CASE \E v \in Address, o \in Outcomes : AssertOutcome(v, o)
  BY <1>1, <1>4, AssertOutcomeShown
<1>5. CASE \E id \in Ids : RoundNext(id)
  <2>1. PICK id \in Ids : RoundNext(id)
    BY <1>5
  <2>2. \A i \in Ids \ {id} : SameView(i)
    BY <1>1, <2>1, OtherRound, SameRoundSameView
  <2>3. CASE \E v \in Address : Finalize(v, id)
    BY <1>1, <2>2, <2>3, FinalizeShown
  <2>4. CASE \E v \in Address : Dispute(v, id)
    BY <1>1, <2>2, <2>4, DisputeShown
  <2>5. CASE \E v \in Address, d \in Deposits, o \in Outcomes : Register(v, id, d, o)
    BY <1>1, <2>2, <2>5, RegisterShown
  <2>6. CASE \/ ResolveOutcome(id)
             \/ \E v \in Address, o \in Outcomes : Reveal(v, id, o)
    BY <1>1, <2>2, <2>6, VoteShown
  <2>7. CASE \E v \in Address : Settle(id, v)
    BY <1>1, <2>2, <2>7, SettleShown
  <2>8. CASE \E v \in Address, d \in Address \cup {Contract} : Withdraw(v, id, d)
    BY <2>2, <2>8, WithdrawShown
  <2> QED
    BY <2>1, <2>3, <2>4, <2>5, <2>6, <2>7, <2>8 DEF RoundNext
<1> QED
  BY <1>2, <1>3, <1>4, <1>5 DEF Next, AdminNext

\* v2 keeps the promise of BondedOracle: one final verdict per claim, bonds
\* taken only before it, payments only after it and never more than that
\* claim took in, and refunds of at most what each party brought.
THEOREM ContractImplementsOracle == Spec => ImplementsOracle
<1>1. Init => Oracle!Init
  <2> SUFFICES ASSUME Init PROVE Oracle!Init
    OBVIOUS
  <2>1. /\ NoAssertion.phase = "Absent" /\ NoAssertion.disputer = NoAddress
        /\ NoAssertion.terminal_cause = "NotYetDecided"
    BY DEF NoAssertion
  <2>2. Verdict(NoAssertion) = "open"
    BY <2>1 DEF Verdict
  <2>3. \A id \in Ids, a \in Address : Bonded(id, a) = 0
    BY <2>1 DEF Init, Bonded, Disputed
  <2> QED
    BY <2>2, <2>3 DEF Init, Oracle!Init, NoWeight
<1>2. EntitlementInv /\ EntitlementInv' /\ [Next]_vars
        => [Oracle!Next]_(Oracle!oracleVars)
  BY CallShown
<1> QED
  BY <1>1, <1>2, EntitlementInvariant, PTL DEF Spec, ImplementsOracle, Oracle!Spec
=============================================================================
