------------------------------ MODULE TholosV2 ------------------------------
(***************************************************************************)
(* The v2 contract, contracts/tholos-v2/src/lib.rs: an optimistic oracle   *)
(* whose disputes are decided by bonded weight.  An asserter posts a       *)
(* bonded claim; unless it is disputed anyone may finalize it.  A dispute  *)
(* opens a registration phase in which third parties bond weight behind a  *)
(* hidden (committed) side; after the cutoff they reveal; a strict         *)
(* majority of all bonded weight, or a default rule at the reveal          *)
(* deadline, decides; positions are settled into credits, in any order,    *)
(* and credits are withdrawn.                                              *)
(*                                                                         *)
(* One action is one successful contract call.  A call is one ledger       *)
(* transaction: when it returns Err, or the token transfer inside it       *)
(* fails, every write it made is rolled back, so a failing call is no step *)
(* at all.  The variables are the contract's storage entries, its token    *)
(* balance (custody) and what it has transferred out (paid).               *)
(*                                                                         *)
(* Abstracted: a commitment is the choice it opens to (SHA-256 is taken to *)
(* be binding; the preimage names voter and assertion, so a copied         *)
(* commitment opens to nothing, and its owner is a voter who never         *)
(* reveals).  policy_hash and finalizer are never read by the contract and *)
(* are left out, as are events other than transfers and ledger-entry TTLs. *)
(***************************************************************************)
EXTENDS Integers, FiniteSets, Weights

CONSTANTS
  Address,                   \* participants: asserters, disputers, voters
  Contract,                  \* the contract's own address
  NoAddress,                 \* Option::None for an Address
  AdminKeys,                 \* addresses that may hold the admin role
  NoPolicy,                  \* policy entry not yet written
  CandidatePolicies,         \* arguments initialize may be called with
  Deposits,                  \* amounts register may be called with
  MaxAssertions,             \* bound on the number of assertions
  MaxTime,                   \* bound on the ledger clock
  MaxBondAmount,             \* MAX_BOND_AMOUNT
  MaxWindowSecs,             \* MAX_{CHALLENGE_WINDOW,REGISTRATION,REVEAL}_SECS
  MaxAntiSnipeHardMaxSecs,   \* MAX_ANTI_SNIPE_HARD_MAX_SECS
  MaxSettlementTotalWeight,  \* MAX_SETTLEMENT_TOTAL_WEIGHT
  I128Max                    \* i128::MAX

MaxFinalizeRewardBps == 1000
MaxTotalWeightToPositionRatio == 10

PolicyArgs ==
  [base_bond : Int, challenge_window_secs : Nat, finalize_reward_bps : Nat,
   registration_duration_secs : Nat, anti_snipe_extension_secs : Nat,
   anti_snipe_hard_max_secs : Nat, reveal_duration_secs : Nat,
   max_position : Int, max_total_weight : Int]

ASSUME AddressAssumption ==
  /\ IsFiniteSet(Address)
  /\ NoAddress \notin Address /\ Contract \notin Address
ASSUME PolicyAssumption ==
  /\ CandidatePolicies \subseteq PolicyArgs
  /\ NoPolicy \notin CandidatePolicies
ASSUME BoundAssumption ==
  /\ MaxAssertions \in Nat /\ MaxTime \in Nat /\ Deposits \subseteq Int
  /\ MaxBondAmount \in Nat /\ MaxWindowSecs \in Nat
  /\ MaxAntiSnipeHardMaxSecs \in Nat
  /\ MaxSettlementTotalWeight \in Nat /\ I128Max \in Nat
\* The relations between the source's numeric limits: i128::MAX / 1000 and
\* 10^19, whose square is below 2^127 - 1.
ASSUME LimitAssumption ==
  /\ MaxBondAmount * MaxFinalizeRewardBps <= I128Max
  /\ MaxSettlementTotalWeight * MaxSettlementTotalWeight <= I128Max

VARIABLES
  now,         \* env.ledger().timestamp()
  admin,       \* DataKey::Admin
  paused,      \* DataKey::Paused
  policy,      \* DataKey::Policy
  next_id,     \* DataKey::NextId
  assertion,   \* DataKey::AssertionV2(id)
  resolution,  \* DataKey::Resolution(id)
  position,    \* DataKey::Position(id, address)
  credit,      \* DataKey::Credit(id, address)
  custody,     \* the contract's balance of the policy's token
  paid         \* tokens transferred out so far, per assertion and payee

deployment == <<admin, paused, policy>>
vars == <<now, admin, paused, policy, next_id, assertion, resolution,
          position, credit, custody, paid>>

Ids == 0..(MaxAssertions - 1)
Outcomes == {"yes", "no"}
Opposite(o) == IF o = "yes" THEN "no" ELSE "yes"

Phases == {"Absent", "Pending", "Registration", "Reveal", "Resolved"}
VoidCauses == {"AdminCancelled", "RevealQuorumNotMet"}
TerminalCauses == {"NotYetDecided", "UncontestedFinalize", "StrictMajorityFor",
                   "StrictMajorityAgainst", "OptimisticTimeout"} \cup VoidCauses
PositionKinds == {"None", "FixedFor", "FixedAgainst", "CommitYes", "CommitNo"}
Sides == {"none", "agree", "disagree"}

AssertionV2 ==
  [phase : Phases, asserter : Address \cup {NoAddress},
   disputer : Address \cup {NoAddress}, opened_at : Nat, outcome : Outcomes,
   policy : CandidatePolicies \cup {NoPolicy},
   terminal_cause : TerminalCauses, final_outcome : Outcomes \cup {"none"}]

Resolution ==
  [registration_opened_at : Nat, registration_deadline : Nat,
   registration_hard_deadline : Nat, eligible_total : Nat,
   reveal_opened_at : Nat, reveal_deadline : Nat, agree_weight : Nat,
   disagree_weight : Nat, settled_recipient_weight : Nat,
   settled_reward_total : Nat, outstanding_liability : Nat,
   withdrawn_total : Nat]

\* `revealed` is set together with agrees_with_outcome everywhere, so
\* agrees_with_outcome = "none" stands for an unrevealed position.
Position ==
  [amount : Nat, kind : PositionKinds, agrees_with_outcome : Sides,
   settled : BOOLEAN]

\* Ledger entries that do not exist yet.
NoAssertion ==
  [phase |-> "Absent", asserter |-> NoAddress, disputer |-> NoAddress,
   opened_at |-> 0, outcome |-> "yes", policy |-> NoPolicy,
   terminal_cause |-> "NotYetDecided", final_outcome |-> "none"]
NoResolution ==
  [registration_opened_at |-> 0, registration_deadline |-> 0,
   registration_hard_deadline |-> 0, eligible_total |-> 0,
   reveal_opened_at |-> 0, reveal_deadline |-> 0, agree_weight |-> 0,
   disagree_weight |-> 0, settled_recipient_weight |-> 0,
   settled_reward_total |-> 0, outstanding_liability |-> 0,
   withdrawn_total |-> 0]
NoPosition ==
  [amount |-> 0, kind |-> "None", agrees_with_outcome |-> "none",
   settled |-> FALSE]
NoWeight == [a \in Address |-> 0]

-----------------------------------------------------------------------------
(* Deployment.                                                             *)

\* The checks of initialize that keep settlement arithmetic in range.
ValidWeightCapsNoTotalLimit(p) ==  \* fault: the caps before the settlement bound
  /\ 0 < p.max_total_weight
  /\ 0 < p.max_position /\ p.max_position <= p.max_total_weight
  /\ p.max_total_weight <= p.max_position * MaxTotalWeightToPositionRatio

ValidWeightCaps(p) ==
  /\ 0 < p.max_total_weight /\ p.max_total_weight <= MaxSettlementTotalWeight
  /\ 0 < p.max_position /\ p.max_position <= p.max_total_weight
  /\ p.max_total_weight <= p.max_position * MaxTotalWeightToPositionRatio

\* The argument checks of initialize.
ValidPolicy(p) ==
  /\ 0 < p.base_bond /\ p.base_bond <= MaxBondAmount
  /\ 0 < p.challenge_window_secs /\ p.challenge_window_secs <= MaxWindowSecs
  /\ p.finalize_reward_bps <= MaxFinalizeRewardBps
  /\ 0 < p.registration_duration_secs
  /\ p.registration_duration_secs <= MaxWindowSecs
  /\ 0 < p.reveal_duration_secs /\ p.reveal_duration_secs <= MaxWindowSecs
  /\ p.anti_snipe_extension_secs <= p.anti_snipe_hard_max_secs
  /\ p.anti_snipe_hard_max_secs <= MaxAntiSnipeHardMaxSecs
  /\ p.registration_duration_secs <= p.anti_snipe_hard_max_secs
  /\ ValidWeightCaps(p)

\* initialize derives this field instead of taking it as an argument.
MinResolutionBond(p) == p.base_bond

Init ==
  /\ now = 0
  /\ admin \in AdminKeys
  /\ paused = FALSE
  /\ policy = NoPolicy
  /\ next_id = 0
  /\ assertion = [id \in Ids |-> NoAssertion]
  /\ resolution = [id \in Ids |-> NoResolution]
  /\ position = [id \in Ids |-> [a \in Address |-> NoPosition]]
  /\ credit = [id \in Ids |-> NoWeight]
  /\ custody = 0
  /\ paid = [id \in Ids |-> NoWeight]

Initialize(caller, p) ==
  /\ policy = NoPolicy
  /\ caller = admin
  /\ ValidPolicy(p)
  /\ policy' = p
  /\ next_id' = 0
  /\ paused' = FALSE
  /\ UNCHANGED <<now, admin, assertion, resolution, position, credit,
                 custody, paid>>

SetAdmin(caller, new_admin) ==
  /\ caller = admin
  /\ admin' = new_admin
  /\ UNCHANGED <<now, paused, policy, next_id, assertion, resolution,
                 position, credit, custody, paid>>

SetPaused(caller, value) ==
  /\ caller = admin
  /\ paused' = value
  /\ UNCHANGED <<now, admin, policy, next_id, assertion, resolution,
                 position, credit, custody, paid>>

-----------------------------------------------------------------------------
(* The optimistic stage.                                                   *)

AssertOutcome(asserter, outcome) ==
  /\ policy # NoPolicy
  /\ ~paused
  /\ next_id < MaxAssertions
  /\ next_id' = next_id + 1
  /\ assertion' = [assertion EXCEPT ![next_id] =
       [NoAssertion EXCEPT !.phase = "Pending", !.asserter = asserter,
                           !.opened_at = now, !.outcome = outcome,
                           !.policy = policy]]
  /\ custody' = custody + policy.base_bond
  /\ UNCHANGED <<now, deployment, resolution, position, credit, paid>>

FinalizeReward(p) == (p.base_bond * p.finalize_reward_bps) \div 10000
AsserterRestWhole(p) == p.base_bond  \* fault: the reward is not deducted
AsserterRest(p) == p.base_bond - FinalizeReward(p)

Finalize(caller, id) ==
  LET a == assertion[id]
      reward == FinalizeReward(a.policy)
      rest == AsserterRest(a.policy)
  IN
  /\ a.phase = "Pending"
  /\ now > a.opened_at + a.policy.challenge_window_secs
  /\ custody >= a.policy.base_bond
  /\ assertion' = [assertion EXCEPT
       ![id] = [a EXCEPT !.phase = "Resolved",
                         !.terminal_cause = "UncontestedFinalize",
                         !.final_outcome = a.outcome]]
  /\ custody' = custody - reward - rest
  /\ paid' = [paid EXCEPT
       ![id] = Plus(Plus(paid[id], caller, reward), a.asserter, rest)]
  /\ UNCHANGED <<now, deployment, next_id, resolution, position, credit>>

\* A position a party to the dispute holds: its side is public.
FixedPosition(kind, bond) ==
  [NoPosition EXCEPT !.amount = bond, !.kind = kind]

Dispute(disputer, id) ==
  LET a == assertion[id]
      bond == a.policy.base_bond
  IN
  /\ a.phase = "Pending"
  /\ disputer # a.asserter
  /\ assertion' = [assertion EXCEPT
       ![id] = [a EXCEPT !.disputer = disputer, !.phase = "Registration"]]
  /\ position' = [position EXCEPT
       ![id] = [position[id] EXCEPT
                  ![a.asserter] = FixedPosition("FixedFor", bond),
                  ![disputer] = FixedPosition("FixedAgainst", bond)]]
  /\ resolution' = [resolution EXCEPT ![id] =
       [NoResolution EXCEPT
          !.registration_opened_at = now,
          !.registration_deadline = now + a.policy.registration_duration_secs,
          !.registration_hard_deadline = now + a.policy.anti_snipe_hard_max_secs,
          !.eligible_total = bond * 2]]
  /\ custody' = custody + bond
  /\ UNCHANGED <<now, deployment, next_id, credit, paid>>

-----------------------------------------------------------------------------
(* Registration.                                                           *)

AtMost(x, y) == IF x <= y THEN x ELSE y

\* i128::saturating_sub does not saturate here (both operands are
\* non-negative); u64::saturating_sub saturates at 0.
Headroom(p, amount) == p.max_position - amount
SaturatingSub(x, y) == IF x >= y THEN x - y ELSE 0

\* The kind of a position funded with a commitment that opens to choice.
CommitTo(choice) == IF choice = "yes" THEN "CommitYes" ELSE "CommitNo"

\* The least deposit accepted on top of a position of this amount.
EffectiveMinimumAny(p, amount) == 1  \* fault: any deposit extends the phase
EffectiveMinimum(p, amount) == AtMost(MinResolutionBond(p), Headroom(p, amount))

TotalAfterDoubleCount(r, previous, new) ==  \* fault: a top-up counts again
  r.eligible_total + new
TotalAfter(r, previous, new) == r.eligible_total - previous + new

OpenUntilHardDeadline(r) ==  \* fault: the wrong cutoff
  now <= r.registration_hard_deadline
RegistrationOpen(r) == now <= r.registration_deadline

\* The registration deadline after a deposit at time now.
ExtendedDeadline(p, r) ==
  IF now >= SaturatingSub(r.registration_deadline, p.anti_snipe_extension_secs)
  THEN AtMost(now + p.anti_snipe_extension_secs, r.registration_hard_deadline)
  ELSE r.registration_deadline

Register(voter, id, amount, choice) ==
  LET a == assertion[id]
      r == resolution[id]
      previous == position[id][voter]
      new_amount == previous.amount + amount
      new_total == TotalAfter(r, previous.amount, new_amount)
  IN
  /\ a.phase = "Registration"
  /\ voter # a.asserter /\ voter # a.disputer
  /\ amount > 0
  /\ RegistrationOpen(r)
  /\ previous.kind \in {"None", CommitTo(choice)}
  /\ amount >= EffectiveMinimum(a.policy, previous.amount)
  /\ new_amount <= a.policy.max_position
  /\ new_total <= a.policy.max_total_weight
  /\ position' = [position EXCEPT
       ![id] = [position[id] EXCEPT
                  ![voter] = [NoPosition EXCEPT !.amount = new_amount,
                                                !.kind = CommitTo(choice)]]]
  /\ resolution' = [resolution EXCEPT
       ![id] = [r EXCEPT !.registration_deadline = ExtendedDeadline(a.policy, r),
                         !.eligible_total = new_total]]
  /\ custody' = custody + amount
  /\ UNCHANGED <<now, deployment, next_id, assertion, credit, paid>>

-----------------------------------------------------------------------------
(* Reveal and decision.                                                    *)

RevealedWeight(r) == r.agree_weight + r.disagree_weight

MajorityOrTie(weight, w) == weight >= w - weight  \* fault: half is enough
StrictMajority(weight, w) == weight > w - weight

\* lock_outcome_if_undecided: a strict majority of the eligible total.
LockOutcomeIfUndecided(a, r) ==
  LET w == r.eligible_total IN
  IF a.terminal_cause # "NotYetDecided" THEN a
  ELSE IF StrictMajority(r.agree_weight, w)
  THEN [a EXCEPT !.terminal_cause = "StrictMajorityFor",
                 !.final_outcome = a.outcome]
  ELSE IF StrictMajority(r.disagree_weight, w)
  THEN [a EXCEPT !.terminal_cause = "StrictMajorityAgainst",
                 !.final_outcome = Opposite(a.outcome)]
  ELSE a

\* What closing without a strict majority decides: the asserted outcome
\* stands if a majority of the eligible total revealed, else a void round.
OptimisticDefault(a, r) ==
  IF StrictMajority(RevealedWeight(r), r.eligible_total)
  THEN [a EXCEPT !.terminal_cause = "OptimisticTimeout",
                 !.final_outcome = a.outcome]
  ELSE [a EXCEPT !.terminal_cause = "RevealQuorumNotMet"]
DefaultIfUndecided(a, r) ==
  IF a.terminal_cause = "NotYetDecided" THEN OptimisticDefault(a, r) ELSE a

CloseRevealIfReady(a, r, force_close) ==
  LET locked == LockOutcomeIfUndecided(a, r) IN
  IF force_close \/ RevealedWeight(r) >= r.eligible_total
  THEN [DefaultIfUndecided(locked, r) EXCEPT !.phase = "Resolved"]
  ELSE locked

Show(pos, side) == [pos EXCEPT !.agrees_with_outcome = side]

\* open_reveal_phase: freezes the eligible total, counts the two fixed
\* positions and closes at once if they are all the weight there is.
OpenRevealPhase(a, r, p) ==
  LET opened ==
        [r EXCEPT !.reveal_opened_at = now,
                  !.reveal_deadline = now + a.policy.reveal_duration_secs,
                  !.agree_weight = @ + p[a.asserter].amount,
                  !.disagree_weight = @ + p[a.disputer].amount]
  IN [a |-> CloseRevealIfReady([a EXCEPT !.phase = "Reveal"], opened, FALSE),
      r |-> opened,
      p |-> [p EXCEPT ![a.asserter] = Show(@, "agree"),
                      ![a.disputer] = Show(@, "disagree")]]

\* The round as reveal and resolve_outcome find it once they have made the
\* lazy transition out of an expired registration phase.
RoundInReveal(id) ==
  IF assertion[id].phase = "Registration"
  THEN OpenRevealPhase(assertion[id], resolution[id], position[id])
  ELSE [a |-> assertion[id], r |-> resolution[id], p |-> position[id]]

AlreadyInReveal(id) == assertion[id].phase = "Reveal"  \* fault: no lazy opening
RegistrationOver(id) ==
  \/ assertion[id].phase = "Reveal"
  \/ /\ assertion[id].phase = "Registration"
     /\ now > resolution[id].registration_deadline

\* The tally once amount has been revealed on side.
Counted(r, side, amount) ==
  IF side = "agree"
  THEN [r EXCEPT !.agree_weight = @ + amount]
  ELSE [r EXCEPT !.disagree_weight = @ + amount]

Reveal(voter, id, choice) ==
  LET s == RoundInReveal(id)
      side == IF choice = s.a.outcome THEN "agree" ELSE "disagree"
      tally == Counted(s.r, side, s.p[voter].amount)
  IN
  /\ RegistrationOver(id)
  /\ now <= s.r.reveal_deadline
  /\ s.p[voter].agrees_with_outcome = "none"
  /\ s.p[voter].kind = CommitTo(choice)
  /\ assertion' = [assertion EXCEPT ![id] = CloseRevealIfReady(s.a, tally, FALSE)]
  /\ resolution' = [resolution EXCEPT ![id] = tally]
  /\ position' = [position EXCEPT
       ![id] = [s.p EXCEPT ![voter] = Show(@, side)]]
  /\ UNCHANGED <<now, deployment, next_id, credit, custody, paid>>

AllRevealed(r) ==  \* fault: the deadline does not close a round
  RevealedWeight(r) >= r.eligible_total
RevealOverAtDeadline(r) ==  \* fault: closed in the last second of the phase
  now >= r.reveal_deadline \/ RevealedWeight(r) >= r.eligible_total
RevealOver(r) ==
  now > r.reveal_deadline \/ RevealedWeight(r) >= r.eligible_total

\* A call on a Resolved assertion only returns its cause, which is no step.
\* A call that opens the reveal phase but cannot close it returns
\* RevealNotClosed, which rolls the opening back: no step either.
ResolveOutcome(id) ==
  LET s == RoundInReveal(id) IN
  /\ RegistrationOver(id)
  /\ s.a.phase = "Resolved" \/ RevealOver(s.r)
  /\ assertion' = [assertion EXCEPT
       ![id] = IF s.a.phase = "Resolved" THEN s.a
               ELSE CloseRevealIfReady(s.a, s.r, TRUE)]
  /\ resolution' = [resolution EXCEPT ![id] = s.r]
  /\ position' = [position EXCEPT ![id] = s.p]
  /\ UNCHANGED <<now, deployment, next_id, credit, custody, paid>>

NotResolvedYet(a) ==  \* fault: a locked outcome can be cancelled
  a.phase \notin {"Absent", "Resolved"}
Undecided(a) == a.phase # "Absent" /\ a.terminal_cause = "NotYetDecided"

CancelRound(caller, id) ==
  LET a == assertion[id]
      refund == IF a.phase = "Pending" THEN a.policy.base_bond ELSE 0
  IN
  /\ caller = admin
  /\ paused
  /\ Undecided(a)
  /\ custody >= refund
  /\ assertion' = [assertion EXCEPT
       ![id] = [a EXCEPT !.phase = "Resolved",
                         !.terminal_cause = "AdminCancelled"]]
  /\ custody' = custody - refund
  /\ paid' = [paid EXCEPT ![id] = Plus(@, a.asserter, refund)]
  /\ UNCHANGED <<now, deployment, next_id, resolution, position, credit>>

-----------------------------------------------------------------------------
(* Settlement and withdrawal.                                              *)

\* settlement_pool: the weight that shares the pool, and the pool.
RecipientWeight(cause, r) ==
  CASE cause = "StrictMajorityFor" -> r.agree_weight
    [] cause = "StrictMajorityAgainst" -> r.disagree_weight
    [] cause = "OptimisticTimeout" -> RevealedWeight(r)
    [] OTHER -> r.eligible_total
ForfeitedPool(cause, r) == r.eligible_total - RecipientWeight(cause, r)

RevealedIsRecipient(cause, pos) ==  \* fault: void rounds forfeit the unrevealed
  CASE cause = "StrictMajorityFor" -> pos.agrees_with_outcome = "agree"
    [] cause = "StrictMajorityAgainst" -> pos.agrees_with_outcome = "disagree"
    [] OTHER -> pos.agrees_with_outcome # "none"
IsRecipient(cause, pos) ==
  CASE cause = "StrictMajorityFor" -> pos.agrees_with_outcome = "agree"
    [] cause = "StrictMajorityAgainst" -> pos.agrees_with_outcome = "disagree"
    [] cause = "OptimisticTimeout" -> pos.agrees_with_outcome # "none"
    [] OTHER -> TRUE

DustRecipient(a) ==
  IF a.terminal_cause = "StrictMajorityAgainst" THEN a.disputer ELSE a.asserter

Reward(amount, pool, weight) == (amount * pool) \div weight

\* This settlement completes the recipients' side.
PastLast(settled_weight, weight) == settled_weight > weight  \* fault: never true
IsLast(settled_weight, weight) == settled_weight = weight

AccruedWithoutDust(amount, reward, dust) == amount + reward  \* fault
Accrued(amount, reward, dust) == amount + reward + dust

\* Two add_credit calls: the dust, then the payout.
CreditFromStaleRead(c, dust_recipient, dust, address, payout) ==  \* fault
  [Plus(c, dust_recipient, dust) EXCEPT ![address] = c[address] + payout]
CreditBoth(c, dust_recipient, dust, address, payout) ==
  Plus(Plus(c, dust_recipient, dust), address, payout)

Settleable(id, address) ==
  /\ assertion[id].phase = "Resolved"
  /\ assertion[id].terminal_cause # "UncontestedFinalize"
  /\ position[id][address].kind # "None"
  /\ ~position[id][address].settled

\* What settling a recipient's position computes.
Settlement(id, address) ==
  LET cause == assertion[id].terminal_cause
      r == resolution[id]
      amount == position[id][address].amount
      weight == RecipientWeight(cause, r)
      pool == ForfeitedPool(cause, r)
      reward == Reward(amount, pool, weight)
      settled_weight == r.settled_recipient_weight + amount
      rewards == r.settled_reward_total + reward
      dust == IF pool > 0 /\ IsLast(settled_weight, weight)
              THEN pool - rewards ELSE 0
  IN [weight |-> weight, product |-> amount * pool, payout |-> amount + reward,
      settled_weight |-> settled_weight, rewards |-> rewards, dust |-> dust,
      accrued |-> Accrued(amount, reward, dust)]

\* settle's checked_div, checked_mul and checked_adds all succeed, and so do
\* add_credit's.
SettleInRange(id, address) ==
  /\ RecipientWeight(assertion[id].terminal_cause, resolution[id]) > 0
  /\ LET s == Settlement(id, address)
         credited == CreditBoth(credit[id], DustRecipient(assertion[id]),
                                s.dust, address, s.payout)
     IN /\ \A x \in {s.product, s.payout, s.settled_weight, s.rewards,
                       s.accrued,
                       resolution[id].outstanding_liability + s.accrued} :
             x <= I128Max
        /\ \A a \in Address : credited[a] <= I128Max

SettleRecipient(id, address) ==
  LET a == assertion[id]
      r == resolution[id]
      pos == position[id][address]
      s == Settlement(id, address)
  IN
  /\ Settleable(id, address)
  /\ IsRecipient(a.terminal_cause, pos)
  /\ SettleInRange(id, address)
  /\ position' = [position EXCEPT
       ![id] = [position[id] EXCEPT ![address] = [pos EXCEPT !.settled = TRUE]]]
  /\ resolution' = [resolution EXCEPT
       ![id] = [r EXCEPT !.settled_recipient_weight = s.settled_weight,
                         !.settled_reward_total = s.rewards,
                         !.outstanding_liability = @ + s.accrued]]
  /\ credit' = [credit EXCEPT
       ![id] = CreditBoth(credit[id], DustRecipient(a), s.dust,
                          address, s.payout)]
  /\ UNCHANGED <<now, deployment, next_id, assertion, custody, paid>>

SettleForfeited(id, address) ==
  /\ Settleable(id, address)
  /\ ~IsRecipient(assertion[id].terminal_cause, position[id][address])
  /\ position' = [position EXCEPT
       ![id] = [position[id] EXCEPT ![address] =
                  [position[id][address] EXCEPT !.settled = TRUE]]]
  /\ UNCHANGED <<now, deployment, next_id, assertion, resolution, credit,
                 custody, paid>>

Settle(id, address) == SettleRecipient(id, address) \/ SettleForfeited(id, address)

\* The owner may name any destination, the contract itself included.
Withdraw(owner, id, destination) ==
  LET amount == credit[id][owner] IN
  /\ amount > 0
  /\ custody >= amount
  /\ credit' = [credit EXCEPT ![id] = [credit[id] EXCEPT ![owner] = 0]]
  /\ resolution' = [resolution EXCEPT
       ![id] = [resolution[id] EXCEPT !.outstanding_liability = @ - amount,
                                      !.withdrawn_total = @ + amount]]
  /\ custody' = IF destination = Contract THEN custody ELSE custody - amount
  /\ paid' = [paid EXCEPT ![id] = Plus(@, owner, amount)]
  /\ UNCHANGED <<now, deployment, next_id, assertion, position>>

-----------------------------------------------------------------------------
(* The ledger clock, bounded by MaxTime.                                   *)
Tick ==
  /\ now < MaxTime
  /\ now' = now + 1
  /\ UNCHANGED <<deployment, next_id, assertion, resolution, position, credit,
                 custody, paid>>

AdminNext ==
  \E k \in AdminKeys :
    \/ \E p \in CandidatePolicies : Initialize(k, p)
    \/ \E n \in AdminKeys : SetAdmin(k, n)
    \/ \E b \in BOOLEAN : SetPaused(k, b)
    \/ \E id \in Ids : CancelRound(k, id)

RoundNext(id) ==
  \/ \E a \in Address : Finalize(a, id)
  \/ \E a \in Address : Dispute(a, id)
  \/ \E a \in Address, d \in Deposits, o \in Outcomes : Register(a, id, d, o)
  \/ \E a \in Address, o \in Outcomes : Reveal(a, id, o)
  \/ ResolveOutcome(id)
  \/ \E a \in Address : Settle(id, a)
  \/ \E a \in Address, d \in Address \cup {Contract} : Withdraw(a, id, d)

Next ==
  \/ AdminNext
  \/ \E a \in Address, o \in Outcomes : AssertOutcome(a, o)
  \/ \E id \in Ids : RoundNext(id)
  \/ Tick

Spec == Init /\ [][Next]_vars

-----------------------------------------------------------------------------
(* Properties.                                                             *)

\* The storage entries and the token balance have their types: dates are
\* u64, amounts are i128 and never negative.
TypeOK ==
  /\ now \in 0..MaxTime
  /\ admin \in AdminKeys
  /\ paused \in BOOLEAN
  /\ policy \in CandidatePolicies \cup {NoPolicy}
  /\ next_id \in 0..MaxAssertions
  /\ assertion \in [Ids -> AssertionV2]
  /\ resolution \in [Ids -> Resolution]
  /\ position \in [Ids -> [Address -> Position]]
  /\ credit \in [Ids -> [Address -> Nat]]
  /\ custody \in Nat
  /\ paid \in [Ids -> [Address -> Nat]]

Disputed(id) == assertion[id].disputer # NoAddress
Stake(id) == [a \in Address |-> position[id][a].amount]
RevealedStake(id, side) ==
  [a \in Address |-> IF position[id][a].agrees_with_outcome = side
                     THEN position[id][a].amount ELSE 0]

\* The running totals that register, open_reveal_phase and reveal maintain
\* incrementally are what a scan of the positions would find: every unit of
\* the eligible total belongs to one position and every revealed unit is
\* tallied once, on the side its position shows.
TotalsMatchPositions ==
  \A id \in Ids :
    /\ resolution[id].eligible_total = Total(Stake(id))
    /\ resolution[id].agree_weight = Total(RevealedStake(id, "agree"))
    /\ resolution[id].disagree_weight = Total(RevealedStake(id, "disagree"))

\* A recorded decision is the one the frozen weights call for, whatever was
\* revealed after it locked: a strict majority of all bonded weight, the
\* asserted outcome by default when only a majority revealed, and a void
\* round (no outcome) when not even that, as CloseRevealIfReady's quorum has it
\* (the documentation partly leaves the void round out: README, section 6).
DecisionMatchesWeights ==
  \A id \in Ids :
    LET a == assertion[id]
        r == resolution[id]
        w == r.eligible_total
    IN /\ a.terminal_cause = "StrictMajorityFor" =>
            2 * r.agree_weight > w /\ a.final_outcome = a.outcome
       /\ a.terminal_cause = "StrictMajorityAgainst" =>
            2 * r.disagree_weight > w /\ a.final_outcome = Opposite(a.outcome)
       /\ a.terminal_cause = "OptimisticTimeout" =>
            /\ 2 * RevealedWeight(r) > w
            /\ 2 * r.agree_weight <= w /\ 2 * r.disagree_weight <= w
            /\ a.final_outcome = a.outcome
       /\ a.terminal_cause = "RevealQuorumNotMet" =>
            2 * RevealedWeight(r) <= w /\ a.final_outcome = "none"
       /\ a.terminal_cause = "AdminCancelled" => a.final_outcome = "none"
       /\ a.terminal_cause = "NotYetDecided" =>
            /\ a.phase # "Resolved" /\ a.final_outcome = "none"
            /\ 2 * r.agree_weight <= w /\ 2 * r.disagree_weight <= w

\* Once decided, an assertion keeps its cause and its outcome: later
\* reveals, closes, cancellations and settlements never change them, and
\* the claim, its parties and its pinned policy never change at all.  After
\* the challenge window dispute and finalize race: whichever comes second
\* fails, so that a finalized claim never gets a disputer and a disputed one
\* is never finalized as uncontested.
DecisionIsFinal ==
  [][\A id \in Ids :
       LET a == assertion[id]
           b == assertion'[id]
       IN /\ a.terminal_cause # "NotYetDecided" =>
               /\ b.terminal_cause = a.terminal_cause
               /\ b.final_outcome = a.final_outcome
               /\ b.disputer = a.disputer
          /\ a.phase # "Absent" =>
               /\ b.asserter = a.asserter /\ b.outcome = a.outcome
               /\ b.policy = a.policy
          /\ a.disputer # NoAddress =>
               /\ b.disputer = a.disputer
               /\ b.terminal_cause # "UncontestedFinalize"]_vars

\* After the registration cutoff the electorate is frozen: no position is
\* funded, changes its amount or its committed side, and a revealed position
\* keeps its side.
ElectorateFrozenAfterCutoff ==
  [][\A id \in Ids :
       assertion[id].phase = "Resolved" \/ RegistrationOver(id) =>
         /\ resolution'[id].eligible_total = resolution[id].eligible_total
         /\ \A v \in Address :
              LET p == position[id][v]
                  q == position'[id][v]
              IN /\ q.amount = p.amount /\ q.kind = p.kind
                 /\ p.agrees_with_outcome # "none" =>
                      q.agrees_with_outcome = p.agrees_with_outcome]_vars

\* The reveal phase ends at its deadline, for everybody alike: a voter's
\* reveal counts up to and including the last second of it; while weight is
\* unrevealed only the passing of that second closes the round, and only once
\* an earlier call has opened the phase; the deadline stays where the opening
\* put it; and nothing is counted after the close.
RevealEndsAtDeadline ==
  [][\A id \in Ids :
       LET a == assertion[id]
           b == assertion'[id]
           r == resolution[id]
           s == resolution'[id]
           closed == /\ a.phase # "Resolved" /\ b.phase = "Resolved"
                     /\ b.disputer # NoAddress
                     /\ b.terminal_cause # "AdminCancelled"
       IN /\ \A v \in Address \ {a.asserter, a.disputer} :
               position'[id][v].agrees_with_outcome
                   # position[id][v].agrees_with_outcome
                 => now <= s.reveal_deadline
          /\ closed /\ RevealedWeight(s) < s.eligible_total =>
               a.phase = "Reveal" /\ now > r.reveal_deadline
          /\ a.phase \in {"Reveal", "Resolved"} =>
               s.reveal_deadline = r.reveal_deadline
          /\ a.phase = "Resolved" => RevealedWeight(s) = RevealedWeight(r)]_vars

\* The anti-snipe extension: the cutoff only moves later, never past the
\* hard deadline fixed at the dispute, and only for a deposit that brings a
\* whole minimum bond of weight or fills its position up to the cap.
CutoffMovesOnlyForWeight ==
  [][\A id \in Ids :
       LET r == resolution[id]
           s == resolution'[id]
           p == assertion[id].policy
       IN assertion[id].phase = "Registration" =>
            /\ s.registration_deadline >= r.registration_deadline
            /\ s.registration_deadline <= s.registration_hard_deadline
            /\ s.registration_hard_deadline = r.registration_hard_deadline
            /\ s.registration_deadline # r.registration_deadline =>
                 \/ s.eligible_total - r.eligible_total >= MinResolutionBond(p)
                 \/ \E v \in Address :
                      /\ position'[id][v].amount = p.max_position
                      /\ position[id][v].amount < p.max_position]_vars

-----------------------------------------------------------------------------
(* Settlement properties.                                                  *)

\* What the position of address is worth once the round is resolved.
Entitlement(id, address) ==
  LET cause == assertion[id].terminal_cause
      r == resolution[id]
      pos == position[id][address]
  IN IF IsRecipient(cause, pos)
     THEN pos.amount + Reward(pos.amount, ForfeitedPool(cause, r),
                              RecipientWeight(cause, r))
     ELSE 0

Recipients(id) ==
  {a \in Address : /\ position[id][a].kind # "None"
                   /\ IsRecipient(assertion[id].terminal_cause, position[id][a])}
Dust(id) ==
  IF \A a \in Recipients(id) : position[id][a].settled
  THEN resolution[id].eligible_total
         - Total([a \in Recipients(id) |-> Entitlement(id, a)])
  ELSE 0

\* Settlement is order-independent and happens once: whatever the order of
\* settle and withdraw calls, what an address has been credited or paid is
\* its position's entitlement from the frozen tallies, 0 before it is
\* settled; only the last recipient's settlement adds the rounding dust,
\* and always for the same party.
PayoutsMatchEntitlements ==
  \A id \in Ids :
    assertion[id].phase = "Resolved" /\ Disputed(id) =>
      \A a \in Address :
        credit[id][a] + paid[id][a] =
          (IF position[id][a].settled THEN Entitlement(id, a) ELSE 0)
          + (IF a = DustRecipient(assertion[id]) THEN Dust(id) ELSE 0)

\* What settling a position leaves its owner with, under every cause and
\* whatever was revealed after the decision locked: exactly its principal in
\* a round without an outcome, revealed or not; at least its principal on the
\* winning side, and on either side if revealed weight alone could not
\* decide; and nothing, the dust included, for a revealed loser of a strict
\* majority and for whoever did not reveal in a decided round.
PrincipalProtected ==
  \A id \in Ids : \A a \in Address :
    LET pos == position[id][a]
        side == pos.agrees_with_outcome
        received == credit[id][a] + paid[id][a]
        cause == assertion[id].terminal_cause
        KeptBy(sides) ==
          IF side \in sides THEN received >= pos.amount ELSE received = 0
    IN pos.settled =>
         /\ cause \in VoidCauses => received = pos.amount
         /\ cause = "StrictMajorityFor" => KeptBy({"agree"})
         /\ cause = "StrictMajorityAgainst" => KeptBy({"disagree"})
         /\ cause = "OptimisticTimeout" => KeptBy({"agree", "disagree"})

\* The dispute's liability record: what settle has accrued and withdraw has
\* not yet paid is the sum of the credits, what was withdrawn is the sum of
\* the payments, both together never exceed the eligible total, and once
\* every position is settled they are exactly the eligible total.
LiabilityMatchesCredits ==
  \A id \in Ids :
    LET r == resolution[id] IN
    Disputed(id) =>
      /\ r.outstanding_liability = Total(credit[id])
      /\ r.withdrawn_total = Total(paid[id])
      /\ r.outstanding_liability + r.withdrawn_total <= r.eligible_total
      /\ (\A a \in Recipients(id) : position[id][a].settled)
           /\ assertion[id].phase = "Resolved" =>
           r.outstanding_liability + r.withdrawn_total = r.eligible_total

\* What the contract still owes on account of an assertion.
Owed(id) ==
  IF Disputed(id)
  THEN resolution[id].eligible_total - resolution[id].withdrawn_total
  ELSE IF assertion[id].phase = "Pending" THEN assertion[id].policy.base_bond
  ELSE 0

\* The contract holds one token balance for all assertions, and it always
\* covers what is owed on all of them together: no assertion's payouts are
\* paid out of another one's bonds.
Solvency == custody >= Total([id \in Ids |-> Owed(id)])

\* settle's checked arithmetic never fails: no recipient of a resolved round
\* is stuck behind SettlementArithmeticOverflow, whatever policy initialize
\* accepted and whatever was deposited.
SettlementInRange ==
  \A id \in Ids : \A a \in Address :
    /\ Settleable(id, a)
    /\ IsRecipient(assertion[id].terminal_cause, position[id][a])
    => SettleInRange(id, a)

-----------------------------------------------------------------------------
(* Liveness.  resolve_outcome and settle are permissionless, so a keeper   *)
(* who keeps calling them justifies weak fairness of each; an owner of a   *)
(* credit keeps calling withdraw; nothing obliges a voter to reveal, an    *)
(* admin to act or a third party to dispute.                               *)
KeeperFairness ==
  /\ WF_vars(Tick)
  /\ \A id \in Ids : WF_vars(ResolveOutcome(id))
  /\ \A id \in Ids, a \in Address : WF_vars(Settle(id, a))
OwnerFairness ==
  \A id \in Ids, a \in Address :
    WF_vars(\E d \in Address \cup {Contract} : Withdraw(a, id, d))

FairSpec == Spec /\ KeeperFairness /\ OwnerFairness

\* Once the reveal phase is open the round is decided without any further
\* vote, admin call or the parties' cooperation, as long as the clock can
\* still pass the reveal deadline.
OpenRevealCloses ==
  \A id \in Ids :
    assertion[id].phase = "Reveal" /\ resolution[id].reveal_deadline < MaxTime
      ~> assertion[id].phase = "Resolved"

\* A resolved dispute pays out everything it took in, to the last unit.
ResolvedPaysOutInFull ==
  \A id \in Ids :
    assertion[id].phase = "Resolved" /\ Disputed(id)
      ~> Total(paid[id]) = resolution[id].eligible_total

\* One revealing voter suffices: if a voter with a position keeps trying to
\* reveal, the dispute is decided, whatever everybody else does, unless the
\* model's clock ends before the reveal deadline.
OneVoterSuffices ==
  \A id \in Ids, v \in Address :
    WF_vars(\E o \in Outcomes : Reveal(v, id, o)) =>
      (/\ assertion[id].phase = "Registration"
       /\ position[id][v].kind \in {"CommitYes", "CommitNo"}
       /\ resolution[id].registration_hard_deadline < MaxTime
       ~> \/ assertion[id].phase = "Resolved"
          \/ resolution[id].reveal_deadline >= MaxTime)

-----------------------------------------------------------------------------
(* Statements of the documentation that the code does not meet.            *)

\* V2_RESOLUTION.md: a caller may advance an expired phase permissionlessly;
\* progress cannot depend on an admin or on one designated account.
ExpiredRegistrationAdvances ==
  \A id \in Ids :
    /\ assertion[id].phase = "Registration"
    /\ resolution[id].registration_hard_deadline < MaxTime
    ~> assertion[id].phase # "Registration"
=============================================================================
