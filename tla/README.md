# Tholos: specification, model checking and proofs

Tholos is an optimistic oracle on Stellar/Soroban. Somebody posts a bonded
claim about the outcome of an event; if nobody disputes it in time the claim
stands; if somebody matches the bond, the dispute is decided, and the bonds of
the losers go to the winners. The repository holds two generations of the
contract, their client and consumer contracts, a TypeScript SDK, a monitor and
a demo. This directory specifies both contracts, a contract that calls them,
the monitor and the demo's view of the chain in TLA+, checks small instances
with TLC, and proves the safety properties of all of them with TLAPS for every
value of the constants.

A step of the contract models is one *successful* call. Soroban rolls a failed
call back completely, so an error path is the absence of a step; the guards of
an action are exactly the code's error checks, including the checks made after
state was already written. The release profile has `overflow-checks = true`,
so a wrapping subtraction or addition is a failing call too.

## 1. Inventory

| Component | State | Operations | Talks to |
|---|---|---|---|
| `contracts/tholos-v2` | instance entries (admin, pause, pinned policy, next id, guard flag); per assertion an `AssertionV2` and a `Resolution`; per voter a `Position` and a `Credit` | `initialize`, `set_admin`, `set_paused_v2`, `assert_outcome`, `finalize`, `dispute`, `register`, `reveal`, `resolve_outcome`, `cancel_round`, `settle`, `withdraw`, `bump_ttl` | token contract (transfers, balances), ledger clock |
| `contracts/tholos` (v1) | instance entries (admin, admin proposal, committee, rotation proposal, pause, bond amount, window, reward, stall timeout, next id); per assertion an `Assertion`, its escrow and the time of its dispute | `initialize`, two-step admin transfer, `update_resolvers`, `propose_/vote_/cancel_rotation`, setters, `assert_outcome`, `dispute`, `finalize`, `resolve`, `reclaim_stalled_dispute` | token contract, ledger clock |
| `contracts/tholos-client` | none | types and a generated call interface for v1 | v1 |
| `contracts/asserter-consumer` | its admin, the v1 deployment and the token it trusts, its own token balance | `initialize` (pins both), `create_assertion_as_self` with a bond authorized to the unit, `get_status` | v1 by cross-contract call |
| `contracts/demo-consumer` | none | passes an end user's `create_assertion` on to v1, and reads an assertion | v1 by cross-contract call |
| `packages/tholos-monitor` | per deployment a persisted event cursor, a failure count and whether the failure streak was alerted | poll a page of events, match and alert, persist, retry, recover from a retention gap | Soroban RPC, alert webhook, a state file |
| `packages/tholos-sdk` | none | generated bindings of v1 | v1 by RPC |
| `demos/freelance-escrow` | jobs in browser storage, overlapping chain reads in flight | create, assert, dispute, vote, finalize, reconcile with the chain | SDK, wallet |
| `tools/compute-commitment` | none | hash of a vote preimage | -- |
| scripts, docs | -- | load and smoke scripts, documentation | -- |

### What is hard in each part

**v2.** Anybody can call anything at any time, in any order: deposits race
with the registration cutoff and with anti-snipe extensions of it; reveals
race with the reveal deadline and with each other; an admin may cancel while a
majority is about to lock; settlements arrive in any order and interleave with
withdrawals. The contract never scans its voters. It keeps *running totals*
(`eligible_total`, `agree_weight`, `settled_recipient_weight`,
`settled_reward_total`, `outstanding_liability`) that must equal sums it can no
longer compute, closes registration lazily inside whichever call comes first,
floors each reward and gives the rest, the dust, to one party with the last
settlement. One token balance backs every assertion.
*Correct* means: totals match positions; the decision is the one the frozen
weights call for and is final; nobody enters, leaves or changes weight after
the cutoff; everyone is paid exactly the entitlement, in every order; honest
voters never lose principal; the balance covers what is owed; every dispute
can end.

**v1.** A dispute is decided by the committee of the moment it opened, while
the live committee changes by admin override or by its own vote; parties may
sit on it but not vote; the token may take a fee, so what came in is not what
was sent; the admin changes settings under open assertions; a stalled dispute
is refunded by timeout in a race with a late vote.
*Correct* means: verdicts follow the votes of the frozen committee; payouts
are exactly the escrow; the shared balance covers what is left; an open
rotation fits the committee it is voted on by; the committee stays an odd set
of distinct members; claims and rotations end.

Every entry of a Soroban contract has a lifetime and is archived when it runs
out. v2 renews what it writes by a bump computed from the policy
(`record_bump`), so that a round cannot lose its records while it runs; nobody
should pay for entries that hold nothing any more.

**Consumer.** It cannot ask v1 for the bond amount, so it authorizes what its
admin last learned; v1's admin may have changed it since, and may change it
again while the claim is open. *Correct* means: a claim never costs it more than
its admin agreed to, and it gets back what the verdicts call for.

**Monitor.** A run that dies between alerting and saving, pages that fail after
earlier ones succeeded, a cursor older than the RPC's retention, a page cap
that ends a poll half way, a state file that is lost, an alert that fails on
its last attempt while the cursor moves on. *Correct* means: no event is passed
over in silence; nothing is repeated that was saved; a streak of failures is
announced once, and so is its end.

**Demo.** Reads of the same milestone overlap and return out of order, and the
tab's own calls race with them, with failures and with page loads. *Correct*
means: what is shown as settled is true, and stays; and the tab catches up.

`PROJECT.json` lists the hazards with their lines and the properties that
cover them.

## 2. Modules

| Module | Models |
|---|---|
| `Weights` | sums of bonded weight without recursion: `Total(f)` counts the weight units of `f` |
| `TholosV2` | the v2 contract: one action per entry point, its properties and its fairness |
| `TholosV2Refinement` | the mapping from v2 to `BondedOracle` |
| `TholosV2Lifetimes` | v2 on a ledger that archives entries: extends `TholosV2`, each action with the entries it reads, writes and renews, and `bump_ttl` |
| `MCTholosV2`, `MCTholosV2Roles`, `MCTholosV2Lifetimes` | TLC instances of v2 |
| `ResolverCommittee` | v1's admin, committee and rotation vote |
| `Tholos` | v1 with its committee: claims, disputes, verdicts, refunds; extends `ResolverCommittee` |
| `TholosRefinement` | the mapping from v1 to `BondedOracle` |
| `MCTholos` | TLC instances of v1 |
| `AsserterConsumer`, `MCAsserterConsumer` | the consumer contracts composed with v1: extends `Tholos` |
| `TholosMonitor`, `MCTholosMonitor` | the monitor's runs |
| `JobsReconcile`, `MCJobsReconcile` | a milestone of the demo |
| `BondedOracle` | the abstract specification both contracts implement |
| `WeightsProofs` | facts about sums |
| `TholosV2Proofs` | theorems about v2's totals, decisions and electorate |
| `TholosV2SettlementProofs` | theorems about v2's money and its refinement; extends `TholosV2Proofs` |
| `TholosV2LifetimesProofs` | theorems about entry lifetimes |
| `TholosProofs` | theorems about v1: committee and rotations, verdicts, money, refinement |
| `AsserterConsumerProofs` | theorems about the consumer with v1; extends `TholosProofs` |
| `TholosMonitorProofs` | theorems about the monitor |
| `JobsReconcileProofs` | theorems about the demo's milestone |

A definition whose comment starts with *fault:* is not part of a
specification. It is the mutated form of the definition below it, a plausible
bug, with which the property named in `PROJECT.json` is shown to fail.

### TholosV2

| Variable | Code |
|---|---|
| `now` | `env.ledger().timestamp()` |
| `admin`, `paused`, `policy`, `next_id` | instance entries; `policy = NoPolicy` before `initialize` |
| `assertion[id]` | `AssertionV2`, with its pinned `PolicySnapshotV2` |
| `resolution[id]` | `Resolution` |
| `position[id][a]` | `Position` of `a` in the round |
| `credit[id][a]` | `Credit` of `a` |
| `custody` | the contract's balance in the token |
| `paid[id][a]` | history: tokens transferred out to `a` for `id` |

Each entry point is an action of the same name. `reveal` and `resolve_outcome`
both open an expired registration before they do their own work and both close
the round if it is complete; the model composes the same steps as operators on
one round, a record `[a, r, p]` of assertion, resolution and positions:
`OpenRevealPhase`, then `Counted`, then `LockOutcomeIfUndecided` and
`CloseRevealIfReady`, in the code's order. `settle` is the pair
`SettleRecipient` / `SettleForfeited`. A commitment is the choice it opens to
(`CommitYes` / `CommitNo`): the hash binds a voter to the choice made at the
deposit and hides nothing the properties speak of. Amounts are integers, and
the checked `i128` products of `settle` are compared with `I128Max`.

### TholosV2Lifetimes

One variable, `live_until[k]`, is the last ledger in which entry `k` is live,
0 before it is first written. `Call(reads, writes, bump)` is what a call does to
lifetimes: it fails if the instance or an entry it touches is archived, and
renews what it writes by `extend_ttl`'s rule (only within a day of the end).
The entries of each action are those its code touches: `OpeningWrites` for the
lazy opening, `DisputeWrites`, `SettleWrites` (where `add_credit` returns early
without dust), and a withdrawal, which zeroes a credit without renewing it.
`touch_instance_ttl` is part of the administrative calls alone. `Restore` is
the ledger's own operation. The clock counts seconds and lifetimes count
ledgers, which close every `SecsPerLedger` seconds: `Ledger` is the current one,
and `RecordBump` divides as the code does, rounding down. The contract's code
entry is taken to live as long as its instance.

### Tholos and ResolverCommittee

`ResolverCommittee` has `admin`, `admin_proposal`, `resolvers` and `rotation`.
A committee is a sequence, since a rotation replaces one slot of the `Vec`; the
vote lists are sets, since the code only asks for membership and length. In
`vote_rotation` the recorded vote, the execution, the dead-proposal guard and
the trap of the unsigned subtraction are one action. `Tholos` adds the claims.
`Received(amount, fee)` is what `transfer_in` measures on the balance. Reads
that happen after a transfer are of values no other call can have changed
meanwhile, because the host does not allow re-entry.

### AsserterConsumer

`ConsumerNext` makes every step of `Tholos` for people, and for the consumer
only `CreateAssertionAsSelf`, since the contract calls nothing else.
`InitializeConsumer` pins the v1 deployment and token once; `quoted` is the bond
amount its admin last learned (`LearnBondAmount`); `Authorized` is the
sub-invocation entry, which v1's transfer must match to the unit. `Funds` is its
token balance; `stake` and `agreed` are histories, of what each assertion took
and of the bond amount its admin knew of then.
`CreateAssertion` is also `demo-consumer`'s call. A failing call returns an
`Error` and leaves nothing, so it is no step.

### TholosMonitor

| Variable | Code |
|---|---|
| `tip`, `Oldest` | the RPC's latest ledger and retention window |
| `saved` | the state file in the Actions cache |
| `pc`, `turn` | where `runOnce` is, and the deployment it polls |
| `state` | the `MonitorState` the run loaded and changes |
| `request`, `page` | `fetchNewEvents`' next request and page count |
| `outbox`, `sending` | alerts not yet posted, and in flight with their attempts |
| `outcome` | the `DeploymentState` `pollOneDeployment` will return |
| `handled`, `skipped`, `excuse`, `announced`, `forgotten` | history, for the properties |

`GetLatestLedger`, `FetchPage`, `FetchRefused`, `FetchFails` and `DecodeFails`
are the ways a request of `pollOneDeployment` can end: caught up, page capped,
one more page, retention gap, failure on the first page (which counts towards
the streak), failure on a later one (which keeps what was fetched), and an event
that cannot be decoded. The last lies outside the handler that keeps partial
results: on any page it fails the poll and drops what was fetched. Alerts of
events are posted with bounded concurrency, health alerts alone; a post may fail
until it is given up. `SaveState` comes once, at the end; a `Crash` at any point
before loses everything since the last save; `LoseState` is an evicted cache
entry or an unreadable file. One ledger is one event of each deployment.

### JobsReconcile

`chain` is what became of the assertions posted for one milestone, `shown` the
React state, `stored` local storage, `reads` the reads in flight in the order
they were issued, each with the answer the RPC has read for it, whether a later
one was applied already (`superseded`, which is all that `tracker`'s sequence
numbers decide) and the verdict it falls back to. `Apply` is `applyIfNewest`.
`Click`, `Execute`, `CallReturns` and `CallFails` are the row's own call, from
the click to the read that follows it; `LoadPage` a page load, which keeps the
storage and nothing else.

### BondedOracle

What a user of either contract relies on: a claim is open until it gets one
verdict, which is final; bonds are taken only while it is open, and given back
only once it has its verdict; never more is given than was taken for that very
claim; and a claim that ends without an outcome gives nobody more than its own
bonds. v2 implements it with `verdict` read from `terminal_cause` (a locked
majority is already the verdict, though the phase is still Reveal) and v1 with
`verdict` read from `status`. That the same module fits both is the point: the
two protocols make the same promise in different ways.

## 3. Runs

All bounds are constants of the `.cfg` files. One time unit is the length of a
window, so "before", "at" and "after" each deadline all occur.

| Run | Instance | Shows |
|---|---|---|
| `round` | v2; 4 interchangeable participants, 1 assertion, deposits 1 and 2, bond 2, cap 3 per position, clock 5 | the main safety run: totals, decision, finality, frozen electorate, reveal deadline, cutoff, entitlement, principal, liability, refinement |
| `pair` | v2; 3 participants in fixed roles, 2 assertions posted together, outside weight on the first, bond 10, clock 3 | `Solvency` and the refinement across assertions, with a non-zero finalize reward |
| `live` | v2; 2 parties and 2 outside voters in fixed roles, 20 policies: three that `initialize` accepts, one of them with a bond of which the two parties' total exceeds the settlement cap, and seventeen that one of its limits refuses (bond, challenge window, registration, reveal, extension, hard maximum, reward, position and total weight); settlement cap 1414, deposits of 705 and 1414, `i128` scaled to 2000000, clock 5 | `SettlementInRange`; one persistent voter is enough to have a dispute decided; an open reveal closes (which needs two outside voters, since a single one's reveal closes the round at once); a resolved dispute pays out to the last unit. With two outside voters it follows a round up to the decision, with one up to the last payment |
| `lifetimes` | v2 with lifetimes; 3 participants, one policy whose horizon exceeds the flat instance bump, 2 seconds to a ledger, a day of 1 ledger and an instance bump of 2, a grace of 6 seconds, windows of up to 3, clock 8 | a disputed round keeps its records through its horizon without any `bump_ttl`; a spent credit is left to expire |
| `dispute` | v1; 2 assertions posted together, fees 0 and 1, bond 10 then 9, committees of one and three with no, one or both parties on them, one override, clock 2 | verdicts, payouts, solvency, refinement, claims end |
| `committee` | v1; 6 addresses, committees of one, three and five, invalid committees, two admin keys | rotations fit their committee, committees stay well-formed, rotations are decided |
| `consumer` | v1 with the consumer; 4 addresses, funds of 15, bonds 9 and 10, fees 0 and 1, 2 assertions, right and wrong pins | a claim costs it no more than was agreed to, and it is paid by the verdicts |
| `monitor` | both deployments, 4 ledgers of which the RPC keeps 3, lookback 1, pages of 1 and at most 2 in a poll, 2 posts at a time, 2 attempts each, alert after 2 failures, 3 faults | no silent skip, no repeat, streaks and recoveries announced, every event accounted for |
| `jobs` | 2 assertions, 3 reads in flight on the first and 2 on the second, 2 faults | what is shown as settled is true and stays, and the tab catches up |
| `stuck`, `instance`, `reordered` | -- | the disagreements of section 6 |

**Why the bounds are enough.** *v2:* two parties and two further voters give
both sides an outside voter, a majority against an even and an odd total, ties
at exactly one half, a forfeited pool shared by several recipients with dust,
and top-ups (a first deposit of 2, which is the minimum, and one more up to the
cap of 3). Clock 5 reaches past the reveal
deadline of a registration that was extended to its hard maximum. In `round`
the asserted outcome is "yes" and voters commit to either: the code only
compares outcomes, so the other half of the states is the same up to renaming.
The claim is posted before the clock first moves: a later post is the same
round with less of the clock left. A third
outside voter would add no new relation between a position and the totals; the
proofs remove the bound for the properties they cover. *v1:* three is the
smallest committee on which a member can be outvoted and a party can sit with
others, five the smallest on which a rotation dies before everybody voted. Two
assertions are the smallest number for which one can be paid out of the other;
they are posted together because a difference in posting time only delays the
second. In `dispute` the second assertion is only finalized or refunded: it is
there to own tokens the first could take, and its votes would be the first's
again. The parties are fixed (`a1`, `a2`) and the committees vary instead,
which is the same up to renaming. *Lifetimes:* the constants keep the order of
the real ones (a day below the instance bump, the bump below the longest
horizon), which is what makes a flat bump fall short, and 2 seconds to a
ledger make both divisions round; upkeep (`bump_ttl`,
restorations, repeated administrative calls) is explored at one late time, when
a round may be settled in part. *Monitor:* with a retention of 3 on a chain of
4 a cursor can fall out of the window, two pages of one event leave a backlog
behind the page cap, and three faults allow two failed runs, which is a streak,
and a crash or a loss on top. `Lookback + 1 < Retention` is an assumption
(section 6). *Jobs:* three reads are the fewest of which two can be overtaken.

`round` uses symmetry in the participants; no other run does, and no run with
liveness. Deadlock is checked everywhere but in `jobs`, where a settled
milestone with no read in flight has nothing left to do: elsewhere a setting
can always be changed, or the next run of the monitor starts.

**Fairness.** On chain nothing happens unless somebody sends a transaction.
Weak fairness is assumed of the clock; of `resolve_outcome` and `settle`, which
are permissionless, so a keeper or any interested party can call them; of
`withdraw` by the owner of a credit; of v1's `finalize` and
`reclaim_stalled_dispute`, which any caller may make and somebody with a bond
inside wants; and of committee members voting on a rotation. Nobody is obliged
to reveal, to dispute, or to administer: `OneVoterSuffices` and
`ImpartialCommitteeDecides` state the voter's fairness as their own hypothesis,
and `EveryClaimEnds` assumes nothing about resolvers but that the admin leaves
the contract unpaused with a stall timeout. Since the model's clock ends, the
properties say so where a deadline may lie beyond it. Off chain, the monitor's
schedule starts run after run and every `await` returns or times out, so weak
fairness of `RunStep`; no fault is fair, and whether the webhook accepts an
alert is left open, so that an alert given up after its last attempt counts as
accounted for. In the demo the polling interval keeps firing while the
milestone is not settled (`RefreshMilestone`), and some read in flight always
comes back; nobody has to press a button.

## 4. Properties

*v2 safety.* `TotalsMatchPositions`: each running total is the sum it stands
for. `DecisionMatchesWeights`: cause and outcome are those the weights call for,
in a locked, a closed, an expired and a void round. `DecisionIsFinal`,
`ElectorateFrozenAfterCutoff`, `RevealEndsAtDeadline`,
`CutoffMovesOnlyForWeight`: what a step may never do. `DecisionIsFinal` includes
the race of `dispute` with `finalize` after the challenge window, and
`RevealEndsAtDeadline` the last second of the phase: a reveal counts in it, and a
round with weight unrevealed closes only after it. `PayoutsMatchEntitlements`:
credits and payments of every recipient are the entitlement computed from the
frozen weights, and the dust goes to one party, in any order of settlement.
`PrincipalProtected` says without the arithmetic what a settled position gets
under each cause: exactly its bond in a cancelled or void round; at least its
bond on the winning side of a strict majority, and on either side of an
optimistic timeout; nothing for the revealed losers of a strict majority and for
the unrevealed of a decided round. `LiabilityMatchesCredits`, `Solvency`,
`SettlementInRange`: the accounting, the shared balance and the arithmetic.

*v2 lifetimes.* `RoundRecordsCovered`: whoever wrote an entry of a disputed
round last, it is live through the longest registration and reveal and the
grace, counted from the dispute, but for a day and the ledger that `record_bump`
rounds away. `SpentCreditNotRenewed`: no call extends the life of a credit that
is spent.

*v1 safety.* `VerdictFollowsVotes`, `Solvency`, `ResolvedPaysEscrow`,
`RotationFitsCommittee` (which has `CommitteeWellFormed` in it), as in section 1.

*Consumer.* `CostsAtMostAgreed`: over its whole life a claim costs at most the
bond its admin knew of when it was posted, and unless it was lost only the
token's fee and the finalizer's reward, wherever v1's admin moves the bond
amount; other people's claims cost nothing. `PaidByVerdict`: what comes back
agrees with the verdict, with a fee-taking token too.

*Monitor.* `NoSilentSkip` relates the saved cursor to the events alerted and to
the reasons a cursor may be absent; `NoRepeatAfterSave`, `StreakAnnounced`: a
repeat needs a run that died before its save, and a streak is on record as
announced exactly when it is one.

*Demo.* `SettledIsTrue`: what is shown as settled agrees with the chain.
`VerdictSticks`: a verdict the tab's own call learned is not lost to a failed or
older read.

*Refinement.* `ImplementsOracle`, for both contracts.

*Liveness.* `OpenRevealCloses`, `ResolvedPaysOutInFull`, `OneVoterSuffices`;
`EveryClaimEnds`, `ImpartialCommitteeDecides`, `RotationDecided`;
`EveryEventAccounted`, `RecoveryAnnounced`; `StatusCatchesUp`.

## 5. Proofs

### v2

All theorems are of the form `Spec => []Inv` or `Spec => [][A]_vars`, for any
finite set of addresses, any policies, any number of assertions, any deposits
and any clock bound. They use `AddressAssumption` (addresses are finitely many;
the contract is not one of its users), `PolicyAssumption` and
`BoundAssumption` (types of the constants). `SettlementAlwaysInRange` is the one
that needs `LimitAssumption`, which relates the contract's limits to `I128Max`,
and the lifetimes use `LifetimeAssumption` of their own module.

| Theorem | States |
|---|---|
| `TotalsAlwaysMatch` | `[]TotalsMatchPositions` |
| `DecisionNeverChanges` | `DecisionIsFinal` |
| `ElectorateStaysFrozen` | `ElectorateFrozenAfterCutoff` |
| `DeadlineAlwaysEndsReveal` | `RevealEndsAtDeadline` |
| `DecisionFollowsWeights` | `[]DecisionMatchesWeights` |
| `TypesAlwaysOK` | `[]TypeOK`, with no balance, credit or liability below 0 |
| `LiabilitiesAlwaysMatch` | `[]LiabilityMatchesCredits` |
| `AlwaysSolvent` | `[]Solvency` |
| `CutoffOnlyMovesForWeight` | `CutoffMovesOnlyForWeight` |
| `PayoutsAlwaysMatch` | `[]PayoutsMatchEntitlements` |
| `PrincipalAlwaysProtected` | `[]PrincipalProtected` |
| `SettlementAlwaysInRange` | `[]SettlementInRange` |
| `ContractImplementsOracle` | `ImplementsOracle` |
| `LifetimesKeepContract` | `LSpec => Spec` |
| `RecordsAlwaysCovered` | `LSpec => []RoundRecordsCovered` |
| `SpentCreditsExpire` | `LSpec => SpentCreditNotRenewed` |
| `TotalUpdate` | how `Total` changes with one share |

The argument is one inductive invariant, grown step by step.

1. *Sums* (`WeightsProofs`). `Total(f)` is the cardinality of a set of units,
   so that the total after one share changed, monotonicity and bounds follow
   from the library's facts on finite sets, without induction over data.
2. *Structure* (`TholosV2Proofs`). `StructureInv` is the shape of the state
   and, for each round, `RoundOK`: the parties' positions are fixed and equal
   the bond (`PartiesOK`), the terminal cause fits the phase (`CauseOK`),
   unused entries are untouched (`ScopeOK`), and the totals are the sums
   (`TalliesOK`). Neither totals nor phases are inductive alone: a reveal keeps
   `agree_weight` right only because an unrevealed position is not yet in it,
   and a late deposit is harmless only because the phase says so. The lemmas
   speak of a round `[a, r, p]` rather than of the state, since the code's
   lazy opening passes an intermediate round from one function to the next.
3. *Decision* (`TholosV2Proofs`). `DecisionInv` adds that an open round
   has no strict majority among what is revealed; a step touches one round
   (`StepOfRound`), and the action properties follow per action. `CutoffInv`
   adds to the structure the order of the cutoff and the hard deadline.
4. *Money* (`TholosV2SettlementProofs`). `SettlementInv` adds `AccountOK`. Its
   key is a bound on flooring: `RecipientWeight * settled_reward_total <=
   ForfeitedPool * settled_recipient_weight`, so that the dust handed out with
   the last settlement is never negative; and that `RecipientWeight` is the sum
   of the recipients' positions, so that the settlement that reaches it is the
   last. `PrincipalProtected` needs besides that the parties' positions show
   their own sides (`PartiesShown`): the dust goes to a party, and must not
   reach one that lost. `SolvencyInv` adds `Solvency`: by the one-round balance
   lemma each action lowers the balance by at most what it lowers that round's
   debt.
5. *Entitlements.* `EntitlementInv` says of every address what it has been
   credited and paid: nothing before its position is settled, its entitlement
   after, and the dust on top for its recipient once the last one is settled.
   The total of step 4 is not enough for that, nor does it follow from it.
6. *Arithmetic.* `CapInv`: a round whose weight exceeds
   `MAX_SETTLEMENT_TOTAL_WEIGHT` consists of the two parties' bonds alone
   (`dispute` does not check the cap, `register` does) and forfeits nothing, so
   that every product `settle` forms stays below `I128Max`.
7. *Refinement.* Each action is one step of the abstract oracle (takes bonds,
   decides, pays) or a stutter; of the accounts only `withdraw` needs
   `EntitlementInv`, to know that a payment is covered by the round's bonds.
8. *Lifetimes* (`TholosV2LifetimesProofs`). A step with lifetimes is a step of
   the contract or leaves its entries alone, so that all of the above holds
   there too (`LifetimesKeepContract`). `LiveInv` adds that a hard deadline is
   never further away than the hard maximum, and that the records of each
   disputed round are covered: no call shortens a lifetime, a call leaves what
   it writes `record_bump` less a day, and a record that comes to matter is one
   the same call writes. The clock and the horizon are both rounded down to
   ledgers (`LedgersOfSum`), which costs the one ledger that
   `RoundRecordsCovered` allows for; TLC finds it violated without that ledger.
   A spent credit is not renewed because a settlement leaves a positive balance
   in each credit it writes.

### v1

Again for any finite set of addresses, any committees, fees and settings, and
any number of assertions; from `CommitteeAssumption`, `ConfigAssumption` and
`LimitAssumption` of the two modules, all on the types of constants.

| Theorem | States |
|---|---|
| `RotationAlwaysFits` | `[]RotationFitsCommittee` if `[]InitializedFirst` |
| `VerdictsFollowVotes` | `[]VerdictFollowsVotes` |
| `AlwaysSolvent` | `[]Solvency` |
| `ResolvedAlwaysPaid` | `[]ResolvedPaysEscrow` |
| `TypesAlwaysOK` | `[]TypeOK` |
| `ContractImplementsOracle` | `ImplementsOracle` |

*Committee.* The two parts of `RotationFitsCommittee`, `CommitteeWellFormed` and
the fit of the proposal, need each other: a rotation keeps the members
distinct only because its target still is a member and its replacement still
is not (`SwapKeepsCommittee`, by the pigeonhole fact that a sequence has as
many members as seats exactly when no two seats agree), and its majority
exists only while the committee is odd. `InitializedFirst` is the hypothesis
that `initialize` sets the first committee; without it the property is false
(section 6). A real deployment meets it when `initialize` is
called before any `update_resolvers`, as the deployment scripts do.

*Claims.* `ClaimInv` is `ClaimOK` of every claim, a triple of assertion,
escrow and payments, with the balance exactly the sum of the open escrows.
`ClaimOK` relates the status to the parties (`PartiesOK`), to the votes
(`VerdictOK`) and to the money (`MoneyOK`): an open dispute has no majority
yet, so a single ballot can give one side a majority and never both; and its
escrow lies between one and two bonds, which with the exact balance means that
no cap in the payout code ever bites. Every call is shown to be a
`ClaimUpdate` of one claim that keeps its `ClaimOK` and moves the balance by
what it changes on that claim; `UpdateKeepsClaims` does the rest once. The
refinement follows from `ClaimInv`, whose money part says that what a claim
gives was taken for it; the types from `ClaimInv` and `RangesOK`.

### The consumer

| Theorem | States |
|---|---|
| `ConsumerKeepsTholos` | `ConsumerSpec => Spec` of `Tholos` |
| `ConsumerPaidByVerdict` | `ConsumerSpec => []PaidByVerdict` |
| `ClaimCostBounded` | `ConsumerSpec => []CostsAtMostAgreed` |

From v1's assumptions and `ConsumerAssumption` (the consumer's address is one of
the addresses, its funds a number). A step of the composition is a step of v1 or
leaves v1 alone (`ConsumerStepIsStep`), so every theorem about v1 holds beneath
the consumer. `PaidByVerdict` is not inductive. A payment is what the verdict
calls for only if nothing was paid on the claim while it was open and no payout
is cut by a cap, which is v1's `ClaimInv`; and a payment to a disputer counts as
the consumer's unless the consumer disputes nothing. `ConsumerInv` is `ClaimInv`
and, for each claim, `ShareOK`: `PaidByVerdict` of this claim, and who is not
its disputer. Each way a claim can end (undisputed, voted, reclaimed) rests on
what a payment to one or to two addresses means for the consumer (`PaidToOne`,
`PaidToTwo`). `ClaimCostBounded` adds `StakeOK` of each claim: its stake is the
bond it was posted with plus what the token kept, and the bond what was agreed
to then. What comes back is then `ConsumerInv`'s share: the whole bond, or the
bond less the reward, or the escrow of a dispute won, which is never less than
the bond.

### The monitor

| Theorem | States |
|---|---|
| `MonitorSkipsNothing` | `[]NoSilentSkip` |
| `MonitorRepeatsNothing` | `[]NoRepeatAfterSave` |
| `MonitorAnnouncesStreaks` | `[]StreakAnnounced` |
| `MonitorTypesOK` | `[]TypeOK` |

For any deployments (with different names, being the keys of one object), page
sizes, page caps, attempts, concurrency, retention and thresholds, any chain and
any number of faults. The properties speak of the saved state, and an event takes
a long way to it. `MonitorInv` follows it: the saved state and the one in memory
are right (`StateOK`: nothing skipped, the streak flag fits the count, no more
failures than faults); a deployment whose turn has not passed is in memory as it
is in the file, which is what lets a poll reason about the file and why names
must differ; while pages are fetched, everything before the next request is
accounted for or waits in the outbox, and a later page is always asked for by
cursor, which is why a partial result may record it (`FetchOK`); and once the
poll has ended, its outcome is right *if* the alerts in the outbox and in flight
are counted as told of (`AlertOK`). The poll can only be recorded when both are
empty. The four ways a poll can end, and the three ways a run moves on (`Enter`,
`Stop`, `Conclude`), are a lemma each. TLC checked `MonitorInv` on the `monitor`
instance first.

### The demo

| Theorem | States |
|---|---|
| `SettledAlwaysTrue` | `[]SettledIsTrue` |
| `VerdictAlwaysSticks` | `[]VerdictSticks` |
| `TypesAlwaysOK` | `[]TypeOK` |

For any number of assertions, reads and faults. `JobsInv` says that every read in
flight, the call and the stored copy concern the assertion shown and hold no
verdict but the chain's, from which `SettledIsTrue` follows. `VerdictSticks`
needs the order of reads as well: they are superseded from the oldest on
(`ReadsInOrder`), so that the read which follows the deciding call, when it
ends, either has been overtaken by one issued after it, which can find nothing
but the verdict, or supersedes every older one, after which nothing older is
ever applied (`AppliedOK`, `LearnedOK`).

### Only model-checked

Every safety property the runs check is proved, and both refinements.
Model-checked only is liveness, which is out of the proof system's reach (it has
no rule for `ENABLED`): `OpenRevealCloses`, `ResolvedPaysOutInFull`,
`OneVoterSuffices`, `EveryClaimEnds`, `ImpartialCommitteeDecides`,
`RotationDecided`, `EveryEventAccounted`, `RecoveryAnnounced` and
`StatusCatchesUp`. The theorems on v1's committee have the hypothesis
`InitializedFirst`, which is the constraint of the `committee` run too.

## 6. Findings

Three runs are expected to find a violation; each states what the repository
says of itself. `PROJECT.json` quotes the lines.

* `stuck`: "a caller may advance an expired phase permissionlessly". When
  outside weight is unrevealed, `resolve_outcome` opens the expired
  registration and then fails with `RevealNotClosed`, which undoes the opening.
  Only a voter's reveal advances the phase (`live` shows that one suffices).
* `instance`: `touch_instance_ttl` is to keep the instance entries from
  expiring "while the contract is still in use". Only the administrative calls
  renew them: with an idle admin they are archived under open claims, and every
  call fails until somebody restores them.
* `reordered`: "a slow stale poll response can never overwrite a fresher one".
  The demo compares the order in which reads were *issued*, not the ledgers they
  read, so that of two overlapping reads the later one may bring the older
  state. The next poll corrects it (`StatusCatchesUp`).

Disagreements met on the way that have no run of their own:

* v2: "this window gates *whether* a dispute can start at all"
  (`contracts/tholos-v2/src/lib.rs:433`). `dispute` checks the phase and not the
  time: until somebody finalizes, a claim can be disputed after its window.
* v2: `max_total_weight` is to bound the eligible total (`lib.rs:457`).
  `initialize` accepts a cap below the two parties' bonds, and `dispute`
  (`lib.rs:1263`) does not check it. `CapInv` is why this is harmless.
* v2: entries "can't outlive their own TTL mid-round" (`CONTRACT_V2.md:555`).
  The horizon of `record_bump` counts the reveal from the hard deadline, but the
  reveal opens with the first call after the cutoff, however late; one that
  comes later than the grace finds lifetimes shorter than the reveal it opens.
  `RoundRecordsCovered` says exactly what is covered.
* v2: the quorum of reveals. `close_reveal_if_ready` (`lib.rs:1588`) voids a
  round in which no side has a strict majority and revealed weight is at most
  half of the total: it records `RevealQuorumNotMet` and no outcome. Its own doc
  comment (`lib.rs:1564`) still gives `OptimisticTimeout` as the only fallback.
  `V2_RESOLUTION.md:338` lets the asserted outcome stand whenever neither side
  crosses the threshold, with exactly half of the weight unrevealed as its
  example, although its own summary (`:34`) and its state table (`:277`) have
  the void round. `CONTRACT_V2.md` says that every assertion ends in one of three
  ways (`:24`), that a close without a majority is an `OptimisticTimeout`
  (`:429`), and its table of causes (`:55`) has no `RevealQuorumNotMet`.
  `DecisionMatchesWeights` states what the code does, as its comment explains it.
* v2: "an unrevealed position under any terminal cause, recovers nothing"
  (`CONTRACT_V2.md:457`). In a cancelled or a void round `settle`
  (`lib.rs:2074`) gives every position its principal back, revealed or not,
  which the same document says of `cancel_round` (`:60`). `PrincipalProtected`
  has a clause for each cause.
* v1: "a live proposal always matches the committee it was validated against"
  (`ARCHITECTURE.md:159`). Committee calls work before `initialize`, which then
  replaces the committee (`lib.rs:425`) and keeps an open rotation: after
  `update_resolvers`, `propose_rotation` and an `initialize` whose committee
  already has the replacement, the vote puts one member into two seats. Hence
  the assumption `InitializedFirst` of `committee` and of the proofs.
* v1: "a majority vote can never tie" (`CONTRACT.md:96`). A party on a committee
  of three may not vote, and the other two can vote one against one; the
  dispute then ends by the stall timeout.
* v1: disputes opened while no stall timeout was configured are said never to be
  reclaimable (`set_stall_timeout`), but `dispute` records `disputed_at` always,
  so that a timeout set later applies to them.
* Demo: `INTEGRATION.md:176` and `JobsContext.tsx:131` take `final_outcome` of a
  resolved assertion for always present. `reclaim_stalled_dispute` resolves
  with `None` (`lib.rs:937`), and the demo shows a refunded dispute as returned
  to the client. `SettledIsTrue` states what "Returned" means.
* Demo: a submission whose answer is lost leaves its assertion behind, and can
  be submitted again with a second bond; `disputeMilestone` patches the status
  directly, so that an older poll may put it back to submitted for a while.
* Monitor: an `rpc_failure` alert posted by a run that dies before its save, or
  whose state is then lost, is never followed by "recovered". The README says
  that `INITIAL_LEDGER_LOOKBACK` is only used the very first time, `config.ts`
  also after a retention gap; a lookback at or beyond the RPC's retention would
  repeat the gap alert on every run. `rpc.ts` keeps the earlier pages when the
  request for a later one fails, but an event there that cannot be decoded fails
  the whole poll (`rpc.ts:193`, `DecodeFails`). The faults of the model are
  bounded, so it gets over that; an event that can *never* be decoded would stop
  the deployment's cursor until it leaves the RPC's retention, which is alerted
  as a streak of failures and then as a gap.
* Consumer: `InvalidTholosId` is also returned for a stale bond amount and for
  insufficient funds; the pins cannot be corrected; and nothing but a bond ever
  takes tokens out of the contract.

## 7. Not modelled

* A token that calls back during a transfer. The host refuses re-entry; the v2
  guard flag and v1's reloads are defences in depth without behaviour of their
  own.
* A token that takes fees, for v2: like the code, the model of v2 counts what was
  sent as received (v1 measures what came in, and is modelled with fees).
* Events, logging, and which error code a failing call returns.
* The commitment hash, and with it `compute-commitment`: a commitment is
  modelled by the choice it opens to.
* `tholos-client` and `tholos-sdk`: generated bindings, and a table of error
  codes.
* Which events the monitor alerts (`events.ts`): the model takes all of them.
  Configuration parsing and the wording of alerts.
* The demo's creation of jobs, its roles and layout, and a wallet that
  disconnects.
* The entry lifetimes of v1 and of the consumer. v1 renews an
  assertion by a flat 30 days on each write, and its windows and stall timeout
  are limited to 7 by constants, whatever the settings.
* Scripts, docs and workflows.

What could still be added: proofs of the steps that the liveness properties rest
on, as far as they are safety (that a round which can close is never left with
nothing anybody may call), and a model of the roles and jobs of the demo.

## 8. Running

    tlc -workers 2 -config MCTholosV2Round.cfg MCTholosV2
    tlc -workers 2 -config MCTholosV2Pair.cfg MCTholosV2Roles
    tlc -workers 2 -config MCTholosV2Live.cfg MCTholosV2Roles
    tlc -workers 2 -config MCTholosV2Lifetimes.cfg MCTholosV2Lifetimes
    tlc -workers 2 -config MCTholosDispute.cfg MCTholos
    tlc -workers 2 -config MCTholosCommittee.cfg MCTholos
    tlc -workers 2 -config MCAsserterConsumer.cfg MCAsserterConsumer
    tlc -workers 2 -config MCTholosMonitor.cfg MCTholosMonitor
    tlc -workers 2 -config MCJobsReconcile.cfg MCJobsReconcile
    tlapm TholosV2SettlementProofs.tla
    tlapm TholosV2LifetimesProofs.tla
    tlapm TholosProofs.tla
    tlapm AsserterConsumerProofs.tla
    tlapm TholosMonitorProofs.tla
    tlapm JobsReconcileProofs.tla

The runs take between a few seconds and two minutes each, the proofs a few
minutes from nothing.
