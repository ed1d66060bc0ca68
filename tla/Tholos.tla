------------------------------- MODULE Tholos -------------------------------
(***************************************************************************)
(* The v1 contract, contracts/tholos/src/lib.rs: an optimistic oracle      *)
(* whose disputes are decided by a resolver committee.  An asserter posts  *)
(* a bonded claim; a disputer matches the bond within the challenge window *)
(* and freezes the committee of that moment onto the assertion; a strict   *)
(* majority of it pays both bonds to the winner.  Undisputed claims are    *)
(* finalized after the window, and disputes the committee never decides    *)
(* are refunded after the stall timeout.                                   *)
(*                                                                         *)
(* The token may take a fee: the contract measures what a bond transfer    *)
(* really brought in.  Abstracted: events, ledger-entry TTLs, `finalizer`  *)
(* (never read), assertions written by versions before the escrow entry.   *)
(***************************************************************************)
EXTENDS ResolverCommittee, Weights

CONSTANTS
  CandidateConfigs,        \* arguments initialize may be called with
  BondAmounts,             \* arguments set_bond_amount may be called with
  StallTimeouts,           \* arguments set_stall_timeout may be called with
  Fees,                    \* what the token may take from a transfer in
  MaxAssertions,           \* bound on the number of assertions
  MaxTime,                 \* bound on the ledger clock
  MaxBondAmount,           \* MAX_BOND_AMOUNT
  MaxChallengeWindowSecs,  \* MAX_CHALLENGE_WINDOW_SECS
  MaxStallTimeoutSecs      \* MAX_STALL_TIMEOUT_SECS

MaxFinalizeRewardBps == 1000

Config ==
  [bond_amount : Int, challenge_window_secs : Nat, finalize_reward_bps : Nat,
   resolvers : Seq(Address)]

ASSUME ConfigAssumption ==
  /\ \A c \in CandidateConfigs :
       /\ DOMAIN c = {"bond_amount", "challenge_window_secs",
                      "finalize_reward_bps", "resolvers"}
       /\ c \in Config
  /\ BondAmounts \subseteq Int /\ StallTimeouts \subseteq Nat
ASSUME LimitAssumption ==
  /\ Fees \subseteq Nat
  /\ MaxAssertions \in Nat /\ MaxTime \in Nat /\ MaxBondAmount \in Nat
  /\ MaxChallengeWindowSecs \in Nat /\ MaxStallTimeoutSecs \in Nat

VARIABLES
  now,                  \* env.ledger().timestamp()
  initialized,          \* whether DataKey::Token has been written
  paused,               \* DataKey::Paused
  bond_amount,          \* DataKey::BondAmount
  challenge_window,     \* DataKey::ChallengeWindow
  finalize_reward_bps,  \* DataKey::FinalizeRewardBps
  stall_timeout,        \* DataKey::StallTimeoutSecs
  next_id,              \* DataKey::NextId
  assertion,            \* DataKey::Assertion(id)
  escrow,               \* DataKey::AssertionEscrow(id)
  disputed_at,          \* DataKey::DisputedAt(id)
  custody,              \* the contract's token balance
  paid                  \* tokens transferred out so far, per assertion and payee

settings == <<paused, bond_amount, stall_timeout>>
terms == <<initialized, challenge_window, finalize_reward_bps>>
ledger == <<next_id, assertion, escrow, disputed_at, custody, paid>>
vars == <<committeeVars, now, settings, terms, ledger>>

Ids == 0..(MaxAssertions - 1)
Outcomes == {"yes", "no"}
Opposite(o) == IF o = "yes" THEN "no" ELSE "yes"
Statuses == {"Absent", "Pending", "Disputed", "Resolved"}
Never == -1  \* Option::None for a timestamp

Assertion ==
  [status : Statuses, asserter : Address \cup {NoAddress},
   disputer : Address \cup {NoAddress}, outcome : Outcomes,
   final_outcome : Outcomes \cup {"none"}, bond : Nat, opened_at : Nat,
   votes_for_outcome : Nat, votes_against_outcome : Nat,
   voted : SUBSET Address, resolvers : Seq(Address)]

NoAssertion ==
  [status |-> "Absent", asserter |-> NoAddress, disputer |-> NoAddress,
   outcome |-> "yes", final_outcome |-> "none", bond |-> 0, opened_at |-> 0,
   votes_for_outcome |-> 0, votes_against_outcome |-> 0, voted |-> {},
   resolvers |-> <<>>]

Init ==
  /\ CommitteeInit
  /\ now = 0
  /\ initialized = FALSE
  /\ paused = FALSE
  /\ bond_amount = 0
  /\ challenge_window = 0
  /\ finalize_reward_bps = 0
  /\ stall_timeout = 0
  /\ next_id = 0
  /\ assertion = [id \in Ids |-> NoAssertion]
  /\ escrow = [id \in Ids |-> 0]
  /\ disputed_at = [id \in Ids |-> Never]
  /\ custody = 0
  /\ paid = [id \in Ids |-> [a \in Address |-> 0]]

-----------------------------------------------------------------------------
(* Deployment and settings.                                                *)

UncappedBondAmount(b) == 0 < b  \* fault: no upper bound
ValidBondAmount(b) == 0 < b /\ b <= MaxBondAmount

Initialize(caller, c) ==
  /\ ~initialized
  /\ InstallCommittee(caller, c.resolvers)
  /\ ValidBondAmount(c.bond_amount)
  /\ 0 < c.challenge_window_secs
  /\ c.challenge_window_secs <= MaxChallengeWindowSecs
  /\ c.finalize_reward_bps <= MaxFinalizeRewardBps
  /\ initialized' = TRUE
  /\ bond_amount' = c.bond_amount
  /\ challenge_window' = c.challenge_window_secs
  /\ finalize_reward_bps' = c.finalize_reward_bps
  /\ next_id' = 0
  /\ paused' = FALSE
  /\ UNCHANGED <<now, stall_timeout, assertion, escrow, disputed_at, custody,
                 paid>>

SetPaused(caller, value) ==
  /\ caller = admin
  /\ paused' = value
  /\ UNCHANGED <<committeeVars, now, bond_amount, stall_timeout, terms, ledger>>

SetBondAmount(caller, amount) ==
  /\ caller = admin
  /\ ValidBondAmount(amount)
  /\ bond_amount' = amount
  /\ UNCHANGED <<committeeVars, now, paused, stall_timeout, terms, ledger>>

SetStallTimeout(caller, secs) ==
  /\ caller = admin
  /\ secs <= MaxStallTimeoutSecs
  /\ stall_timeout' = secs
  /\ UNCHANGED <<committeeVars, now, paused, bond_amount, terms, ledger>>

GovernCommittee ==
  /\ CommitteeNext
  /\ UNCHANGED <<now, settings, terms, ledger>>

-----------------------------------------------------------------------------
(* Claims.                                                                 *)

\* transfer_in: what the balance grew by.
NominalReceived(amount, fee) == amount  \* fault: the fee goes unnoticed
Received(amount, fee) == amount - fee

AssertOutcome(asserter, outcome, fee) ==
  LET received == Received(bond_amount, fee) IN
  /\ initialized /\ ~paused
  /\ next_id < MaxAssertions
  /\ bond_amount - fee > 0
  /\ next_id' = next_id + 1
  /\ assertion' = [assertion EXCEPT ![next_id] =
       [NoAssertion EXCEPT !.status = "Pending", !.asserter = asserter,
                           !.outcome = outcome, !.opened_at = now,
                           !.bond = received]]
  /\ escrow' = [escrow EXCEPT ![next_id] = received]
  /\ custody' = custody + bond_amount - fee
  /\ UNCHANGED <<committeeVars, now, settings, terms, disputed_at, paid>>

WindowOpen(a) == now <= a.opened_at + challenge_window

Dispute(disputer, id, fee) ==
  LET a == assertion[id] IN
  /\ ~paused
  /\ a.status = "Pending"
  /\ disputer # a.asserter
  /\ WindowOpen(a)
  /\ a.bond - fee > 0
  /\ assertion' = [assertion EXCEPT
       ![id] = [a EXCEPT !.status = "Disputed", !.disputer = disputer,
                         !.resolvers = resolvers]]
  /\ disputed_at' = [disputed_at EXCEPT ![id] = now]
  /\ escrow' = [escrow EXCEPT ![id] = @ + Received(a.bond, fee)]
  /\ custody' = custody + a.bond - fee
  /\ UNCHANGED <<committeeVars, now, settings, terms, next_id, paid>>

Finalize(caller, id) ==
  LET a == assertion[id]
      reward == (escrow[id] * finalize_reward_bps) \div 10000
  IN
  /\ ~paused
  /\ a.status = "Pending"
  /\ ~WindowOpen(a)
  /\ escrow[id] <= custody
  /\ assertion' = [assertion EXCEPT
       ![id] = [a EXCEPT !.status = "Resolved", !.final_outcome = a.outcome]]
  /\ custody' = custody - escrow[id]
  /\ paid' = [paid EXCEPT
       ![id] = Plus(Plus(@, caller, reward), a.asserter, escrow[id] - reward)]
  /\ UNCHANGED <<committeeVars, now, settings, terms, next_id, escrow,
                 disputed_at>>

-----------------------------------------------------------------------------
(* The committee's decision.                                               *)

\* The committee that decides: the one recorded when the dispute opened.
LiveCommittee(a) == resolvers  \* fault: the committee of today
DecidingCommittee(a) == a.resolvers

VotedNobody(a, resolver) == FALSE  \* fault: votes are not remembered
HasVoted(a, resolver) == resolver \in a.voted

MayVote(resolver, id) ==
  LET a == assertion[id] IN
  /\ ~paused
  /\ a.status = "Disputed"
  /\ resolver \in Members(DecidingCommittee(a))
  /\ ~HasVoted(a, resolver)
  /\ resolver # a.asserter /\ resolver # a.disputer

WithBallot(a, resolver, agrees) ==
  LET b == [a EXCEPT !.voted = @ \cup {resolver}] IN
  IF agrees THEN [b EXCEPT !.votes_for_outcome = @ + 1]
  ELSE [b EXCEPT !.votes_against_outcome = @ + 1]

Threshold(a) == MajorityThreshold(Len(DecidingCommittee(a)))
AsserterWins(a) == a.votes_for_outcome >= Threshold(a)
DisputerWins(a) == a.votes_against_outcome >= Threshold(a)

Least(x, y) == IF x <= y THEN x ELSE y

UncappedPrize(a, id) == Least(2 * a.bond, custody)  \* fault: not escrow-capped
Prize(a, id) == Least(2 * a.bond, Least(escrow[id], custody))

CastVote(resolver, id, agrees) ==
  LET a == WithBallot(assertion[id], resolver, agrees) IN
  /\ MayVote(resolver, id)
  /\ ~AsserterWins(a) /\ ~DisputerWins(a)
  /\ assertion' = [assertion EXCEPT ![id] = a]
  /\ UNCHANGED <<committeeVars, now, settings, terms, next_id, escrow,
                 disputed_at, custody, paid>>

CastDecidingVote(resolver, id, agrees) ==
  LET a == WithBallot(assertion[id], resolver, agrees)
      winner == IF AsserterWins(a) THEN a.asserter ELSE a.disputer
      final == IF AsserterWins(a) THEN a.outcome ELSE Opposite(a.outcome)
  IN
  /\ MayVote(resolver, id)
  /\ AsserterWins(a) \/ DisputerWins(a)
  /\ assertion' = [assertion EXCEPT
       ![id] = [a EXCEPT !.status = "Resolved", !.final_outcome = final]]
  /\ custody' = custody - Prize(a, id)
  /\ paid' = [paid EXCEPT ![id] = Plus(@, winner, Prize(a, id))]
  /\ UNCHANGED <<committeeVars, now, settings, terms, next_id, escrow,
                 disputed_at>>

Resolve(resolver, id, agrees) ==
  CastVote(resolver, id, agrees) \/ CastDecidingVote(resolver, id, agrees)

-----------------------------------------------------------------------------
(* The stalled-dispute refund.                                             *)

NotStalled(id) == now <= disputed_at[id] + stall_timeout  \* fault: a second late
Waiting(id) == now < disputed_at[id] + stall_timeout

\* What the disputer gets back.
NominalRefund(a, id) == a.bond  \* fault: not what was received from it
DisputerRefund(a, id) == escrow[id] - Least(a.bond, escrow[id])

ReclaimStalledDispute(caller, id) ==
  LET a == assertion[id]
      to_asserter == Least(Least(a.bond, escrow[id]), custody)
      to_disputer == Least(DisputerRefund(a, id), custody - to_asserter)
  IN
  /\ ~paused
  /\ a.status = "Disputed"
  /\ stall_timeout # 0
  /\ disputed_at[id] # Never
  /\ ~Waiting(id)
  /\ assertion' = [assertion EXCEPT
       ![id] = [a EXCEPT !.status = "Resolved", !.final_outcome = "none"]]
  /\ custody' = custody - to_asserter - to_disputer
  /\ paid' = [paid EXCEPT
       ![id] = Plus(Plus(@, a.asserter, to_asserter), a.disputer, to_disputer)]
  /\ UNCHANGED <<committeeVars, now, settings, terms, next_id, escrow,
                 disputed_at>>

-----------------------------------------------------------------------------
\* The ledger clock, bounded by MaxTime.
Tick ==
  /\ now < MaxTime
  /\ now' = now + 1
  /\ UNCHANGED <<committeeVars, settings, terms, ledger>>

AdminNext ==
  \E k \in AdminKeys :
    \/ \E c \in CandidateConfigs : Initialize(k, c)
    \/ \E b \in BOOLEAN : SetPaused(k, b)
    \/ \E b \in BondAmounts : SetBondAmount(k, b)
    \/ \E s \in StallTimeouts : SetStallTimeout(k, s)

ClaimNext(id) ==
  \/ \E a \in Address, f \in Fees : Dispute(a, id, f)
  \/ \E a \in Address : Finalize(a, id)
  \/ \E a \in Address, b \in BOOLEAN : Resolve(a, id, b)
  \/ \E a \in Address : ReclaimStalledDispute(a, id)

Next ==
  \/ AdminNext
  \/ GovernCommittee
  \/ \E a \in Address, o \in Outcomes, f \in Fees : AssertOutcome(a, o, f)
  \/ \E id \in Ids : ClaimNext(id)
  \/ Tick

Spec == Init /\ [][Next]_vars

-----------------------------------------------------------------------------
(* Safety.                                                                 *)

TypeOK ==
  /\ CommitteeTypeOK
  /\ now \in 0..MaxTime /\ initialized \in BOOLEAN /\ paused \in BOOLEAN
  /\ bond_amount \in 0..MaxBondAmount
  /\ challenge_window \in 0..MaxChallengeWindowSecs
  /\ finalize_reward_bps \in 0..MaxFinalizeRewardBps
  /\ stall_timeout \in 0..MaxStallTimeoutSecs
  /\ next_id \in 0..MaxAssertions
  /\ assertion \in [Ids -> Assertion]
  /\ escrow \in [Ids -> Nat]
  /\ disputed_at \in [Ids -> {Never} \cup 0..MaxTime]
  /\ custody \in Nat
  /\ paid \in [Ids -> [Address -> Nat]]

\* The verdict is the one the committee of the moment of the dispute calls
\* for, whatever rotations and overrides happen later: every counted vote is
\* one of an impartial member of it, each counted once; an open dispute has
\* no majority; a recorded outcome of a dispute has one, on its own side
\* only; and a dispute without an outcome had none when it was refunded.
VerdictFollowsVotes ==
  \A id \in Ids : assertion[id].disputer # NoAddress =>
    LET a == assertion[id]
        majority == MajorityThreshold(Len(a.resolvers))
    IN
    /\ a.voted \subseteq Members(a.resolvers) \ {a.asserter, a.disputer}
    /\ a.votes_for_outcome + a.votes_against_outcome = Cardinality(a.voted)
    /\ a.votes_for_outcome >= majority <=>
         a.status = "Resolved" /\ a.final_outcome = a.outcome
    /\ a.votes_against_outcome >= majority <=>
         a.status = "Resolved" /\ a.final_outcome = Opposite(a.outcome)

\* What the contract still holds for an assertion.
Owed(id) ==
  IF assertion[id].status \in {"Pending", "Disputed"} THEN escrow[id] ELSE 0

\* One token balance backs every open assertion: whatever fees the token
\* took, whatever the bond amount was when each was posted, and whichever
\* were finalized, decided or refunded before, it covers all that is left.
Solvency == custody >= Total([id \in Ids |-> Owed(id)])

\* A resolved assertion has paid out exactly what it took in: nothing of its
\* bonds stays behind in the contract, and none of its payouts were cut.
ResolvedPaysEscrow ==
  \A id \in Ids :
    Total(paid[id]) = IF assertion[id].status = "Resolved" THEN escrow[id] ELSE 0

\* The committee of a deployment is first set by initialize.  Nothing in the
\* code enforces it, and the properties of rotations need it.
InitializedFirst == ~initialized => resolvers = <<>>

-----------------------------------------------------------------------------
(* Liveness.  finalize and reclaim_stalled_dispute are open to anyone, and  *)
(* whoever has a bond inside keeps calling them once they are possible.    *)
(* Committee members vote on rotations; that they vote on a dispute is an  *)
(* assumption only where a property says so.  Nothing obliges an admin.    *)
ClaimantFairness ==
  /\ WF_vars(Tick)
  /\ \A id \in Ids : WF_vars(\E a \in Address : Finalize(a, id))
  /\ \A id \in Ids : WF_vars(\E a \in Address : ReclaimStalledDispute(a, id))
RotationFairness ==
  \A a \in Address :
    WF_vars((\E b \in BOOLEAN : VoteRotation(a, b))
            /\ UNCHANGED <<now, settings, terms, ledger>>)
ResolverFairness(id) ==
  \A a \in Address : WF_vars(\E b \in BOOLEAN : Resolve(a, id, b))

FairSpec == Spec /\ ClaimantFairness /\ RotationFairness

\* No bond is frozen for ever: an open claim ends, even if the resolvers do
\* nothing, once the admin leaves the contract unpaused with a stall timeout
\* that the model's clock can reach.
EveryClaimEnds ==
  \A id \in Ids :
    <>[](/\ ~paused /\ stall_timeout # 0
         /\ assertion[id].opened_at + challenge_window < MaxTime
         /\ disputed_at[id] + stall_timeout <= MaxTime)
      => []<>(assertion[id].status \in {"Absent", "Resolved"})

\* A committee none of whose members is a party decides every dispute, if
\* its members vote and the contract is not left paused, whatever happens to
\* the committee of the deployment meanwhile.
ImpartialCommitteeDecides ==
  \A id \in Ids : ResolverFairness(id) =>
    (<>[](/\ ~paused
          /\ {assertion[id].asserter, assertion[id].disputer}
               \cap Members(assertion[id].resolvers) = {})
      => []<>(assertion[id].status # "Disputed"))

\* An open rotation is decided or dropped if the members of the committee
\* vote, so that the next one can be proposed.
RotationDecided == rotation # NoRotation ~> rotation = NoRotation
=============================================================================
