---------------------------- MODULE TholosProofs ----------------------------
(***************************************************************************)
(* Proofs about the v1 contract, for any committees, fees, settings and    *)
(* number of assertions: its committee first, then the verdicts and the    *)
(* money, and last that it implements BondedOracle.                        *)
(***************************************************************************)
EXTENDS TholosRefinement, WeightsProofs

-----------------------------------------------------------------------------
(***************************************************************************)
(* The committee of a v1 deployment stays an odd set of distinct members,  *)
(* and an open rotation fits the committee it is voted on by, whatever     *)
(* sequence of rotations, cancellations, overrides and admin changes       *)
(* happens, provided that the first committee is the one initialize sets.  *)
(***************************************************************************)

CommitteeInv ==
  /\ CommitteeTypeOK
  /\ RotationFitsCommittee

\* A majority of a committee is at least one vote and at most all.
LEMMA MajorityBounds ==
  ASSUME NEW n \in Nat, n > 0
  PROVE  MajorityThreshold(n) \in Nat /\ 0 < MajorityThreshold(n)
         /\ MajorityThreshold(n) <= n
BY DEF MajorityThreshold

\* Distinct members are as many as there are seats exactly when no two seats
\* hold the same member.
LEMMA DistinctMembers ==
  ASSUME NEW c \in Seq(Address)
  PROVE  /\ IsFiniteSet(Members(c))
         /\ Cardinality(Members(c)) = Len(c) <=>
              \A i, j \in 1..Len(c) : c[i] = c[j] => i = j
<1> DEFINE D == 1..Len(c)
<1>1. Len(c) \in Nat /\ DOMAIN c = D
  OBVIOUS
<1>2. IsFiniteSet(D) /\ Cardinality(D) = Len(c)
  BY <1>1, FS_Interval
<1>3. c \in Surjection(D, Members(c))
  BY <1>1 DEF Surjection, Members
<1>4. /\ IsFiniteSet(Members(c))
      /\ Cardinality(Members(c)) = Cardinality(D) <=>
           c \in Injection(D, Members(c))
  BY <1>2, <1>3, FS_Surjection
<1>5. c \in [D -> Members(c)]
  BY <1>3 DEF Surjection
<1>6. c \in Injection(D, Members(c)) <=> \A i, j \in D : c[i] = c[j] => i = j
  BY <1>5 DEF Injection, IsInjective
<1> QED
  BY <1>2, <1>4, <1>6

\* A swap of a member for somebody who is not one keeps a committee valid.
LEMMA SwapKeepsCommittee ==
  ASSUME NEW c \in Seq(Address), ValidCommittee(c),
         NEW old \in Members(c), NEW new \in Address, new \notin Members(c)
  PROVE  Swapped(c, old, new) \in Seq(Address) /\ ValidCommittee(Swapped(c, old, new))
<1> DEFINE d == Swapped(c, old, new)
<1>1. Len(c) \in Nat /\ \A i \in 1..Len(c) : c[i] \in Address /\ c[i] \in Members(c)
  BY DEF Members
<1>2. /\ d \in Seq(Address) /\ Len(d) = Len(c)
      /\ \A i \in 1..Len(c) : d[i] = IF c[i] = old THEN new ELSE c[i]
  BY <1>1 DEF Swapped
<1>3. \A i, j \in 1..Len(c) : c[i] = c[j] => i = j
  BY DistinctMembers DEF ValidCommittee
<1>4. ASSUME NEW i \in 1..Len(d), NEW j \in 1..Len(d), d[i] = d[j]
      PROVE  i = j
  BY <1>1, <1>2, <1>3, <1>4
<1>5. Cardinality(Members(d)) = Len(d)
  <2> HIDE DEF d
  <2> QED
    BY <1>2, <1>4, DistinctMembers
<1> QED
  BY <1>2, <1>5 DEF ValidCommittee

\* The absent proposal has no votes and is not a proposal.
LEMMA NoRotationType ==
  NoRotation.yes = {} /\ NoRotation.no = {} /\ NoRotation \notin RotationProposal
BY CommitteeAssumption DEF NoRotation, RotationProposal

LEMMA CommitteeInitOK == Init => CommitteeInv
BY DEF Init, CommitteeInit, CommitteeInv, CommitteeTypeOK, RotationFitsCommittee,
   CommitteeWellFormed

\* Calls that leave the committee and its rotation alone.
LEMMA OtherCalls ==
  ASSUME CommitteeInv, UNCHANGED <<resolvers, rotation>>,
         admin' \in AdminKeys, admin_proposal' \in AdminKeys \cup {NoAddress}
  PROVE  CommitteeInv'
BY DEF CommitteeInv, CommitteeTypeOK, RotationFitsCommittee, CommitteeWellFormed,
   Passed, Dead, Remaining

LEMMA UpdateResolversStep ==
  ASSUME CommitteeInv, NEW k \in AdminKeys, NEW c \in CandidateCommittees,
         UpdateResolvers(k, c)
  PROVE  CommitteeInv'
BY CommitteeAssumption DEF CommitteeInv, CommitteeTypeOK, UpdateResolvers,
   AfterOverride, RotationFitsCommittee, CommitteeWellFormed, adminVars

LEMMA InitializeStep ==
  ASSUME CommitteeInv, InitializedFirst, NEW k \in AdminKeys,
         NEW c \in CandidateConfigs, Initialize(k, c)
  PROVE  CommitteeInv'
<1>1. Members(resolvers) = {}
  BY DEF Initialize, InitializedFirst, Members
<1>2. rotation = NoRotation /\ rotation' = NoRotation
  BY <1>1 DEF CommitteeInv, RotationFitsCommittee, Initialize, InstallCommittee
<1>3. resolvers' \in Seq(Address) /\ ValidCommittee(resolvers')
  BY ConfigAssumption DEF Initialize, InstallCommittee, Config
<1>4. UNCHANGED adminVars
  BY DEF Initialize, InstallCommittee
<1> QED
  BY <1>2, <1>3, <1>4 DEF CommitteeInv, CommitteeTypeOK, RotationFitsCommittee,
     CommitteeWellFormed, adminVars

LEMMA ProposeRotationStep ==
  ASSUME CommitteeInv, NEW a \in Address, NEW o \in Address,
         NEW n \in RotationTargets, ProposeRotation(a, o, n)
  PROVE  CommitteeInv'
<1>1. /\ rotation'.old_resolver = o /\ rotation'.new_resolver = n
      /\ rotation'.proposed_by = a /\ rotation'.yes = {} /\ rotation'.no = {}
      /\ resolvers' = resolvers
  BY DEF ProposeRotation, NoRotation
<1>2. rotation' \in RotationProposal
  BY CommitteeAssumption DEF ProposeRotation, NoRotation, RotationProposal
<1>3. Len(resolvers) \in Nat /\ Len(resolvers) > 0
  BY DEF CommitteeInv, CommitteeTypeOK, ProposeRotation, Members
<1>4. ~Passed(rotation)' /\ ~Dead(rotation)'
  BY <1>1, <1>3, MajorityBounds, FS_EmptySet DEF Passed, Dead, Remaining
<1> QED
  BY <1>1, <1>2, <1>4 DEF CommitteeInv, CommitteeTypeOK, RotationFitsCommittee,
     CommitteeWellFormed, ProposeRotation, ValidSwap, adminVars

LEMMA VoteRotationStep ==
  ASSUME CommitteeInv, NEW a \in Address, NEW b \in BOOLEAN, VoteRotation(a, b)
  PROVE  CommitteeInv'
<1> DEFINE r == WithVote(rotation, a, b)
<1>1. RotationFitsCommittee /\ rotation \in RotationProposal
  BY DEF CommitteeInv, CommitteeTypeOK, VoteRotation, MayVoteOnRotation
<1>2. a \in Members(resolvers) /\ a \notin rotation.yes \cup rotation.no
  BY DEF VoteRotation, MayVoteOnRotation
<1>3. ValidCommittee(resolvers) /\ resolvers \in Seq(Address)
  BY <1>2 DEF CommitteeInv, CommitteeTypeOK, RotationFitsCommittee,
     CommitteeWellFormed, Members
<1>4. rotation # NoRotation
  BY <1>1, NoRotationType
<1>5. admin' = admin /\ admin_proposal' = admin_proposal
  BY DEF VoteRotation, adminVars
<1>6. CASE ExecuteRotation(r)
  <2>1. resolvers' = Swapped(resolvers, rotation.old_resolver, rotation.new_resolver)
    BY <1>1, <1>6 DEF ExecuteRotation, WithVote, RotationProposal
  <2>2. resolvers' \in Seq(Address) /\ ValidCommittee(resolvers')
    BY <1>1, <1>3, <1>4, <2>1, SwapKeepsCommittee DEF RotationFitsCommittee,
       RotationProposal
  <2>3. rotation' = NoRotation
    BY <1>6 DEF ExecuteRotation
  <2> QED
    BY <1>5, <2>2, <2>3 DEF CommitteeInv, CommitteeTypeOK, RotationFitsCommittee,
       CommitteeWellFormed
<1>7. CASE RecordVote(r)
  <2>1. CASE Dead(r)
    BY <1>3, <1>5, <1>7, <2>1 DEF RecordVote, CommitteeInv, CommitteeTypeOK,
       RotationFitsCommittee, CommitteeWellFormed
  <2>2. CASE ~Dead(r)
    <3>1. rotation' = r /\ resolvers' = resolvers /\ ~Passed(r)
      BY <1>7, <2>2 DEF RecordVote
    <3>2. /\ r \in RotationProposal
          /\ r.old_resolver = rotation.old_resolver
          /\ r.new_resolver = rotation.new_resolver
          /\ r.proposed_by = rotation.proposed_by
          /\ r.yes \cup r.no = rotation.yes \cup rotation.no \cup {a}
          /\ r.yes \cap r.no = {}
      BY <1>1, <1>2, <1>4 DEF WithVote, RotationFitsCommittee, RotationProposal
    <3>3. ~Passed(rotation)' /\ ~Dead(rotation)'
      BY <2>2, <3>1 DEF Passed, Dead, Remaining
    <3> QED
      BY <1>1, <1>2, <1>3, <1>4, <1>5, <3>1, <3>2, <3>3 DEF CommitteeInv,
         CommitteeTypeOK, RotationFitsCommittee, CommitteeWellFormed
  <2> QED
    BY <2>1, <2>2
<1> QED
  BY <1>6, <1>7 DEF VoteRotation

LEMMA CancelRotationStep ==
  ASSUME CommitteeInv, NEW a \in Address, CancelRotation(a)
  PROVE  CommitteeInv'
BY DEF CommitteeInv, CommitteeTypeOK, RotationFitsCommittee, CommitteeWellFormed,
   CancelRotation, adminVars

\* Governance calls keep the committee invariant.
LEMMA CommitteeNextStep ==
  ASSUME CommitteeInv, CommitteeNext
  PROVE  CommitteeInv'
<1>1. CASE \E k, n \in AdminKeys : ProposeAdmin(k, n)
  BY <1>1, OtherCalls DEF ProposeAdmin, CommitteeInv, CommitteeTypeOK
<1>2. CASE \E k \in AdminKeys : AcceptAdmin(k)
  BY <1>2, OtherCalls DEF AcceptAdmin, CommitteeInv, CommitteeTypeOK
<1>3. CASE \E k \in AdminKeys, c \in CandidateCommittees : UpdateResolvers(k, c)
  BY <1>3, UpdateResolversStep
<1>4. CASE \E a, o \in Address, n \in RotationTargets : ProposeRotation(a, o, n)
  BY <1>4, ProposeRotationStep
<1>5. CASE \E a \in Address, b \in BOOLEAN : VoteRotation(a, b)
  BY <1>5, VoteRotationStep
<1>6. CASE \E a \in Address : CancelRotation(a)
  BY <1>6, CancelRotationStep
<1> QED
  BY <1>1, <1>2, <1>3, <1>4, <1>5, <1>6 DEF CommitteeNext

\* CommitteeInv is inductive where the first committee is initialize's.
LEMMA CommitteeStep ==
  ASSUME CommitteeInv, InitializedFirst, [Next]_vars
  PROVE  CommitteeInv'
<1>1. CASE GovernCommittee
  BY <1>1, CommitteeNextStep DEF GovernCommittee
<1>2. CASE \E k \in AdminKeys, c \in CandidateConfigs : Initialize(k, c)
  BY <1>2, InitializeStep
<1>3. CASE UNCHANGED committeeVars
  BY <1>3, OtherCalls DEF committeeVars, CommitteeInv, CommitteeTypeOK
<1>4. CASE AdminNext
  BY <1>2, <1>3, <1>4 DEF AdminNext, SetPaused, SetBondAmount, SetStallTimeout
<1>5. CASE \E a \in Address, o \in Outcomes, f \in Fees : AssertOutcome(a, o, f)
  BY <1>3, <1>5 DEF AssertOutcome
<1>6. CASE \E id \in Ids : ClaimNext(id)
  <2>1. PICK id \in Ids : ClaimNext(id)
    BY <1>6
  <2>2. CASE \E a \in Address, f \in Fees : Dispute(a, id, f)
    BY <1>3, <2>2 DEF Dispute
  <2>3. CASE \E a \in Address : Finalize(a, id)
    BY <1>3, <2>3 DEF Finalize
  <2>4. CASE \E a \in Address, b \in BOOLEAN : Resolve(a, id, b)
    BY <1>3, <2>4 DEF Resolve, CastVote, CastDecidingVote
  <2>5. CASE \E a \in Address : ReclaimStalledDispute(a, id)
    BY <1>3, <2>5 DEF ReclaimStalledDispute
  <2> QED
    BY <2>1, <2>2, <2>3, <2>4, <2>5 DEF ClaimNext
<1>7. CASE Tick \/ UNCHANGED vars
  BY <1>3, <1>7 DEF Tick, vars, committeeVars
<1> QED
  BY <1>1, <1>4, <1>5, <1>6, <1>7 DEF Next

LEMMA CommitteeAlways == Spec /\ []InitializedFirst => []CommitteeInv
BY CommitteeInitOK, CommitteeStep, PTL DEF Spec

\* A deployment whose first committee is the one initialize sets keeps an odd,
\* bounded committee without duplicates through any number of rotations and
\* overrides, and never has an open rotation that does not fit it: the target
\* is a member, the replacement none, the votes are those of members, one
\* each, and the proposal is neither decided nor dead.
THEOREM RotationAlwaysFits ==
  Spec /\ []InitializedFirst => []RotationFitsCommittee
<1>1. CommitteeInv => RotationFitsCommittee
  BY DEF CommitteeInv
<1> QED
  BY <1>1, CommitteeAlways, PTL

-----------------------------------------------------------------------------
(***************************************************************************)
(* Verdicts and money of the v1 contract: every dispute's verdict follows  *)
(* the votes of the committee frozen on it, a resolved assertion has paid  *)
(* out exactly its escrow, and the one token balance covers the escrows of *)
(* all open assertions, for any number of them, any fees and any changes   *)
(* of the settings and of the committee; and the contract implements       *)
(* BondedOracle.                                                           *)
(*                                                                         *)
(* A call changes at most one claim, a triple of assertion, escrow and     *)
(* payments.  Each action is shown to be a ClaimUpdate, which keeps the    *)
(* invariant; the balance changes exactly as what is owed on that claim.   *)
(***************************************************************************)

Zero == [a \in Address |-> 0]

\* VerdictFollowsVotes for one assertion.
VerdictOK(a) ==
  a.disputer # NoAddress =>
    LET majority == MajorityThreshold(Len(a.resolvers)) IN
    /\ a.voted \subseteq Members(a.resolvers) \ {a.asserter, a.disputer}
    /\ a.votes_for_outcome + a.votes_against_outcome = Cardinality(a.voted)
    /\ a.votes_for_outcome >= majority <=>
         a.status = "Resolved" /\ a.final_outcome = a.outcome
    /\ a.votes_against_outcome >= majority <=>
         a.status = "Resolved" /\ a.final_outcome = Opposite(a.outcome)

\* The money of one claim: e in escrow, p paid.
MoneyOK(a, e, p) ==
  /\ a.status # "Resolved" => p = Zero
  /\ a.status = "Resolved" => Total(p) = e
  /\ a.status = "Absent" => e = 0
  /\ a.status = "Pending" => e = a.bond
  /\ a.status = "Disputed" => a.bond <= e /\ e <= 2 * a.bond

\* Who is a party, and what nobody voted on.
PartiesOK(a) ==
  /\ a.status \in {"Absent", "Pending"} =>
       /\ a.disputer = NoAddress /\ a.voted = {}
       /\ a.votes_for_outcome = 0 /\ a.votes_against_outcome = 0
  /\ a.status = "Absent" => a.asserter = NoAddress
  /\ a.status \in {"Pending", "Disputed"} => a.asserter \in Address
  /\ a.status = "Disputed" => a.disputer \in Address /\ a.disputer # a.asserter

ClaimOK(a, e, p) ==
  /\ a \in Assertion /\ e \in Nat /\ p \in [Address -> Nat]
  /\ VerdictOK(a) /\ MoneyOK(a, e, p) /\ PartiesOK(a)

OwedOn(a, e) == IF a.status \in {"Pending", "Disputed"} THEN e ELSE 0
Debt == [id \in Ids |-> OwedOn(assertion[id], escrow[id])]

ClaimsOK ==
  /\ assertion = [id \in Ids |-> assertion[id]]
  /\ escrow = [id \in Ids |-> escrow[id]]
  /\ paid = [id \in Ids |-> paid[id]]
  /\ \A id \in Ids : ClaimOK(assertion[id], escrow[id], paid[id])
  /\ custody = Total(Debt)

SettingsOK ==
  /\ bond_amount \in Nat /\ resolvers \in Seq(Address)
  /\ rotation \in RotationProposal \cup {NoRotation}
  /\ now \in Nat
  /\ finalize_reward_bps \in Nat /\ finalize_reward_bps <= 1000
  /\ next_id \in Nat /\ (~initialized => next_id = 0)
  /\ \A id \in Ids : id >= next_id => assertion[id].status = "Absent"

ClaimInv == ClaimsOK /\ SettingsOK

\* Claim id becomes <<b, e, p>>, and the balance follows what is owed on it.
ClaimUpdate(id, b, e, p) ==
  /\ ClaimOK(b, e, p)
  /\ assertion' = [assertion EXCEPT ![id] = b]
  /\ escrow' = [escrow EXCEPT ![id] = e]
  /\ paid' = [paid EXCEPT ![id] = p]
  /\ custody' = custody - OwedOn(assertion[id], escrow[id]) + OwedOn(b, e)

\* Finitely many claims fit the bound.
LEMMA IdsFinite == IsFiniteSet(Ids)
BY LimitAssumption, FS_Interval DEF Ids

\* What is owed is a natural number on each claim.
LEMMA DebtType == ClaimsOK => Debt \in [Ids -> Nat]
BY DEF ClaimsOK, ClaimOK, OwedOn, Debt

\* An update of one claim keeps what is known of all of them.
LEMMA UpdateKeepsClaims ==
  ASSUME ClaimsOK, NEW id \in Ids, NEW b, NEW e, NEW p, ClaimUpdate(id, b, e, p)
  PROVE  ClaimsOK'
<1>1. /\ assertion'[id] = b /\ escrow'[id] = e /\ paid'[id] = p
      /\ \A i \in Ids : i # id =>
           /\ assertion'[i] = assertion[i] /\ escrow'[i] = escrow[i]
           /\ paid'[i] = paid[i]
      /\ assertion' = [i \in Ids |-> assertion'[i]]
      /\ escrow' = [i \in Ids |-> escrow'[i]]
      /\ paid' = [i \in Ids |-> paid'[i]]
  BY DEF ClaimsOK, ClaimUpdate
<1>2. \A i \in Ids : ClaimOK(assertion'[i], escrow'[i], paid'[i])
  BY <1>1 DEF ClaimsOK, ClaimUpdate
<1>3. OwedOn(b, e) \in Nat
  BY DEF ClaimUpdate, ClaimOK, OwedOn
<1>4. Debt' = [Debt EXCEPT ![id] = OwedOn(b, e)]
  BY <1>1 DEF Debt
<1>5. Debt[id] = OwedOn(assertion[id], escrow[id])
  BY DEF Debt
<1>6. Total(Debt') = Total(Debt) - Debt[id] + OwedOn(b, e)
  <2> HIDE DEF Debt
  <2> QED
    BY <1>3, <1>4, DebtType, IdsFinite, TotalUpdate
<1> QED
  BY <1>1, <1>2, <1>5, <1>6 DEF ClaimsOK, ClaimUpdate

\* What is owed on one claim is in the balance.
LEMMA ShareInCustody ==
  ASSUME ClaimsOK, NEW id \in Ids
  PROVE  OwedOn(assertion[id], escrow[id]) <= custody /\ custody \in Nat
<1>1. Debt[id] = OwedOn(assertion[id], escrow[id])
  BY DEF Debt
<1> HIDE DEF Debt
<1> QED
  BY <1>1, DebtType, IdsFinite, ShareAtMostTotal, TotalType DEF ClaimsOK

\* A claim on which nothing was paid.
LEMMA ZeroTotal == Zero \in [Address -> Nat] /\ Total(Zero) = 0
<1>1. Zero \in [Address -> Nat] /\ \A a \in Address : Zero[a] = 0
  BY DEF Zero
<1> QED
  BY <1>1, TotalOfZero

\* A payment raises the total paid by its amount.
LEMMA Pay ==
  ASSUME NEW q \in [Address -> Nat], NEW x \in Address, NEW n \in Nat
  PROVE  /\ Plus(q, x, n) \in [Address -> Nat]
         /\ Total(Plus(q, x, n)) = Total(q) + n
<1>1. IsFiniteSet(Address)
  BY CommitteeAssumption
<1> QED
  BY <1>1, TotalPlus

\* The total of a single payment on a fresh claim.
LEMMA PayOne ==
  ASSUME NEW x \in Address, NEW n \in Nat
  PROVE  Plus(Zero, x, n) \in [Address -> Nat] /\ Total(Plus(Zero, x, n)) = n
BY ZeroTotal, Pay

\* The total of two payments on a fresh claim, possibly to one payee.
LEMMA PayTwo ==
  ASSUME NEW x \in Address, NEW n \in Nat, NEW y \in Address, NEW m \in Nat
  PROVE  LET p == Plus(Plus(Zero, x, n), y, m) IN
         p \in [Address -> Nat] /\ Total(p) = n + m
<1>1. /\ Plus(Zero, x, n) \in [Address -> Nat]
      /\ Total(Plus(Zero, x, n)) = n
  BY PayOne
<1> QED
  BY <1>1, Pay

\* Nobody wins without a vote.
LEMMA MajorityPositive ==
  ASSUME NEW c \in Seq(Address)
  PROVE  MajorityThreshold(Len(c)) \in Nat /\ MajorityThreshold(Len(c)) > 0
BY DEF MajorityThreshold

-----------------------------------------------------------------------------
(* Each call on a claim is a ClaimUpdate.                                  *)

LEMMA AssertOutcomeUpdate ==
  ASSUME ClaimInv, NEW x \in Address, NEW o \in Outcomes, NEW f \in Fees,
         AssertOutcome(x, o, f)
  PROVE  ClaimInv'
<1> DEFINE received == bond_amount - f
           b == [NoAssertion EXCEPT !.status = "Pending", !.asserter = x,
                                    !.outcome = o, !.opened_at = now,
                                    !.bond = received]
<1>1. next_id \in Ids
  BY LimitAssumption DEF AssertOutcome, ClaimInv, SettingsOK, Ids
<1>2. received \in Nat
  BY LimitAssumption DEF AssertOutcome, ClaimInv, SettingsOK
<1>3. b \in Assertion
  <2>1. <<>> \in Seq(Address) /\ now \in Nat
    BY DEF ClaimInv, SettingsOK
  <2>2. NoAssertion \in Assertion
    BY <2>1 DEF NoAssertion, Assertion, Statuses, Outcomes
  <2> QED
    BY <1>2, <2>1, <2>2 DEF Assertion, Statuses
<1>4. /\ b.status = "Pending" /\ b.asserter = x /\ b.bond = received
      /\ b.disputer = NoAddress /\ b.voted = {}
      /\ b.votes_for_outcome = 0 /\ b.votes_against_outcome = 0
  BY DEF NoAssertion
<1>5. assertion[next_id].status = "Absent" /\ paid[next_id] = Zero
  BY <1>1 DEF ClaimInv, ClaimsOK, SettingsOK, ClaimOK, MoneyOK
<1>6. ClaimOK(b, received, Zero)
  <2> HIDE DEF b
  <2> QED
    BY <1>2, <1>3, <1>4, ZeroTotal DEF ClaimOK, VerdictOK, MoneyOK, PartiesOK
<1>7. ClaimUpdate(next_id, b, received, Zero)
  <2>1. assertion' = [assertion EXCEPT ![next_id] = b]
    BY DEF AssertOutcome, Received
  <2>2. escrow' = [escrow EXCEPT ![next_id] = received]
    BY DEF AssertOutcome, Received
  <2>3. paid' = [paid EXCEPT ![next_id] = Zero]
    BY <1>1, <1>5 DEF AssertOutcome, ClaimInv, ClaimsOK
  <2>4. custody' = custody - 0 + received
    BY <1>1, ShareInCustody, LimitAssumption
    DEF AssertOutcome, ClaimInv, SettingsOK
  <2>5. OwedOn(assertion[next_id], escrow[next_id]) = 0 /\ OwedOn(b, received) = received
    BY <1>4, <1>5 DEF OwedOn
  <2> HIDE DEF b, received
  <2> QED
    BY <1>6, <2>1, <2>2, <2>3, <2>4, <2>5 DEF ClaimUpdate
<1>8. ClaimsOK'
  BY <1>1, <1>7, UpdateKeepsClaims DEF ClaimInv
<1>9. SettingsOK'
  BY <1>1 DEF AssertOutcome, ClaimInv, ClaimsOK, SettingsOK, Ids, committeeVars,
     settings, terms
<1> QED
  BY <1>8, <1>9 DEF ClaimInv

\* A call on a posted claim that leaves the settings alone.
LEMMA UpdateStep ==
  ASSUME ClaimInv, NEW id \in Ids, NEW b, NEW e, NEW p, ClaimUpdate(id, b, e, p),
         assertion[id].status # "Absent",
         UNCHANGED <<bond_amount, resolvers, rotation, now, finalize_reward_bps, next_id,
                     initialized>>
  PROVE  ClaimInv'
<1>1. ClaimsOK'
  BY UpdateKeepsClaims DEF ClaimInv
<1>2. id < next_id
  BY DEF ClaimInv, SettingsOK, Ids
<1>3. \A i \in Ids : i # id => assertion'[i] = assertion[i]
  BY DEF ClaimUpdate, ClaimInv, ClaimsOK
<1>4. \A i \in Ids : i >= next_id => assertion'[i].status = "Absent"
  BY <1>2, <1>3 DEF ClaimInv, SettingsOK, Ids
<1> QED
  BY <1>1, <1>4 DEF ClaimInv, SettingsOK

LEMMA DisputeUpdate ==
  ASSUME ClaimInv, NEW x \in Address, NEW id \in Ids, NEW f \in Fees,
         Dispute(x, id, f)
  PROVE  ClaimInv'
<1> DEFINE a == assertion[id]
           b == [a EXCEPT !.status = "Disputed", !.disputer = x,
                          !.resolvers = resolvers]
           e == escrow[id] + (a.bond - f)
<1>1. /\ ClaimOK(a, escrow[id], paid[id]) /\ a.status = "Pending"
      /\ x # a.asserter /\ a.bond - f > 0 /\ f \in Nat
      /\ resolvers \in Seq(Address)
  BY LimitAssumption DEF Dispute, ClaimInv, ClaimsOK, SettingsOK
<1>2. /\ a \in Assertion /\ a.bond \in Nat /\ escrow[id] = a.bond
      /\ paid[id] = Zero /\ a.asserter \in Address
      /\ a.voted = {} /\ a.votes_for_outcome = 0 /\ a.votes_against_outcome = 0
  BY <1>1 DEF ClaimOK, MoneyOK, PartiesOK, Assertion
<1>3. e \in Nat /\ a.bond <= e /\ e <= 2 * a.bond
  BY <1>1, <1>2
<1>4. b \in Assertion
  BY <1>1, <1>2 DEF Assertion, Statuses
<1>5. /\ b.status = "Disputed" /\ b.disputer = x /\ b.asserter = a.asserter
      /\ b.bond = a.bond /\ b.voted = {} /\ b.resolvers = resolvers
      /\ b.votes_for_outcome = 0 /\ b.votes_against_outcome = 0
  BY <1>2 DEF Assertion
<1>6. ClaimOK(b, e, Zero)
  <2>1. MajorityThreshold(Len(resolvers)) \in Nat /\ MajorityThreshold(Len(resolvers)) > 0
    BY <1>1, MajorityPositive
  <2> HIDE DEF a, b, e
  <2> QED
    BY <1>1, <1>2, <1>3, <1>4, <1>5, <2>1, ZeroTotal, FS_EmptySet
    DEF ClaimOK, VerdictOK, MoneyOK, PartiesOK
<1>7. ClaimUpdate(id, b, e, Zero)
  <2>1. assertion' = [assertion EXCEPT ![id] = b]
    BY DEF Dispute
  <2>2. escrow' = [escrow EXCEPT ![id] = e]
    BY DEF Dispute, Received, ClaimInv, ClaimsOK
  <2>3. paid' = [paid EXCEPT ![id] = Zero]
    BY <1>2 DEF Dispute, ClaimInv, ClaimsOK
  <2>4. OwedOn(a, escrow[id]) = escrow[id] /\ OwedOn(b, e) = e
    BY <1>1, <1>5 DEF OwedOn
  <2>5. custody' = custody + a.bond - f /\ custody \in Nat
    BY ShareInCustody DEF Dispute, ClaimInv
  <2>6. custody' = custody - escrow[id] + e
    BY <1>1, <1>2, <2>5
  <2> HIDE DEF b, e
  <2> QED
    BY <1>6, <2>1, <2>2, <2>3, <2>4, <2>6 DEF ClaimUpdate
<1>8. UNCHANGED <<bond_amount, resolvers, rotation, now, finalize_reward_bps, next_id,
                  initialized>>
  BY DEF Dispute, committeeVars, settings, terms
<1> QED
  BY <1>1, <1>7, <1>8, UpdateStep

\* The finalizer's reward is a share of the escrow.
LEMMA RewardBounds ==
  ASSUME NEW e \in Nat, NEW bps \in Nat, bps <= 1000
  PROVE  (e * bps) \div 10000 \in Nat /\ (e * bps) \div 10000 <= e
<1>1. e * bps \in Nat /\ e * bps <= e * 1000
  OBVIOUS
<1> QED
  BY <1>1

LEMMA FinalizeUpdate ==
  ASSUME ClaimInv, NEW x \in Address, NEW id \in Ids, Finalize(x, id)
  PROVE  ClaimInv'
<1> DEFINE a == assertion[id]
           b == [a EXCEPT !.status = "Resolved", !.final_outcome = a.outcome]
           e == escrow[id]
           reward == (e * finalize_reward_bps) \div 10000
           p == Plus(Plus(Zero, x, reward), a.asserter, e - reward)
<1>1. /\ ClaimOK(a, e, paid[id]) /\ a.status = "Pending"
      /\ finalize_reward_bps \in Nat /\ finalize_reward_bps <= 1000
  BY DEF Finalize, ClaimInv, ClaimsOK, SettingsOK
<1>2. /\ a \in Assertion /\ e \in Nat /\ paid[id] = Zero
      /\ a.asserter \in Address /\ a.disputer = NoAddress
  BY <1>1 DEF ClaimOK, MoneyOK, PartiesOK, Assertion
<1>3. b \in Assertion
  BY <1>2 DEF Assertion, Statuses
<1>4. /\ b.status = "Resolved" /\ b.disputer = NoAddress
  BY <1>2 DEF Assertion
<1>5. reward \in Nat /\ e - reward \in Nat /\ reward + (e - reward) = e
  <2>1. reward \in Nat /\ reward <= e
    BY <1>1, <1>2, RewardBounds
  <2> HIDE DEF reward, e
  <2> QED
    BY <1>2, <2>1
<1>6. p \in [Address -> Nat] /\ Total(p) = e
  <2> HIDE DEF a, e, reward
  <2>1. Total(p) = reward + (e - reward) /\ p \in [Address -> Nat]
    BY <1>2, <1>5, PayTwo
  <2> QED
    BY <1>5, <2>1
<1>7. ClaimOK(b, e, p)
  <2> HIDE DEF a, b, e, p
  <2> QED
    BY <1>2, <1>3, <1>4, <1>6 DEF ClaimOK, VerdictOK, MoneyOK, PartiesOK
<1>8. ClaimUpdate(id, b, e, p)
  <2>1. assertion' = [assertion EXCEPT ![id] = b]
    BY DEF Finalize
  <2>2. escrow' = [escrow EXCEPT ![id] = e]
    BY DEF Finalize, ClaimInv, ClaimsOK
  <2>3. paid' = [paid EXCEPT ![id] = p]
    BY <1>2 DEF Finalize, ClaimInv, ClaimsOK
  <2>4. OwedOn(a, e) = e /\ OwedOn(b, e) = 0
    BY <1>1, <1>4 DEF OwedOn
  <2>5. custody' = custody - e + 0
    BY <1>2, ShareInCustody DEF Finalize, ClaimInv
  <2> HIDE DEF b, e, p
  <2> QED
    BY <1>7, <2>1, <2>2, <2>3, <2>4, <2>5 DEF ClaimUpdate, e
<1>9. UNCHANGED <<bond_amount, resolvers, rotation, now, finalize_reward_bps, next_id,
                  initialized>>
  BY DEF Finalize, committeeVars, settings, terms
<1> QED
  BY <1>1, <1>8, <1>9, UpdateStep

\* A ballot keeps the tallies equal to the votes.
LEMMA BallotFacts ==
  ASSUME ClaimInv, NEW x \in Address, NEW id \in Ids, NEW v \in BOOLEAN,
         MayVote(x, id)
  PROVE  LET a == assertion[id]
             b == WithBallot(a, x, v)
         IN
         /\ ClaimOK(a, escrow[id], paid[id]) /\ a.status = "Disputed"
         /\ a \in Assertion /\ a.asserter \in Address /\ a.disputer \in Address
         /\ a.disputer # a.asserter
         /\ escrow[id] \in Nat /\ paid[id] = Zero
         /\ a.bond <= escrow[id] /\ escrow[id] <= 2 * a.bond
         /\ b \in Assertion
         /\ b.status = "Disputed" /\ b.asserter = a.asserter
         /\ b.disputer = a.disputer /\ b.bond = a.bond /\ b.outcome = a.outcome
         /\ b.resolvers = a.resolvers
         /\ b.voted \subseteq Members(b.resolvers) \ {b.asserter, b.disputer}
         /\ b.votes_for_outcome + b.votes_against_outcome = Cardinality(b.voted)
         /\ ~(AsserterWins(b) /\ DisputerWins(b))
<1> DEFINE a == assertion[id]
           b == WithBallot(a, x, v)
<1>1. /\ ClaimOK(a, escrow[id], paid[id]) /\ a.status = "Disputed"
      /\ x \in Members(a.resolvers) /\ x \notin a.voted
      /\ x # a.asserter /\ x # a.disputer
  BY DEF MayVote, HasVoted, DecidingCommittee, ClaimInv, ClaimsOK
<1>2. /\ a \in Assertion /\ a.asserter \in Address /\ a.disputer \in Address
      /\ a.disputer # a.asserter
      /\ escrow[id] \in Nat /\ paid[id] = Zero
      /\ a.bond <= escrow[id] /\ escrow[id] <= 2 * a.bond
  BY <1>1 DEF ClaimOK, MoneyOK, PartiesOK
<1>3. a.disputer # NoAddress
  BY <1>2, CommitteeAssumption
<1>4. /\ a.voted \subseteq Members(a.resolvers) \ {a.asserter, a.disputer}
      /\ a.votes_for_outcome + a.votes_against_outcome = Cardinality(a.voted)
      /\ ~(a.votes_for_outcome >= MajorityThreshold(Len(a.resolvers)))
      /\ ~(a.votes_against_outcome >= MajorityThreshold(Len(a.resolvers)))
  BY <1>1, <1>3 DEF ClaimOK, VerdictOK
<1>5. Cardinality(a.voted \cup {x}) = Cardinality(a.voted) + 1
  <2>1. IsFiniteSet(a.voted)
    BY <1>2, CommitteeAssumption, FS_Subset DEF Assertion
  <2> QED
    BY <1>1, <2>1, FS_AddElement
<1>6. /\ b \in Assertion
      /\ b.status = a.status /\ b.asserter = a.asserter
      /\ b.disputer = a.disputer /\ b.bond = a.bond /\ b.outcome = a.outcome
      /\ b.resolvers = a.resolvers /\ b.voted = a.voted \cup {x}
      /\ \/ /\ b.votes_for_outcome = a.votes_for_outcome + 1
            /\ b.votes_against_outcome = a.votes_against_outcome
         \/ /\ b.votes_for_outcome = a.votes_for_outcome
            /\ b.votes_against_outcome = a.votes_against_outcome + 1
  <2> DEFINE c == [a EXCEPT !.voted = a.voted \cup {x}]
  <2>1. /\ c \in Assertion
        /\ c.status = a.status /\ c.asserter = a.asserter
        /\ c.disputer = a.disputer /\ c.bond = a.bond /\ c.outcome = a.outcome
        /\ c.resolvers = a.resolvers /\ c.voted = a.voted \cup {x}
        /\ c.votes_for_outcome = a.votes_for_outcome
        /\ c.votes_against_outcome = a.votes_against_outcome
    BY <1>2 DEF Assertion
  <2>2. b = IF v THEN [c EXCEPT !.votes_for_outcome = c.votes_for_outcome + 1]
            ELSE [c EXCEPT !.votes_against_outcome = c.votes_against_outcome + 1]
    BY DEF WithBallot
  <2> HIDE DEF a, b, c
  <2>3. CASE v
    BY <2>1, <2>2, <2>3 DEF Assertion
  <2>4. CASE ~v
    BY <2>1, <2>2, <2>4 DEF Assertion
  <2> QED
    BY <2>3, <2>4
<1>7. a.votes_for_outcome \in Nat /\ a.votes_against_outcome \in Nat
      /\ MajorityThreshold(Len(a.resolvers)) \in Nat
  BY <1>2, MajorityPositive DEF Assertion
<1>8. /\ b.votes_for_outcome + b.votes_against_outcome = Cardinality(b.voted)
      /\ ~(AsserterWins(b) /\ DisputerWins(b))
  <2> HIDE DEF a, b
  <2> QED
    BY <1>4, <1>5, <1>6, <1>7 DEF AsserterWins, DisputerWins, Threshold,
       DecidingCommittee
<1> QED
  BY <1>1, <1>2, <1>4, <1>6, <1>8

LEMMA CastVoteUpdate ==
  ASSUME ClaimInv, NEW x \in Address, NEW id \in Ids, NEW v \in BOOLEAN,
         CastVote(x, id, v)
  PROVE  ClaimInv'
<1> DEFINE a == assertion[id]
           b == WithBallot(a, x, v)
           e == escrow[id]
<1>1. MayVote(x, id) /\ ~AsserterWins(b) /\ ~DisputerWins(b)
  BY DEF CastVote
<1>2. ClaimOK(b, e, Zero)
  <2>1. /\ ClaimOK(a, e, paid[id]) /\ a.asserter \in Address
        /\ a.disputer \in Address /\ a.disputer # a.asserter
        /\ e \in Nat /\ paid[id] = Zero /\ a.bond <= e /\ e <= 2 * a.bond
        /\ b \in Assertion /\ b.status = "Disputed" /\ b.asserter = a.asserter
        /\ b.disputer = a.disputer /\ b.bond = a.bond
        /\ b.voted \subseteq Members(b.resolvers) \ {b.asserter, b.disputer}
        /\ b.votes_for_outcome + b.votes_against_outcome = Cardinality(b.voted)
    BY <1>1, BallotFacts
  <2> HIDE DEF a, b, e
  <2> QED
    BY <1>1, <2>1, ZeroTotal DEF ClaimOK, VerdictOK, MoneyOK, PartiesOK,
       AsserterWins, DisputerWins, Threshold, DecidingCommittee
<1>3. a.status = "Disputed" /\ b.status = "Disputed" /\ paid[id] = Zero
      /\ e \in Nat
  BY <1>1, BallotFacts
<1>4. ClaimUpdate(id, b, e, Zero)
  <2>1. assertion' = [assertion EXCEPT ![id] = b]
    BY DEF CastVote
  <2>2. escrow' = [escrow EXCEPT ![id] = e] /\ paid' = [paid EXCEPT ![id] = Zero]
    BY <1>3 DEF CastVote, ClaimInv, ClaimsOK
  <2>3. custody' = custody /\ custody \in Nat
    BY ShareInCustody DEF CastVote, ClaimInv
  <2>4. OwedOn(a, e) = e /\ OwedOn(b, e) = e
    BY <1>3 DEF OwedOn
  <2> HIDE DEF b
  <2> QED
    BY <1>2, <1>3, <2>1, <2>2, <2>3, <2>4 DEF ClaimUpdate
<1>5. UNCHANGED <<bond_amount, resolvers, rotation, now, finalize_reward_bps, next_id,
                  initialized>>
  BY DEF CastVote, committeeVars, settings, terms
<1> QED
  BY <1>3, <1>4, <1>5, UpdateStep

LEMMA CastDecidingVoteUpdate ==
  ASSUME ClaimInv, NEW x \in Address, NEW id \in Ids, NEW v \in BOOLEAN,
         CastDecidingVote(x, id, v)
  PROVE  ClaimInv'
<1> DEFINE a == assertion[id]
           b == WithBallot(a, x, v)
           e == escrow[id]
           winner == IF AsserterWins(b) THEN b.asserter ELSE b.disputer
           final == IF AsserterWins(b) THEN b.outcome ELSE Opposite(b.outcome)
           d == [b EXCEPT !.status = "Resolved", !.final_outcome = final]
           p == Plus(Zero, winner, e)
<1>1. MayVote(x, id) /\ (AsserterWins(b) \/ DisputerWins(b))
  BY DEF CastDecidingVote
<1>2. /\ a.status = "Disputed" /\ a.asserter \in Address /\ a.disputer \in Address
      /\ a \in Assertion
      /\ e \in Nat /\ paid[id] = Zero /\ a.bond <= e /\ e <= 2 * a.bond
      /\ b \in Assertion /\ b.asserter = a.asserter
      /\ b.disputer = a.disputer /\ b.bond = a.bond
      /\ b.voted \subseteq Members(b.resolvers) \ {b.asserter, b.disputer}
      /\ b.votes_for_outcome + b.votes_against_outcome = Cardinality(b.voted)
      /\ ~(AsserterWins(b) /\ DisputerWins(b))
  BY <1>1, BallotFacts
<1>3. b.outcome \in Outcomes /\ Opposite(b.outcome) \in Outcomes
      /\ Opposite(b.outcome) # b.outcome
  BY <1>2 DEF Assertion, Outcomes, Opposite
<1>4. /\ d \in Assertion /\ d.status = "Resolved" /\ d.final_outcome = final
      /\ d.outcome = b.outcome /\ d.asserter = b.asserter
      /\ d.disputer = b.disputer /\ d.voted = b.voted
      /\ d.resolvers = b.resolvers
      /\ d.votes_for_outcome = b.votes_for_outcome
      /\ d.votes_against_outcome = b.votes_against_outcome
  <2> HIDE DEF b
  <2>1. final \in Outcomes
    BY <1>3
  <2> HIDE DEF final
  <2> QED
    BY <1>2, <2>1 DEF Assertion, Statuses
<1>5. p \in [Address -> Nat] /\ Total(p) = e
  <2>1. winner \in Address
    BY <1>2
  <2> HIDE DEF winner, e
  <2> QED
    BY <1>2, <2>1, PayOne
<1>6. ClaimOK(d, e, p)
  <2>1. /\ AsserterWins(b) <=> d.final_outcome = d.outcome
        /\ DisputerWins(b) <=> d.final_outcome = Opposite(d.outcome)
    BY <1>1, <1>2, <1>3, <1>4
  <2> HIDE DEF a, b, d, e, p
  <2> QED
    BY <1>2, <1>4, <1>5, <2>1 DEF ClaimOK, VerdictOK, MoneyOK, PartiesOK,
       AsserterWins, DisputerWins, Threshold, DecidingCommittee
<1>7. Prize(b, id) = e
  <2>1. OwedOn(a, e) <= custody /\ custody \in Nat
    BY ShareInCustody DEF ClaimInv
  <2>2. e <= custody /\ a.bond \in Nat
    BY <1>2, <2>1 DEF OwedOn, Assertion
  <2> HIDE DEF b
  <2> QED
    BY <1>2, <2>1, <2>2 DEF Prize, Least
<1>8. ClaimUpdate(id, d, e, p)
  <2>1. assertion' = [assertion EXCEPT ![id] = d]
    BY DEF CastDecidingVote
  <2>2. escrow' = [escrow EXCEPT ![id] = e]
    BY DEF CastDecidingVote, ClaimInv, ClaimsOK
  <2>3. custody' = custody - e /\ custody \in Nat
    BY <1>7, ShareInCustody DEF CastDecidingVote, ClaimInv
  <2>4. OwedOn(a, e) = e /\ OwedOn(d, e) = 0
    BY <1>2, <1>4 DEF OwedOn
  <2>5. paid' = [paid EXCEPT ![id] = p]
    <3>1. paid' = [paid EXCEPT ![id] = Plus(@, winner, e)]
      BY <1>7 DEF CastDecidingVote
    <3> HIDE DEF winner, e
    <3> QED
      BY <1>2, <3>1 DEF ClaimInv, ClaimsOK
  <2> HIDE DEF d, p
  <2> QED
    BY <1>2, <1>6, <2>1, <2>2, <2>3, <2>4, <2>5 DEF ClaimUpdate
<1>9. UNCHANGED <<bond_amount, resolvers, rotation, now, finalize_reward_bps, next_id,
                  initialized>>
  BY DEF CastDecidingVote, committeeVars, settings, terms
<1> QED
  BY <1>2, <1>8, <1>9, UpdateStep

\* A stalled dispute pays each party exactly what came in from it: none of
\* the caps of reclaim_stalled_dispute bites.
LEMMA ReclaimPays ==
  ASSUME ClaimInv, NEW x \in Address, NEW id \in Ids, ReclaimStalledDispute(x, id)
  PROVE  LET a == assertion[id]
             e == escrow[id]
         IN /\ ClaimOK(a, e, paid[id]) /\ a.status = "Disputed" /\ a \in Assertion
            /\ a.bond \in Nat /\ e \in Nat /\ paid[id] = Zero
            /\ a.asserter \in Address /\ a.disputer \in Address
            /\ a.disputer # a.asserter /\ a.bond <= e
            /\ custody' = custody - e
            /\ paid' = [paid EXCEPT ![id] =
                 Plus(Plus(Zero, a.asserter, a.bond), a.disputer, e - a.bond)]
<1> DEFINE a == assertion[id]
           e == escrow[id]
           to_asserter == Least(Least(a.bond, e), custody)
           to_disputer == Least(DisputerRefund(a, id), custody - to_asserter)
<1>1. ClaimOK(a, e, paid[id]) /\ a.status = "Disputed"
  BY DEF ReclaimStalledDispute, ClaimInv, ClaimsOK
<1>2. /\ a \in Assertion /\ a.bond \in Nat /\ e \in Nat /\ paid[id] = Zero
      /\ a.asserter \in Address /\ a.disputer \in Address
      /\ a.disputer # a.asserter /\ a.bond <= e
  BY <1>1 DEF ClaimOK, MoneyOK, PartiesOK, Assertion
<1>3. to_asserter = a.bond /\ to_disputer = e - a.bond /\ custody \in Nat
  <2>1. OwedOn(a, e) <= custody /\ custody \in Nat
    BY ShareInCustody DEF ClaimInv
  <2>2. e <= custody
    BY <1>1, <2>1 DEF OwedOn
  <2>3. DisputerRefund(a, id) = e - a.bond
    BY <1>2 DEF DisputerRefund, Least
  <2> HIDE DEF a, e
  <2> QED
    BY <1>2, <2>1, <2>2, <2>3 DEF Least
<1>4. custody' = custody - to_asserter - to_disputer
  BY DEF ReclaimStalledDispute
<1>5. custody' = custody - e
  BY <1>2, <1>3, <1>4
<1>6. paid' = [paid EXCEPT ![id] =
                 Plus(Plus(@, a.asserter, to_asserter), a.disputer, to_disputer)]
  BY DEF ReclaimStalledDispute
<1> HIDE DEF to_asserter, to_disputer
<1>7. paid' = [paid EXCEPT ![id] =
                 Plus(Plus(Zero, a.asserter, a.bond), a.disputer, e - a.bond)]
  BY <1>2, <1>3, <1>6 DEF ClaimInv, ClaimsOK
<1> QED
  BY <1>1, <1>2, <1>5, <1>7

LEMMA ReclaimUpdate ==
  ASSUME ClaimInv, NEW x \in Address, NEW id \in Ids, ReclaimStalledDispute(x, id)
  PROVE  ClaimInv'
<1> DEFINE a == assertion[id]
           e == escrow[id]
           b == [a EXCEPT !.status = "Resolved", !.final_outcome = "none"]
           p == Plus(Plus(Zero, a.asserter, a.bond), a.disputer, e - a.bond)
<1>1. /\ ClaimOK(a, e, paid[id]) /\ a.status = "Disputed" /\ a \in Assertion
      /\ a.bond \in Nat /\ e \in Nat /\ paid[id] = Zero
      /\ a.asserter \in Address /\ a.disputer \in Address /\ a.bond <= e
      /\ custody' = custody - e /\ paid' = [paid EXCEPT ![id] = p]
  BY ReclaimPays
<1>2. VerdictOK(a) /\ a.disputer # NoAddress
  BY <1>1, CommitteeAssumption DEF ClaimOK
<1>3. /\ b \in Assertion /\ b.status = "Resolved" /\ b.final_outcome = "none"
      /\ b.outcome = a.outcome /\ b.asserter = a.asserter
      /\ b.disputer = a.disputer /\ b.voted = a.voted
      /\ b.resolvers = a.resolvers
      /\ b.votes_for_outcome = a.votes_for_outcome
      /\ b.votes_against_outcome = a.votes_against_outcome
  BY <1>1 DEF Assertion, Statuses
<1>4. a.outcome \in Outcomes /\ a.outcome # "none" /\ Opposite(a.outcome) # "none"
  BY <1>1 DEF Assertion, Outcomes, Opposite
<1>5. p \in [Address -> Nat] /\ Total(p) = e
  <2> DEFINE n == a.bond
             m == e - a.bond
  <2>1. n \in Nat /\ m \in Nat /\ n + m = e
    BY <1>1
  <2>2. a.asserter \in Address /\ a.disputer \in Address
    BY <1>1
  <2> HIDE DEF a, e, n, m
  <2>3. /\ Plus(Plus(Zero, a.asserter, n), a.disputer, m) \in [Address -> Nat]
        /\ Total(Plus(Plus(Zero, a.asserter, n), a.disputer, m)) = n + m
    BY <2>1, <2>2, PayTwo
  <2> QED
    BY <2>1, <2>3 DEF n, m
<1>6. ClaimOK(b, e, p)
  <2> HIDE DEF a, b, e, p
  <2> QED
    BY <1>1, <1>2, <1>3, <1>4, <1>5 DEF ClaimOK, VerdictOK, MoneyOK, PartiesOK
<1>7. ClaimUpdate(id, b, e, p)
  <2>1. assertion' = [assertion EXCEPT ![id] = b]
    BY DEF ReclaimStalledDispute
  <2>2. escrow' = [escrow EXCEPT ![id] = e]
    BY DEF ReclaimStalledDispute, ClaimInv, ClaimsOK
  <2>3. OwedOn(a, e) = e /\ OwedOn(b, e) = 0 /\ custody \in Nat
    BY <1>1, <1>3, ShareInCustody DEF OwedOn, ClaimInv
  <2> HIDE DEF b, p
  <2> QED
    BY <1>1, <1>6, <2>1, <2>2, <2>3 DEF ClaimUpdate
<1>8. UNCHANGED <<bond_amount, resolvers, rotation, now, finalize_reward_bps, next_id,
                  initialized>>
  BY DEF ReclaimStalledDispute, committeeVars, settings, terms
<1> QED
  BY <1>1, <1>7, <1>8, UpdateStep

-----------------------------------------------------------------------------
(* Calls on no claim.                                                      *)

\* A call that leaves the claims alone keeps what is known of them.
LEMMA ClaimsUntouched ==
  ASSUME ClaimsOK, UNCHANGED <<assertion, escrow, paid, custody>>
  PROVE  ClaimsOK'
<1>1. Debt' = Debt
  BY DEF Debt
<1> QED
  BY <1>1 DEF ClaimsOK

\* A vote on a rotation leaves a well-typed proposal.
LEMMA VoteKeepsType ==
  ASSUME NEW r \in RotationProposal, NEW x \in Address, NEW v \in BOOLEAN
  PROVE  WithVote(r, x, v) \in RotationProposal
<1>1. CASE v
  BY <1>1 DEF WithVote, RotationProposal
<1>2. CASE ~v
  BY <1>2 DEF WithVote, RotationProposal
<1> QED
  BY <1>1, <1>2

\* The committee stays a sequence of addresses.
LEMMA GovernanceTypes ==
  ASSUME resolvers \in Seq(Address), rotation \in RotationProposal \cup {NoRotation},
         CommitteeNext
  PROVE  resolvers' \in Seq(Address) /\ rotation' \in RotationProposal \cup {NoRotation}
<1>1. ASSUME NEW k \in AdminKeys, NEW n \in AdminKeys, ProposeAdmin(k, n)
      PROVE  UNCHANGED <<resolvers, rotation>>
  BY <1>1 DEF ProposeAdmin
<1>2. ASSUME NEW k \in AdminKeys, AcceptAdmin(k)
      PROVE  UNCHANGED <<resolvers, rotation>>
  BY <1>2 DEF AcceptAdmin
<1>3. ASSUME NEW k \in AdminKeys, NEW c \in CandidateCommittees, UpdateResolvers(k, c)
      PROVE  resolvers' \in Seq(Address) /\ rotation' = NoRotation
  BY <1>3, CommitteeAssumption DEF UpdateResolvers, AfterOverride
<1>4. ASSUME NEW a \in Address, NEW o \in Address, NEW n \in RotationTargets,
             ProposeRotation(a, o, n)
      PROVE  resolvers' = resolvers /\ rotation' \in RotationProposal
  <2>1. n \in Address
    BY CommitteeAssumption
  <2> QED
    BY <1>4, <2>1 DEF ProposeRotation, NoRotation, RotationProposal
<1>5. ASSUME NEW a \in Address, NEW b \in BOOLEAN, VoteRotation(a, b)
      PROVE  resolvers' \in Seq(Address) /\ rotation' \in RotationProposal \cup {NoRotation}
  <2> DEFINE r == WithVote(rotation, a, b)
  <2>1. r \in RotationProposal
    BY <1>5, VoteKeepsType DEF VoteRotation, MayVoteOnRotation
  <2>2. CASE ExecuteRotation(r)
    <3>1. r.new_resolver \in Address
      BY <2>1 DEF RotationProposal
    <3>2. Swapped(resolvers, r.old_resolver, r.new_resolver) \in Seq(Address)
      <4> HIDE DEF r
      <4>1. Len(resolvers) \in Nat
            /\ \A i \in 1..Len(resolvers) : resolvers[i] \in Address
        OBVIOUS
      <4> QED
        BY <3>1, <4>1 DEF Swapped
    <3> HIDE DEF r
    <3> QED
      BY <2>2, <3>2 DEF ExecuteRotation
  <2>3. CASE RecordVote(r)
    <3> HIDE DEF r
    <3> QED
      BY <2>1, <2>3 DEF RecordVote
  <2> QED
    BY <1>5, <2>2, <2>3 DEF VoteRotation
<1>6. ASSUME NEW a \in Address, CancelRotation(a)
      PROVE  resolvers' = resolvers /\ rotation' = NoRotation
  BY <1>6 DEF CancelRotation
<1> QED
  BY <1>1, <1>2, <1>3, <1>4, <1>5, <1>6 DEF CommitteeNext

\* Settings, governance and time touch no claim.
LEMMA SettingsStep ==
  ASSUME ClaimInv, AdminNext \/ GovernCommittee \/ Tick
  PROVE  ClaimInv'
<1>1. ClaimsOK /\ SettingsOK
  BY DEF ClaimInv
<1>2. ASSUME NEW k \in AdminKeys, NEW c \in CandidateConfigs, Initialize(k, c)
      PROVE  SettingsOK' /\ UNCHANGED <<assertion, escrow, paid, custody>>
  <2>1. /\ c.bond_amount \in Int /\ c.finalize_reward_bps \in Nat
        /\ c.resolvers \in Seq(Address)
    BY ConfigAssumption DEF Config
  <2>2. next_id = 0 /\ next_id' = 0 /\ initialized' = TRUE
    BY <1>1, <1>2 DEF Initialize, SettingsOK
  <2> QED
    BY <1>1, <1>2, <2>1, <2>2 DEF Initialize, InstallCommittee, ValidBondAmount,
       MaxFinalizeRewardBps, SettingsOK, adminVars
<1>3. ASSUME NEW k \in AdminKeys, NEW b \in BOOLEAN, SetPaused(k, b)
      PROVE  SettingsOK' /\ UNCHANGED <<assertion, escrow, paid, custody>>
  BY <1>1, <1>3 DEF SetPaused, SettingsOK, committeeVars, terms, ledger
<1>4. ASSUME NEW k \in AdminKeys, NEW b \in BondAmounts, SetBondAmount(k, b)
      PROVE  SettingsOK' /\ UNCHANGED <<assertion, escrow, paid, custody>>
  <2>1. b \in Nat
    BY <1>4, ConfigAssumption DEF SetBondAmount, ValidBondAmount
  <2> QED
    BY <1>1, <1>4, <2>1 DEF SetBondAmount, SettingsOK, committeeVars, terms, ledger
<1>5. ASSUME NEW k \in AdminKeys, NEW s \in StallTimeouts, SetStallTimeout(k, s)
      PROVE  SettingsOK' /\ UNCHANGED <<assertion, escrow, paid, custody>>
  BY <1>1, <1>5 DEF SetStallTimeout, SettingsOK, committeeVars, terms, ledger
<1>6. CASE GovernCommittee
  <2>1. resolvers' \in Seq(Address) /\ rotation' \in RotationProposal \cup {NoRotation}
    BY <1>1, <1>6, GovernanceTypes DEF GovernCommittee, SettingsOK
  <2>2. SettingsOK' /\ UNCHANGED <<assertion, escrow, paid, custody>>
    BY <1>1, <1>6, <2>1 DEF GovernCommittee, SettingsOK, settings, terms, ledger
  <2> QED
    BY <1>1, <2>2, ClaimsUntouched DEF ClaimInv
<1>7. CASE Tick
  <2>1. SettingsOK' /\ UNCHANGED <<assertion, escrow, paid, custody>>
    BY <1>1, <1>7 DEF Tick, SettingsOK, committeeVars, settings, terms, ledger
  <2> QED
    BY <1>1, <2>1, ClaimsUntouched DEF ClaimInv
<1>8. CASE AdminNext
  <2>1. SettingsOK' /\ UNCHANGED <<assertion, escrow, paid, custody>>
    BY <1>2, <1>3, <1>4, <1>5, <1>8 DEF AdminNext
  <2> QED
    BY <1>1, <2>1, ClaimsUntouched DEF ClaimInv
<1> QED
  BY <1>6, <1>7, <1>8

LEMMA InitClaim == Init => ClaimInv
<1> SUFFICES ASSUME Init PROVE ClaimInv
  OBVIOUS
<1>1. /\ assertion = [id \in Ids |-> NoAssertion] /\ escrow = [id \in Ids |-> 0]
      /\ paid = [id \in Ids |-> Zero] /\ custody = 0
  BY DEF Init, Zero
<1>2. NoAssertion \in Assertion
  <2>1. <<>> \in Seq(Address)
    OBVIOUS
  <2> QED
    BY <2>1 DEF NoAssertion, Assertion, Statuses, Outcomes
<1>3. /\ NoAssertion.status = "Absent" /\ NoAssertion.disputer = NoAddress
      /\ NoAssertion.asserter = NoAddress
      /\ NoAssertion.voted = {} /\ NoAssertion.votes_for_outcome = 0
      /\ NoAssertion.votes_against_outcome = 0
  BY DEF NoAssertion
<1>4. ClaimOK(NoAssertion, 0, Zero)
  BY <1>2, <1>3, ZeroTotal DEF ClaimOK, VerdictOK, MoneyOK, PartiesOK
<1>5. Total(Debt) = 0
  <2>1. Debt \in [Ids -> Nat] /\ \A id \in Ids : Debt[id] = 0
    BY <1>1, <1>3 DEF Debt, OwedOn
  <2> HIDE DEF Debt
  <2> QED
    BY <2>1, TotalOfZero
<1>6. ClaimsOK
  BY <1>1, <1>4, <1>5 DEF ClaimsOK
<1>7. SettingsOK
  BY <1>1, <1>3 DEF Init, CommitteeInit, SettingsOK
<1> QED
  BY <1>6, <1>7 DEF ClaimInv

\* ClaimInv is inductive.
LEMMA ClaimStep == ClaimInv /\ [Next]_vars => ClaimInv'
<1> SUFFICES ASSUME ClaimInv, [Next]_vars PROVE ClaimInv'
  OBVIOUS
<1>1. CASE UNCHANGED vars
  <2>1. /\ UNCHANGED <<assertion, escrow, paid, custody>>
        /\ UNCHANGED <<bond_amount, resolvers, rotation, now, finalize_reward_bps,
                       next_id, initialized>>
    BY <1>1 DEF vars, committeeVars, settings, terms, ledger
  <2> QED
    BY <2>1, ClaimsUntouched DEF ClaimInv, SettingsOK
<1>2. ASSUME NEW x \in Address, NEW o \in Outcomes, NEW f \in Fees,
             AssertOutcome(x, o, f)
      PROVE  ClaimInv'
  BY <1>2, AssertOutcomeUpdate
<1>3. ASSUME NEW id \in Ids, ClaimNext(id)
      PROVE  ClaimInv'
  <2>1. ASSUME NEW x \in Address, NEW f \in Fees, Dispute(x, id, f)
        PROVE  ClaimInv'
    BY <2>1, DisputeUpdate
  <2>2. ASSUME NEW x \in Address, Finalize(x, id)
        PROVE  ClaimInv'
    BY <2>2, FinalizeUpdate
  <2>3. ASSUME NEW x \in Address, NEW v \in BOOLEAN, Resolve(x, id, v)
        PROVE  ClaimInv'
    BY <2>3, CastVoteUpdate, CastDecidingVoteUpdate DEF Resolve
  <2>4. ASSUME NEW x \in Address, ReclaimStalledDispute(x, id)
        PROVE  ClaimInv'
    BY <2>4, ReclaimUpdate
  <2> QED
    BY <1>3, <2>1, <2>2, <2>3, <2>4 DEF ClaimNext
<1> QED
  BY <1>1, <1>2, <1>3, SettingsStep DEF Next

LEMMA ClaimAlways == Spec => []ClaimInv
BY InitClaim, ClaimStep, PTL DEF Spec

-----------------------------------------------------------------------------
(* The properties.                                                         *)

\* Every dispute's verdict is the one its frozen committee's votes call for:
\* what resolve, update_resolvers and the rotation vote do to the committee
\* of the deployment meanwhile never changes it.
THEOREM VerdictsFollowVotes == Spec => []VerdictFollowsVotes
<1>1. ClaimInv => VerdictFollowsVotes
  BY DEF ClaimInv, ClaimsOK, ClaimOK, VerdictOK, VerdictFollowsVotes
<1> QED
  BY <1>1, ClaimAlways, PTL

\* The token balance covers the escrows of all open assertions (transfer_in
\* and every payout of lib.rs): it even equals their sum.
THEOREM AlwaysSolvent == Spec => []Solvency
<1>1. ClaimInv => Solvency
  <2> SUFFICES ASSUME ClaimsOK PROVE Solvency
    BY DEF ClaimInv
  <2>1. [id \in Ids |-> Owed(id)] = Debt
    BY DEF Owed, Debt, OwedOn
  <2>2. custody = Total(Debt) /\ Total(Debt) \in Nat
    <3> HIDE DEF Debt
    <3> QED
      BY DebtType, IdsFinite, TotalType DEF ClaimsOK
  <2> QED
    BY <2>1, <2>2 DEF Solvency
<1> QED
  BY <1>1, ClaimAlways, PTL

\* finalize, resolve and reclaim_stalled_dispute pay out exactly the escrow
\* of the assertion they resolve, and nothing is paid on it before or after.
THEOREM ResolvedAlwaysPaid == Spec => []ResolvedPaysEscrow
<1>1. ClaimInv => ResolvedPaysEscrow
  BY ZeroTotal DEF ClaimInv, ClaimsOK, ClaimOK, MoneyOK, ResolvedPaysEscrow
<1> QED
  BY <1>1, ClaimAlways, PTL

-----------------------------------------------------------------------------
(* Types.  ClaimInv types the claims; the rest are the limits of the       *)
(* settings and of the clock.                                              *)

RangesOK ==
  /\ admin \in AdminKeys /\ admin_proposal \in AdminKeys \cup {NoAddress}
  /\ now \in 0..MaxTime /\ initialized \in BOOLEAN /\ paused \in BOOLEAN
  /\ bond_amount \in 0..MaxBondAmount
  /\ challenge_window \in 0..MaxChallengeWindowSecs
  /\ finalize_reward_bps \in 0..MaxFinalizeRewardBps
  /\ stall_timeout \in 0..MaxStallTimeoutSecs
  /\ next_id \in 0..MaxAssertions
  /\ disputed_at \in [Ids -> {Never} \cup 0..MaxTime]

LEMMA InitRanges == Init => RangesOK
<1> SUFFICES ASSUME Init PROVE RangesOK
  OBVIOUS
<1>1. 0 \in 0..MaxTime /\ 0 \in 0..MaxBondAmount /\ 0 \in 0..MaxChallengeWindowSecs
      /\ 0 \in 0..MaxFinalizeRewardBps /\ 0 \in 0..MaxStallTimeoutSecs
      /\ 0 \in 0..MaxAssertions
  BY LimitAssumption DEF MaxFinalizeRewardBps
<1> QED
  BY <1>1 DEF Init, CommitteeInit, RangesOK

\* The committee changes the admin at most.
LEMMA GovernanceRanges ==
  ASSUME RangesOK, GovernCommittee
  PROVE  RangesOK'
<1>1. /\ CommitteeNext
      /\ UNCHANGED <<now, initialized, paused, bond_amount, challenge_window,
                     finalize_reward_bps, stall_timeout, next_id, disputed_at>>
  BY DEF GovernCommittee, settings, terms, ledger
<1>2. admin' \in AdminKeys /\ admin_proposal' \in AdminKeys \cup {NoAddress}
  <2>1. ASSUME NEW k \in AdminKeys, NEW n \in AdminKeys, ProposeAdmin(k, n)
        PROVE  admin' = admin /\ admin_proposal' = n
    BY <2>1 DEF ProposeAdmin
  <2>2. ASSUME NEW k \in AdminKeys, AcceptAdmin(k)
        PROVE  admin' \in AdminKeys /\ admin_proposal' = NoAddress
    BY <2>2 DEF AcceptAdmin, RangesOK
  <2>3. ASSUME NEW k \in AdminKeys, NEW c, UpdateResolvers(k, c)
        PROVE  UNCHANGED <<admin, admin_proposal>>
    BY <2>3 DEF UpdateResolvers, adminVars
  <2>4. ASSUME NEW a, NEW o, NEW n, ProposeRotation(a, o, n)
        PROVE  UNCHANGED <<admin, admin_proposal>>
    BY <2>4 DEF ProposeRotation, adminVars
  <2>5. ASSUME NEW a, NEW b, VoteRotation(a, b)
        PROVE  UNCHANGED <<admin, admin_proposal>>
    BY <2>5 DEF VoteRotation, adminVars
  <2>6. ASSUME NEW a, CancelRotation(a)
        PROVE  UNCHANGED <<admin, admin_proposal>>
    BY <2>6 DEF CancelRotation, adminVars
  <2> QED
    BY <1>1, <2>1, <2>2, <2>3, <2>4, <2>5, <2>6 DEF CommitteeNext, RangesOK
<1> QED
  BY <1>1, <1>2 DEF RangesOK

LEMMA AdminRanges ==
  ASSUME RangesOK, AdminNext
  PROVE  RangesOK'
<1>1. ASSUME NEW k \in AdminKeys, NEW c \in CandidateConfigs, Initialize(k, c)
      PROVE  RangesOK'
  <2>1. /\ c.bond_amount \in Int /\ c.challenge_window_secs \in Nat
        /\ c.finalize_reward_bps \in Nat
    BY ConfigAssumption DEF Config
  <2>2. /\ c.bond_amount \in 0..MaxBondAmount
        /\ c.challenge_window_secs \in 0..MaxChallengeWindowSecs
        /\ c.finalize_reward_bps \in 0..MaxFinalizeRewardBps
        /\ 0 \in 0..MaxAssertions
    BY <1>1, <2>1, LimitAssumption DEF Initialize, ValidBondAmount, MaxFinalizeRewardBps
  <2>3. /\ bond_amount' = c.bond_amount /\ challenge_window' = c.challenge_window_secs
        /\ finalize_reward_bps' = c.finalize_reward_bps /\ next_id' = 0
        /\ initialized' = TRUE /\ paused' = FALSE
        /\ UNCHANGED <<admin, admin_proposal, now, stall_timeout, disputed_at>>
    BY <1>1 DEF Initialize, InstallCommittee, adminVars
  <2> QED
    BY <2>2, <2>3 DEF RangesOK
<1>2. ASSUME NEW k \in AdminKeys, NEW b \in BOOLEAN, SetPaused(k, b)
      PROVE  RangesOK'
  BY <1>2 DEF SetPaused, RangesOK, committeeVars, terms, ledger
<1>3. ASSUME NEW k \in AdminKeys, NEW b \in BondAmounts, SetBondAmount(k, b)
      PROVE  RangesOK'
  <2>1. b \in 0..MaxBondAmount
    BY <1>3, ConfigAssumption, LimitAssumption DEF SetBondAmount, ValidBondAmount
  <2> QED
    BY <1>3, <2>1 DEF SetBondAmount, RangesOK, committeeVars, terms, ledger
<1>4. ASSUME NEW k \in AdminKeys, NEW s \in StallTimeouts, SetStallTimeout(k, s)
      PROVE  RangesOK'
  <2>1. s \in 0..MaxStallTimeoutSecs
    BY <1>4, ConfigAssumption, LimitAssumption DEF SetStallTimeout
  <2> QED
    BY <1>4, <2>1 DEF SetStallTimeout, RangesOK, committeeVars, terms, ledger
<1> QED
  BY <1>1, <1>2, <1>3, <1>4 DEF AdminNext

\* A call on a claim sets no limit; only a dispute records the time.
LEMMA ClaimRanges ==
  ASSUME RangesOK, NEW id \in Ids, ClaimNext(id)
  PROVE  RangesOK'
<1>1. ASSUME NEW x \in Address, NEW f \in Fees, Dispute(x, id, f)
      PROVE  RangesOK'
  <2>1. disputed_at' \in [Ids -> {Never} \cup 0..MaxTime]
    BY <1>1 DEF Dispute, RangesOK
  <2> QED
    BY <1>1, <2>1 DEF Dispute, RangesOK, committeeVars, settings, terms
<1>2. ASSUME NEW x \in Address, Finalize(x, id)
      PROVE  RangesOK'
  BY <1>2 DEF Finalize, RangesOK, committeeVars, settings, terms
<1>3. ASSUME NEW x \in Address, NEW v \in BOOLEAN, Resolve(x, id, v)
      PROVE  RangesOK'
  BY <1>3 DEF Resolve, CastVote, CastDecidingVote, RangesOK, committeeVars, settings,
     terms
<1>4. ASSUME NEW x \in Address, ReclaimStalledDispute(x, id)
      PROVE  RangesOK'
  BY <1>4 DEF ReclaimStalledDispute, RangesOK, committeeVars, settings, terms
<1> QED
  BY <1>1, <1>2, <1>3, <1>4 DEF ClaimNext

LEMMA RangesStep == RangesOK /\ [Next]_vars => RangesOK'
<1> SUFFICES ASSUME RangesOK, [Next]_vars PROVE RangesOK'
  OBVIOUS
<1>1. CASE UNCHANGED vars
  BY <1>1 DEF RangesOK, vars, committeeVars, settings, terms, ledger
<1>2. ASSUME NEW x \in Address, NEW o \in Outcomes, NEW f \in Fees,
             AssertOutcome(x, o, f)
      PROVE  RangesOK'
  <2>1. next_id' \in 0..MaxAssertions
    BY <1>2, LimitAssumption DEF AssertOutcome, RangesOK
  <2> QED
    BY <1>2, <2>1 DEF AssertOutcome, RangesOK, committeeVars, settings, terms
<1>3. CASE Tick
  <2>1. now' \in 0..MaxTime
    BY <1>3, LimitAssumption DEF Tick, RangesOK
  <2> QED
    BY <1>3, <2>1 DEF Tick, RangesOK, committeeVars, settings, terms, ledger
<1> QED
  BY <1>1, <1>2, <1>3, GovernanceRanges, AdminRanges, ClaimRanges DEF Next

\* Every entry keeps its type: bonds, escrows, payments and the balance are
\* never negative, the settings stay within the limits that initialize and
\* the setters enforce.
THEOREM TypesAlwaysOK == Spec => []TypeOK
<1>1. ClaimInv /\ RangesOK => TypeOK
  <2> SUFFICES ASSUME ClaimInv, RangesOK PROVE TypeOK
    OBVIOUS
  <2>1. CommitteeTypeOK
    BY DEF ClaimInv, SettingsOK, RangesOK, CommitteeTypeOK
  <2>2. /\ assertion \in [Ids -> Assertion] /\ escrow \in [Ids -> Nat]
        /\ paid \in [Ids -> [Address -> Nat]]
    BY DEF ClaimInv, ClaimsOK, ClaimOK
  <2>3. custody \in Nat
    BY DebtType, IdsFinite, TotalType DEF ClaimInv, ClaimsOK
  <2> QED
    BY <2>1, <2>2, <2>3 DEF RangesOK, TypeOK
<1> QED
  BY <1>1, ClaimAlways, InitRanges, RangesStep, PTL DEF Spec

-----------------------------------------------------------------------------
(* The refinement.  What the oracle shows of a claim is a function of the  *)
(* same triple, so a call on one claim is a step of the oracle on it.      *)

\* The bonds the oracle shows for a claim.
BondsOf(a, e) ==
  [x \in Address |-> IF x = a.asserter THEN a.bond
                     ELSE IF x = a.disputer THEN e - a.bond ELSE 0]

ShownVerdict == [id \in Ids |-> Verdict(assertion[id])]
ShownBonds == [id \in Ids |-> [a \in Address |-> Bonded(id, a)]]

LEMMA ShownOf ==
  ASSUME NEW id \in Ids
  PROVE  /\ ShownBonds[id] = BondsOf(assertion[id], escrow[id])
         /\ ShownBonds'[id] = BondsOf(assertion'[id], escrow'[id])
         /\ ShownVerdict[id] = Verdict(assertion[id])
         /\ ShownVerdict'[id] = Verdict(assertion'[id])
BY DEF ShownBonds, ShownVerdict, Bonded, BondsOf

\* The bonds of an open claim add up to its escrow.
LEMMA BondsTotal ==
  ASSUME NEW a, NEW e, NEW p, ClaimOK(a, e, p),
         a.status \in {"Pending", "Disputed"}
  PROVE  BondsOf(a, e) \in [Address -> Nat] /\ Total(BondsOf(a, e)) = e
<1> DEFINE f == BondsOf(a, e)
<1>1. /\ a \in Assertion /\ a.bond \in Nat /\ e \in Nat /\ a.asserter \in Address
      /\ PartiesOK(a) /\ MoneyOK(a, e, p) /\ NoAddress \notin Address
  BY CommitteeAssumption DEF ClaimOK, PartiesOK, Assertion
<1>2. CASE a.status = "Pending"
  <2>1. a.disputer = NoAddress /\ e = a.bond
    BY <1>1, <1>2 DEF PartiesOK, MoneyOK
  <2>2. f = Plus(Zero, a.asserter, a.bond)
    BY <1>1, <2>1 DEF BondsOf, Plus, Zero
  <2> HIDE DEF f
  <2> QED
    BY <1>1, <2>1, <2>2, PayOne DEF f
<1>3. CASE a.status = "Disputed"
  <2> DEFINE n == a.bond
             m == e - a.bond
  <2>1. /\ a.disputer \in Address /\ a.disputer # a.asserter
        /\ n \in Nat /\ m \in Nat /\ n + m = e
    BY <1>1, <1>3 DEF PartiesOK, MoneyOK
  <2>2. f = Plus(Plus(Zero, a.asserter, n), a.disputer, m)
    BY <1>1, <2>1 DEF BondsOf, Plus, Zero
  <2> HIDE DEF f, n, m
  <2> DEFINE x == a.asserter
             y == a.disputer
             g == Plus(Plus(Zero, x, n), y, m)
  <2>3. x \in Address /\ y \in Address
    BY <1>1, <2>1
  <2> HIDE DEF x, y
  <2>4. g \in [Address -> Nat] /\ Total(g) = n + m
    BY <2>1, <2>3, PayTwo
  <2>5. f = g
    BY <2>2 DEF x, y
  <2> HIDE DEF g
  <2> QED
    BY <2>1, <2>4, <2>5 DEF f
<1> QED
  BY <1>2, <1>3

LEMMA OracleTotal == \A f : Oracle!Total(f) = Total(f)
<1>1. ASSUME NEW S PROVE Oracle!Cardinality(S) = Cardinality(S)
  BY DEF Oracle!Cardinality, Cardinality
<1>2. ASSUME NEW f PROVE Oracle!Units(f) = Units(f)
  BY DEF Oracle!Units, Units
<1> QED
  BY <1>1, <1>2 DEF Oracle!Total, Total

\* A call after which nothing the oracle shows has changed.
LEMMA OracleStutters ==
  ASSUME UNCHANGED <<ShownVerdict, ShownBonds, paid>>
  PROVE  UNCHANGED Oracle!oracleVars
BY DEF Oracle!oracleVars, ShownVerdict, ShownBonds

\* A call by which one party puts a bond on a claim.
LEMMA OracleTakes ==
  ASSUME NEW id \in Ids, NEW x \in Address,
         ShownVerdict[id] = "open", UNCHANGED <<ShownVerdict, paid>>,
         ShownBonds'[id][x] > ShownBonds[id][x],
         \A q \in Address \ {x} : ShownBonds'[id][q] = ShownBonds[id][q],
         \A d \in Ids \ {id} : ShownBonds'[d] = ShownBonds[d]
  PROVE  Oracle!Next
<1>1. Oracle!TakeBond(id, x)
  BY DEF Oracle!TakeBond, Oracle!Only, ShownVerdict, ShownBonds
<1> QED
  BY <1>1 DEF Oracle!Next

\* A call by which a claim gets its verdict and its payments.
LEMMA OracleDecides ==
  ASSUME NEW id \in Ids, NEW v \in Outcomes \cup {"void"},
         ShownVerdict[id] = "open", ShownVerdict' = [ShownVerdict EXCEPT ![id] = v],
         ShownBonds' = ShownBonds,
         \A d \in Ids \ {id} : paid'[d] = paid[d],
         \A q \in Address : paid'[id][q] >= paid[id][q],
         Total(paid'[id]) <= Total(ShownBonds[id]),
         v = "void" => \A q \in Address : paid'[id][q] <= ShownBonds[id][q]
  PROVE  Oracle!Next
<1>1. Oracle!MayGive(id, v)
  BY OracleTotal DEF Oracle!MayGive, Oracle!Only, ShownBonds
<1>2. Oracle!Decide(id, v)
  BY <1>1 DEF Oracle!Decide, ShownVerdict, ShownBonds
<1> QED
  BY <1>2 DEF Oracle!Next, Oracle!Verdicts

LEMMA AssertOutcomeShown ==
  ASSUME ClaimInv, NEW x \in Address, NEW o \in Outcomes, NEW f \in Fees,
         AssertOutcome(x, o, f)
  PROVE  Oracle!Next
<1> DEFINE id == next_id
           a == assertion[id]
           received == bond_amount - f
           b == [NoAssertion EXCEPT !.status = "Pending", !.asserter = x,
                                    !.outcome = o, !.opened_at = now,
                                    !.bond = received]
<1>1. id \in Ids
  BY LimitAssumption DEF AssertOutcome, ClaimInv, SettingsOK, Ids
<1>2. /\ a.status = "Absent" /\ a.asserter = NoAddress /\ a.disputer = NoAddress
      /\ x # NoAddress /\ NoAddress \notin Address
  BY <1>1, CommitteeAssumption DEF ClaimInv, ClaimsOK, SettingsOK, ClaimOK, PartiesOK
<1>3. received \in Nat /\ received > 0
  BY LimitAssumption DEF AssertOutcome, ClaimInv, SettingsOK
<1>4. /\ assertion'[id] = b /\ escrow'[id] = received /\ paid' = paid
      /\ \A i \in Ids : i # id => assertion'[i] = assertion[i] /\ escrow'[i] = escrow[i]
  BY <1>1 DEF AssertOutcome, Received, ClaimInv, ClaimsOK
<1>5. /\ b.status = "Pending" /\ b.asserter = x /\ b.bond = received
      /\ b.disputer = NoAddress
  BY DEF NoAssertion
<1> HIDE DEF b, received, id
<1>6. \A i \in Ids \ {id} : ShownBonds'[i] = ShownBonds[i]
  BY <1>4, ShownOf
<1>7. ShownVerdict' = ShownVerdict /\ ShownVerdict[id] = "open"
  <2>1. Verdict(b) = "open" /\ Verdict(a) = "open"
    BY <1>2, <1>5 DEF Verdict
  <2>2. \A i \in Ids : Verdict(assertion'[i]) = Verdict(assertion[i])
    BY <1>4, <2>1
  <2> QED
    BY <1>1, <2>1, <2>2 DEF ShownVerdict
<1>8. /\ ShownBonds[id] = [y \in Address |-> 0]
      /\ ShownBonds'[id] = [y \in Address |-> IF y = x THEN received ELSE 0]
  BY <1>1, <1>2, <1>4, <1>5, ShownOf DEF BondsOf
<1> QED
  BY <1>1, <1>3, <1>4, <1>6, <1>7, <1>8, OracleTakes

LEMMA DisputeShown ==
  ASSUME ClaimInv, NEW x \in Address, NEW id \in Ids, NEW f \in Fees,
         Dispute(x, id, f)
  PROVE  Oracle!Next
<1> DEFINE a == assertion[id]
           b == [a EXCEPT !.status = "Disputed", !.disputer = x,
                          !.resolvers = resolvers]
           e == escrow[id] + (a.bond - f)
<1>1. /\ ClaimOK(a, escrow[id], paid[id]) /\ a.status = "Pending"
      /\ x # a.asserter /\ a.bond - f > 0 /\ f \in Nat
      /\ a \in Assertion /\ a.bond \in Nat /\ escrow[id] = a.bond
      /\ a.disputer = NoAddress /\ NoAddress \notin Address
  BY LimitAssumption, CommitteeAssumption
     DEF Dispute, ClaimInv, ClaimsOK, ClaimOK, MoneyOK, PartiesOK, Assertion
<1>2. /\ assertion'[id] = b /\ escrow'[id] = e /\ paid' = paid
      /\ \A i \in Ids : i # id => assertion'[i] = assertion[i] /\ escrow'[i] = escrow[i]
  BY DEF Dispute, Received, ClaimInv, ClaimsOK
<1>3. /\ b.status = "Disputed" /\ b.disputer = x /\ b.asserter = a.asserter
      /\ b.bond = a.bond
  BY <1>1 DEF Assertion
<1>4. e - a.bond = a.bond - f
  BY <1>1
<1> HIDE DEF b, e
<1>5. \A i \in Ids \ {id} : ShownBonds'[i] = ShownBonds[i]
  BY <1>2, ShownOf
<1>6. ShownVerdict' = ShownVerdict /\ ShownVerdict[id] = "open"
  <2>1. Verdict(b) = "open" /\ Verdict(a) = "open"
    BY <1>1, <1>3 DEF Verdict
  <2>2. \A i \in Ids : Verdict(assertion'[i]) = Verdict(assertion[i])
    BY <1>2, <2>1
  <2> QED
    BY <2>1, <2>2 DEF ShownVerdict
<1>7. /\ ShownBonds[id] = [y \in Address |-> IF y = a.asserter THEN a.bond ELSE 0]
      /\ ShownBonds'[id] = [y \in Address |-> IF y = a.asserter THEN a.bond
                                              ELSE IF y = x THEN a.bond - f ELSE 0]
  <2>1. ShownBonds[id] = BondsOf(a, escrow[id]) /\ ShownBonds'[id] = BondsOf(b, e)
    BY <1>2, ShownOf
  <2> QED
    BY <1>1, <1>3, <1>4, <2>1 DEF BondsOf
<1> QED
  BY <1>1, <1>2, <1>5, <1>6, <1>7, OracleTakes

\* The claim's record and payments b and p after it is resolved.
ResolvedAs(id, b, p) ==
  LET a == assertion[id] IN
  /\ b.status = "Resolved"
  /\ b.asserter = a.asserter /\ b.disputer = a.disputer /\ b.bond = a.bond
  /\ b.final_outcome \in Outcomes \cup {"none"}
  /\ b.final_outcome = "none" =>
       \A x \in Address : p[x] <= BondsOf(a, escrow[id])[x]

\* The ways an open claim is resolved.
LEMMA ResolvedShown ==
  ASSUME ClaimInv, ClaimInv', NEW id \in Ids,
         assertion[id].status \in {"Pending", "Disputed"},
         ResolvedAs(id, assertion'[id], paid'[id]), escrow' = escrow,
         \A i \in Ids \ {id} : assertion'[i] = assertion[i] /\ paid'[i] = paid[i]
  PROVE  Oracle!Next
<1> DEFINE a == assertion[id]
           e == escrow[id]
           b == assertion'[id]
           p == paid'[id]
           v == Verdict(b)
<1>0. /\ b.status = "Resolved"
      /\ b.asserter = a.asserter /\ b.disputer = a.disputer /\ b.bond = a.bond
      /\ b.final_outcome \in Outcomes \cup {"none"}
      /\ b.final_outcome = "none" => \A x \in Address : p[x] <= BondsOf(a, e)[x]
  BY DEF ResolvedAs
<1>1. /\ ClaimOK(a, e, paid[id]) /\ ClaimOK(b, e, p) /\ paid[id] = Zero
      /\ assertion'[id] = b /\ paid'[id] = p
      /\ \A i \in Ids \ {id} : assertion'[i] = assertion[i] /\ paid'[i] = paid[i]
  BY <1>0 DEF ClaimInv, ClaimsOK, ClaimOK, MoneyOK
<1>2. /\ p \in [Address -> Nat] /\ Total(p) = e
      /\ \A x \in Address : p[x] >= paid[id][x]
  <2> HIDE DEF a, b, e, p
  <2>1. p \in [Address -> Nat] /\ Total(p) = e
    BY <1>0, <1>1 DEF ClaimOK, MoneyOK
  <2>2. \A x \in Address : paid[id][x] = 0 /\ p[x] \in Nat
    BY <1>1, <2>1 DEF Zero
  <2> QED
    BY <2>1, <2>2
<1>3. v = (IF b.final_outcome = "none" THEN "void" ELSE b.final_outcome)
      /\ Verdict(a) = "open"
  BY <1>0 DEF Verdict
<1>4. v \in Outcomes \cup {"void"} /\ (v = "void" => b.final_outcome = "none")
  BY <1>0, <1>3 DEF Outcomes
<1> HIDE DEF v
<1>5. ShownBonds' = ShownBonds
  <2>1. ASSUME NEW i \in Ids PROVE ShownBonds'[i] = ShownBonds[i]
    <3>1. BondsOf(assertion'[i], escrow'[i]) = BondsOf(assertion[i], escrow[i])
      <4>1. CASE i = id
        BY <1>0, <1>1, <4>1 DEF BondsOf
      <4>2. CASE i # id
        BY <1>1, <4>2
      <4> QED
        BY <4>1, <4>2
    <3> QED
      BY <3>1, ShownOf
  <2> QED
    BY <2>1 DEF ShownBonds
<1>6. ShownVerdict[id] = "open" /\ ShownVerdict' = [ShownVerdict EXCEPT ![id] = v]
  <2>1. Verdict(a) = "open" /\ Verdict(b) = v
    BY <1>3 DEF v
  <2>2. \A i \in Ids : ShownVerdict[i] = Verdict(assertion[i])
    BY DEF ShownVerdict
  <2>3. \A i \in Ids : ShownVerdict'[i] = Verdict(assertion'[i])
    BY DEF ShownVerdict
  <2>4. ShownVerdict'[id] = v /\ ShownVerdict[id] = "open"
    BY <1>1, <2>1, <2>2, <2>3
  <2>5. \A i \in Ids \ {id} : ShownVerdict'[i] = ShownVerdict[i]
    BY <1>1, <2>2, <2>3
  <2>6. ShownVerdict \in [Ids -> {ShownVerdict[i] : i \in Ids}]
        /\ ShownVerdict' = [i \in Ids |-> ShownVerdict'[i]]
        /\ DOMAIN ShownVerdict = Ids
    BY DEF ShownVerdict
  <2> QED
    BY <2>4, <2>5, <2>6
<1>7. ShownBonds[id] = BondsOf(a, e) /\ Total(BondsOf(a, e)) = e /\ e \in Nat
  BY <1>1, ShownOf, BondsTotal DEF ClaimOK
<1>8. \A d \in Ids \ {id} : paid'[d] = paid[d]
  BY <1>1
<1>9. /\ \A q \in Address : paid'[id][q] >= paid[id][q]
      /\ Total(paid'[id]) <= Total(ShownBonds[id])
  <2>1. Total(paid'[id]) = e /\ Total(ShownBonds[id]) = e
    BY <1>1, <1>2, <1>7
  <2> HIDE DEF e
  <2> QED
    BY <1>1, <1>2, <1>7, <2>1
<1>10. v = "void" => \A q \in Address : paid'[id][q] <= ShownBonds[id][q]
  BY <1>0, <1>1, <1>4, <1>7
<1> HIDE DEF a, e
<1> QED
  BY <1>4, <1>5, <1>6, <1>8, <1>9, <1>10, OracleDecides

LEMMA FinalizeShown ==
  ASSUME ClaimInv, ClaimInv', NEW x \in Address, NEW id \in Ids, Finalize(x, id)
  PROVE  Oracle!Next
<1> DEFINE a == assertion[id]
           b == [a EXCEPT !.status = "Resolved", !.final_outcome = a.outcome]
<1>1. a \in Assertion /\ a.status = "Pending"
  BY DEF Finalize, ClaimInv, ClaimsOK, ClaimOK
<1>2. /\ b.status = "Resolved" /\ b.asserter = a.asserter /\ b.disputer = a.disputer
      /\ b.bond = a.bond /\ b.final_outcome \in Outcomes
  BY <1>1 DEF Assertion
<1>3. paid' = [paid EXCEPT ![id] = paid'[id]]
  BY DEF Finalize, ClaimInv, ClaimsOK
<1>4. assertion' = [assertion EXCEPT ![id] = b] /\ escrow' = escrow
  BY DEF Finalize
<1>5. "none" \notin Outcomes
  BY DEF Outcomes
<1> HIDE DEF b
<1>6. /\ assertion'[id] = b
      /\ \A i \in Ids \ {id} : assertion'[i] = assertion[i] /\ paid'[i] = paid[i]
  BY <1>3, <1>4 DEF ClaimInv, ClaimsOK
<1>7. ResolvedAs(id, assertion'[id], paid'[id])
  BY <1>2, <1>5, <1>6 DEF ResolvedAs
<1> QED
  BY <1>1, <1>4, <1>6, <1>7, ResolvedShown

LEMMA CastDecidingVoteShown ==
  ASSUME ClaimInv, ClaimInv', NEW x \in Address, NEW id \in Ids, NEW v \in BOOLEAN,
         CastDecidingVote(x, id, v)
  PROVE  Oracle!Next
<1> DEFINE a == assertion[id]
           c == WithBallot(a, x, v)
           final == IF AsserterWins(c) THEN c.outcome ELSE Opposite(c.outcome)
           b == [c EXCEPT !.status = "Resolved", !.final_outcome = final]
<1>1. MayVote(x, id)
  BY DEF CastDecidingVote
<1>2. /\ a.status = "Disputed" /\ c \in Assertion /\ c.asserter = a.asserter
      /\ c.disputer = a.disputer /\ c.bond = a.bond
  BY <1>1, BallotFacts
<1>3. paid' = [paid EXCEPT ![id] = paid'[id]]
  BY DEF CastDecidingVote, ClaimInv, ClaimsOK
<1>4. assertion' = [assertion EXCEPT ![id] = b] /\ escrow' = escrow
  BY DEF CastDecidingVote
<1> HIDE DEF c
<1>5. final \in Outcomes /\ "none" \notin Outcomes
  BY <1>2 DEF Assertion, Outcomes, Opposite
<1> HIDE DEF final
<1>6. /\ b.status = "Resolved" /\ b.asserter = a.asserter /\ b.disputer = a.disputer
      /\ b.bond = a.bond /\ b.final_outcome = final
  BY <1>2 DEF Assertion
<1> HIDE DEF b
<1>7. /\ assertion'[id] = b
      /\ \A i \in Ids \ {id} : assertion'[i] = assertion[i] /\ paid'[i] = paid[i]
  BY <1>3, <1>4 DEF ClaimInv, ClaimsOK
<1>8. ResolvedAs(id, assertion'[id], paid'[id])
  BY <1>5, <1>6, <1>7 DEF ResolvedAs
<1> QED
  BY <1>2, <1>4, <1>7, <1>8, ResolvedShown

LEMMA ReclaimShown ==
  ASSUME ClaimInv, ClaimInv', NEW x \in Address, NEW id \in Ids,
         ReclaimStalledDispute(x, id)
  PROVE  Oracle!Next
<1> DEFINE a == assertion[id]
           e == escrow[id]
           b == [a EXCEPT !.status = "Resolved", !.final_outcome = "none"]
           p == Plus(Plus(Zero, a.asserter, a.bond), a.disputer, e - a.bond)
<1>1. /\ a \in Assertion /\ a.status = "Disputed" /\ a.bond \in Nat /\ e \in Nat
      /\ a.asserter \in Address /\ a.disputer \in Address /\ a.disputer # a.asserter
      /\ paid' = [paid EXCEPT ![id] = p]
  BY ReclaimPays
<1>2. /\ b.status = "Resolved" /\ b.asserter = a.asserter /\ b.disputer = a.disputer
      /\ b.bond = a.bond /\ b.final_outcome = "none"
  BY <1>1 DEF Assertion
<1>3. assertion' = [assertion EXCEPT ![id] = b] /\ escrow' = escrow
  BY DEF ReclaimStalledDispute
<1>4. \A y \in Address : p[y] <= BondsOf(a, e)[y]
  <2>1. p = BondsOf(a, e)
    BY <1>1 DEF BondsOf, Plus, Zero
  <2>2. \A y \in Address : BondsOf(a, e)[y] \in Int
    BY <1>1 DEF BondsOf
  <2> HIDE DEF p
  <2> QED
    BY <2>1, <2>2
<1> HIDE DEF b, p
<1>5. /\ assertion'[id] = b /\ paid'[id] = p
      /\ \A i \in Ids \ {id} : assertion'[i] = assertion[i] /\ paid'[i] = paid[i]
  BY <1>1, <1>3 DEF ClaimInv, ClaimsOK
<1>6. ResolvedAs(id, assertion'[id], paid'[id])
  BY <1>2, <1>4, <1>5 DEF ResolvedAs
<1> QED
  BY <1>1, <1>3, <1>5, <1>6, ResolvedShown

\* Every call is a step of the oracle or changes nothing it shows.
LEMMA CallShown ==
  ASSUME ClaimInv, ClaimInv', [Next]_vars
  PROVE  [Oracle!Next]_(Oracle!oracleVars)
<1>1. ASSUME UNCHANGED <<assertion, escrow, paid>>
      PROVE  UNCHANGED Oracle!oracleVars
  BY <1>1, OracleStutters DEF ShownVerdict, ShownBonds, Bonded
<1>2. CASE AdminNext \/ GovernCommittee \/ Tick \/ UNCHANGED vars
  <2>1. UNCHANGED <<assertion, escrow, paid>>
    BY <1>2 DEF AdminNext, Initialize, SetPaused, SetBondAmount, SetStallTimeout,
       GovernCommittee, Tick, vars, ledger
  <2> QED
    BY <1>1, <2>1
<1>3. CASE \E x \in Address, o \in Outcomes, f \in Fees : AssertOutcome(x, o, f)
  BY <1>3, AssertOutcomeShown
<1>4. CASE \E id \in Ids : ClaimNext(id)
  <2>1. PICK id \in Ids : ClaimNext(id)
    BY <1>4
  <2>2. CASE \E x \in Address, f \in Fees : Dispute(x, id, f)
    BY <2>2, DisputeShown
  <2>3. CASE \E x \in Address : Finalize(x, id)
    BY <2>3, FinalizeShown
  <2>4. CASE \E x \in Address, v \in BOOLEAN : CastVote(x, id, v)
    <3>1. PICK x \in Address, v \in BOOLEAN : CastVote(x, id, v)
      BY <2>4
    <3> DEFINE a == assertion[id]
               b == WithBallot(a, x, v)
    <3>2. /\ a.status = "Disputed" /\ b.status = "Disputed"
          /\ b.asserter = a.asserter /\ b.disputer = a.disputer /\ b.bond = a.bond
      BY <3>1, BallotFacts DEF CastVote
    <3>3. assertion' = [assertion EXCEPT ![id] = b] /\ UNCHANGED <<escrow, paid>>
      BY <3>1 DEF CastVote
    <3>4. /\ assertion'[id] = b
          /\ \A i \in Ids : i # id => assertion'[i] = assertion[i]
      BY <3>3 DEF ClaimInv, ClaimsOK
    <3> HIDE DEF b
    <3>5. \A i \in Ids : Verdict(assertion'[i]) = Verdict(assertion[i])
      BY <3>2, <3>4 DEF Verdict
    <3>6. \A i \in Ids :
            BondsOf(assertion'[i], escrow'[i]) = BondsOf(assertion[i], escrow[i])
      BY <3>2, <3>3, <3>4 DEF BondsOf
    <3>7. \A i \in Ids : ShownBonds'[i] = ShownBonds[i]
      BY <3>6, ShownOf
    <3> QED
      BY <3>3, <3>5, <3>7, OracleStutters DEF ShownVerdict, ShownBonds
  <2>5. CASE \E x \in Address, v \in BOOLEAN : CastDecidingVote(x, id, v)
    BY <2>5, CastDecidingVoteShown
  <2>6. CASE \E x \in Address : ReclaimStalledDispute(x, id)
    BY <2>6, ReclaimShown
  <2> QED
    BY <2>1, <2>2, <2>3, <2>4, <2>5, <2>6 DEF ClaimNext, Resolve
<1> QED
  BY <1>2, <1>3, <1>4 DEF Next

\* v1 keeps the promise of BondedOracle: one final verdict per claim, bonds
\* taken only before it, payments with it and never more than that claim
\* took in, and refunds of at most what each party brought.
THEOREM ContractImplementsOracle == Spec => ImplementsOracle
<1>1. Init => Oracle!Init
  <2> SUFFICES ASSUME Init PROVE Oracle!Init
    OBVIOUS
  <2>1. /\ NoAssertion.status = "Absent" /\ NoAssertion.asserter = NoAddress
        /\ NoAssertion.disputer = NoAddress /\ NoAddress \notin Address
    BY CommitteeAssumption DEF NoAssertion
  <2>2. Verdict(NoAssertion) = "open"
    BY <2>1 DEF Verdict
  <2>3. \A id \in Ids, a \in Address : Bonded(id, a) = 0
    BY <2>1 DEF Init, Bonded
  <2> QED
    BY <2>2, <2>3 DEF Init, Oracle!Init
<1>2. ClaimInv /\ ClaimInv' /\ [Next]_vars => [Oracle!Next]_(Oracle!oracleVars)
  BY CallShown
<1> QED
  BY <1>1, <1>2, ClaimAlways, PTL DEF Spec, ImplementsOracle, Oracle!Spec
=============================================================================
