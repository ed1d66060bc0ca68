----------------------- MODULE AsserterConsumerProofs -----------------------
(***************************************************************************)
(* The consumer with v1, for any committees, settings, fees, amounts and   *)
(* number of assertions: a step of the composition is a step of v1 or      *)
(* leaves it alone, so all that TholosProofs shows of Spec holds beneath   *)
(* the consumer too; v1 pays it what the verdicts call for; and no claim   *)
(* costs it more than its admin agreed to.                                 *)
(*                                                                         *)
(* PaidByVerdict is not inductive: it needs that v1's claims are in order  *)
(* (ClaimInv), above all that nothing is paid on an open claim and that no *)
(* payout is cut, and that the consumer is nobody's disputer.  What a      *)
(* claim costs needs in addition that its bond is the stake less one fee,  *)
(* and that its escrow never falls below that bond (Stakes).               *)
(***************************************************************************)
EXTENDS AsserterConsumer, TholosProofs

\* What the verdict on a, with e in escrow, entitles its asserter to.
Due(a, e) ==
  IF a.disputer = NoAddress
  THEN a.bond - (a.bond * finalize_reward_bps) \div 10000
  ELSE IF a.final_outcome = a.outcome THEN e
  ELSE IF a.final_outcome = "none" THEN a.bond ELSE 0

\* PaidByVerdict for one claim, and who is not its disputer.
ShareOK(a, e, p) ==
  /\ a.disputer # Consumer
  /\ p[Consumer] =
       IF a.asserter = Consumer /\ a.status = "Resolved" THEN Due(a, e) ELSE 0

Shares == \A id \in Ids : ShareOK(assertion[id], escrow[id], paid[id])

\* What a claim took from the consumer, and what of it came in.
StakeOK(a, e, s, g) ==
  IF a.asserter = Consumer
  THEN s = g /\ a.bond <= e /\ \E f \in Fees : a.bond = s - f
  ELSE s = 0

Stakes ==
  /\ stake \in [Ids -> Nat] /\ agreed \in [Ids -> Nat] /\ quoted \in Nat
  /\ \A id \in Ids : StakeOK(assertion[id], escrow[id], stake[id], agreed[id])

ConsumerInv ==
  /\ ClaimInv
  /\ Shares
  /\ Stakes

-----------------------------------------------------------------------------
(* The composition makes steps of v1.                                      *)

LEMMA ConsumerStepIsStep == [ConsumerNext]_cvars => [Next]_vars
<1> SUFFICES ASSUME [ConsumerNext]_cvars PROVE [Next]_vars
  OBVIOUS
<1>1. CASE \E p \in Pins : InitializeConsumer(p)
  BY <1>1 DEF InitializeConsumer
<1>2. CASE LearnBondAmount
  BY <1>2 DEF LearnBondAmount
<1>3. CASE \E o \in Outcomes, f \in Fees : CreateAssertionAsSelf(o, f)
  BY <1>3, ConsumerAssumption DEF CreateAssertionAsSelf, Next
<1>4. CASE \E a \in People, o \in Outcomes, f \in Fees : CreateAssertion(a, o, f)
  BY <1>4 DEF CreateAssertion, People, Next
<1>5. CASE \E id \in Ids : PeopleNext(id)
  BY <1>5 DEF PeopleNext, People, ClaimNext, Next
<1>6. CASE (AdminNext \/ GovernCommittee \/ Tick) /\ UNCHANGED consumerVars
  BY <1>6 DEF Next
<1>7. CASE UNCHANGED cvars
  BY <1>7 DEF cvars
<1> QED
  BY <1>1, <1>2, <1>3, <1>4, <1>5, <1>6, <1>7 DEF ConsumerNext

\* Whatever the consumer contracts do, v1 behaves as Tholos says: all that
\* was shown of Spec holds of the composition.
THEOREM ConsumerKeepsTholos == ConsumerSpec => Spec
<1>1. ConsumerInit => Init
  BY DEF ConsumerInit
<1> QED
  BY <1>1, ConsumerStepIsStep, PTL DEF ConsumerSpec, Spec

-----------------------------------------------------------------------------
(* Payments on one claim.                                                  *)

\* Payments to others are no payment to the consumer.
LEMMA PaidToOne ==
  ASSUME NEW x \in Address, NEW n \in Nat
  PROVE  Plus(Zero, x, n)[Consumer] = IF x = Consumer THEN n ELSE 0
BY ConsumerAssumption DEF Zero, Plus

LEMMA PaidToTwo ==
  ASSUME NEW x \in Address, NEW n \in Nat, NEW y \in Address, NEW m \in Nat
  PROVE  Plus(Plus(Zero, x, n), y, m)[Consumer] =
           (IF x = Consumer THEN n ELSE 0) + (IF y = Consumer THEN m ELSE 0)
<1>1. Zero \in [Address -> Nat] /\ Zero[Consumer] = 0 /\ Consumer \in Address
  BY ConsumerAssumption DEF Zero
<1>2. DOMAIN Zero = Address /\ DOMAIN Plus(Zero, x, n) = Address
  BY DEF Zero, Plus
<1> QED
  BY <1>1, <1>2 DEF Plus

\* A claim whose share is in order replaces another.
LEMMA SharesStep ==
  ASSUME ClaimInv, Shares, NEW id \in Ids, NEW b, NEW e, NEW p,
         assertion' = [assertion EXCEPT ![id] = b],
         escrow' = [escrow EXCEPT ![id] = e],
         paid' = [paid EXCEPT ![id] = p],
         finalize_reward_bps' = finalize_reward_bps, ShareOK(b, e, p)
  PROVE  Shares'
<1>1. \A i \in Ids :
        /\ assertion'[i] = IF i = id THEN b ELSE assertion[i]
        /\ escrow'[i] = IF i = id THEN e ELSE escrow[i]
        /\ paid'[i] = IF i = id THEN p ELSE paid[i]
  BY DEF ClaimInv, ClaimsOK
<1> QED
  BY <1>1 DEF Shares, ShareOK, Due

\* An open claim has paid the consumer nothing.
LEMMA OpenPaysNothing ==
  ASSUME ClaimInv, NEW id \in Ids, assertion[id].status # "Resolved"
  PROVE  paid[id] = Zero /\ paid[id][Consumer] = 0
BY ConsumerAssumption DEF ClaimInv, ClaimsOK, ClaimOK, MoneyOK, Zero

-----------------------------------------------------------------------------
(* Calls of v1, by whom they may be made beside the consumer.              *)

LEMMA AssertOutcomeShares ==
  ASSUME ClaimInv, Shares, NEW x \in Address, NEW o \in Outcomes, NEW f \in Fees,
         AssertOutcome(x, o, f)
  PROVE  Shares'
<1> DEFINE b == [NoAssertion EXCEPT !.status = "Pending", !.asserter = x,
                                    !.outcome = o, !.opened_at = now,
                                    !.bond = bond_amount - f]
<1>1. next_id \in Ids /\ assertion[next_id].status = "Absent"
  BY LimitAssumption DEF AssertOutcome, ClaimInv, SettingsOK, Ids
<1>2. b.status = "Pending" /\ b.disputer = NoAddress
  BY DEF NoAssertion
<1>3. ShareOK(b, bond_amount - f, paid[next_id])
  <2> HIDE DEF b
  <2> QED
    BY <1>1, <1>2, OpenPaysNothing, ConsumerAssumption, CommitteeAssumption
    DEF ShareOK
<1>4. /\ assertion' = [assertion EXCEPT ![next_id] = b]
      /\ escrow' = [escrow EXCEPT ![next_id] = bond_amount - f]
      /\ paid' = [paid EXCEPT ![next_id] = paid[next_id]]
      /\ finalize_reward_bps' = finalize_reward_bps
  BY <1>1 DEF AssertOutcome, Received, terms, ClaimInv, ClaimsOK
<1> HIDE DEF b
<1> QED
  BY <1>1, <1>3, <1>4, SharesStep

LEMMA DisputeShares ==
  ASSUME ClaimInv, Shares, NEW x \in People, NEW id \in Ids, NEW f \in Fees,
         Dispute(x, id, f)
  PROVE  Shares'
<1> DEFINE a == assertion[id]
           b == [a EXCEPT !.status = "Disputed", !.disputer = x,
                          !.resolvers = resolvers]
<1>1. a.status = "Pending" /\ a \in Assertion
  BY DEF Dispute, ClaimInv, ClaimsOK, ClaimOK
<1>2. b.status = "Disputed" /\ b.disputer = x
  BY <1>1 DEF Assertion
<1>3. ShareOK(b, escrow[id] + (a.bond - f), paid[id])
  <2> HIDE DEF b
  <2> QED
    BY <1>1, <1>2, OpenPaysNothing DEF ShareOK, People
<1>4. /\ assertion' = [assertion EXCEPT ![id] = b]
      /\ escrow' = [escrow EXCEPT ![id] = escrow[id] + (a.bond - f)]
      /\ paid' = [paid EXCEPT ![id] = paid[id]]
      /\ finalize_reward_bps' = finalize_reward_bps
  BY DEF Dispute, Received, terms, ClaimInv, ClaimsOK
<1> HIDE DEF b
<1> QED
  BY <1>3, <1>4, SharesStep

LEMMA FinalizeShares ==
  ASSUME ClaimInv, Shares, NEW x \in People, NEW id \in Ids, Finalize(x, id)
  PROVE  Shares'
<1> DEFINE a == assertion[id]
           b == [a EXCEPT !.status = "Resolved", !.final_outcome = a.outcome]
           e == escrow[id]
           reward == (e * finalize_reward_bps) \div 10000
           p == Plus(Plus(Zero, x, reward), a.asserter, e - reward)
<1>1. /\ a.status = "Pending" /\ a \in Assertion /\ e \in Nat /\ e = a.bond
      /\ a.asserter \in Address /\ a.disputer = NoAddress
      /\ finalize_reward_bps \in Nat /\ finalize_reward_bps <= 1000
  BY DEF Finalize, ClaimInv, ClaimsOK, SettingsOK, ClaimOK, MoneyOK, PartiesOK
<1>2. /\ b.status = "Resolved" /\ b.disputer = NoAddress /\ b.bond = a.bond
      /\ b.asserter = a.asserter
  BY <1>1 DEF Assertion
<1>3. reward \in Nat /\ e - reward \in Nat
  BY <1>1, RewardBounds
<1>4. p[Consumer] = IF a.asserter = Consumer THEN e - reward ELSE 0
  <2>1. x \in Address /\ x # Consumer
    BY DEF People
  <2> DEFINE m == e - reward
  <2>2. m \in Nat /\ reward \in Nat /\ a.asserter \in Address
    BY <1>1, <1>3
  <2> HIDE DEF a, e, reward, m
  <2>3. Plus(Plus(Zero, x, reward), a.asserter, m)[Consumer] =
          (IF x = Consumer THEN reward ELSE 0)
            + (IF a.asserter = Consumer THEN m ELSE 0)
    BY <2>1, <2>2, PaidToTwo
  <2>4. Plus(Plus(Zero, x, reward), a.asserter, m)[Consumer] =
          IF a.asserter = Consumer THEN m ELSE 0
    BY <2>1, <2>2, <2>3
  <2> QED
    BY <2>4 DEF m
<1>5. ShareOK(b, e, p)
  <2> HIDE DEF b, p
  <2> QED
    BY <1>1, <1>2, <1>4, ConsumerAssumption, CommitteeAssumption
    DEF ShareOK, Due
<1>6. /\ assertion' = [assertion EXCEPT ![id] = b]
      /\ escrow' = [escrow EXCEPT ![id] = e]
      /\ paid' = [paid EXCEPT ![id] = p]
      /\ finalize_reward_bps' = finalize_reward_bps
  <2>1. paid[id] = Zero
    BY <1>1, OpenPaysNothing
  <2>2. paid' = [paid EXCEPT ![id] = p]
    BY <2>1 DEF Finalize, ClaimInv, ClaimsOK
  <2>4. assertion' = [assertion EXCEPT ![id] = b]
    BY DEF Finalize
  <2>5. finalize_reward_bps' = finalize_reward_bps
    BY DEF Finalize, terms
  <2>3. escrow' = [escrow EXCEPT ![id] = e]
    BY DEF Finalize, ClaimInv, ClaimsOK
  <2> HIDE DEF a, b, e, p
  <2> QED
    BY <2>2, <2>3, <2>4, <2>5
<1> HIDE DEF b, e, p
<1> QED
  BY <1>5, <1>6, SharesStep

LEMMA CastVoteShares ==
  ASSUME ClaimInv, Shares, NEW x \in Address, NEW id \in Ids, NEW v \in BOOLEAN,
         CastVote(x, id, v)
  PROVE  Shares'
<1> DEFINE b == WithBallot(assertion[id], x, v)
<1>1. MayVote(x, id)
  BY DEF CastVote
<1>2. /\ assertion[id].status = "Disputed" /\ b.status = "Disputed"
      /\ b.disputer = assertion[id].disputer
  BY <1>1, BallotFacts
<1>3. ShareOK(b, escrow[id], paid[id])
  <2> HIDE DEF b
  <2> QED
    BY <1>2, OpenPaysNothing DEF Shares, ShareOK
<1>4. /\ assertion' = [assertion EXCEPT ![id] = b]
      /\ escrow' = [escrow EXCEPT ![id] = escrow[id]]
      /\ paid' = [paid EXCEPT ![id] = paid[id]]
      /\ finalize_reward_bps' = finalize_reward_bps
  BY DEF CastVote, terms, ClaimInv, ClaimsOK
<1> HIDE DEF b
<1> QED
  BY <1>3, <1>4, SharesStep

\* The prize of a decided dispute is all of its escrow.
LEMMA PrizeIsEscrow ==
  ASSUME ClaimInv, NEW x \in Address, NEW id \in Ids, NEW v \in BOOLEAN,
         MayVote(x, id)
  PROVE  Prize(WithBallot(assertion[id], x, v), id) = escrow[id]
<1> DEFINE a == assertion[id]
           b == WithBallot(a, x, v)
           e == escrow[id]
<1>1. /\ a.status = "Disputed" /\ a \in Assertion /\ e \in Nat
      /\ e <= 2 * a.bond /\ b.bond = a.bond
  BY BallotFacts
<1>2. e <= custody /\ custody \in Nat /\ a.bond \in Nat
  BY <1>1, ShareInCustody DEF OwedOn, Assertion, ClaimInv
<1> HIDE DEF a, b
<1> QED
  BY <1>1, <1>2 DEF Prize, Least, a, b

LEMMA CastDecidingVoteShares ==
  ASSUME ClaimInv, Shares, NEW x \in Address, NEW id \in Ids, NEW v \in BOOLEAN,
         CastDecidingVote(x, id, v)
  PROVE  Shares'
<1> DEFINE a == assertion[id]
           b == WithBallot(a, x, v)
           e == escrow[id]
           winner == IF AsserterWins(b) THEN b.asserter ELSE b.disputer
           final == IF AsserterWins(b) THEN b.outcome ELSE Opposite(b.outcome)
           d == [b EXCEPT !.status = "Resolved", !.final_outcome = final]
           p == Plus(Zero, winner, e)
<1>1. MayVote(x, id)
  BY DEF CastDecidingVote
<1>2. /\ b \in Assertion /\ b.asserter \in Address /\ b.disputer \in Address
      /\ b.disputer = a.disputer /\ b.disputer # b.asserter
      /\ e \in Nat /\ paid[id] = Zero
  BY <1>1, BallotFacts
<1>3. b.outcome \in Outcomes /\ Opposite(b.outcome) # b.outcome
      /\ Opposite(b.outcome) # "none" /\ b.outcome # "none"
  BY <1>2 DEF Assertion, Outcomes, Opposite
<1>4. /\ d.status = "Resolved" /\ d.final_outcome = final
      /\ d.outcome = b.outcome /\ d.asserter = b.asserter
      /\ d.disputer = b.disputer
  <2> HIDE DEF b, final
  <2> QED
    BY <1>2 DEF Assertion
<1>5. p[Consumer] = IF winner = Consumer THEN e ELSE 0
  <2>1. winner \in Address /\ e \in Nat
    BY <1>2
  <2> HIDE DEF winner, e
  <2> QED
    BY <2>1, PaidToOne
<1>6. b.disputer # Consumer /\ b.disputer # NoAddress
  BY <1>2, CommitteeAssumption DEF Shares, ShareOK
<1>7. ShareOK(d, e, p)
  <2> HIDE DEF a, b, d, e, p
  <2> QED
    BY <1>2, <1>3, <1>4, <1>5, <1>6 DEF ShareOK, Due
<1>8. /\ assertion' = [assertion EXCEPT ![id] = d]
      /\ escrow' = [escrow EXCEPT ![id] = e]
      /\ paid' = [paid EXCEPT ![id] = p]
      /\ finalize_reward_bps' = finalize_reward_bps
  <2>1. paid' = [paid EXCEPT ![id] = Plus(@, winner, e)]
    BY <1>1, PrizeIsEscrow DEF CastDecidingVote
  <2>2. paid' = [paid EXCEPT ![id] = p]
    <3> HIDE DEF winner, e
    <3> QED
      BY <1>2, <2>1 DEF ClaimInv, ClaimsOK, p
  <2>3. escrow' = [escrow EXCEPT ![id] = e]
    BY DEF CastDecidingVote, ClaimInv, ClaimsOK
  <2> QED
    BY <2>2, <2>3 DEF CastDecidingVote, terms
<1> HIDE DEF d, e, p
<1> QED
  BY <1>7, <1>8, SharesStep

LEMMA ReclaimShares ==
  ASSUME ClaimInv, Shares, NEW x \in Address, NEW id \in Ids,
         ReclaimStalledDispute(x, id)
  PROVE  Shares'
<1> DEFINE a == assertion[id]
           e == escrow[id]
           b == [a EXCEPT !.status = "Resolved", !.final_outcome = "none"]
           m == e - a.bond
           p == Plus(Plus(Zero, a.asserter, a.bond), a.disputer, m)
<1>1. /\ a \in Assertion /\ a.bond \in Nat /\ e \in Nat /\ a.bond <= e
      /\ a.asserter \in Address /\ a.disputer \in Address
      /\ paid' = [paid EXCEPT ![id] = p]
  BY ReclaimPays
<1>2. a.outcome # "none"
  BY <1>1 DEF Assertion, Outcomes
<1>3. /\ b.status = "Resolved" /\ b.final_outcome = "none"
      /\ b.outcome = a.outcome /\ b.asserter = a.asserter
      /\ b.disputer = a.disputer /\ b.bond = a.bond
  BY <1>1 DEF Assertion
<1>4. a.disputer # Consumer /\ a.disputer # NoAddress
  BY <1>1, CommitteeAssumption DEF Shares, ShareOK
<1>5. p[Consumer] = (IF a.asserter = Consumer THEN a.bond ELSE 0)
                      + (IF a.disputer = Consumer THEN m ELSE 0)
  <2>1. m \in Nat
    BY <1>1
  <2> HIDE DEF a, m
  <2> QED
    BY <1>1, <2>1, PaidToTwo
<1>6. ShareOK(b, e, p)
  <2> HIDE DEF a, b, e, p, m
  <2> QED
    BY <1>1, <1>2, <1>3, <1>4, <1>5 DEF ShareOK, Due
<1>7. /\ assertion' = [assertion EXCEPT ![id] = b]
      /\ escrow' = [escrow EXCEPT ![id] = e]
      /\ finalize_reward_bps' = finalize_reward_bps
  BY DEF ReclaimStalledDispute, terms, ClaimInv, ClaimsOK
<1> HIDE DEF b, e, p
<1> QED
  BY <1>1, <1>6, <1>7, SharesStep

\* initialize sets the finalize reward when there is no claim yet, and the
\* other calls leave it and the claims alone.
LEMMA AdminShares ==
  ASSUME ClaimInv, Shares, AdminNext \/ GovernCommittee \/ Tick
  PROVE  Shares'
<1>1. UNCHANGED <<assertion, escrow, paid>>
  BY DEF AdminNext, Initialize, SetPaused, SetBondAmount, SetStallTimeout,
         GovernCommittee, Tick, ledger
<1>2. CASE finalize_reward_bps' = finalize_reward_bps
  BY <1>1, <1>2 DEF Shares, ShareOK, Due
<1>3. CASE finalize_reward_bps' # finalize_reward_bps
  <2>1. ~initialized
    BY <1>3 DEF AdminNext, Initialize, SetPaused, SetBondAmount,
                SetStallTimeout, GovernCommittee, Tick, terms
  <2>2. \A id \in Ids : assertion[id].status = "Absent"
    BY <2>1 DEF ClaimInv, SettingsOK, Ids
  <2> QED
    BY <1>1, <2>2 DEF Shares, ShareOK
<1> QED
  BY <1>2, <1>3

-----------------------------------------------------------------------------
(* Stakes.                                                                 *)

\* A call on a claim leaves its asserter and its bond alone, and takes
\* nothing out of its escrow record.
LEMMA CallKeepsStakes ==
  ASSUME ClaimInv, Stakes, UNCHANGED consumerVars, NEW id \in Ids, NEW b, NEW e,
         assertion' = [assertion EXCEPT ![id] = b],
         escrow' = [escrow EXCEPT ![id] = e],
         b.asserter = assertion[id].asserter, b.bond = assertion[id].bond,
         e \in Nat, e >= escrow[id]
  PROVE  Stakes'
<1>1. /\ stake' = stake /\ agreed' = agreed /\ quoted' = quoted
  BY DEF consumerVars
<1>2. ASSUME NEW i \in Ids
      PROVE  StakeOK(assertion'[i], escrow'[i], stake[i], agreed[i])
  <2>1. /\ StakeOK(assertion[i], escrow[i], stake[i], agreed[i])
        /\ escrow[i] \in Nat /\ assertion[i].bond \in Nat
    BY DEF Stakes, ClaimInv, ClaimsOK, ClaimOK, Assertion
  <2>2. CASE i # id
    <3>1. assertion'[i] = assertion[i] /\ escrow'[i] = escrow[i]
      BY <2>2 DEF ClaimInv, ClaimsOK
    <3> QED
      BY <2>1, <3>1
  <2>3. CASE i = id
    <3>1. assertion'[i] = b /\ escrow'[i] = e
      BY <2>3 DEF ClaimInv, ClaimsOK
    <3> QED
      BY <2>1, <2>3, <3>1 DEF StakeOK
  <2> QED
    BY <2>2, <2>3
<1> QED
  BY <1>1, <1>2 DEF Stakes

LEMMA PeopleStakes ==
  ASSUME ClaimInv, Stakes, NEW id \in Ids, PeopleNext(id)
  PROVE  Stakes'
<1> DEFINE a == assertion[id]
<1>1. /\ a \in Assertion /\ a.bond \in Nat /\ escrow[id] \in Nat
      /\ escrow = [escrow EXCEPT ![id] = escrow[id]]
      /\ UNCHANGED consumerVars
  BY DEF PeopleNext, ClaimInv, ClaimsOK, ClaimOK, Assertion
<1>2. ASSUME NEW x \in Address, NEW f \in Fees, Dispute(x, id, f) PROVE Stakes'
  <2> DEFINE b == [a EXCEPT !.status = "Disputed", !.disputer = x,
                            !.resolvers = resolvers]
             e == escrow[id] + (a.bond - f)
  <2>1. b.asserter = a.asserter /\ b.bond = a.bond
    BY <1>1 DEF Assertion
  <2>2. e \in Nat /\ e >= escrow[id]
    BY <1>1, <1>2, LimitAssumption DEF Dispute
  <2>3. assertion' = [assertion EXCEPT ![id] = b] /\ escrow' = [escrow EXCEPT ![id] = e]
    BY <1>2 DEF Dispute, Received, ClaimInv, ClaimsOK
  <2> HIDE DEF b, e
  <2> QED
    BY <1>1, <2>1, <2>2, <2>3, CallKeepsStakes
<1>3. ASSUME NEW o,
             assertion' = [assertion EXCEPT
               ![id] = [a EXCEPT !.status = "Resolved", !.final_outcome = o]],
             escrow' = escrow
      PROVE  Stakes'
  <2> DEFINE b == [a EXCEPT !.status = "Resolved", !.final_outcome = o]
  <2>1. b.asserter = a.asserter /\ b.bond = a.bond
    BY <1>1 DEF Assertion
  <2>2. assertion' = [assertion EXCEPT ![id] = b]
    BY <1>3
  <2>3. escrow' = [escrow EXCEPT ![id] = escrow[id]] /\ escrow[id] >= escrow[id]
    BY <1>1, <1>3
  <2> HIDE DEF a, b
  <2> QED
    BY <1>1, <2>1, <2>2, <2>3, CallKeepsStakes DEF a
<1>4. ASSUME NEW x \in Address, Finalize(x, id) \/ ReclaimStalledDispute(x, id)
      PROVE  Stakes'
  <2>1. CASE Finalize(x, id)
    <3>1. /\ assertion' = [assertion EXCEPT
               ![id] = [a EXCEPT !.status = "Resolved", !.final_outcome = a.outcome]]
          /\ escrow' = escrow
      BY <2>1 DEF Finalize
    <3> QED
      BY <1>3, <3>1, Zenon
  <2>2. CASE ReclaimStalledDispute(x, id)
    BY <1>3, <2>2 DEF ReclaimStalledDispute
  <2> QED
    BY <1>4, <2>1, <2>2
<1>5. ASSUME NEW x \in Address, NEW v \in BOOLEAN, Resolve(x, id, v) PROVE Stakes'
  <2> DEFINE b == WithBallot(a, x, v)
             final == IF AsserterWins(b) THEN b.outcome ELSE Opposite(b.outcome)
             d == [b EXCEPT !.status = "Resolved", !.final_outcome = final]
  <2>1. MayVote(x, id)
    BY <1>5 DEF Resolve, CastVote, CastDecidingVote
  <2>2. b \in Assertion /\ b.asserter = a.asserter /\ b.bond = a.bond
    BY <2>1, BallotFacts
  <2>3. d.asserter = a.asserter /\ d.bond = a.bond
    <3> HIDE DEF a, b, final
    <3> QED
      BY <2>2 DEF Assertion
  <2>4. \/ assertion' = [assertion EXCEPT ![id] = b]
        \/ assertion' = [assertion EXCEPT ![id] = d]
    BY <1>5 DEF Resolve, CastVote, CastDecidingVote
  <2>5. escrow' = [escrow EXCEPT ![id] = escrow[id]] /\ escrow[id] >= escrow[id]
    BY <1>1, <1>5 DEF Resolve, CastVote, CastDecidingVote
  <2> HIDE DEF a, b, d
  <2> QED
    BY <1>1, <2>2, <2>3, <2>4, <2>5, CallKeepsStakes DEF a
<1> QED
  BY <1>2, <1>4, <1>5 DEF PeopleNext, People

\* A claim posted by x, the consumer or anybody else, for the stake s.
LEMMA PostStakes ==
  ASSUME ClaimInv, Stakes, NEW x \in Address, NEW o \in Outcomes, NEW f \in Fees,
         AssertOutcome(x, o, f), quoted' = quoted,
         IF x = Consumer
         THEN /\ stake' = [stake EXCEPT ![next_id] = bond_amount]
              /\ agreed' = [agreed EXCEPT ![next_id] = bond_amount]
         ELSE stake' = stake /\ agreed' = agreed
  PROVE  Stakes'
<1> DEFINE b == [NoAssertion EXCEPT !.status = "Pending", !.asserter = x,
                                    !.outcome = o, !.opened_at = now,
                                    !.bond = bond_amount - f]
           n == bond_amount - f
<1>1. /\ next_id \in Ids /\ assertion[next_id].status = "Absent"
      /\ bond_amount \in Nat /\ n \in Nat
  BY LimitAssumption DEF AssertOutcome, ClaimInv, SettingsOK, Ids
<1>2. b.asserter = x /\ b.bond = n
  BY DEF NoAssertion
<1>3. assertion[next_id].asserter # Consumer
  BY <1>1, ConsumerAssumption, CommitteeAssumption
  DEF ClaimInv, ClaimsOK, ClaimOK, PartiesOK
<1>4. /\ assertion' = [assertion EXCEPT ![next_id] = b]
      /\ escrow' = [escrow EXCEPT ![next_id] = n]
  BY DEF AssertOutcome, Received
<1>5. stake' \in [Ids -> Nat] /\ agreed' \in [Ids -> Nat]
  BY <1>1 DEF Stakes
<1>6. ASSUME NEW i \in Ids
      PROVE  StakeOK(assertion'[i], escrow'[i], stake'[i], agreed'[i])
  <2>1. StakeOK(assertion[i], escrow[i], stake[i], agreed[i])
    BY DEF Stakes
  <2>2. CASE i # next_id
    <3>1. /\ assertion'[i] = assertion[i] /\ escrow'[i] = escrow[i]
          /\ stake'[i] = stake[i] /\ agreed'[i] = agreed[i]
      BY <1>4, <2>2 DEF ClaimInv, ClaimsOK, Stakes
    <3> QED
      BY <2>1, <3>1
  <2>3. CASE i = next_id
    <3>1. /\ assertion'[i] = b /\ escrow'[i] = n
          /\ stake'[i] = IF x = Consumer THEN bond_amount ELSE stake[i]
          /\ x = Consumer => agreed'[i] = bond_amount
      BY <1>4, <2>3 DEF ClaimInv, ClaimsOK, Stakes
    <3>2. stake[i] = 0
      BY <1>3, <2>1, <2>3 DEF StakeOK
    <3> HIDE DEF b
    <3> QED
      BY <1>1, <1>2, <3>1, <3>2 DEF StakeOK
  <2> QED
    BY <2>2, <2>3
<1> QED
  BY <1>5, <1>6 DEF Stakes

\* A step that leaves the claims alone may still change what is quoted.
LEMMA QuietStakes ==
  ASSUME Stakes, UNCHANGED <<assertion, escrow, stake, agreed>>, quoted' \in Nat
  PROVE  Stakes'
BY DEF Stakes

LEMMA StakesStep ==
  ASSUME ClaimInv, Stakes, [ConsumerNext]_cvars
  PROVE  Stakes'
<1>1. CASE \/ \E p \in Pins : InitializeConsumer(p)
           \/ LearnBondAmount \/ UNCHANGED cvars
  <2>1. UNCHANGED <<assertion, escrow, stake, agreed>>
    BY <1>1 DEF InitializeConsumer, LearnBondAmount, cvars, vars, ledger,
                consumerVars
  <2>2. quoted' = quoted \/ quoted' = bond_amount
    BY <1>1 DEF InitializeConsumer, LearnBondAmount, cvars, consumerVars
  <2>3. quoted' \in Nat
    BY <2>2 DEF Stakes, ClaimInv, SettingsOK
  <2> QED
    BY <2>1, <2>3, QuietStakes
<1>2. CASE \E o \in Outcomes, f \in Fees : CreateAssertionAsSelf(o, f)
  <2>1. PICK o \in Outcomes, f \in Fees : CreateAssertionAsSelf(o, f)
    BY <1>2
  <2>2. /\ AssertOutcome(Consumer, o, f) /\ bond_amount = quoted
        /\ stake' = [stake EXCEPT ![next_id] = bond_amount]
        /\ agreed' = [agreed EXCEPT ![next_id] = bond_amount]
        /\ quoted' = quoted
    BY <2>1 DEF CreateAssertionAsSelf, Authorized
  <2> QED
    BY <2>2, PostStakes, ConsumerAssumption
<1>3. CASE \E x \in People, o \in Outcomes, f \in Fees : CreateAssertion(x, o, f)
  <2>1. PICK x \in People, o \in Outcomes, f \in Fees : CreateAssertion(x, o, f)
    BY <1>3
  <2>2. /\ AssertOutcome(x, o, f) /\ x \in Address /\ x # Consumer
        /\ quoted' = quoted /\ stake' = stake /\ agreed' = agreed
    BY <2>1 DEF CreateAssertion, People, consumerVars
  <2> QED
    BY <2>2, PostStakes
<1>4. CASE \E id \in Ids : PeopleNext(id)
  BY <1>4, PeopleStakes
<1>5. CASE (AdminNext \/ GovernCommittee \/ Tick) /\ UNCHANGED consumerVars
  <2>1. UNCHANGED <<assertion, escrow>>
    BY <1>5 DEF AdminNext, Initialize, SetPaused, SetBondAmount, SetStallTimeout,
                GovernCommittee, Tick, ledger
  <2>2. UNCHANGED <<stake, agreed>> /\ quoted' = quoted
    BY <1>5 DEF consumerVars
  <2>3. quoted' \in Nat
    BY <2>2 DEF Stakes
  <2> QED
    BY <2>1, <2>2, <2>3, QuietStakes
<1> QED
  BY <1>1, <1>2, <1>3, <1>4, <1>5 DEF ConsumerNext

-----------------------------------------------------------------------------
(* The composition.                                                        *)

LEMMA ConsumerInitOK == ConsumerInit => ConsumerInv
<1> SUFFICES ASSUME ConsumerInit PROVE ConsumerInv
  OBVIOUS
<1>1. ClaimInv
  BY InitClaim DEF ConsumerInit
<1>2. \A id \in Ids : assertion[id] = NoAssertion
  BY DEF ConsumerInit, Init
<1>3. /\ NoAssertion.status = "Absent" /\ NoAssertion.disputer = NoAddress
      /\ NoAssertion.asserter = NoAddress
  BY DEF NoAssertion
<1>4. Stakes
  BY <1>2, <1>3, ConsumerAssumption, CommitteeAssumption
  DEF ConsumerInit, Stakes, StakeOK
<1>5. Shares
  BY <1>1, <1>2, <1>3, OpenPaysNothing, ConsumerAssumption, CommitteeAssumption
  DEF Shares, ShareOK
<1> QED
  BY <1>1, <1>4, <1>5 DEF ConsumerInv

LEMMA PeopleShares ==
  ASSUME ClaimInv, Shares, NEW id \in Ids, PeopleNext(id)
  PROVE  Shares'
<1>1. People \subseteq Address
  BY DEF People
<1>2. CASE \E a \in People, f \in Fees : Dispute(a, id, f)
  BY <1>2, DisputeShares
<1>3. CASE \E a \in People : Finalize(a, id)
  BY <1>3, FinalizeShares
<1>4. CASE \E a \in People : ReclaimStalledDispute(a, id)
  BY <1>1, <1>4, ReclaimShares
<1>5. CASE \E a \in People, b \in BOOLEAN : Resolve(a, id, b)
  BY <1>1, <1>5, CastVoteShares, CastDecidingVoteShares DEF Resolve
<1> QED
  BY <1>2, <1>3, <1>4, <1>5 DEF PeopleNext

LEMMA ConsumerStep == ConsumerInv /\ [ConsumerNext]_cvars => ConsumerInv'
<1> SUFFICES ASSUME ConsumerInv, [ConsumerNext]_cvars PROVE ConsumerInv'
  OBVIOUS
<1>1. ClaimInv /\ ClaimInv' /\ Shares /\ Stakes
  BY ConsumerStepIsStep, ClaimStep DEF ConsumerInv
<1>2. ASSUME UNCHANGED vars PROVE Shares'
  BY <1>1, <1>2 DEF vars, ledger, terms, Shares, ShareOK, Due
<1>3. Shares'
  <2>3. CASE \E p \in Pins : InitializeConsumer(p)
    BY <1>2, <2>3 DEF InitializeConsumer
  <2>4. CASE LearnBondAmount
    BY <1>2, <2>4 DEF LearnBondAmount
  <2>5. CASE \E o \in Outcomes, f \in Fees : CreateAssertionAsSelf(o, f)
    BY <1>1, <2>5, AssertOutcomeShares, ConsumerAssumption
    DEF CreateAssertionAsSelf
  <2>6. CASE \E a \in People, o \in Outcomes, f \in Fees : CreateAssertion(a, o, f)
    BY <1>1, <2>6, AssertOutcomeShares DEF CreateAssertion, People
  <2>7. CASE \E id \in Ids : PeopleNext(id)
    BY <1>1, <2>7, PeopleShares
  <2>8. CASE (AdminNext \/ GovernCommittee \/ Tick) /\ UNCHANGED consumerVars
    BY <1>1, <2>8, AdminShares
  <2>9. CASE UNCHANGED cvars
    BY <1>2, <2>9 DEF cvars
  <2> QED
    BY <2>3, <2>4, <2>5, <2>6, <2>7, <2>8, <2>9 DEF ConsumerNext
<1> QED
  BY <1>1, <1>3, StakesStep DEF ConsumerInv

LEMMA ConsumerAlways == ConsumerSpec => []ConsumerInv
BY ConsumerInitOK, ConsumerStep, PTL DEF ConsumerSpec

\* What v1 pays the consumer is what the verdicts call for, for any rewards,
\* fees and committees, whoever finalizes, votes or reclaims and in whatever
\* order: none of v1's caps ever cuts a payment to it.
THEOREM ConsumerPaidByVerdict == ConsumerSpec => []PaidByVerdict
<1>1. ConsumerInv => PaidByVerdict
  BY DEF ConsumerInv, Shares, ShareOK, Due, PaidByVerdict
<1> QED
  BY <1>1, ConsumerAlways, PTL

-----------------------------------------------------------------------------
(* What a claim costs.                                                     *)

\* A claim in the consumer's name never costs it more than its admin agreed
\* to, whatever v1's admin sets before or after; once the verdict is in, and
\* not against it, the cost is at most one transfer fee and the finalizer's
\* reward; and claims of others cost it nothing.
THEOREM ClaimCostBounded == ConsumerSpec => []CostsAtMostAgreed
<1>1. ASSUME ConsumerInv, NEW id \in Ids
      PROVE  LET a == assertion[id]
                 cost == stake[id] - paid[id][Consumer]
                 reward == IF a.disputer = NoAddress
                           THEN (a.bond * finalize_reward_bps) \div 10000 ELSE 0
             IN
             IF a.asserter = Consumer
             THEN /\ cost <= agreed[id]
                  /\ a.status = "Resolved" /\ a.final_outcome # Opposite(a.outcome)
                       => \E f \in Fees : cost <= f + reward
             ELSE cost = 0
  <2> DEFINE a == assertion[id]
             e == escrow[id]
             back == paid[id][Consumer]
             cut == (a.bond * finalize_reward_bps) \div 10000
  <2>1. /\ a \in Assertion /\ a.bond \in Nat /\ e \in Nat /\ back \in Nat
        /\ finalize_reward_bps \in Nat /\ stake[id] \in Nat /\ agreed[id] \in Nat
    BY <1>1, ConsumerAssumption
    DEF ConsumerInv, Stakes, ClaimInv, ClaimsOK, ClaimOK, SettingsOK, Assertion
  <2>2. cut \in Int
    BY <2>1
  <2>3. /\ back = IF a.asserter = Consumer /\ a.status = "Resolved"
                  THEN Due(a, e) ELSE 0
        /\ StakeOK(a, e, stake[id], agreed[id])
    BY <1>1 DEF ConsumerInv, Shares, ShareOK, Stakes
  <2>4. CASE a.asserter # Consumer
    BY <2>3, <2>4 DEF StakeOK
  <2>5. ASSUME a.asserter = Consumer
        PROVE  /\ stake[id] - back <= agreed[id]
               /\ a.status = "Resolved" /\ a.final_outcome # Opposite(a.outcome)
                    => \E f \in Fees :
                         stake[id] - back
                           <= f + (IF a.disputer = NoAddress THEN cut ELSE 0)
    <3>1. PICK f \in Fees : a.bond = stake[id] - f
      BY <2>3, <2>5 DEF StakeOK
    <3>2. stake[id] = agreed[id] /\ a.bond <= e
      BY <2>3, <2>5 DEF StakeOK
    <3>3. stake[id] - back <= agreed[id]
      BY <2>1, <3>2
    <3>4. ASSUME a.status = "Resolved", a.final_outcome # Opposite(a.outcome)
          PROVE  stake[id] - back <= f + (IF a.disputer = NoAddress THEN cut ELSE 0)
      <4>1. a.final_outcome \in {"none", a.outcome}
        BY <2>1, <3>4 DEF Assertion, Outcomes, Opposite
      <4>2. back = Due(a, e)
        BY <2>3, <2>5, <3>4
      <4>3. back = IF a.disputer = NoAddress THEN a.bond - cut
                   ELSE IF a.final_outcome = a.outcome THEN e ELSE a.bond
        BY <4>1, <4>2 DEF Due
      <4>4. f \in Nat
        BY LimitAssumption
      <4> HIDE DEF a, e, back, cut
      <4> QED
        BY <2>1, <2>2, <3>1, <3>2, <4>3, <4>4
    <3> QED
      BY <3>3, <3>4
  <2> QED
    BY <2>4, <2>5
<1>2. ConsumerInv => CostsAtMostAgreed
  BY <1>1 DEF CostsAtMostAgreed
<1> QED
  BY <1>2, ConsumerAlways, PTL
=============================================================================
