-------------------------- MODULE AsserterConsumer --------------------------
(***************************************************************************)
(* Two contracts that call v1: contracts/asserter-consumer, which asserts  *)
(* in its own name and holds the bonds, and contracts/demo-consumer, which *)
(* passes an end user's call on and keeps nothing.  Tholos makes its steps *)
(* unchanged; what the consumer adds is who may post in its name, and how  *)
(* much Tholos may then take from it.                                      *)
(*                                                                         *)
(* The consumer's admin, pinned by its constructor, makes all its calls.   *)
(* As in Tholos a failing call is no step: whichever Error it returns, it  *)
(* leaves no trace.                                                        *)
(***************************************************************************)
EXTENDS Tholos

CONSTANTS
  Consumer,      \* the consumer contract's own address
  InitialFunds,  \* its token balance when deployed
  Pins           \* <<tholos_id, token_id>> arguments of its initialize

ASSUME ConsumerAssumption == Consumer \in Address /\ InitialFunds \in Nat

VARIABLES
  pinned,  \* DataKey::Tholos and DataKey::Token, once written
  quoted,  \* the bond amount the consumer's admin last learned of
  stake,   \* history: what each assertion took from the consumer
  agreed   \* history: what its admin knew the bond to be when it was posted

consumerVars == <<pinned, quoted, stake, agreed>>
cvars == <<vars, consumerVars>>

Unpinned == <<>>
ThisTholos == <<"this tholos", "its token">>
People == Address \ {Consumer}

\* The consumer's token balance: it has no call that moves tokens otherwise.
Funds ==
  InitialFunds - Total(stake) + Total([id \in Ids |-> paid[id][Consumer]])

ConsumerInit ==
  /\ Init
  /\ pinned = Unpinned
  /\ quoted = 0
  /\ stake = [id \in Ids |-> 0]
  /\ agreed = [id \in Ids |-> 0]

InitializeConsumer(pins) ==
  /\ pinned = Unpinned
  /\ pinned' = pins
  /\ UNCHANGED <<vars, quoted, stake, agreed>>

\* Tholos has no call that tells its bond amount: the admin learns it off
\* chain, and it may change before it is used.
LearnBondAmount ==
  /\ quoted' = bond_amount
  /\ UNCHANGED <<vars, pinned, stake, agreed>>

\* The transfer Tholos makes must be the one authorized beforehand, to the
\* unit, and in the pinned token.
WhateverItTakes(amount) == TRUE  \* fault: the amount is left open
Authorized(amount) == amount = quoted

CreateAssertionAsSelf(outcome, fee) ==
  /\ pinned = ThisTholos
  /\ Authorized(bond_amount)
  /\ bond_amount <= Funds
  /\ AssertOutcome(Consumer, outcome, fee)
  /\ stake' = [stake EXCEPT ![next_id] = bond_amount]
  /\ agreed' = [agreed EXCEPT ![next_id] = quoted]
  /\ UNCHANGED <<pinned, quoted>>

\* demo-consumer's create_assertion, or a direct call: the asserter signs.
CreateAssertion(asserter, outcome, fee) ==
  /\ AssertOutcome(asserter, outcome, fee)
  /\ UNCHANGED consumerVars

\* The rest of v1, called by people: the consumer calls nothing else.
PeopleNext(id) ==
  /\ \/ \E a \in People, f \in Fees : Dispute(a, id, f)
     \/ \E a \in People : Finalize(a, id) \/ ReclaimStalledDispute(a, id)
     \/ \E a \in People, b \in BOOLEAN : Resolve(a, id, b)
  /\ UNCHANGED consumerVars

ConsumerNext ==
  \/ \E p \in Pins : InitializeConsumer(p)
  \/ LearnBondAmount
  \/ \E o \in Outcomes, f \in Fees : CreateAssertionAsSelf(o, f)
  \/ \E a \in People, o \in Outcomes, f \in Fees : CreateAssertion(a, o, f)
  \/ \E id \in Ids : PeopleNext(id)
  \/ (AdminNext \/ GovernCommittee \/ Tick) /\ UNCHANGED consumerVars

ConsumerSpec == ConsumerInit /\ [][ConsumerNext]_cvars

-----------------------------------------------------------------------------
\* What v1 has paid the consumer is what the verdicts call for: the bond as
\* received, less the finalize reward, for a claim nobody disputed; all of
\* both bonds for a dispute it won; its own bond back from a stalled one;
\* nothing for one it lost, and nothing for anybody else's assertion.
PaidByVerdict ==
  \A id \in Ids :
    LET a == assertion[id]
        due == IF a.disputer = NoAddress
               THEN a.bond - (a.bond * finalize_reward_bps) \div 10000
               ELSE IF a.final_outcome = a.outcome THEN escrow[id]
               ELSE IF a.final_outcome = "none" THEN a.bond ELSE 0
    IN
    paid[id][Consumer] =
      IF a.asserter = Consumer /\ a.status = "Resolved" THEN due ELSE 0

\* What a claim costs the consumer over its whole life, the stake less what
\* came back: never more than its admin knew the bond to be, wherever Tholos'
\* admin moves the bond amount before, between or after; from the verdict on
\* no more than the token's fee and the finalizer's reward, unless the
\* verdict went against the consumer; and other people's claims cost nothing.
CostsAtMostAgreed ==
  \A id \in Ids :
    LET a == assertion[id]
        cost == stake[id] - paid[id][Consumer]
        reward == IF a.disputer = NoAddress
                  THEN (a.bond * finalize_reward_bps) \div 10000 ELSE 0
    IN
    IF a.asserter = Consumer
    THEN /\ cost <= agreed[id]
         /\ a.status = "Resolved" /\ a.final_outcome # Opposite(a.outcome)
              => \E f \in Fees : cost <= f + reward
    ELSE cost = 0
=============================================================================
