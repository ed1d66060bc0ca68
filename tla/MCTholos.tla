------------------------------ MODULE MCTholos ------------------------------
(***************************************************************************)
(* Instances of Tholos for TLC.                                            *)
(***************************************************************************)
EXTENDS Tholos, TholosRefinement

CONSTANTS a1, a2, a3, a4, a5, a6

With(bond, bps, committee) ==
  [bond_amount |-> bond, challenge_window_secs |-> 1,
   finalize_reward_bps |-> bps, resolvers |-> committee]

\* Rotations: committees of one, three and five, one of them with duplicates
\* and one of even size, which must be refused.
RotatedCommittees ==
  {<<a1>>, <<a1, a2, a3>>, <<a2, a3, a4, a5, a6>>, <<a1, a1, a2>>, <<a1, a2>>}
RotationConfigs == {With(1, 0, c) : c \in RotatedCommittees}

\* Disputes: a1 asserts and a2 disputes.  A committee of one or of three has
\* no party on it, one or both; it may be replaced by one that has.
DisputeCommittees == {<<a3>>, <<a3, a4, a5>>, <<a1, a3, a4>>, <<a1, a2, a3>>}
DisputeConfigs == {With(10, 1000, c) : c \in DisputeCommittees}
LaterCommittees == {<<a2, a3, a4>>}

\* Two assertions posted before the clock first moves, with a change of the
\* bond amount in between.  The first is posted with or without a fee and may
\* be voted on; the second without one, and it is only finalized or refunded.
\* Nobody but a1 and a2 finalizes.
FixedParties ==
  /\ next_id = 0 => ~paused /\ stall_timeout = 0 /\ bond_amount \in {0, 10}
  /\ ~initialized => resolvers = <<>>
  /\ now > 0 => next_id = MaxAssertions
  /\ paused => next_id = MaxAssertions
  /\ next_id = MaxAssertions => bond_amount = 9
  /\ \A id \in Ids :
       /\ assertion[id].asserter \in {NoAddress, a1}
       /\ assertion[id].disputer \in {NoAddress, a2}
       /\ assertion[id].outcome = "yes"
       /\ id > 0 => assertion[id].voted = {} /\ assertion[id].bond \in {0, 9}
       /\ \A a \in Address \ {a1, a2} : paid[id][a] = 0
=============================================================================
