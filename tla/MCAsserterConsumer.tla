------------------------ MODULE MCAsserterConsumer ------------------------
(* Instances of the consumer with v1 for TLC. *)
EXTENDS AsserterConsumer

CONSTANTS a1, a2, a3, a4

\* One resolver, and another the admin may put in its place.
Committees == {<<a3>>, <<a4>>}
Configs ==
  {[bond_amount |-> 10, challenge_window_secs |-> 1,
    finalize_reward_bps |-> 1000, resolvers |-> <<a3>>]}

\* The right pins, and those of a deployment that is not there.
BothPins == {ThisTholos, <<"another tholos", "its token">>}

\* a2 is the only other party; a3 and a4 only vote and finalize.  Everything
\* is set up before the clock moves.
ConsumerParties ==
  /\ ~initialized => resolvers = <<>> /\ pinned = Unpinned /\ ~paused
  /\ now > 0 => next_id > 0
  /\ \A id \in Ids :
       /\ assertion[id].asserter \in {NoAddress, a1, a2}
       /\ assertion[id].disputer \in {NoAddress, a2}
       /\ assertion[id].outcome = "yes"
=============================================================================
