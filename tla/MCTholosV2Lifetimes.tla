------------------------ MODULE MCTholosV2Lifetimes -------------------------
(***************************************************************************)
(* Instances of TholosV2Lifetimes for TLC.  Lifetimes are scaled so that   *)
(* the round's horizon exceeds the flat instance bump.                     *)
(***************************************************************************)
EXTENDS TholosV2Lifetimes

CONSTANTS Asserter, Disputer, UpkeepTime

HorizonPolicies ==
  {[base_bond |-> 2, challenge_window_secs |-> 3, finalize_reward_bps |-> 0,
    registration_duration_secs |-> 1, anti_snipe_extension_secs |-> 1,
    anti_snipe_hard_max_secs |-> 2, reveal_duration_secs |-> 1,
    max_position |-> 3, max_total_weight |-> 10]}

\* One claim with fixed parties, posted before the clock first moves and
\* disputed or finalized soon, on a contract paused only early.
OneRoundAtATime ==
  /\ now > 0 => next_id = MaxAssertions
  /\ paused => now = 1 /\ next_id = MaxAssertions
  /\ \A id \in Ids :
       /\ assertion[id].asserter \in {NoAddress, Asserter}
       /\ assertion[id].disputer \in {NoAddress, Disputer}
       /\ assertion[id].outcome = "yes"
       /\ now > 4 => assertion[id].phase # "Pending"

\* bump_ttl, restorations and repeated administrative calls are explored at
\* one time, when a round may have been settled in part.
LateUpkeep == vars' = vars => now = UpkeepTime
=============================================================================
