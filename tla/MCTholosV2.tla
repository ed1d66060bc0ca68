----------------------------- MODULE MCTholosV2 -----------------------------
(***************************************************************************)
(* Instances of TholosV2 for TLC.  One time unit per window keeps the      *)
(* clock small; bonds and caps are chosen per question.                    *)
(***************************************************************************)
EXTENDS TholosV2, TholosV2Refinement, TLC

BasePolicy ==
  [base_bond |-> 2, challenge_window_secs |-> 1, finalize_reward_bps |-> 1000,
   registration_duration_secs |-> 1, anti_snipe_extension_secs |-> 1,
   anti_snipe_hard_max_secs |-> 2, reveal_duration_secs |-> 1,
   max_position |-> 3, max_total_weight |-> 10]

\* Deposits of 2 and top-ups of 1: position sizes 2 and 3, so a pool of 5
\* shared by 4 units of recipient weight leaves dust.
RoundPolicies == {BasePolicy}

\* A bond on which the finalize reward is not 0.
PairPolicies ==
  {[BasePolicy EXCEPT !.base_bond = 10, !.max_position = 15,
                      !.max_total_weight = 40]}

\* Policies on both sides of every limit initialize checks, in the source's
\* proportions: MaxBondAmount is 2000, above MaxSettlementTotalWeight = 1414,
\* windows last at most 1 and a hard maximum at most 2.
WidePolicy ==
  [BasePolicy EXCEPT !.max_position = 1414, !.max_total_weight = 1414]

\* The third one has parties' bonds of 4000 under a cap of 1414.
AcceptedPolicies ==
  {WidePolicy,
   [WidePolicy EXCEPT !.max_position = 142, !.anti_snipe_extension_secs = 0],
   [WidePolicy EXCEPT !.base_bond = 2000]}

\* Each breaks one check.
RefusedPolicies ==
  {[WidePolicy EXCEPT !.base_bond = b] : b \in {0, 2001}}
    \cup {[WidePolicy EXCEPT !.challenge_window_secs = s] : s \in {0, 2}}
    \cup {[WidePolicy EXCEPT !.registration_duration_secs = s] : s \in {0, 2}}
    \cup {[WidePolicy EXCEPT !.reveal_duration_secs = s] : s \in {0, 2}}
    \cup {[WidePolicy EXCEPT !.max_position = m] : m \in {0, 141, 1415}}
    \cup {[WidePolicy EXCEPT !.finalize_reward_bps = 1001],
          [WidePolicy EXCEPT !.anti_snipe_extension_secs = 3],
          [WidePolicy EXCEPT !.anti_snipe_hard_max_secs = 3],
          [WidePolicy EXCEPT !.anti_snipe_hard_max_secs = 0,
                             !.anti_snipe_extension_secs = 0],
          [WidePolicy EXCEPT !.max_total_weight = 0],
          [WidePolicy EXCEPT !.max_position = 3000, !.max_total_weight = 6000]}
LimitPolicies == AcceptedPolicies \cup RefusedPolicies

\* One asserted outcome is enough where voters may commit to either (the code
\* only compares outcomes), and posting before the clock first moves is (a
\* later post is the same round with less of the clock left).
OneClaimAtStart ==
  /\ now > 0 => next_id = MaxAssertions
  /\ \A id \in Ids : assertion[id].outcome = "yes"

\* Participants are interchangeable.
ParticipantSymmetry == Permutations(Address)
=============================================================================
