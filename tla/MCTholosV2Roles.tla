--------------------------- MODULE MCTholosV2Roles --------------------------
(***************************************************************************)
(* Instances with fixed roles, for the questions whose state space is      *)
(* large: two assertions that share the token balance, and liveness (which *)
(* cannot use symmetry).  The parties and the claim are fixed, and the     *)
(* contract is paused only once every assertion is posted.                 *)
(***************************************************************************)
EXTENDS MCTholosV2

CONSTANTS Asserter, Disputer, SecondVoter

FixedRoles ==
  /\ paused => next_id = MaxAssertions
  /\ \A id \in Ids :
       /\ assertion[id].asserter \in {NoAddress, Asserter}
       /\ assertion[id].disputer \in {NoAddress, Disputer}
       /\ assertion[id].outcome = "yes"

\* Two assertions posted before the clock first moves: their rounds run side
\* by side.  The outside voter joins the first; the second, with its parties'
\* bonds only, owns the tokens that an error on the first would take.
PostedTogether ==
  /\ FixedRoles
  /\ now > 0 => next_id = MaxAssertions
  /\ \A id \in Ids \ {0}, a \in Address :
       position[id][a].kind \notin {"CommitYes", "CommitNo"}

\* Nobody names the contract itself as the destination of a withdrawal.
PaidOutside ==
  /\ PostedTogether
  /\ custody = Total([id \in Ids |-> Owed(id)])

\* Up to the decision with two outside voters, and to the last payment with
\* one, each under every policy.
DecidedOrPaid ==
  \/ /\ FixedRoles
     /\ \A id \in Ids, a \in Address :
          ~position[id][a].settled /\ paid[id][a] = 0
  \/ /\ PaidOutside
     /\ \A id \in Ids : position[id][SecondVoter].kind = "None"
=============================================================================
