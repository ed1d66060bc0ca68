------------------------- MODULE TholosV2Refinement -------------------------
(***************************************************************************)
(* The v2 contract implements the abstract bonded oracle.                  *)
(***************************************************************************)
EXTENDS TholosV2

\* The verdict the contract's record amounts to: final_outcome as soon as the
\* decision locks, which may be before the phase is Resolved.
Verdict(a) ==
  IF a.terminal_cause = "NotYetDecided" THEN "open"
  ELSE IF a.final_outcome = "none" THEN "void" ELSE a.final_outcome

\* The bond an address has put on an assertion.
Bonded(id, address) ==
  LET a == assertion[id] IN
  IF Disputed(id) THEN position[id][address].amount
  ELSE IF a.phase # "Absent" /\ a.asserter = address THEN a.policy.base_bond
  ELSE 0

Oracle == INSTANCE BondedOracle WITH
  Claim <- Ids, Party <- Address, Outcome <- Outcomes,
  verdict <- [id \in Ids |-> Verdict(assertion[id])],
  taken <- [id \in Ids |-> [a \in Address |-> Bonded(id, a)]],
  given <- paid

\* Every step of the contract is a step of the abstract oracle or changes
\* nothing it shows: one final verdict per assertion, bonds only before it,
\* payments only after it and never more than that assertion took in, and a
\* cancelled or voided round gives everyone at most its own bond.
ImplementsOracle == Oracle!Spec
=============================================================================
