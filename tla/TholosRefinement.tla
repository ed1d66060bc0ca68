-------------------------- MODULE TholosRefinement --------------------------
(***************************************************************************)
(* The v1 contract implements the same abstract bonded oracle as v2.       *)
(***************************************************************************)
EXTENDS Tholos

Verdict(a) ==
  IF a.status # "Resolved" THEN "open"
  ELSE IF a.final_outcome = "none" THEN "void" ELSE a.final_outcome

\* What an address has bonded on an assertion: the disputer's deposit is what
\* the escrow holds beyond the asserter's.
Bonded(id, address) ==
  LET a == assertion[id] IN
  IF address = a.asserter THEN a.bond
  ELSE IF address = a.disputer THEN escrow[id] - a.bond
  ELSE 0

Oracle == INSTANCE BondedOracle WITH
  Claim <- Ids, Party <- Address, Outcome <- Outcomes,
  verdict <- [id \in Ids |-> Verdict(assertion[id])],
  taken <- [id \in Ids |-> [a \in Address |-> Bonded(id, a)]],
  given <- paid

\* Every step of the contract is a step of the abstract oracle or changes
\* nothing it shows: one final verdict per assertion, bonds only before it,
\* payments with it and never more than that assertion took in, and a stalled
\* dispute gives each party at most what was received from it.
ImplementsOracle == Oracle!Spec
=============================================================================
