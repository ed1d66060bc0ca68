------------------------------ MODULE Weights ------------------------------
(***************************************************************************)
(* Sums of bonded weight.  The contracts keep running totals ("eligible    *)
(* total", "agree weight", "outstanding liability") that must equal a sum  *)
(* over positions, credits or disputes that the code itself never scans.   *)
(* Total(f) is that sum.  It counts the individual weight units of f, so   *)
(* that facts about sums follow from facts about finite sets, and no       *)
(* recursion is needed.                                                    *)
(***************************************************************************)
EXTENDS Naturals, FiniteSets

\* The weight units of f: unit <<a, i>> is the i-th unit that a holds.
Units(f) == UNION {{a} \X (1..f[a]) : a \in DOMAIN f}

\* The sum of the natural numbers f[a].
Total(f) == Cardinality(Units(f))

\* f with a's share increased by w.
Plus(f, a, w) == [f EXCEPT ![a] = @ + w]
=============================================================================
