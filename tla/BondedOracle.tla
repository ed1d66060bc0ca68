---------------------------- MODULE BondedOracle ----------------------------
(***************************************************************************)
(* What a bonded oracle promises its users, whatever the protocol behind   *)
(* it: a claim is open until it gets one verdict, which is final; bonds    *)
(* are taken in only while it is open and given back only after it; no     *)
(* more is given than was taken for that very claim; and a claim that ends *)
(* without an outcome gives nobody more than its own bonds back.           *)
(***************************************************************************)
EXTENDS Naturals, FiniteSets, Weights

CONSTANTS Claim, Party, Outcome

VARIABLES
  verdict,  \* verdict[c]: "open", an outcome, or "void"
  taken,    \* taken[c][p]: bonds taken from p for claim c
  given     \* given[c][p]: tokens given to p on account of claim c

oracleVars == <<verdict, taken, given>>

Verdicts == Outcome \cup {"void"}

Init ==
  /\ verdict = [c \in Claim |-> "open"]
  /\ taken = [c \in Claim |-> [p \in Party |-> 0]]
  /\ given = [c \in Claim |-> [p \in Party |-> 0]]

\* Only claim c changes.
Only(c, f, g) == \A d \in Claim \ {c} : g[d] = f[d]

\* Party p bonds on claim c.
TakeBond(c, p) ==
  /\ verdict[c] = "open"
  /\ taken'[c][p] > taken[c][p]
  /\ \A q \in Party \ {p} : taken'[c][q] = taken[c][q]
  /\ Only(c, taken, taken')
  /\ UNCHANGED <<verdict, given>>

\* What may be given on claim c once its verdict is v.
MayGive(c, v) ==
  /\ Only(c, given, given')
  /\ \A p \in Party : given'[c][p] >= given[c][p]
  /\ Total(given'[c]) <= Total(taken[c])
  /\ v = "void" => \A p \in Party : given'[c][p] <= taken[c][p]

\* The verdict, possibly together with payments.
Decide(c, v) ==
  /\ verdict[c] = "open"
  /\ verdict' = [verdict EXCEPT ![c] = v]
  /\ MayGive(c, v)
  /\ UNCHANGED taken

Give(c) ==
  /\ verdict[c] # "open"
  /\ MayGive(c, verdict[c])
  /\ UNCHANGED <<verdict, taken>>

Next ==
  \E c \in Claim :
    \/ \E p \in Party : TakeBond(c, p)
    \/ \E v \in Verdicts : Decide(c, v)
    \/ Give(c)

Spec == Init /\ [][Next]_oracleVars
=============================================================================
