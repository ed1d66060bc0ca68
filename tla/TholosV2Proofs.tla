--------------------------- MODULE TholosV2Proofs ---------------------------
(***************************************************************************)
(* Proofs about the v2 contract, for any number of participants and        *)
(* assertions, any policies, deposits and clock.                           *)
(*                                                                         *)
(* Neither TypeOK nor TotalsMatchPositions is inductive.  StructureInv     *)
(* strengthens the second: it says which records may exist in which phase, *)
(* and in particular that nothing is revealed before the reveal phase      *)
(* opens, which is why opening it may count the two fixed positions from   *)
(* zero.  It is stated round by round, over the three records of a round,  *)
(* so that a handler that rewrites one round has one obligation.           *)
(***************************************************************************)
EXTENDS TholosV2, WeightsProofs

\* The amounts that settlement keeps are only shown to be integers here: that
\* they are never negative is a fact about sums and rounding.
LooseResolution ==
  [registration_opened_at : Nat, registration_deadline : Nat,
   registration_hard_deadline : Nat, eligible_total : Nat,
   reveal_opened_at : Nat, reveal_deadline : Nat, agree_weight : Nat,
   disagree_weight : Nat, settled_recipient_weight : Nat,
   settled_reward_total : Int, outstanding_liability : Int,
   withdrawn_total : Nat]

\* The types of the entries that belong to no round, and the deployment:
\* an accepted policy passed initialize's checks, and no assertion is posted
\* without one.
Shape ==
  /\ now \in Nat /\ now <= MaxTime
  /\ admin \in AdminKeys
  /\ paused \in BOOLEAN
  /\ policy \in CandidatePolicies \cup {NoPolicy}
  /\ policy # NoPolicy => ValidPolicy(policy)
  /\ next_id \in 0..MaxAssertions
  /\ policy = NoPolicy => next_id = 0
  /\ assertion \in [Ids -> AssertionV2]
  /\ resolution \in [Ids -> LooseResolution]
  /\ position \in [Ids -> [Address -> Position]]
  /\ credit \in [Ids -> [Address -> Int]]
  /\ custody \in Nat
  /\ paid \in [Ids -> [Address -> Nat]]
  /\ \A id \in Ids : id >= next_id => assertion[id].phase = "Absent"

\* A round's parties are the ones its phase calls for.
PartiesOK(a) ==
  /\ a.phase # "Absent" =>
       /\ a.asserter \in Address
       /\ a.policy \in CandidatePolicies /\ ValidPolicy(a.policy)
  /\ a.phase \in {"Absent", "Pending"} => a.disputer = NoAddress
  /\ a.phase \in {"Registration", "Reveal"} => a.disputer # NoAddress
  /\ a.disputer # NoAddress => a.disputer # a.asserter

\* A cause is recorded when the phase calls for one, and never too early.
CauseOK(a) ==
  /\ a.phase \in {"Absent", "Pending", "Registration"} =>
       a.terminal_cause = "NotYetDecided"
  /\ a.phase = "Reveal" =>
       a.terminal_cause \in {"NotYetDecided", "StrictMajorityFor",
                             "StrictMajorityAgainst"}
  /\ a.phase = "Resolved" => a.terminal_cause # "NotYetDecided"
  /\ a.disputer = NoAddress =>
       a.terminal_cause \in {"NotYetDecided", "UncontestedFinalize",
                             "AdminCancelled"}
  /\ a.disputer # NoAddress => a.terminal_cause # "UncontestedFinalize"

\* No dispute, no positions; nothing is revealed while registration is open.
ScopeOK(a, r, p) ==
  /\ a.disputer = NoAddress => \A v \in Address : p[v] = NoPosition
  /\ a.phase = "Registration" =>
       /\ r.agree_weight = 0 /\ r.disagree_weight = 0
       /\ \A v \in Address : p[v].agrees_with_outcome = "none"

StakeOf(p) == [v \in Address |-> p[v].amount]
Shown(q, side) == IF q.agrees_with_outcome = side THEN q.amount ELSE 0
SideOf(p, side) == [v \in Address |-> Shown(p[v], side)]

TalliesOK(r, p) ==
  /\ r.eligible_total = Total(StakeOf(p))
  /\ r.agree_weight = Total(SideOf(p, "agree"))
  /\ r.disagree_weight = Total(SideOf(p, "disagree"))

RoundOK(a, r, p) ==
  /\ a \in AssertionV2 /\ r \in LooseResolution /\ p \in [Address -> Position]
  /\ PartiesOK(a)
  /\ CauseOK(a)
  /\ ScopeOK(a, r, p)
  /\ TalliesOK(r, p)

StructureInv ==
  /\ Shape
  /\ \A id \in Ids : RoundOK(assertion[id], resolution[id], position[id])

-----------------------------------------------------------------------------
(* The tallies of changed positions.                                       *)

LEMMA StakeType ==
  ASSUME NEW p \in [Address -> Position], NEW side
  PROVE  /\ StakeOf(p) \in [Address -> Nat]
         /\ SideOf(p, side) \in [Address -> Nat]
BY DEF StakeOf, SideOf, Shown, Position

\* Replacing one position changes the stake by the difference.
LEMMA StakeUpdate ==
  ASSUME NEW p \in [Address -> Position], NEW v \in Address, NEW q \in Position
  PROVE  Total(StakeOf([p EXCEPT ![v] = q]))
           = Total(StakeOf(p)) - p[v].amount + q.amount
<1> DEFINE f == StakeOf(p)
           w == q.amount
<1>1. StakeOf([p EXCEPT ![v] = q]) = [f EXCEPT ![v] = w]
  BY DEF StakeOf
<1>2. f \in [Address -> Nat] /\ w \in Nat /\ f[v] = p[v].amount
  BY DEF StakeOf, Position
<1>3. IsFiniteSet(Address)
  BY AddressAssumption
<1> HIDE DEF f, w
<1>4. Total([f EXCEPT ![v] = w]) = Total(f) - f[v] + w
  BY <1>2, <1>3, TotalUpdate
<1> QED
  BY <1>1, <1>2, <1>4 DEF f, w

\* The same for the weight shown on one side.
LEMMA SideUpdate ==
  ASSUME NEW p \in [Address -> Position], NEW v \in Address, NEW q \in Position,
         NEW side
  PROVE  Total(SideOf([p EXCEPT ![v] = q], side))
           = Total(SideOf(p, side)) - Shown(p[v], side) + Shown(q, side)
<1> DEFINE f == SideOf(p, side)
           w == Shown(q, side)
<1>1. SideOf([p EXCEPT ![v] = q], side) = [f EXCEPT ![v] = w]
  BY DEF SideOf
<1>2. f \in [Address -> Nat] /\ w \in Nat /\ f[v] = Shown(p[v], side)
  BY DEF SideOf, Shown, Position
<1>3. IsFiniteSet(Address)
  BY AddressAssumption
<1> HIDE DEF f, w
<1>4. Total([f EXCEPT ![v] = w]) = Total(f) - f[v] + w
  BY <1>2, <1>3, TotalUpdate
<1> QED
  BY <1>1, <1>2, <1>4 DEF f, w

\* What both sides have shown is part of the stake.
LEMMA RevealedWithinStake ==
  ASSUME NEW p \in [Address -> Position]
  PROVE  /\ Total(StakeOf(p)) \in Nat
         /\ Total(SideOf(p, "agree")) \in Nat
         /\ Total(SideOf(p, "disagree")) \in Nat
         /\ Total(SideOf(p, "agree")) + Total(SideOf(p, "disagree"))
              <= Total(StakeOf(p))
<1> DEFINE f == SideOf(p, "agree")
           g == SideOf(p, "disagree")
           h == StakeOf(p)
<1>1. f \in [Address -> Nat] /\ g \in [Address -> Nat] /\ h \in [Address -> Nat]
  BY StakeType
<1>2. \A v \in Address : f[v] <= h[v] /\ g[v] <= h[v] /\ (f[v] = 0 \/ g[v] = 0)
  BY DEF SideOf, Shown, StakeOf, Position
<1> HIDE DEF f, g, h
<1>3. Total(f) + Total(g) <= Total(h)
  BY <1>1, <1>2, DisjointTotals, AddressAssumption
<1>4. Total(f) \in Nat /\ Total(g) \in Nat /\ Total(h) \in Nat
  BY <1>1, TotalType, AddressAssumption
<1> QED
  BY <1>3, <1>4 DEF f, g, h

-----------------------------------------------------------------------------
(* The transitions of a round.                                             *)

\* What a handler of the reveal phase may change of an assertion.
SameClaim(a, b) ==
  /\ b.asserter = a.asserter /\ b.disputer = a.disputer
  /\ b.outcome = a.outcome /\ b.policy = a.policy /\ b.opened_at = a.opened_at
SameDecision(a, b) ==
  a.terminal_cause # "NotYetDecided" =>
    b.terminal_cause = a.terminal_cause /\ b.final_outcome = a.final_outcome

\* Closing (or trying to close) a round keeps its record consistent and a
\* decision that was already locked.
LEMMA CloseResult ==
  ASSUME NEW a \in AssertionV2, NEW r \in LooseResolution, NEW f \in BOOLEAN,
         a.phase \in {"Reveal", "Resolved"}, PartiesOK(a), CauseOK(a),
         a.disputer # NoAddress
  PROVE  LET b == CloseRevealIfReady(a, r, f) IN
         /\ b \in AssertionV2 /\ PartiesOK(b) /\ CauseOK(b)
         /\ b.phase \in {"Reveal", "Resolved"}
         /\ SameClaim(a, b) /\ SameDecision(a, b)
         /\ f => b.phase = "Resolved"
<1> DEFINE locked == LockOutcomeIfUndecided(a, r)
           dflt == DefaultIfUndecided(locked, r)
           b == CloseRevealIfReady(a, r, f)
<1>1. /\ locked \in AssertionV2 /\ SameClaim(a, locked) /\ SameDecision(a, locked)
      /\ locked.phase = a.phase
      /\ locked.terminal_cause \in {a.terminal_cause, "StrictMajorityFor",
                                    "StrictMajorityAgainst"}
  BY DEF LockOutcomeIfUndecided, AssertionV2, SameClaim, SameDecision, Outcomes,
         Opposite, TerminalCauses, VoidCauses
<1> HIDE DEF locked
<1>2. /\ dflt \in AssertionV2 /\ SameClaim(a, dflt) /\ SameDecision(a, dflt)
      /\ dflt.terminal_cause \in {a.terminal_cause, "StrictMajorityFor",
             "StrictMajorityAgainst", "OptimisticTimeout", "RevealQuorumNotMet"}
      /\ dflt.terminal_cause # "NotYetDecided"
  BY <1>1, ZenonT(60)
     DEF DefaultIfUndecided, OptimisticDefault, AssertionV2, SameClaim,
         SameDecision, Outcomes, TerminalCauses, VoidCauses
<1> HIDE DEF dflt
<1>3. CASE f \/ RevealedWeight(r) >= r.eligible_total
  <2>1. b = [dflt EXCEPT !.phase = "Resolved"]
    BY <1>3 DEF CloseRevealIfReady, dflt, locked
  <2>2. /\ b \in AssertionV2 /\ SameClaim(a, b) /\ SameDecision(a, b)
        /\ b.phase = "Resolved" /\ b.terminal_cause = dflt.terminal_cause
    BY <1>2, <2>1 DEF AssertionV2, Phases, SameClaim, SameDecision
  <2> HIDE DEF b
  <2>3. PartiesOK(b)
    BY <2>2 DEF PartiesOK, SameClaim
  <2>4. CauseOK(b)
    BY <1>2, <2>2 DEF CauseOK, SameClaim
  <2> QED
    BY <2>2, <2>3, <2>4 DEF b
<1>4. CASE ~(f \/ RevealedWeight(r) >= r.eligible_total)
  <2>1. b = locked
    BY <1>4 DEF CloseRevealIfReady, locked
  <2> HIDE DEF b
  <2>2. PartiesOK(b)
    BY <1>1, <2>1 DEF PartiesOK, SameClaim
  <2>3. CauseOK(b)
    BY <1>1, <2>1 DEF CauseOK, SameClaim, SameDecision
  <2> QED
    BY <1>1, <1>4, <2>1, <2>2, <2>3 DEF b
<1> QED
  BY <1>3, <1>4

\* Every position keeps its amount, its kind and its settlement.
SameBonds(p, q) ==
  \A v \in Address : /\ q[v].amount = p[v].amount
                     /\ q[v].kind = p[v].kind
                     /\ q[v].settled = p[v].settled

ShowAt(p, v, side) == [p EXCEPT ![v] = Show(@, side)]

\* Showing a hidden position adds its amount to its side and nothing else.
LEMMA ShowTallies ==
  ASSUME NEW p \in [Address -> Position], NEW v \in Address,
         NEW side \in {"agree", "disagree"},
         p[v].agrees_with_outcome = "none"
  PROVE  LET q == ShowAt(p, v, side) IN
         /\ q \in [Address -> Position]
         /\ SameBonds(p, q)
         /\ \A u \in Address : u # v => q[u] = p[u]
         /\ q[v].agrees_with_outcome = side
         /\ Total(StakeOf(q)) = Total(StakeOf(p))
         /\ Total(SideOf(q, "agree")) = Total(SideOf(p, "agree"))
                 + (IF side = "agree" THEN p[v].amount ELSE 0)
         /\ Total(SideOf(q, "disagree")) = Total(SideOf(p, "disagree"))
                 + (IF side = "disagree" THEN p[v].amount ELSE 0)
<1> DEFINE w == Show(p[v], side)
           q == ShowAt(p, v, side)
<1>1. /\ w \in Position /\ w.amount = p[v].amount /\ w.kind = p[v].kind
      /\ w.settled = p[v].settled /\ w.agrees_with_outcome = side
      /\ w.amount \in Nat
  BY DEF Show, Position, Sides
<1>2. q = [p EXCEPT ![v] = w]
  BY DEF ShowAt
<1> HIDE DEF w, q
<1>3. Total(StakeOf(q)) = Total(StakeOf(p)) - p[v].amount + w.amount
  BY <1>1, <1>2, StakeUpdate
<1>4. Total(StakeOf(p)) \in Nat
  BY RevealedWithinStake
<1>5. ASSUME NEW s \in {"agree", "disagree"}
      PROVE  Total(SideOf(q, s)) = Total(SideOf(p, s))
                                   + (IF s = side THEN p[v].amount ELSE 0)
  <2>1. Total(SideOf(q, s))
          = Total(SideOf(p, s)) - Shown(p[v], s) + Shown(w, s)
    BY <1>1, <1>2, SideUpdate
  <2>2. Total(SideOf(p, s)) \in Nat
    BY RevealedWithinStake
  <2>3. /\ Shown(p[v], s) = 0
        /\ Shown(w, s) = IF s = side THEN p[v].amount ELSE 0
    BY <1>1 DEF Shown
  <2> QED
    BY <1>1, <2>1, <2>2, <2>3
<1>6. /\ q \in [Address -> Position] /\ q[v] = w
      /\ \A u \in Address : u # v => q[u] = p[u]
  BY <1>1, <1>2
<1>7. SameBonds(p, q)
  BY <1>1, <1>6 DEF SameBonds
<1> QED
  BY <1>1, <1>3, <1>4, <1>5, <1>6, <1>7 DEF q

\* Opening the reveal phase: the two fixed positions are the first ones
\* counted, once each, because the parties differ.
LEMMA OpenResult ==
  ASSUME NEW a, NEW r, NEW p, RoundOK(a, r, p), a.phase = "Registration",
         now \in Nat
  PROVE  LET s == OpenRevealPhase(a, r, p) IN
         /\ RoundOK(s.a, s.r, s.p)
         /\ s.a.phase \in {"Reveal", "Resolved"}
         /\ SameClaim(a, s.a) /\ SameDecision(a, s.a)
         /\ s.r.eligible_total = r.eligible_total
         /\ SameBonds(p, s.p)
<1> DEFINE s == OpenRevealPhase(a, r, p)
           fund == a.asserter
           doubt == a.disputer
           q == ShowAt(p, fund, "agree")
           t == ShowAt(q, doubt, "disagree")
           opened ==
             [r EXCEPT !.reveal_opened_at = now,
                       !.reveal_deadline = now + a.policy.reveal_duration_secs,
                       !.agree_weight = @ + p[fund].amount,
                       !.disagree_weight = @ + p[doubt].amount]
           a1 == [a EXCEPT !.phase = "Reveal"]
<1>1. /\ a \in AssertionV2 /\ r \in LooseResolution /\ p \in [Address -> Position]
      /\ PartiesOK(a) /\ CauseOK(a) /\ ScopeOK(a, r, p) /\ TalliesOK(r, p)
  BY DEF RoundOK
<1>2. fund \in Address /\ doubt \in Address /\ fund # doubt
  BY <1>1 DEF PartiesOK, AssertionV2
<1>3. /\ r.agree_weight = 0 /\ r.disagree_weight = 0
      /\ \A v \in Address : p[v].agrees_with_outcome = "none"
  BY <1>1 DEF ScopeOK
<1>4. a.policy.reveal_duration_secs \in Nat
  BY <1>1, PolicyAssumption DEF PartiesOK, PolicyArgs
<1>5. s = [a |-> CloseRevealIfReady(a1, opened, FALSE), r |-> opened, p |-> t]
  BY <1>1, <1>2 DEF OpenRevealPhase, ShowAt
<1>6. /\ a1 \in AssertionV2 /\ a1.phase = "Reveal" /\ SameClaim(a, a1)
      /\ PartiesOK(a1) /\ CauseOK(a1) /\ a1.disputer # NoAddress
      /\ SameDecision(a, a1)
  BY <1>1, <1>2, AddressAssumption
     DEF AssertionV2, Phases, SameClaim, SameDecision, PartiesOK, CauseOK
<1>7. /\ opened \in LooseResolution /\ opened.eligible_total = r.eligible_total
      /\ opened.agree_weight = p[fund].amount
      /\ opened.disagree_weight = p[doubt].amount
  <2>1. p[fund].amount \in Nat /\ p[doubt].amount \in Nat
    BY <1>1, <1>2 DEF Position
  <2>2. now + a.policy.reveal_duration_secs \in Nat
    BY <1>4
  <2>3. /\ opened.agree_weight = r.agree_weight + p[fund].amount
        /\ opened.disagree_weight = r.disagree_weight + p[doubt].amount
        /\ opened.eligible_total = r.eligible_total
    BY <1>1 DEF LooseResolution
  <2>4. r.agree_weight + p[fund].amount \in Nat /\ r.disagree_weight + p[doubt].amount \in Nat
    BY <1>3, <2>1
  <2>5. opened \in LooseResolution
    BY <1>1, <2>2, <2>4 DEF LooseResolution
  <2> QED
    BY <1>3, <2>1, <2>3, <2>5
<1> HIDE DEF fund, doubt
<1>8. /\ q \in [Address -> Position]
      /\ SameBonds(p, q)
      /\ \A v \in Address : v # fund => q[v] = p[v]
      /\ Total(StakeOf(q)) = Total(StakeOf(p))
      /\ Total(SideOf(q, "agree")) = Total(SideOf(p, "agree")) + p[fund].amount
      /\ Total(SideOf(q, "disagree")) = Total(SideOf(p, "disagree")) + 0
  <2>1. fund \in Address /\ p[fund].agrees_with_outcome = "none"
    BY <1>2, <1>3
  <2>2. /\ q \in [Address -> Position]
        /\ SameBonds(p, q)
        /\ \A v \in Address : v # fund => q[v] = p[v]
    BY <1>1, <2>1, ShowTallies
  <2>3. Total(StakeOf(q)) = Total(StakeOf(p))
    BY <1>1, <2>1, ShowTallies
  <2>4. Total(SideOf(q, "agree")) = Total(SideOf(p, "agree")) + p[fund].amount
    BY <1>1, <2>1, ShowTallies
  <2>5. Total(SideOf(q, "disagree")) = Total(SideOf(p, "disagree")) + 0
    BY <1>1, <2>1, ShowTallies
  <2> HIDE DEF q
  <2> QED
    BY <2>2, <2>3, <2>4, <2>5
<1> HIDE DEF q
<1>9. /\ t \in [Address -> Position]
      /\ SameBonds(q, t)
      /\ Total(StakeOf(t)) = Total(StakeOf(q))
      /\ Total(SideOf(t, "agree")) = Total(SideOf(q, "agree")) + 0
      /\ Total(SideOf(t, "disagree")) = Total(SideOf(q, "disagree")) + p[doubt].amount
  <2>1. doubt \in Address /\ q[doubt] = p[doubt] /\ q[doubt].agrees_with_outcome = "none"
    BY <1>2, <1>3, <1>8
  <2>2. /\ t \in [Address -> Position]
        /\ SameBonds(q, t)
    BY <1>8, <2>1, ShowTallies
  <2>3. Total(StakeOf(t)) = Total(StakeOf(q))
    BY <1>8, <2>1, ShowTallies
  <2>4. Total(SideOf(t, "agree")) = Total(SideOf(q, "agree")) + 0
    BY <1>8, <2>1, ShowTallies
  <2>5. Total(SideOf(t, "disagree")) = Total(SideOf(q, "disagree")) + p[doubt].amount
    BY <1>8, <2>1, ShowTallies
  <2> HIDE DEF t
  <2> QED
    BY <2>2, <2>3, <2>4, <2>5
<1> HIDE DEF t, opened, a1
<1>10. TalliesOK(opened, t)
  <2>1. p[fund].amount \in Nat /\ p[doubt].amount \in Nat
    BY <1>1, <1>2 DEF Position
  <2>2. Total(SideOf(p, "agree")) = 0 /\ Total(SideOf(p, "disagree")) = 0
    BY <1>1, <1>3 DEF TalliesOK
  <2>3. r.eligible_total = Total(StakeOf(p))
    BY <1>1 DEF TalliesOK
  <2> QED
    BY <1>7, <1>8, <1>9, <2>1, <2>2, <2>3 DEF TalliesOK
<1>11. /\ s.a \in AssertionV2 /\ PartiesOK(s.a) /\ CauseOK(s.a)
       /\ s.a.phase \in {"Reveal", "Resolved"}
       /\ SameClaim(a1, s.a) /\ SameDecision(a1, s.a)
  <2>1. s.a = CloseRevealIfReady(a1, opened, FALSE)
    BY <1>5
  <2> QED
    BY <1>6, <1>7, <2>1, CloseResult
<1>12. s.r = opened /\ s.p = t
  BY <1>5
<1> HIDE DEF s
<1>13. ScopeOK(s.a, s.r, s.p)
  BY <1>6, <1>11 DEF ScopeOK, SameClaim
<1>14. SameClaim(a, s.a) /\ SameDecision(a, s.a)
  BY <1>6, <1>11 DEF SameClaim, SameDecision, a1
<1>15. RoundOK(s.a, s.r, s.p)
  BY <1>7, <1>9, <1>10, <1>11, <1>12, <1>13 DEF RoundOK
<1>16. s.r.eligible_total = r.eligible_total
  BY <1>7, <1>12
<1>17. SameBonds(p, s.p)
  BY <1>8, <1>9, <1>12 DEF SameBonds
<1> QED
  BY <1>11, <1>14, <1>15, <1>16, <1>17 DEF s

\* The lazy opening of reveal and resolve_outcome.
LEMMA LazyOpening ==
  ASSUME NEW id \in Ids, now \in Nat, RegistrationOver(id),
         RoundOK(assertion[id], resolution[id], position[id])
  PROVE  LET s == RoundInReveal(id) IN
         /\ RoundOK(s.a, s.r, s.p)
         /\ s.a.phase \in {"Reveal", "Resolved"} /\ s.a.disputer # NoAddress
         /\ SameClaim(assertion[id], s.a) /\ SameDecision(assertion[id], s.a)
         /\ s.r.eligible_total = resolution[id].eligible_total
         /\ SameBonds(position[id], s.p)
<1> DEFINE s == RoundInReveal(id)
           a == assertion[id]
           r == resolution[id]
           p == position[id]
<1>1. a.disputer # NoAddress
  BY DEF RegistrationOver, RoundOK, PartiesOK
<1>2. CASE a.phase = "Registration"
  <2>1. s = OpenRevealPhase(a, r, p)
    BY <1>2 DEF RoundInReveal
  <2>2. RoundOK(a, r, p)
    OBVIOUS
  <2> HIDE DEF a, r, p, s
  <2>3. /\ RoundOK(s.a, s.r, s.p)
        /\ s.a.phase \in {"Reveal", "Resolved"}
        /\ SameClaim(a, s.a) /\ SameDecision(a, s.a)
        /\ s.r.eligible_total = r.eligible_total
        /\ SameBonds(p, s.p)
    BY <1>2, <2>1, <2>2, OpenResult
  <2>4. s.a.disputer # NoAddress
    BY <1>1, <2>3 DEF SameClaim
  <2> QED
    BY <2>3, <2>4 DEF a, r, p, s
<1>3. CASE a.phase = "Reveal"
  <2>1. s = [a |-> a, r |-> r, p |-> p]
    BY <1>3 DEF RoundInReveal
  <2>2. SameClaim(a, a) /\ SameDecision(a, a) /\ SameBonds(p, p)
    BY DEF SameClaim, SameDecision, SameBonds
  <2> QED
    BY <1>1, <1>3, <2>1, <2>2
<1> QED
  BY <1>2, <1>3 DEF RegistrationOver

\* Counting a revealed position keeps the tallies.
LEMMA RevealResult ==
  ASSUME NEW a, NEW r, NEW p, RoundOK(a, r, p),
         a.phase \in {"Reveal", "Resolved"}, a.disputer # NoAddress,
         NEW v \in Address, NEW side \in {"agree", "disagree"},
         p[v].agrees_with_outcome = "none"
  PROVE  LET tally == Counted(r, side, p[v].amount)
             b == CloseRevealIfReady(a, tally, FALSE)
         IN  /\ RoundOK(b, tally, ShowAt(p, v, side))
             /\ SameClaim(a, b) /\ SameDecision(a, b)
<1> DEFINE tally == Counted(r, side, p[v].amount)
           b == CloseRevealIfReady(a, tally, FALSE)
           q == ShowAt(p, v, side)
<1>1. /\ a \in AssertionV2 /\ r \in LooseResolution /\ p \in [Address -> Position]
      /\ PartiesOK(a) /\ CauseOK(a) /\ TalliesOK(r, p)
  BY DEF RoundOK
<1>2. p[v].amount \in Nat
  BY <1>1 DEF Position
<1>3. /\ tally \in LooseResolution /\ tally.eligible_total = r.eligible_total
      /\ tally.agree_weight = r.agree_weight
                                + (IF side = "agree" THEN p[v].amount ELSE 0)
      /\ tally.disagree_weight = r.disagree_weight
                                + (IF side = "disagree" THEN p[v].amount ELSE 0)
  <2>1. CASE side = "agree"
    <3>1. tally = [r EXCEPT !.agree_weight = @ + p[v].amount]
      BY <2>1 DEF Counted
    <3>2. r.agree_weight + p[v].amount \in Nat /\ r.disagree_weight + 0 = r.disagree_weight
      BY <1>1, <1>2 DEF LooseResolution
    <3> QED
      BY <1>1, <2>1, <3>1, <3>2 DEF LooseResolution
  <2>2. CASE side = "disagree"
    <3>1. tally = [r EXCEPT !.disagree_weight = @ + p[v].amount]
      BY <2>2 DEF Counted
    <3>2. r.disagree_weight + p[v].amount \in Nat /\ r.agree_weight + 0 = r.agree_weight
      BY <1>1, <1>2 DEF LooseResolution
    <3> QED
      BY <1>1, <2>2, <3>1, <3>2 DEF LooseResolution
  <2> QED
    BY <2>1, <2>2
<1> HIDE DEF tally
<1>4. /\ b \in AssertionV2 /\ PartiesOK(b) /\ CauseOK(b)
      /\ b.phase \in {"Reveal", "Resolved"}
      /\ SameClaim(a, b) /\ SameDecision(a, b)
  BY <1>1, <1>3, CloseResult
<1>5. /\ q \in [Address -> Position]
      /\ Total(StakeOf(q)) = Total(StakeOf(p))
      /\ Total(SideOf(q, "agree")) = Total(SideOf(p, "agree"))
                                + (IF side = "agree" THEN p[v].amount ELSE 0)
      /\ Total(SideOf(q, "disagree")) = Total(SideOf(p, "disagree"))
                                + (IF side = "disagree" THEN p[v].amount ELSE 0)
  BY <1>1, ShowTallies
<1> HIDE DEF b, q
<1>6. ScopeOK(b, tally, q)
  BY <1>4 DEF ScopeOK, SameClaim
<1>7. TalliesOK(tally, q)
  BY <1>1, <1>3, <1>5 DEF TalliesOK
<1> QED
  BY <1>3, <1>4, <1>5, <1>6, <1>7 DEF RoundOK, b, q, tally

\* A deposit of a voter while registration is open adds to the eligible
\* total exactly what it adds to the voter's position.
LEMMA RegisterResult ==
  ASSUME NEW a, NEW r, NEW p, RoundOK(a, r, p), a.phase = "Registration",
         NEW v \in Address, NEW k \in PositionKinds,
         NEW amount \in Nat, NEW r2 \in LooseResolution,
         r2.eligible_total = r.eligible_total + amount,
         r2.agree_weight = r.agree_weight,
         r2.disagree_weight = r.disagree_weight,
         NEW q \in Position, q.amount = p[v].amount + amount,
         q.agrees_with_outcome = "none"
  PROVE  RoundOK(a, r2, [p EXCEPT ![v] = q])
<1> DEFINE t == [p EXCEPT ![v] = q]
<1>1. /\ a \in AssertionV2 /\ r \in LooseResolution /\ p \in [Address -> Position]
      /\ PartiesOK(a) /\ CauseOK(a) /\ ScopeOK(a, r, p) /\ TalliesOK(r, p)
  BY DEF RoundOK
<1>2. /\ r.agree_weight = 0 /\ r.disagree_weight = 0
      /\ \A u \in Address : p[u].agrees_with_outcome = "none"
  BY <1>1 DEF ScopeOK
<1>3. a.disputer # NoAddress
  BY <1>1 DEF PartiesOK
<1>4. t \in [Address -> Position] /\ t[v] = q
      /\ \A u \in Address : t[u].agrees_with_outcome = "none"
  BY <1>1, <1>2
<1>5. Total(StakeOf(t)) = Total(StakeOf(p)) - p[v].amount + q.amount
  BY <1>1, StakeUpdate
<1>6. \A side \in {"agree", "disagree"} :
        Total(SideOf(t, side)) = Total(SideOf(p, side)) - Shown(p[v], side)
                                  + Shown(q, side)
  BY <1>1, SideUpdate
<1>7. \A side \in {"agree", "disagree"} : Shown(p[v], side) = 0 /\ Shown(q, side) = 0
  BY <1>2 DEF Shown
<1> HIDE DEF t
<1>8. TalliesOK(r2, t)
  <2>1. p[v].amount \in Nat
    BY <1>1 DEF Position
  <2>2. Total(StakeOf(t)) = Total(StakeOf(p)) + amount
    BY <1>1, <1>5, <2>1, RevealedWithinStake
  <2>3. /\ Total(SideOf(t, "agree")) = Total(SideOf(p, "agree"))
        /\ Total(SideOf(t, "disagree")) = Total(SideOf(p, "disagree"))
    BY <1>1, <1>6, <1>7, RevealedWithinStake
  <2> QED
    BY <1>1, <2>2, <2>3 DEF TalliesOK
<1>9. ScopeOK(a, r2, t)
  BY <1>2, <1>3, <1>4 DEF ScopeOK
<1> QED
  BY <1>1, <1>4, <1>8, <1>9 DEF RoundOK, t

\* The dispute funds exactly the two parties' positions.
LEMMA DisputeResult ==
  ASSUME NEW a, NEW r, NEW p, RoundOK(a, r, p), a.phase = "Pending",
         NEW v \in Address, v # a.asserter,
         NEW r2 \in LooseResolution, NEW bond \in Nat,
         r2.eligible_total = bond * 2,
         r2.agree_weight = 0, r2.disagree_weight = 0
  PROVE  RoundOK([a EXCEPT !.disputer = v, !.phase = "Registration"], r2,
                 [p EXCEPT ![a.asserter] = FixedPosition("FixedFor", bond),
                           ![v] = FixedPosition("FixedAgainst", bond)])
<1> DEFINE fund == a.asserter
           x == FixedPosition("FixedFor", bond)
           y == FixedPosition("FixedAgainst", bond)
           q == [p EXCEPT ![fund] = x]
           t == [q EXCEPT ![v] = y]
           b == [a EXCEPT !.disputer = v, !.phase = "Registration"]
<1>1. /\ a \in AssertionV2 /\ r \in LooseResolution /\ p \in [Address -> Position]
      /\ PartiesOK(a) /\ CauseOK(a) /\ ScopeOK(a, r, p) /\ TalliesOK(r, p)
  BY DEF RoundOK
<1>2. fund \in Address /\ fund # v /\ a.disputer = NoAddress
  BY <1>1 DEF PartiesOK
<1>3. \A u \in Address : p[u] = NoPosition
  BY <1>1, <1>2 DEF ScopeOK
<1>4. /\ x \in Position /\ x.amount = bond /\ x.agrees_with_outcome = "none"
      /\ y \in Position /\ y.amount = bond /\ y.agrees_with_outcome = "none"
  BY DEF FixedPosition, NoPosition, Position, PositionKinds, Sides
<1>5. b \in AssertionV2 /\ PartiesOK(b) /\ CauseOK(b) /\ b.disputer # NoAddress
  <2>1. /\ b \in AssertionV2 /\ b.phase = "Registration" /\ b.disputer = v
        /\ b.asserter = fund /\ b.policy = a.policy
        /\ b.terminal_cause = a.terminal_cause
    BY <1>1 DEF AssertionV2, Phases
  <2>2. v # NoAddress
    BY AddressAssumption
  <2> HIDE DEF b
  <2>3. PartiesOK(b)
    BY <1>1, <1>2, <2>1, <2>2 DEF PartiesOK
  <2>4. CauseOK(b)
    BY <1>1, <2>1, <2>2 DEF CauseOK
  <2> QED
    BY <2>1, <2>2, <2>3, <2>4
<1>6. [p EXCEPT ![a.asserter] = FixedPosition("FixedFor", bond),
                ![v] = FixedPosition("FixedAgainst", bond)] = t
  OBVIOUS
<1> HIDE DEF x, y, fund, b
<1>7. /\ q \in [Address -> Position] /\ q[v] = NoPosition
      /\ \A u \in Address : q[u].agrees_with_outcome = "none"
  <2>1. q \in [Address -> Position] /\ q[v] = p[v]
    BY <1>1, <1>2, <1>4
  <2>2. \A u \in Address : q[u] = IF u = fund THEN x ELSE p[u]
    BY <1>1, <1>2
  <2>3. NoPosition.agrees_with_outcome = "none"
    BY DEF NoPosition
  <2> HIDE DEF q
  <2> QED
    BY <1>3, <1>4, <2>1, <2>2, <2>3
<1>8. Total(StakeOf(q)) = Total(StakeOf(p)) - p[fund].amount + bond
  BY <1>1, <1>2, <1>4, StakeUpdate
<1> HIDE DEF q
<1>9. t \in [Address -> Position]
       /\ \A u \in Address : t[u].agrees_with_outcome = "none"
  BY <1>4, <1>7
<1>10. Total(StakeOf(t)) = Total(StakeOf(q)) - q[v].amount + bond
  BY <1>4, <1>7, StakeUpdate
<1> HIDE DEF t
<1>11. TalliesOK(r2, t)
  <2>2. Total(StakeOf(p)) = 0
    <3>1. StakeOf(p) \in [Address -> Nat]
      BY <1>1, StakeType
    <3>2. \A u \in Address : StakeOf(p)[u] = 0
      BY <1>3 DEF StakeOf, NoPosition
    <3> QED
      BY <3>1, <3>2, TotalOfZero
  <2>3. \A side \in {"agree", "disagree"} : Total(SideOf(t, side)) = 0
    <3>1. \A side \in {"agree", "disagree"} :
            /\ SideOf(t, side) \in [Address -> Nat]
            /\ \A u \in Address : SideOf(t, side)[u] = 0
      BY <1>9, StakeType DEF SideOf, Shown
    <3> QED
      BY <3>1, TotalOfZero
  <2>4. p[fund].amount = 0 /\ q[v].amount = 0
    BY <1>2, <1>3, <1>7 DEF NoPosition
  <2>5. Total(StakeOf(t)) = bond * 2
    BY <1>8, <1>10, <2>2, <2>4
  <2> QED
    BY <2>3, <2>5 DEF TalliesOK
<1>12. ScopeOK(b, r2, t)
  BY <1>5, <1>9 DEF ScopeOK
<1> QED
  BY <1>5, <1>6, <1>11, <1>12, <1>9 DEF RoundOK, b, fund, x, y, q, t

\* Marking a position as settled moves no weight.
LEMMA SettleResult ==
  ASSUME NEW a, NEW r, NEW p, RoundOK(a, r, p), a.phase = "Resolved",
         NEW v \in Address, p[v].kind # "None",
         NEW r2 \in LooseResolution, r2.eligible_total = r.eligible_total,
         r2.agree_weight = r.agree_weight, r2.disagree_weight = r.disagree_weight
  PROVE  RoundOK(a, r2, [p EXCEPT ![v] = [p[v] EXCEPT !.settled = TRUE]])
<1> DEFINE w == [p[v] EXCEPT !.settled = TRUE]
           q == [p EXCEPT ![v] = w]
<1>1. /\ a \in AssertionV2 /\ r \in LooseResolution /\ p \in [Address -> Position]
      /\ PartiesOK(a) /\ CauseOK(a) /\ ScopeOK(a, r, p) /\ TalliesOK(r, p)
  BY DEF RoundOK
<1>2. /\ w \in Position /\ w.amount = p[v].amount
      /\ w.agrees_with_outcome = p[v].agrees_with_outcome
  BY <1>1 DEF Position
<1> HIDE DEF w
<1>3. Total(StakeOf(q)) = Total(StakeOf(p)) - p[v].amount + w.amount
  BY <1>1, <1>2, StakeUpdate
<1>4. \A side \in {"agree", "disagree"} :
        Total(SideOf(q, side)) = Total(SideOf(p, side)) - Shown(p[v], side)
                                  + Shown(w, side)
  BY <1>1, <1>2, SideUpdate
<1>5. \A side \in {"agree", "disagree"} :
        Shown(w, side) = Shown(p[v], side) /\ Shown(w, side) \in Nat
  BY <1>2 DEF Shown, Position
<1>6. q \in [Address -> Position]
  BY <1>1, <1>2
<1> HIDE DEF q
<1>7. TalliesOK(r2, q)
  <2>1. Total(StakeOf(q)) = Total(StakeOf(p))
    <3>1. w.amount \in Nat
      BY <1>2 DEF Position
    <3> QED
      BY <1>1, <1>2, <1>3, <3>1, RevealedWithinStake
  <2>2. /\ Total(SideOf(q, "agree")) = Total(SideOf(p, "agree"))
        /\ Total(SideOf(q, "disagree")) = Total(SideOf(p, "disagree"))
    BY <1>1, <1>4, <1>5, RevealedWithinStake
  <2> QED
    BY <1>1, <2>1, <2>2 DEF TalliesOK
<1>8. ScopeOK(a, r2, q)
  BY <1>1 DEF ScopeOK, NoPosition
<1> QED
  BY <1>1, <1>6, <1>7, <1>8 DEF RoundOK, q, w

\* What the contract records of a round keeps making sense when only the
\* assertion's record changes and no position is opened.
LEMMA AssertionResult ==
  ASSUME NEW a, NEW r, NEW p, RoundOK(a, r, p), NEW b \in AssertionV2,
         PartiesOK(b), CauseOK(b), b.disputer = a.disputer,
         b.phase # "Registration"
  PROVE  RoundOK(b, r, p)
BY DEF RoundOK, ScopeOK

\* A handler that rewrites one round leaves the others consistent.
LEMMA OneRound ==
  ASSUME StructureInv, NEW id \in Ids, NEW x, NEW y, NEW z,
         assertion' = [assertion EXCEPT ![id] = x],
         resolution' = [resolution EXCEPT ![id] = y],
         position' = [position EXCEPT ![id] = z],
         RoundOK(x, y, z)
  PROVE  /\ assertion' \in [Ids -> AssertionV2]
         /\ resolution' \in [Ids -> LooseResolution]
         /\ position' \in [Ids -> [Address -> Position]]
         /\ \A i \in Ids : RoundOK(assertion'[i], resolution'[i], position'[i])
         /\ \A i \in Ids : i # id => assertion'[i] = assertion[i]
<1>1. x \in AssertionV2 /\ y \in LooseResolution /\ z \in [Address -> Position]
  BY DEF RoundOK
<1>2. /\ assertion \in [Ids -> AssertionV2]
      /\ resolution \in [Ids -> LooseResolution]
      /\ position \in [Ids -> [Address -> Position]]
      /\ \A i \in Ids : RoundOK(assertion[i], resolution[i], position[i])
  BY DEF StructureInv, Shape
<1>3. ASSUME NEW i \in Ids
      PROVE  RoundOK(assertion'[i], resolution'[i], position'[i])
  <2>1. CASE i = id
    <3>1. assertion'[i] = x /\ resolution'[i] = y /\ position'[i] = z
      BY <1>2, <2>1
    <3> QED
      BY <3>1
  <2>2. CASE i # id
    <3>1. /\ assertion'[i] = assertion[i] /\ resolution'[i] = resolution[i]
          /\ position'[i] = position[i]
      BY <1>2, <2>2
    <3> QED
      BY <1>2, <3>1
  <2> QED
    BY <2>1, <2>2
<1>4. /\ assertion' \in [Ids -> AssertionV2]
      /\ \A i \in Ids : i # id => assertion'[i] = assertion[i]
  BY <1>1, <1>2
<1>5. resolution' \in [Ids -> LooseResolution]
  BY <1>1, <1>2
<1>6. position' \in [Ids -> [Address -> Position]]
  BY <1>1, <1>2
<1> QED
  BY <1>3, <1>4, <1>5, <1>6

-----------------------------------------------------------------------------
(* Each action preserves StructureInv.                                     *)

LEMMA DivisionType ==
  ASSUME NEW x \in Int, NEW y \in Nat, y > 0
  PROVE  x \div y \in Int
OBVIOUS

\* An accepted policy has a positive bond, and the finalizer's reward is a
\* part of it.
LEMMA PolicyFacts ==
  ASSUME NEW p \in CandidatePolicies, ValidPolicy(p)
  PROVE  /\ p.base_bond \in Nat /\ p.base_bond > 0
         /\ FinalizeReward(p) \in Nat /\ AsserterRest(p) \in Nat
         /\ FinalizeReward(p) + AsserterRest(p) = p.base_bond
         /\ p.registration_duration_secs \in Nat
         /\ p.anti_snipe_extension_secs \in Nat
         /\ p.anti_snipe_hard_max_secs \in Nat
         /\ p.reveal_duration_secs \in Nat
<1>1. p \in PolicyArgs
  BY PolicyAssumption
<1>2. /\ p.base_bond \in Nat /\ p.base_bond > 0
      /\ p.finalize_reward_bps \in Nat /\ p.finalize_reward_bps <= 1000
      /\ p.registration_duration_secs \in Nat
      /\ p.anti_snipe_extension_secs \in Nat
      /\ p.anti_snipe_hard_max_secs \in Nat
      /\ p.reveal_duration_secs \in Nat
  BY <1>1 DEF PolicyArgs, ValidPolicy, MaxFinalizeRewardBps
<1> DEFINE b == p.base_bond
           f == p.finalize_reward_bps
<1>3. b \in Nat /\ f \in Nat /\ f <= 1000
  BY <1>2
<1> HIDE DEF b, f
<1>4. b * f \in Nat /\ b * f <= b * 1000
  BY <1>3
<1>5. (b * f) \div 10000 \in Nat /\ (b * f) \div 10000 <= b
  BY <1>3, <1>4
<1>6. FinalizeReward(p) = (b * f) \div 10000 /\ AsserterRest(p) = b - FinalizeReward(p)
  BY DEF FinalizeReward, AsserterRest, b, f
<1>7. /\ FinalizeReward(p) \in Nat /\ AsserterRest(p) \in Nat
      /\ FinalizeReward(p) + AsserterRest(p) = b
  BY <1>3, <1>5, <1>6
<1> QED
  BY <1>2, <1>7 DEF b

LEMMA InitStructure == Init => StructureInv
<1> SUFFICES ASSUME Init PROVE StructureInv
  OBVIOUS
<1>1. NoAssertion \in AssertionV2 /\ NoAssertion.phase = "Absent"
      /\ NoAssertion.disputer = NoAddress
      /\ NoAssertion.terminal_cause = "NotYetDecided"
  BY DEF NoAssertion, AssertionV2, Phases, Outcomes, TerminalCauses
<1>2. NoResolution \in LooseResolution /\ NoResolution.eligible_total = 0
      /\ NoResolution.agree_weight = 0 /\ NoResolution.disagree_weight = 0
  BY DEF NoResolution, LooseResolution
<1>3. NoPosition \in Position /\ NoPosition.amount = 0
  BY DEF NoPosition, Position, PositionKinds, Sides
<1>4. Shape
  <2>1. /\ assertion \in [Ids -> AssertionV2]
        /\ resolution \in [Ids -> LooseResolution]
        /\ position \in [Ids -> [Address -> Position]]
        /\ credit \in [Ids -> [Address -> Int]]
        /\ paid \in [Ids -> [Address -> Nat]]
        /\ \A id \in Ids : assertion[id].phase = "Absent"
    BY <1>1, <1>2, <1>3 DEF Init, NoWeight
  <2>2. /\ now = 0 /\ admin \in AdminKeys /\ paused \in BOOLEAN
        /\ policy = NoPolicy /\ next_id = 0 /\ custody = 0
    BY DEF Init
  <2>3. 0 <= MaxTime /\ 0 \in 0..MaxAssertions
    BY BoundAssumption
  <2> QED
    BY <2>1, <2>2, <2>3 DEF Shape
<1>5. ASSUME NEW id \in Ids
      PROVE  RoundOK(assertion[id], resolution[id], position[id])
  <2> DEFINE p == [v \in Address |-> NoPosition]
  <2>1. assertion[id] = NoAssertion /\ resolution[id] = NoResolution /\ position[id] = p
    BY DEF Init
  <2>2. p \in [Address -> Position] /\ \A v \in Address : p[v] = NoPosition
    BY <1>3
  <2> HIDE DEF p
  <2>3. PartiesOK(NoAssertion) /\ CauseOK(NoAssertion)
    BY <1>1 DEF PartiesOK, CauseOK
  <2>4. ScopeOK(NoAssertion, NoResolution, p)
    BY <1>1, <2>2 DEF ScopeOK
  <2>5. TalliesOK(NoResolution, p)
    <3>1. /\ StakeOf(p) \in [Address -> Nat]
          /\ \A u \in Address : StakeOf(p)[u] = 0
      BY <1>3, <2>2, StakeType DEF StakeOf
    <3>2. \A side \in {"agree", "disagree"} :
            /\ SideOf(p, side) \in [Address -> Nat]
            /\ \A u \in Address : SideOf(p, side)[u] = 0
      BY <1>3, <2>2, StakeType DEF SideOf, Shown
    <3>3. Total(StakeOf(p)) = 0
      BY <3>1, TotalOfZero
    <3>4. \A side \in {"agree", "disagree"} : Total(SideOf(p, side)) = 0
      BY <3>2, TotalOfZero
    <3> QED
      BY <1>2, <3>3, <3>4 DEF TalliesOK
  <2> QED
    BY <1>1, <1>2, <2>1, <2>2, <2>3, <2>4, <2>5 DEF RoundOK
<1> QED
  BY <1>4, <1>5 DEF StructureInv

LEMMA DeploymentStructure ==
  ASSUME StructureInv,
         \/ \E k \in AdminKeys, p \in CandidatePolicies : Initialize(k, p)
         \/ \E k \in AdminKeys, n \in AdminKeys : SetAdmin(k, n)
         \/ \E k \in AdminKeys, b \in BOOLEAN : SetPaused(k, b)
         \/ Tick
  PROVE  StructureInv'
<1>1. /\ assertion' = assertion /\ resolution' = resolution
      /\ position' = position /\ credit' = credit
      /\ custody' = custody /\ paid' = paid /\ next_id' = next_id
  <2>1. policy = NoPolicy => next_id = 0
    BY DEF StructureInv, Shape
  <2> QED
    BY <2>1 DEF Initialize, SetAdmin, SetPaused, Tick
<1>2. /\ now' \in Nat /\ now' <= MaxTime
      /\ admin' \in AdminKeys /\ paused' \in BOOLEAN
      /\ policy' \in CandidatePolicies \cup {NoPolicy}
      /\ policy' # NoPolicy => ValidPolicy(policy')
      /\ policy' = NoPolicy => policy = NoPolicy
  <2>1. Shape
    BY DEF StructureInv
  <2>2. CASE \E k \in AdminKeys, p \in CandidatePolicies : Initialize(k, p)
    <3>1. PICK k \in AdminKeys, p \in CandidatePolicies : Initialize(k, p)
      BY <2>2
    <3>2. now' = now /\ admin' = admin /\ paused' = FALSE /\ policy' = p /\ ValidPolicy(p)
      BY <3>1 DEF Initialize
    <3> QED
      BY <2>1, <3>2, PolicyAssumption DEF Shape
  <2>3. CASE \E k \in AdminKeys, n \in AdminKeys : SetAdmin(k, n)
    BY <2>1, <2>3 DEF Shape, SetAdmin
  <2>4. CASE \E k \in AdminKeys, b \in BOOLEAN : SetPaused(k, b)
    BY <2>1, <2>4 DEF Shape, SetPaused
  <2>5. CASE Tick
    <3>1. /\ now' = now + 1 /\ now < MaxTime
          /\ admin' = admin /\ paused' = paused /\ policy' = policy
      BY <2>5 DEF Tick, deployment
    <3>2. now + 1 \in Nat /\ now + 1 <= MaxTime
      BY <2>1, <3>1, BoundAssumption DEF Shape
    <3> QED
      BY <2>1, <3>1, <3>2 DEF Shape
  <2> QED
    BY <2>2, <2>3, <2>4, <2>5
<1>3. Shape'
  BY <1>1, <1>2 DEF StructureInv, Shape
<1>4. \A id \in Ids : RoundOK(assertion'[id], resolution'[id], position'[id])
  BY <1>1 DEF StructureInv
<1> QED
  BY <1>3, <1>4 DEF StructureInv

LEMMA AssertOutcomeStructure ==
  ASSUME StructureInv, NEW v \in Address, NEW o \in Outcomes, AssertOutcome(v, o)
  PROVE  StructureInv'
<1> DEFINE b == [NoAssertion EXCEPT !.phase = "Pending", !.asserter = v,
                           !.opened_at = now, !.outcome = o, !.policy = policy]
<1>1. Shape /\ \A id \in Ids : RoundOK(assertion[id], resolution[id], position[id])
  BY DEF StructureInv
<1>2. /\ policy \in CandidatePolicies /\ ValidPolicy(policy)
      /\ next_id \in Ids /\ next_id + 1 \in 0..MaxAssertions
      /\ now \in Nat
  BY <1>1, BoundAssumption DEF Shape, AssertOutcome, Ids
<1>3. /\ b \in AssertionV2 /\ b.phase = "Pending" /\ b.asserter = v
      /\ b.policy = policy /\ b.disputer = NoAddress
      /\ b.terminal_cause = "NotYetDecided"
  BY <1>2 DEF NoAssertion, AssertionV2, Phases, Outcomes, TerminalCauses
<1> HIDE DEF b
<1>4. PartiesOK(b) /\ CauseOK(b)
  BY <1>2, <1>3 DEF PartiesOK, CauseOK
<1>5. assertion[next_id].phase = "Absent" /\ assertion[next_id].disputer = NoAddress
  <2>1. assertion[next_id].phase = "Absent"
    BY <1>1, <1>2 DEF Shape, Ids
  <2>2. RoundOK(assertion[next_id], resolution[next_id], position[next_id])
    BY <1>1, <1>2
  <2> QED
    BY <2>1, <2>2 DEF RoundOK, PartiesOK
<1>6. RoundOK(b, resolution[next_id], position[next_id])
  <2>1. RoundOK(assertion[next_id], resolution[next_id], position[next_id])
    BY <1>1, <1>2
  <2> QED
    BY <1>3, <1>4, <1>5, <2>1, AssertionResult
<1>7. /\ assertion' = [assertion EXCEPT ![next_id] = b]
      /\ resolution' = [resolution EXCEPT ![next_id] = resolution[next_id]]
      /\ position' = [position EXCEPT ![next_id] = position[next_id]]
  BY <1>1, <1>2 DEF AssertOutcome, Shape, b
<1>8. /\ assertion' \in [Ids -> AssertionV2]
      /\ resolution' \in [Ids -> LooseResolution]
      /\ position' \in [Ids -> [Address -> Position]]
      /\ \A i \in Ids : RoundOK(assertion'[i], resolution'[i], position'[i])
      /\ \A i \in Ids : i # next_id => assertion'[i] = assertion[i]
  BY <1>2, <1>6, <1>7, OneRound
<1>9. Shape'
  <2>1. /\ now' = now /\ admin' = admin /\ paused' = paused /\ policy' = policy
        /\ next_id' = next_id + 1 /\ credit' = credit /\ paid' = paid
        /\ custody' = custody + policy.base_bond /\ policy # NoPolicy
    BY DEF AssertOutcome, deployment
  <2>2. custody' \in Nat
    BY <1>1, <1>2, <2>1, PolicyFacts DEF Shape
  <2>3. \A i \in Ids : i >= next_id' => assertion'[i].phase = "Absent"
    <3>1. \A i \in Ids : i >= next_id + 1 => i # next_id /\ i >= next_id
      BY <1>2 DEF Ids
    <3> QED
      BY <1>1, <1>8, <2>1, <3>1 DEF Shape
  <2> QED
    BY <1>1, <1>2, <1>8, <2>1, <2>2, <2>3 DEF Shape
<1> QED
  BY <1>8, <1>9 DEF StructureInv

\* A step that rewrites one posted round, money apart.
LEMMA RoundShape ==
  ASSUME StructureInv, NEW id \in Ids, NEW x, NEW y, NEW z,
         assertion' = [assertion EXCEPT ![id] = x],
         resolution' = [resolution EXCEPT ![id] = y],
         position' = [position EXCEPT ![id] = z],
         RoundOK(x, y, z), assertion[id].phase = "Absent" => x = assertion[id],
         UNCHANGED <<now, admin, paused, policy, next_id>>,
         credit' \in [Ids -> [Address -> Int]], custody' \in Nat,
         paid' \in [Ids -> [Address -> Nat]]
  PROVE  StructureInv'
<1>1. /\ assertion' \in [Ids -> AssertionV2]
      /\ resolution' \in [Ids -> LooseResolution]
      /\ position' \in [Ids -> [Address -> Position]]
      /\ \A i \in Ids : RoundOK(assertion'[i], resolution'[i], position'[i])
      /\ \A i \in Ids : i # id => assertion'[i] = assertion[i]
  BY OneRound
<1>2. Shape
  BY DEF StructureInv
<1>3. \A i \in Ids : i >= next_id' => assertion'[i].phase = "Absent"
  <2>1. assertion[id].phase = "Absent" => assertion'[id] = assertion[id]
    BY <1>2 DEF Shape
  <2> QED
    BY <1>1, <1>2, <2>1 DEF Shape
<1>4. Shape'
  BY <1>1, <1>2, <1>3 DEF Shape
<1> QED
  BY <1>1, <1>4 DEF StructureInv

LEMMA FinalizeStructure ==
  ASSUME StructureInv, NEW v \in Address, NEW id \in Ids, Finalize(v, id)
  PROVE  StructureInv'
<1> DEFINE a == assertion[id]
           b == [a EXCEPT !.phase = "Resolved",
                          !.terminal_cause = "UncontestedFinalize",
                          !.final_outcome = a.outcome]
           reward == FinalizeReward(a.policy)
           rest == AsserterRest(a.policy)
<1>1. Shape /\ RoundOK(a, resolution[id], position[id])
  BY DEF StructureInv
<1>2. /\ a \in AssertionV2 /\ PartiesOK(a) /\ CauseOK(a) /\ a.phase = "Pending"
  BY <1>1 DEF RoundOK, Finalize
<1>3. /\ a.asserter \in Address /\ a.disputer = NoAddress
      /\ reward \in Nat /\ rest \in Nat
      /\ reward + rest = a.policy.base_bond /\ a.policy.base_bond \in Nat
  BY <1>2, PolicyFacts DEF PartiesOK
<1>4. RoundOK(b, resolution[id], position[id])
  <2>1. /\ b \in AssertionV2 /\ b.phase = "Resolved"
        /\ b.terminal_cause = "UncontestedFinalize"
        /\ b.asserter = a.asserter /\ b.disputer = a.disputer /\ b.policy = a.policy
    BY <1>2 DEF AssertionV2, Phases, TerminalCauses
  <2> HIDE DEF b
  <2>2. PartiesOK(b) /\ CauseOK(b)
    BY <1>2, <1>3, <2>1 DEF PartiesOK, CauseOK
  <2> QED
    BY <1>1, <2>1, <2>2, AssertionResult
<1>5. /\ assertion' = [assertion EXCEPT ![id] = b]
      /\ resolution' = [resolution EXCEPT ![id] = resolution[id]]
      /\ position' = [position EXCEPT ![id] = position[id]]
  BY <1>1 DEF Finalize, Shape
<1>6. custody' \in Nat
  <2>1. custody' = custody - reward - rest /\ custody >= a.policy.base_bond
    BY DEF Finalize
  <2> HIDE DEF reward, rest, a
  <2> QED
    BY <1>1, <1>3, <2>1 DEF Shape
<1>7. paid' \in [Ids -> [Address -> Nat]]
  <2>1. paid' = [paid EXCEPT
                   ![id] = Plus(Plus(paid[id], v, reward), a.asserter, rest)]
    BY DEF Finalize
  <2>2. paid[id] \in [Address -> Nat]
    BY <1>1 DEF Shape
  <2> HIDE DEF reward, rest, a
  <2>3. Plus(paid[id], v, reward) \in [Address -> Nat]
    BY <1>3, <2>2 DEF Plus
  <2>4. Plus(Plus(paid[id], v, reward), a.asserter, rest) \in [Address -> Nat]
    BY <1>3, <2>3 DEF Plus
  <2> QED
    BY <1>1, <2>1, <2>4 DEF Shape
<1>8. credit' = credit /\ UNCHANGED <<now, admin, paused, policy, next_id>>
  BY DEF Finalize, deployment
<1>9. credit' \in [Ids -> [Address -> Int]]
  BY <1>1, <1>8 DEF Shape
<1> QED
  <2> HIDE DEF b
  <2> QED
    BY <1>2, <1>4, <1>5, <1>6, <1>7, <1>8, <1>9, RoundShape

LEMMA CancelRoundStructure ==
  ASSUME StructureInv, NEW k \in AdminKeys, NEW id \in Ids, CancelRound(k, id)
  PROVE  StructureInv'
<1> DEFINE a == assertion[id]
           b == [a EXCEPT !.phase = "Resolved", !.terminal_cause = "AdminCancelled"]
           refund == IF a.phase = "Pending" THEN a.policy.base_bond ELSE 0
<1>1. Shape /\ RoundOK(a, resolution[id], position[id])
  BY DEF StructureInv
<1>2. /\ a \in AssertionV2 /\ PartiesOK(a) /\ CauseOK(a) /\ a.phase # "Absent"
  BY <1>1 DEF RoundOK, CancelRound, Undecided
<1>3. a.asserter \in Address /\ refund \in Nat
  BY <1>2, PolicyFacts DEF PartiesOK
<1>4. RoundOK(b, resolution[id], position[id])
  <2>1. /\ b \in AssertionV2 /\ b.phase = "Resolved"
        /\ b.terminal_cause = "AdminCancelled"
        /\ b.asserter = a.asserter /\ b.disputer = a.disputer /\ b.policy = a.policy
    BY <1>2 DEF AssertionV2, Phases, TerminalCauses, VoidCauses
  <2> HIDE DEF b
  <2>2. PartiesOK(b) /\ CauseOK(b)
    BY <1>2, <1>3, <2>1 DEF PartiesOK, CauseOK
  <2> QED
    BY <1>1, <2>1, <2>2, AssertionResult
<1>5. /\ assertion' = [assertion EXCEPT ![id] = b]
      /\ resolution' = [resolution EXCEPT ![id] = resolution[id]]
      /\ position' = [position EXCEPT ![id] = position[id]]
  BY <1>1 DEF CancelRound, Shape
<1>6. custody' \in Nat
  <2>1. custody' = custody - refund /\ custody >= refund
    BY DEF CancelRound
  <2> HIDE DEF refund
  <2> QED
    BY <1>1, <1>3, <2>1 DEF Shape
<1>7. paid' \in [Ids -> [Address -> Nat]]
  <2>1. paid' = [paid EXCEPT ![id] = Plus(@, a.asserter, refund)]
    BY DEF CancelRound
  <2>2. paid \in [Ids -> [Address -> Nat]] /\ paid[id] \in [Address -> Nat]
    BY <1>1 DEF Shape
  <2> HIDE DEF refund, a
  <2>3. Plus(paid[id], a.asserter, refund) \in [Address -> Nat]
    BY <1>3, <2>2 DEF Plus
  <2> QED
    BY <2>1, <2>2, <2>3
<1>8. credit' = credit /\ UNCHANGED <<now, admin, paused, policy, next_id>>
  BY DEF CancelRound, deployment
<1>9. credit' \in [Ids -> [Address -> Int]]
  BY <1>1, <1>8 DEF Shape
<1> QED
  <2> HIDE DEF b
  <2> QED
    BY <1>2, <1>4, <1>5, <1>6, <1>7, <1>8, <1>9, RoundShape

LEMMA DisputeStructure ==
  ASSUME StructureInv, NEW v \in Address, NEW id \in Ids, Dispute(v, id)
  PROVE  StructureInv'
<1> DEFINE a == assertion[id]
           bond == a.policy.base_bond
           b == [a EXCEPT !.disputer = v, !.phase = "Registration"]
           r == [NoResolution EXCEPT
                  !.registration_opened_at = now,
                  !.registration_deadline = now + a.policy.registration_duration_secs,
                  !.registration_hard_deadline = now + a.policy.anti_snipe_hard_max_secs,
                  !.eligible_total = bond * 2]
           t == [position[id] EXCEPT
                  ![a.asserter] = FixedPosition("FixedFor", bond),
                  ![v] = FixedPosition("FixedAgainst", bond)]
<1>1. Shape /\ RoundOK(a, resolution[id], position[id])
  BY DEF StructureInv
<1>2. /\ a.phase = "Pending" /\ v # a.asserter
      /\ a.policy \in CandidatePolicies /\ ValidPolicy(a.policy)
  BY <1>1 DEF RoundOK, PartiesOK, Dispute
<1>3. /\ bond \in Nat /\ bond * 2 \in Nat /\ now \in Nat
      /\ now + a.policy.registration_duration_secs \in Nat
      /\ now + a.policy.anti_snipe_hard_max_secs \in Nat
  BY <1>1, <1>2, PolicyFacts DEF Shape
<1>4. /\ r \in LooseResolution /\ r.eligible_total = bond * 2
      /\ r.agree_weight = 0 /\ r.disagree_weight = 0
  <2> DEFINE open == now + a.policy.registration_duration_secs
             hard == now + a.policy.anti_snipe_hard_max_secs
             total == bond * 2
  <2>1. open \in Nat /\ hard \in Nat /\ total \in Nat /\ now \in Nat
    BY <1>3
  <2> HIDE DEF open, hard, total
  <2>2. r = [NoResolution EXCEPT !.registration_opened_at = now,
                                 !.registration_deadline = open,
                                 !.registration_hard_deadline = hard,
                                 !.eligible_total = total]
    BY DEF open, hard, total
  <2>3. /\ NoResolution \in LooseResolution
        /\ NoResolution.agree_weight = 0 /\ NoResolution.disagree_weight = 0
    BY DEF NoResolution, LooseResolution
  <2> DEFINE none == NoResolution
  <2> HIDE DEF none, r
  <2>4. none \in LooseResolution /\ none.agree_weight = 0 /\ none.disagree_weight = 0
    BY <2>3 DEF none
  <2>5. r = [none EXCEPT !.registration_opened_at = now,
                         !.registration_deadline = open,
                         !.registration_hard_deadline = hard,
                         !.eligible_total = total]
    BY <2>2 DEF none
  <2>6. r \in LooseResolution /\ r.eligible_total = total
        /\ r.agree_weight = 0 /\ r.disagree_weight = 0
    BY <2>1, <2>4, <2>5 DEF LooseResolution
  <2> QED
    BY <2>6 DEF total
<1>5. /\ assertion' = [assertion EXCEPT ![id] = b]
      /\ resolution' = [resolution EXCEPT ![id] = r]
      /\ position' = [position EXCEPT ![id] = t]
      /\ custody' = custody + bond /\ credit' = credit /\ paid' = paid
      /\ UNCHANGED <<now, admin, paused, policy, next_id>>
  BY DEF Dispute, deployment
<1> HIDE DEF r, bond
<1>6. RoundOK(b, r, t)
  BY <1>1, <1>2, <1>3, <1>4, DisputeResult
<1>7. /\ custody' \in Nat /\ credit' \in [Ids -> [Address -> Int]]
      /\ paid' \in [Ids -> [Address -> Nat]] /\ a.phase # "Absent"
  BY <1>1, <1>2, <1>3, <1>5 DEF Shape
<1> HIDE DEF b, t
<1> QED
  BY <1>5, <1>6, <1>7, RoundShape

LEMMA RegisterStructure ==
  ASSUME StructureInv, NEW v \in Address, NEW id \in Ids, NEW amount \in Deposits,
         NEW o \in Outcomes, Register(v, id, amount, o)
  PROVE  StructureInv'
<1> DEFINE a == assertion[id]
           r == resolution[id]
           p == position[id]
           total == TotalAfter(r, p[v].amount, p[v].amount + amount)
           q == [NoPosition EXCEPT !.amount = p[v].amount + amount,
                                   !.kind = CommitTo(o)]
           r2 == [r EXCEPT !.registration_deadline = ExtendedDeadline(a.policy, r),
                           !.eligible_total = total]
           t == [p EXCEPT ![v] = q]
<1>1. /\ Shape /\ RoundOK(a, r, p) /\ a \in AssertionV2 /\ r \in LooseResolution
      /\ p \in [Address -> Position]
  BY DEF StructureInv, RoundOK
<1>2. /\ a.phase = "Registration" /\ amount \in Nat /\ now \in Nat
      /\ a.policy \in CandidatePolicies /\ ValidPolicy(a.policy)
  BY <1>1, BoundAssumption DEF RoundOK, PartiesOK, Register, Shape
<1>3. /\ p[v].amount \in Nat /\ p[v].amount + amount \in Nat
      /\ r.eligible_total \in Nat /\ r.registration_deadline \in Nat
      /\ r.registration_hard_deadline \in Nat
  BY <1>1, <1>2 DEF Position, LooseResolution
<1>4. total = r.eligible_total + amount
  BY <1>2, <1>3 DEF TotalAfter
<1>5. ExtendedDeadline(a.policy, r) \in Nat
  <2>1. a.policy.anti_snipe_extension_secs \in Nat
    BY <1>2, PolicyFacts
  <2>2. now + a.policy.anti_snipe_extension_secs \in Nat
    BY <1>2, <2>1
  <2> QED
    BY <1>3, <2>2 DEF ExtendedDeadline, AtMost
<1>6. /\ q \in Position /\ q.amount = p[v].amount + amount
      /\ q.agrees_with_outcome = "none"
  BY <1>3 DEF NoPosition, Position, PositionKinds, Sides, CommitTo
<1>7. /\ assertion' = [assertion EXCEPT ![id] = a]
      /\ resolution' = [resolution EXCEPT ![id] = r2]
      /\ position' = [position EXCEPT ![id] = t]
      /\ custody' = custody + amount /\ credit' = credit /\ paid' = paid
      /\ UNCHANGED <<now, admin, paused, policy, next_id>>
  BY <1>1 DEF Register, deployment, Shape
<1>8. /\ r2 \in LooseResolution /\ r2.eligible_total = r.eligible_total + amount
      /\ r2.agree_weight = r.agree_weight /\ r2.disagree_weight = r.disagree_weight
  <2>1. total \in Nat
    BY <1>2, <1>3, <1>4
  <2> HIDE DEF total
  <2> QED
    BY <1>1, <1>4, <1>5, <2>1 DEF LooseResolution
<1>9. CommitTo(o) \in PositionKinds
  BY DEF CommitTo, PositionKinds
<1> HIDE DEF q, r2, a, r, p
<1>10. RoundOK(a, r2, t)
  BY <1>1, <1>2, <1>6, <1>8, <1>9, RegisterResult
<1>11. /\ custody' \in Nat /\ credit' \in [Ids -> [Address -> Int]]
       /\ paid' \in [Ids -> [Address -> Nat]]
  BY <1>1, <1>2, <1>7 DEF Shape
<1>12. assertion[id].phase # "Absent"
  BY <1>2 DEF a
<1> HIDE DEF t
<1> QED
  BY <1>7, <1>10, <1>11, <1>12, RoundShape

LEMMA RevealStructure ==
  ASSUME StructureInv, NEW v \in Address, NEW id \in Ids, NEW o \in Outcomes,
         Reveal(v, id, o)
  PROVE  StructureInv'
<1> DEFINE s == RoundInReveal(id)
           side == IF o = s.a.outcome THEN "agree" ELSE "disagree"
           tally == Counted(s.r, side, s.p[v].amount)
           b == CloseRevealIfReady(s.a, tally, FALSE)
           t == ShowAt(s.p, v, side)
<1>1. Shape /\ RoundOK(assertion[id], resolution[id], position[id])
  BY DEF StructureInv
<1>2. RegistrationOver(id) /\ s.p[v].agrees_with_outcome = "none"
  BY DEF Reveal
<1>3. now \in Nat
  BY <1>1 DEF Shape
<1>4. /\ RoundOK(s.a, s.r, s.p)
      /\ s.a.phase \in {"Reveal", "Resolved"} /\ s.a.disputer # NoAddress
  BY <1>1, <1>2, <1>3, LazyOpening
<1>5. side \in {"agree", "disagree"}
  OBVIOUS
<1>6. /\ assertion' = [assertion EXCEPT ![id] = b]
      /\ resolution' = [resolution EXCEPT ![id] = tally]
      /\ position' = [position EXCEPT ![id] = t]
      /\ custody' = custody /\ credit' = credit /\ paid' = paid
      /\ UNCHANGED <<now, admin, paused, policy, next_id>>
  BY DEF Reveal, deployment, ShowAt
<1> HIDE DEF s, side
<1>7. RoundOK(b, tally, t)
  BY <1>2, <1>4, <1>5, RevealResult
<1>8. /\ custody' \in Nat /\ credit' \in [Ids -> [Address -> Int]]
      /\ paid' \in [Ids -> [Address -> Nat]] /\ assertion[id].phase # "Absent"
  BY <1>1, <1>2, <1>6 DEF Shape, RegistrationOver
<1> HIDE DEF b, tally, t
<1> QED
  BY <1>6, <1>7, <1>8, RoundShape

LEMMA ResolveOutcomeStructure ==
  ASSUME StructureInv, NEW id \in Ids, ResolveOutcome(id)
  PROVE  StructureInv'
<1> DEFINE s == RoundInReveal(id)
           b == IF s.a.phase = "Resolved" THEN s.a
                ELSE CloseRevealIfReady(s.a, s.r, TRUE)
<1>1. Shape /\ RoundOK(assertion[id], resolution[id], position[id])
  BY DEF StructureInv
<1>2. RegistrationOver(id)
  BY DEF ResolveOutcome
<1>3. now \in Nat
  BY <1>1 DEF Shape
<1>4. /\ RoundOK(s.a, s.r, s.p)
      /\ s.a.phase \in {"Reveal", "Resolved"} /\ s.a.disputer # NoAddress
  BY <1>1, <1>2, <1>3, LazyOpening
<1>5. /\ assertion' = [assertion EXCEPT ![id] = b]
      /\ resolution' = [resolution EXCEPT ![id] = s.r]
      /\ position' = [position EXCEPT ![id] = s.p]
      /\ custody' = custody /\ credit' = credit /\ paid' = paid
      /\ UNCHANGED <<now, admin, paused, policy, next_id>>
  BY DEF ResolveOutcome, deployment
<1> HIDE DEF s
<1>6. /\ b \in AssertionV2 /\ PartiesOK(b) /\ CauseOK(b) /\ b.phase # "Registration"
      /\ b.disputer = s.a.disputer
  <2>1. CASE s.a.phase = "Resolved"
    BY <1>4, <2>1 DEF RoundOK
  <2>2. CASE s.a.phase # "Resolved"
    <3>1. b = CloseRevealIfReady(s.a, s.r, TRUE)
      BY <2>2
    <3> HIDE DEF b
    <3>2. s.a \in AssertionV2 /\ s.r \in LooseResolution /\ PartiesOK(s.a) /\ CauseOK(s.a)
      BY <1>4 DEF RoundOK
    <3> QED
      BY <1>4, <3>1, <3>2, CloseResult DEF SameClaim
  <2> QED
    BY <2>1, <2>2
<1> HIDE DEF b
<1>7. RoundOK(b, s.r, s.p)
  BY <1>4, <1>6, AssertionResult
<1>8. /\ custody' \in Nat /\ credit' \in [Ids -> [Address -> Int]]
      /\ paid' \in [Ids -> [Address -> Nat]] /\ assertion[id].phase # "Absent"
  BY <1>1, <1>2, <1>5 DEF Shape, RegistrationOver
<1> QED
  BY <1>5, <1>7, <1>8, RoundShape

\* The weight that shares the pool, and the pool, are integers; what a
\* settlement computes is, because its divisor is positive.
LEMMA SettlementTypes ==
  ASSUME NEW id \in Ids, NEW v \in Address,
         resolution[id] \in LooseResolution, position[id] \in [Address -> Position],
         RecipientWeight(assertion[id].terminal_cause, resolution[id]) > 0
  PROVE  LET s == Settlement(id, v) IN
         /\ s.settled_weight
              = resolution[id].settled_recipient_weight + position[id][v].amount
         /\ s.settled_weight \in Nat
         /\ s.rewards \in Int /\ s.dust \in Int /\ s.accrued \in Int
         /\ s.payout \in Int
<1> DEFINE cause == assertion[id].terminal_cause
           r == resolution[id]
           amount == position[id][v].amount
           weight == RecipientWeight(cause, r)
           pool == ForfeitedPool(cause, r)
           reward == Reward(amount, pool, weight)
           settled_weight == r.settled_recipient_weight + amount
           rewards == r.settled_reward_total + reward
           dust == IF pool > 0 /\ IsLast(settled_weight, weight)
                   THEN pool - rewards ELSE 0
           s == Settlement(id, v)
<1>1. /\ r.eligible_total \in Nat /\ r.agree_weight \in Nat
      /\ r.disagree_weight \in Nat /\ r.settled_recipient_weight \in Nat
      /\ r.settled_reward_total \in Int /\ amount \in Nat
  BY DEF LooseResolution, Position
<1>2. weight \in Nat /\ pool \in Int /\ weight > 0
  BY <1>1 DEF RecipientWeight, ForfeitedPool, RevealedWeight
<1>3. s = [weight |-> weight, product |-> amount * pool, payout |-> amount + reward,
           settled_weight |-> settled_weight, rewards |-> rewards, dust |-> dust,
           accrued |-> Accrued(amount, reward, dust)]
  BY DEF Settlement
<1> HIDE DEF weight, pool, amount, r, s
<1>4. amount * pool \in Int
  BY <1>1, <1>2
<1>5. reward \in Int
  BY <1>2, <1>4, DivisionType DEF Reward
<1> HIDE DEF reward
<1>6. settled_weight \in Nat /\ rewards \in Int
  BY <1>1, <1>5
<1> HIDE DEF rewards, settled_weight
<1>7. dust \in Int
  BY <1>2, <1>6
<1> HIDE DEF dust
<1>8. Accrued(amount, reward, dust) \in Int /\ amount + reward \in Int
  BY <1>1, <1>5, <1>7 DEF Accrued
<1>9. /\ s.settled_weight = settled_weight
      /\ s.settled_weight \in Nat /\ s.rewards \in Int /\ s.dust \in Int
      /\ s.accrued \in Int /\ s.payout \in Int
  BY <1>3, <1>6, <1>7, <1>8
<1> QED
  BY <1>9 DEF s, settled_weight, r, amount

\* A dispute's record exists wherever a position does.
LEMMA PositionsAreDisputed ==
  ASSUME NEW a, NEW r, NEW p, RoundOK(a, r, p), NEW v \in Address,
         p[v].kind # "None"
  PROVE  /\ a.disputer \in Address /\ a.asserter \in Address
         /\ DustRecipient(a) \in Address
<1>1. a.disputer # NoAddress
  BY DEF RoundOK, ScopeOK, NoPosition
<1>2. a.disputer \in Address /\ a.asserter \in Address
  BY <1>1 DEF RoundOK, PartiesOK, AssertionV2
<1> QED
  BY <1>2 DEF DustRecipient

LEMMA SettleRecipientStructure ==
  ASSUME StructureInv, NEW v \in Address, NEW id \in Ids, SettleRecipient(id, v)
  PROVE  StructureInv'
<1> DEFINE a == assertion[id]
           r == resolution[id]
           p == position[id]
           s == Settlement(id, v)
           q == [p[v] EXCEPT !.settled = TRUE]
           t == [p EXCEPT ![v] = q]
           owed == r.outstanding_liability + s.accrued
           r2 == [r EXCEPT !.settled_recipient_weight = s.settled_weight,
                           !.settled_reward_total = s.rewards,
                           !.outstanding_liability = owed]
           d == DustRecipient(a)
           c == CreditBoth(credit[id], d, s.dust, v, s.payout)
<1>1. /\ Shape /\ RoundOK(a, r, p) /\ a \in AssertionV2 /\ r \in LooseResolution
      /\ p \in [Address -> Position]
  BY DEF StructureInv, RoundOK
<1>2. a.phase = "Resolved" /\ p[v].kind # "None" /\ RecipientWeight(a.terminal_cause, r) > 0
  BY DEF SettleRecipient, Settleable, SettleInRange
<1>3. /\ assertion' = [assertion EXCEPT ![id] = a]
      /\ resolution' = [resolution EXCEPT ![id] = r2]
      /\ position' = [position EXCEPT ![id] = t]
      /\ credit' = [credit EXCEPT ![id] = c]
      /\ custody' = custody /\ paid' = paid
      /\ UNCHANGED <<now, admin, paused, policy, next_id>>
  BY <1>1 DEF SettleRecipient, deployment, Shape
<1>4. /\ s.settled_weight \in Nat /\ s.rewards \in Int /\ s.dust \in Int
      /\ s.accrued \in Int /\ s.payout \in Int
  BY <1>1, <1>2, SettlementTypes
<1>5. d \in Address
  BY <1>1, <1>2, PositionsAreDisputed
<1> HIDE DEF s, d
<1>6. /\ r2 \in LooseResolution /\ r2.eligible_total = r.eligible_total
      /\ r2.agree_weight = r.agree_weight /\ r2.disagree_weight = r.disagree_weight
  <2>1. owed \in Int
    BY <1>1, <1>4 DEF LooseResolution
  <2> HIDE DEF owed
  <2> QED
    BY <1>1, <1>4, <2>1 DEF LooseResolution
<1>7. c \in [Address -> Int]
  <2>1. credit[id] \in [Address -> Int]
    BY <1>1 DEF Shape
  <2>2. Plus(credit[id], d, s.dust) \in [Address -> Int]
    BY <1>4, <1>5, <2>1 DEF Plus
  <2>3. Plus(Plus(credit[id], d, s.dust), v, s.payout) \in [Address -> Int]
    BY <1>4, <2>2 DEF Plus
  <2> QED
    BY <2>3 DEF CreditBoth
<1> HIDE DEF c, r2, a, r, p
<1>8. RoundOK(a, r2, t)
  BY <1>1, <1>2, <1>6, SettleResult
<1>9. /\ custody' \in Nat /\ credit' \in [Ids -> [Address -> Int]]
      /\ paid' \in [Ids -> [Address -> Nat]]
  BY <1>1, <1>3, <1>7 DEF Shape
<1>10. assertion[id].phase # "Absent"
  BY <1>2 DEF a
<1> HIDE DEF t
<1> QED
  BY <1>3, <1>8, <1>9, <1>10, RoundShape

LEMMA SettleForfeitedStructure ==
  ASSUME StructureInv, NEW v \in Address, NEW id \in Ids, SettleForfeited(id, v)
  PROVE  StructureInv'
<1> DEFINE a == assertion[id]
           r == resolution[id]
           p == position[id]
           q == [p[v] EXCEPT !.settled = TRUE]
           t == [p EXCEPT ![v] = q]
<1>1. /\ Shape /\ RoundOK(a, r, p) /\ r \in LooseResolution
  BY DEF StructureInv, RoundOK
<1>2. a.phase = "Resolved" /\ p[v].kind # "None"
  BY DEF SettleForfeited, Settleable
<1>3. /\ assertion' = [assertion EXCEPT ![id] = a]
      /\ resolution' = [resolution EXCEPT ![id] = r]
      /\ position' = [position EXCEPT ![id] = t]
      /\ credit' = credit /\ custody' = custody /\ paid' = paid
      /\ UNCHANGED <<now, admin, paused, policy, next_id>>
  BY <1>1 DEF SettleForfeited, deployment, Shape
<1> HIDE DEF a, r, p
<1>4. RoundOK(a, r, t)
  BY <1>1, <1>2, SettleResult
<1>5. /\ custody' \in Nat /\ credit' \in [Ids -> [Address -> Int]]
      /\ paid' \in [Ids -> [Address -> Nat]]
  BY <1>1, <1>3 DEF Shape
<1>6. assertion[id].phase # "Absent"
  BY <1>2 DEF a
<1> HIDE DEF t
<1> QED
  BY <1>3, <1>4, <1>5, <1>6, RoundShape

LEMMA WithdrawStructure ==
  ASSUME StructureInv, NEW v \in Address, NEW id \in Ids,
         NEW dst \in Address \cup {Contract}, Withdraw(v, id, dst)
  PROVE  StructureInv'
<1> DEFINE a == assertion[id]
           r == resolution[id]
           p == position[id]
           amount == credit[id][v]
           owed == r.outstanding_liability - amount
           total == r.withdrawn_total + amount
           r2 == [r EXCEPT !.outstanding_liability = owed, !.withdrawn_total = total]
           c == [credit[id] EXCEPT ![v] = 0]
           w == Plus(paid[id], v, amount)
<1>1. /\ Shape /\ RoundOK(a, r, p) /\ r \in LooseResolution
  BY DEF StructureInv, RoundOK
<1>2. amount \in Nat /\ custody >= amount
  BY <1>1 DEF Withdraw, Shape
<1>3. /\ assertion' = [assertion EXCEPT ![id] = a]
      /\ resolution' = [resolution EXCEPT ![id] = r2]
      /\ position' = [position EXCEPT ![id] = p]
      /\ credit' = [credit EXCEPT ![id] = c]
      /\ paid' = [paid EXCEPT ![id] = w]
      /\ custody' \in {custody, custody - amount}
      /\ UNCHANGED <<now, admin, paused, policy, next_id>>
  BY <1>1 DEF Withdraw, deployment, Shape
<1>4. custody' \in Nat
  BY <1>1, <1>2, <1>3 DEF Shape
<1>5. c \in [Address -> Int] /\ w \in [Address -> Nat]
  BY <1>1, <1>2 DEF Shape, Plus
<1> HIDE DEF amount, c, w
<1>6. credit' \in [Ids -> [Address -> Int]] /\ paid' \in [Ids -> [Address -> Nat]]
  BY <1>1, <1>3, <1>5 DEF Shape
<1>7. owed \in Int /\ total \in Nat
  BY <1>1, <1>2 DEF LooseResolution
<1> HIDE DEF owed, total
<1>8. /\ r2 \in LooseResolution /\ r2.eligible_total = r.eligible_total
      /\ r2.agree_weight = r.agree_weight /\ r2.disagree_weight = r.disagree_weight
  BY <1>1, <1>7 DEF LooseResolution
<1> HIDE DEF r2
<1>9. RoundOK(a, r2, p)
  BY <1>1, <1>8 DEF RoundOK, ScopeOK, TalliesOK
<1> QED
  BY <1>3, <1>4, <1>6, <1>9, RoundShape

\* StructureInv is inductive.
LEMMA StructureStep == StructureInv /\ [Next]_vars => StructureInv'
<1> SUFFICES ASSUME StructureInv, [Next]_vars PROVE StructureInv'
  OBVIOUS
<1>1. CASE \/ \E k \in AdminKeys, p \in CandidatePolicies : Initialize(k, p)
           \/ \E k \in AdminKeys, n \in AdminKeys : SetAdmin(k, n)
           \/ \E k \in AdminKeys, b \in BOOLEAN : SetPaused(k, b)
           \/ Tick
  BY <1>1, DeploymentStructure
<1>2. CASE \E k \in AdminKeys, id \in Ids : CancelRound(k, id)
  BY <1>2, CancelRoundStructure
<1>3. CASE \E v \in Address, o \in Outcomes : AssertOutcome(v, o)
  BY <1>3, AssertOutcomeStructure
<1>4. ASSUME NEW id \in Ids, RoundNext(id)
      PROVE  StructureInv'
  <2>1. CASE \E v \in Address : Finalize(v, id)
    BY <2>1, FinalizeStructure
  <2>2. CASE \E v \in Address : Dispute(v, id)
    BY <2>2, DisputeStructure
  <2>3. CASE \E v \in Address, d \in Deposits, o \in Outcomes : Register(v, id, d, o)
    BY <2>3, RegisterStructure
  <2>4. CASE \E v \in Address, o \in Outcomes : Reveal(v, id, o)
    BY <2>4, RevealStructure
  <2>5. CASE ResolveOutcome(id)
    BY <2>5, ResolveOutcomeStructure
  <2>6. CASE \E v \in Address : Settle(id, v)
    BY <2>6, SettleRecipientStructure, SettleForfeitedStructure DEF Settle
  <2>7. CASE \E v \in Address, d \in Address \cup {Contract} : Withdraw(v, id, d)
    BY <2>7, WithdrawStructure
  <2> QED
    BY <1>4, <2>1, <2>2, <2>3, <2>4, <2>5, <2>6, <2>7 DEF RoundNext
<1>5. CASE UNCHANGED vars
  <2>1. /\ now' = now /\ admin' = admin /\ paused' = paused /\ policy' = policy
        /\ next_id' = next_id /\ assertion' = assertion
        /\ resolution' = resolution /\ position' = position
        /\ credit' = credit /\ custody' = custody /\ paid' = paid
    BY <1>5 DEF vars
  <2> QED
    BY <2>1 DEF StructureInv, Shape
<1> QED
  BY <1>1, <1>2, <1>3, <1>4, <1>5 DEF Next, AdminNext

LEMMA StructureInvariant == Spec => []StructureInv
BY InitStructure, StructureStep, PTL DEF Spec

\* The totals that the contract keeps incrementally are sums over the
\* positions, in every round of every deployment: register, reveal and the
\* opening of the reveal phase count each unit of weight once.
THEOREM TotalsAlwaysMatch == Spec => []TotalsMatchPositions
<1>1. StructureInv => TotalsMatchPositions
  <2> SUFFICES ASSUME StructureInv, NEW id \in Ids
               PROVE  /\ resolution[id].eligible_total = Total(Stake(id))
                      /\ resolution[id].agree_weight = Total(RevealedStake(id, "agree"))
                      /\ resolution[id].disagree_weight
                            = Total(RevealedStake(id, "disagree"))
    BY DEF TotalsMatchPositions
  <2>1. Stake(id) = StakeOf(position[id])
    BY DEF Stake, StakeOf
  <2>2. \A side : RevealedStake(id, side) = SideOf(position[id], side)
    BY DEF RevealedStake, SideOf, Shown
  <2>3. TalliesOK(resolution[id], position[id])
    BY DEF StructureInv, RoundOK
  <2> QED
    BY <2>1, <2>2, <2>3 DEF TalliesOK
<1> QED
  BY <1>1, StructureInvariant, PTL

-----------------------------------------------------------------------------
(***************************************************************************)
(* The decision of a dispute is the one its weights call for, it is final, *)
(* nobody can change the electorate once registration is over, and the     *)
(* cutoff only moves for weight.                                           *)
(*                                                                         *)
(* A step touches at most one round (StepOfRound), so each property is     *)
(* shown for the actions on one round.                                     *)
(***************************************************************************)

SameRound(id) ==
  /\ assertion'[id] = assertion[id] /\ resolution'[id] = resolution[id]
  /\ position'[id] = position[id] /\ credit'[id] = credit[id]
  /\ paid'[id] = paid[id]

\* A call on a round leaves the others alone.
LEMMA OtherRound ==
  ASSUME StructureInv, NEW i \in Ids, RoundNext(i), NEW id \in Ids, id # i
  PROVE  SameRound(id)
<1>1. Shape
  BY DEF StructureInv
<1>2. CASE \E v \in Address : Finalize(v, i)
  BY <1>1, <1>2 DEF SameRound, Finalize, Shape
<1>3. CASE \E v \in Address : Dispute(v, i)
  BY <1>1, <1>3 DEF SameRound, Dispute, Shape
<1>4. CASE \E v \in Address, d \in Deposits, o \in Outcomes : Register(v, i, d, o)
  BY <1>1, <1>4 DEF SameRound, Register, Shape
<1>5. CASE \E v \in Address, o \in Outcomes : Reveal(v, i, o)
  BY <1>1, <1>5 DEF SameRound, Reveal, Shape
<1>6. CASE ResolveOutcome(i)
  BY <1>1, <1>6 DEF SameRound, ResolveOutcome, Shape
<1>7. CASE \E v \in Address : Settle(i, v)
  BY <1>1, <1>7 DEF SameRound, Settle, SettleRecipient, SettleForfeited, Shape
<1>8. CASE \E v \in Address, d \in Address \cup {Contract} : Withdraw(v, i, d)
  BY <1>1, <1>8 DEF SameRound, Withdraw, Shape
<1> QED
  BY <1>2, <1>3, <1>4, <1>5, <1>6, <1>7, <1>8 DEF RoundNext

\* A step posts the round, is a call on the round, or leaves it alone.
LEMMA StepOfRound ==
  ASSUME StructureInv, [Next]_vars, NEW id \in Ids
  PROVE  \/ SameRound(id)
         \/ id = next_id /\ \E v \in Address, o \in Outcomes : AssertOutcome(v, o)
         \/ \E k \in AdminKeys : CancelRound(k, id)
         \/ RoundNext(id)
<1>1. Shape
  BY DEF StructureInv
<1>2. CASE \/ \E k \in AdminKeys, p \in CandidatePolicies : Initialize(k, p)
           \/ \E k \in AdminKeys, n \in AdminKeys : SetAdmin(k, n)
           \/ \E k \in AdminKeys, b \in BOOLEAN : SetPaused(k, b)
           \/ Tick \/ UNCHANGED vars
  BY <1>2 DEF SameRound, Initialize, SetAdmin, SetPaused, Tick, vars
<1>3. CASE \E k \in AdminKeys, i \in Ids : CancelRound(k, i)
  <2>1. PICK k \in AdminKeys, i \in Ids : CancelRound(k, i)
    BY <1>3
  <2>2. CASE i # id
    BY <1>1, <2>1, <2>2 DEF SameRound, CancelRound, Shape
  <2> QED
    BY <2>1, <2>2
<1>4. CASE \E v \in Address, o \in Outcomes : AssertOutcome(v, o)
  <2>1. PICK v \in Address, o \in Outcomes : AssertOutcome(v, o)
    BY <1>4
  <2>2. CASE id # next_id
    BY <1>1, <2>1, <2>2 DEF SameRound, AssertOutcome, Shape
  <2> QED
    BY <2>1, <2>2
<1>5. ASSUME NEW i \in Ids, RoundNext(i), i # id
      PROVE  SameRound(id)
  BY <1>5, OtherRound
<1> QED
  BY <1>2, <1>3, <1>4, <1>5 DEF Next, AdminNext

\* The lazy opening shows no position that was already shown on another
\* side, and it closes the round only when everything is revealed.
LEMMA LazyOpeningTally ==
  ASSUME NEW id \in Ids, now \in Nat, RegistrationOver(id),
         RoundOK(assertion[id], resolution[id], position[id])
  PROVE  LET s == RoundInReveal(id) IN
         /\ \A v \in Address :
              position[id][v].agrees_with_outcome # "none" =>
                s.p[v].agrees_with_outcome = position[id][v].agrees_with_outcome
         /\ s.a.phase = "Resolved" => RevealedWeight(s.r) >= s.r.eligible_total
<1> DEFINE s == RoundInReveal(id)
           a == assertion[id]
           r == resolution[id]
           p == position[id]
<1>1. CASE a.phase = "Registration"
  <2>1. \A v \in Address : p[v].agrees_with_outcome = "none"
    BY <1>1 DEF RoundOK, ScopeOK
  <2>2. /\ s.a = CloseRevealIfReady([a EXCEPT !.phase = "Reveal"], s.r, FALSE)
    BY <1>1 DEF RoundInReveal, OpenRevealPhase
  <2>3. a \in AssertionV2
    BY DEF RoundOK
  <2> HIDE DEF s
  <2>4. s.a.phase = "Resolved" => RevealedWeight(s.r) >= s.r.eligible_total
    <3>1. SUFFICES ASSUME ~(RevealedWeight(s.r) >= s.r.eligible_total)
                   PROVE  s.a.phase # "Resolved"
      OBVIOUS
    <3> DEFINE a1 == [a EXCEPT !.phase = "Reveal"]
    <3>2. a1 \in AssertionV2 /\ a1.phase = "Reveal"
      BY <2>3 DEF AssertionV2, Phases
    <3> HIDE DEF a1
    <3>3. s.a = LockOutcomeIfUndecided(a1, s.r)
      BY <2>2, <3>1 DEF CloseRevealIfReady, a1
    <3> QED
      BY <3>2, <3>3 DEF LockOutcomeIfUndecided, AssertionV2
  <2> QED
    BY <2>1, <2>4 DEF s
<1>2. CASE a.phase = "Reveal"
  <2>1. s = [a |-> a, r |-> r, p |-> p]
    BY <1>2 DEF RoundInReveal
  <2> QED
    BY <1>2, <2>1
<1> QED
  BY <1>1, <1>2 DEF RegistrationOver

-----------------------------------------------------------------------------
(* Finality.                                                               *)

FinalStep(a, b) ==
  /\ a.terminal_cause # "NotYetDecided" =>
       /\ b.terminal_cause = a.terminal_cause /\ b.final_outcome = a.final_outcome
       /\ b.disputer = a.disputer
  /\ a.phase # "Absent" =>
       b.asserter = a.asserter /\ b.outcome = a.outcome /\ b.policy = a.policy
  /\ a.disputer # NoAddress =>
       b.disputer = a.disputer /\ b.terminal_cause # "UncontestedFinalize"

\* In two steps, the lazy opening and what follows it.
LEMMA FinalDispute ==
  ASSUME NEW a, NEW m, NEW b, SameClaim(a, m), SameDecision(a, m),
         SameClaim(m, b), SameDecision(m, b), m.disputer # NoAddress,
         CauseOK(b) \/ \E r, p : RoundOK(b, r, p)
  PROVE  FinalStep(a, b)
<1>1. CauseOK(b)
  BY DEF RoundOK
<1> QED
  BY <1>1 DEF FinalStep, SameClaim, SameDecision, CauseOK

\* No step changes the decision of a round.
LEMMA RoundStepIsFinal ==
  ASSUME StructureInv, [Next]_vars, NEW id \in Ids
  PROVE  FinalStep(assertion[id], assertion'[id])
<1> DEFINE a == assertion[id]
           b == assertion'[id]
<1>1. /\ Shape /\ RoundOK(a, resolution[id], position[id]) /\ a \in AssertionV2
      /\ PartiesOK(a) /\ CauseOK(a) /\ now \in Nat
      /\ assertion \in [Ids -> AssertionV2]
  BY DEF StructureInv, RoundOK, Shape
<1>2. CASE b = a
  BY <1>1, <1>2 DEF FinalStep, CauseOK
<1>3. CASE id = next_id /\ \E v \in Address, o \in Outcomes : AssertOutcome(v, o)
  <2>1. a.phase = "Absent"
    BY <1>1, <1>3 DEF Shape, Ids
  <2> QED
    BY <1>1, <2>1 DEF FinalStep, PartiesOK, CauseOK
<1>4. CASE \E k \in AdminKeys : CancelRound(k, id)
  <2>1. /\ b = [a EXCEPT !.phase = "Resolved", !.terminal_cause = "AdminCancelled"]
        /\ a.terminal_cause = "NotYetDecided"
    BY <1>1, <1>4 DEF CancelRound, Undecided
  <2> QED
    BY <1>1, <2>1 DEF FinalStep, AssertionV2
<1>5. CASE \E v \in Address : Finalize(v, id)
  <2>1. /\ b = [a EXCEPT !.phase = "Resolved",
                         !.terminal_cause = "UncontestedFinalize",
                         !.final_outcome = a.outcome]
        /\ a.phase = "Pending"
    BY <1>1, <1>5 DEF Finalize
  <2> QED
    BY <1>1, <2>1 DEF FinalStep, AssertionV2, CauseOK, PartiesOK
<1>6. CASE \E v \in Address : Dispute(v, id)
  <2>1. PICK v \in Address :
          b = [a EXCEPT !.disputer = v, !.phase = "Registration"]
          /\ a.phase = "Pending"
    BY <1>1, <1>6 DEF Dispute
  <2> QED
    BY <1>1, <2>1 DEF FinalStep, AssertionV2, CauseOK, PartiesOK
<1>7. CASE \E v \in Address, o \in Outcomes : Reveal(v, id, o)
  <2>1. PICK v \in Address, o \in Outcomes : Reveal(v, id, o)
    BY <1>7
  <2> DEFINE s == RoundInReveal(id)
             side == IF o = s.a.outcome THEN "agree" ELSE "disagree"
             tally == Counted(s.r, side, s.p[v].amount)
             c == CloseRevealIfReady(s.a, tally, FALSE)
  <2>2. RegistrationOver(id) /\ s.p[v].agrees_with_outcome = "none" /\ b = c
    BY <1>1, <2>1 DEF Reveal
  <2>3. /\ RoundOK(s.a, s.r, s.p)
        /\ s.a.phase \in {"Reveal", "Resolved"} /\ s.a.disputer # NoAddress
        /\ SameClaim(a, s.a) /\ SameDecision(a, s.a)
    BY <1>1, <2>2, LazyOpening
  <2>4. side \in {"agree", "disagree"}
    OBVIOUS
  <2> HIDE DEF s, side
  <2>5. /\ SameClaim(s.a, c) /\ SameDecision(s.a, c)
        /\ RoundOK(c, tally, ShowAt(s.p, v, side))
    BY <2>2, <2>3, <2>4, RevealResult
  <2> HIDE DEF c, tally
  <2> QED
    BY <2>2, <2>3, <2>5, FinalDispute
<1>8. CASE ResolveOutcome(id)
  <2> DEFINE s == RoundInReveal(id)
             c == IF s.a.phase = "Resolved" THEN s.a
                  ELSE CloseRevealIfReady(s.a, s.r, TRUE)
  <2>1. RegistrationOver(id) /\ b = c
    BY <1>1, <1>8 DEF ResolveOutcome
  <2>2. /\ RoundOK(s.a, s.r, s.p)
        /\ s.a.phase \in {"Reveal", "Resolved"} /\ s.a.disputer # NoAddress
        /\ SameClaim(a, s.a) /\ SameDecision(a, s.a)
    BY <1>1, <2>1, LazyOpening
  <2> HIDE DEF s
  <2>3. SameClaim(s.a, c) /\ SameDecision(s.a, c) /\ CauseOK(c)
    <3>1. CASE s.a.phase = "Resolved"
      BY <2>2, <3>1 DEF SameClaim, SameDecision, RoundOK
    <3>2. CASE s.a.phase # "Resolved"
      <4>1. c = CloseRevealIfReady(s.a, s.r, TRUE)
        BY <3>2
      <4>2. s.a \in AssertionV2 /\ s.r \in LooseResolution /\ PartiesOK(s.a) /\ CauseOK(s.a)
        BY <2>2 DEF RoundOK
      <4> QED
        BY <2>2, <4>1, <4>2, CloseResult
    <3> QED
      BY <3>1, <3>2
  <2> HIDE DEF c
  <2> QED
    BY <2>1, <2>2, <2>3, FinalDispute
<1>9. CASE \/ SameRound(id)
           \/ \E v \in Address, d \in Deposits, o \in Outcomes : Register(v, id, d, o)
           \/ \E v \in Address : Settle(id, v)
           \/ \E v \in Address, d \in Address \cup {Contract} : Withdraw(v, id, d)
  BY <1>2, <1>9 DEF SameRound, Register, Settle, SettleRecipient, SettleForfeited,
                    Withdraw
<1> HIDE DEF a, b
<1> QED
  BY <1>3, <1>4, <1>5, <1>6, <1>7, <1>8, <1>9, StepOfRound DEF RoundNext, a, b

\* Whatever anybody calls, a decision that is recorded, the claim, its
\* parties and its pinned policy never change: the strict majority that
\* reveal locks survives later reveals, the close and a cancellation, and of
\* dispute and finalize only the first to come succeeds.
THEOREM DecisionNeverChanges == Spec => DecisionIsFinal
<1>1. StructureInv /\ [Next]_vars =>
        [\A id \in Ids :
           LET a == assertion[id]
               b == assertion'[id]
           IN /\ a.terminal_cause # "NotYetDecided" =>
                   /\ b.terminal_cause = a.terminal_cause
                   /\ b.final_outcome = a.final_outcome
                   /\ b.disputer = a.disputer
              /\ a.phase # "Absent" =>
                   /\ b.asserter = a.asserter /\ b.outcome = a.outcome
                   /\ b.policy = a.policy
              /\ a.disputer # NoAddress =>
                   /\ b.disputer = a.disputer
                   /\ b.terminal_cause # "UncontestedFinalize"]_vars
  BY RoundStepIsFinal DEF FinalStep
<1> QED
  BY <1>1, StructureInvariant, PTL DEF Spec, DecisionIsFinal

-----------------------------------------------------------------------------
(* The electorate.                                                         *)

FrozenStep(p, q) ==
  \A v \in Address :
    /\ q[v].amount = p[v].amount /\ q[v].kind = p[v].kind
    /\ p[v].agrees_with_outcome # "none" =>
         q[v].agrees_with_outcome = p[v].agrees_with_outcome

LEMMA ElectorateStep ==
  ASSUME StructureInv, [Next]_vars, NEW id \in Ids,
         assertion[id].phase = "Resolved" \/ RegistrationOver(id)
  PROVE  /\ resolution'[id].eligible_total = resolution[id].eligible_total
         /\ FrozenStep(position[id], position'[id])
<1> DEFINE a == assertion[id]
           r == resolution[id]
           p == position[id]
           q == position'[id]
<1>1. /\ Shape /\ RoundOK(a, r, p) /\ now \in Nat /\ r \in LooseResolution
      /\ p \in [Address -> Position] /\ a \in AssertionV2
      /\ resolution \in [Ids -> LooseResolution]
      /\ position \in [Ids -> [Address -> Position]]
  BY DEF StructureInv, RoundOK, Shape
<1>2. a.phase \in {"Registration", "Reveal", "Resolved"}
  BY DEF RegistrationOver
<1>3. CASE q = p /\ resolution'[id].eligible_total = r.eligible_total
  BY <1>3 DEF FrozenStep
<1>4. CASE id = next_id /\ \E v \in Address, o \in Outcomes : AssertOutcome(v, o)
  BY <1>3, <1>4 DEF AssertOutcome
<1>5. CASE \/ SameRound(id)
           \/ \E k \in AdminKeys : CancelRound(k, id)
           \/ \E v \in Address : Finalize(v, id)
  BY <1>3, <1>5 DEF SameRound, CancelRound, Finalize
<1>6. CASE \E v \in Address : Dispute(v, id)
  BY <1>2, <1>6 DEF Dispute
<1>7. CASE \E v \in Address, d \in Deposits, o \in Outcomes : Register(v, id, d, o)
  <2>1. a.phase = "Registration" /\ now <= r.registration_deadline
    BY <1>7 DEF Register, RegistrationOpen
  <2> QED
    BY <1>1, <2>1 DEF RegistrationOver, LooseResolution
<1>8. CASE \E v \in Address, o \in Outcomes : Reveal(v, id, o)
  <2>1. PICK v \in Address, o \in Outcomes : Reveal(v, id, o)
    BY <1>8
  <2> DEFINE s == RoundInReveal(id)
             side == IF o = s.a.outcome THEN "agree" ELSE "disagree"
             tally == Counted(s.r, side, s.p[v].amount)
             t == ShowAt(s.p, v, side)
  <2>2. /\ RegistrationOver(id) /\ s.p[v].agrees_with_outcome = "none"
        /\ resolution'[id] = tally /\ q = t
    BY <1>1, <2>1 DEF Reveal, ShowAt
  <2>3. /\ RoundOK(s.a, s.r, s.p)
        /\ s.r.eligible_total = r.eligible_total /\ SameBonds(p, s.p)
    BY <1>1, <2>2, LazyOpening
  <2>4. \A u \in Address : p[u].agrees_with_outcome # "none" =>
          s.p[u].agrees_with_outcome = p[u].agrees_with_outcome
    BY <1>1, <2>2, LazyOpeningTally
  <2>5. side \in {"agree", "disagree"}
    OBVIOUS
  <2> HIDE DEF s, side
  <2>6. tally.eligible_total = s.r.eligible_total
    BY <2>3 DEF Counted, RoundOK, LooseResolution
  <2>7. /\ SameBonds(s.p, t)
        /\ \A u \in Address : u # v => t[u] = s.p[u]
    BY <2>2, <2>3, <2>5, ShowTallies DEF RoundOK
  <2>8. FrozenStep(p, t)
    BY <2>2, <2>3, <2>4, <2>7 DEF FrozenStep, SameBonds
  <2> QED
    BY <2>2, <2>3, <2>6, <2>8
<1>9. CASE ResolveOutcome(id)
  <2> DEFINE s == RoundInReveal(id)
  <2>1. RegistrationOver(id) /\ resolution'[id] = s.r /\ q = s.p
    BY <1>1, <1>9 DEF ResolveOutcome
  <2>2. /\ s.r.eligible_total = r.eligible_total /\ SameBonds(p, s.p)
    BY <1>1, <2>1, LazyOpening
  <2>3. \A u \in Address : p[u].agrees_with_outcome # "none" =>
          s.p[u].agrees_with_outcome = p[u].agrees_with_outcome
    BY <1>1, <2>1, LazyOpeningTally
  <2> HIDE DEF s
  <2> QED
    BY <2>1, <2>2, <2>3 DEF FrozenStep, SameBonds
<1>10. CASE \E v \in Address : Settle(id, v)
  <2>1. PICK v \in Address : Settle(id, v)
    BY <1>10
  <2> DEFINE w == [p[v] EXCEPT !.settled = TRUE]
  <2>2. q = [p EXCEPT ![v] = w]
    BY <1>1, <2>1 DEF Settle, SettleRecipient, SettleForfeited
  <2>3. /\ w.amount = p[v].amount /\ w.kind = p[v].kind
        /\ w.agrees_with_outcome = p[v].agrees_with_outcome
    BY <1>1 DEF Position
  <2>4. resolution'[id].eligible_total = r.eligible_total
    BY <1>1, <2>1, ZenonT(60)
       DEF Settle, SettleRecipient, SettleForfeited, LooseResolution
  <2> HIDE DEF w
  <2>5. FrozenStep(p, q)
    BY <1>1, <2>2, <2>3 DEF FrozenStep
  <2> QED
    BY <2>4, <2>5
<1>11. CASE \E v \in Address, d \in Address \cup {Contract} : Withdraw(v, id, d)
  <2>1. q = p /\ resolution'[id].eligible_total = r.eligible_total
    BY <1>1, <1>11 DEF Withdraw, LooseResolution
  <2> QED
    BY <1>3, <2>1
<1> HIDE DEF a, r, p, q
<1> QED
  BY <1>4, <1>5, <1>6, <1>7, <1>8, <1>9, <1>10, <1>11, StepOfRound
     DEF RoundNext, a, r, p, q

\* Once the registration cutoff has passed, nobody funds or tops up a
\* position, changes a committed side or takes back a revealed one, so the
\* weight a strict majority is measured against cannot move.
THEOREM ElectorateStaysFrozen == Spec => ElectorateFrozenAfterCutoff
<1>1. StructureInv /\ [Next]_vars =>
        [\A id \in Ids :
           assertion[id].phase = "Resolved" \/ RegistrationOver(id) =>
             /\ resolution'[id].eligible_total = resolution[id].eligible_total
             /\ \A v \in Address :
                  LET p == position[id][v]
                      q == position'[id][v]
                  IN /\ q.amount = p.amount /\ q.kind = p.kind
                     /\ p.agrees_with_outcome # "none" =>
                          q.agrees_with_outcome = p.agrees_with_outcome]_vars
  BY ElectorateStep DEF FrozenStep
<1> QED
  BY <1>1, StructureInvariant, PTL DEF Spec, ElectorateFrozenAfterCutoff

-----------------------------------------------------------------------------
(* The end of the reveal phase.                                            *)

Closed(a, b) ==
  /\ a.phase # "Resolved" /\ b.phase = "Resolved"
  /\ b.disputer # NoAddress
  /\ b.terminal_cause # "AdminCancelled"

DeadlineStep(id) ==
  LET a == assertion[id]
      r == resolution[id]
      s == resolution'[id]
  IN /\ \A v \in Address \ {a.asserter, a.disputer} :
          position'[id][v].agrees_with_outcome # position[id][v].agrees_with_outcome
            => now <= s.reveal_deadline
     /\ Closed(a, assertion'[id]) /\ RevealedWeight(s) < s.eligible_total =>
          a.phase = "Reveal" /\ now > r.reveal_deadline
     /\ a.phase \in {"Reveal", "Resolved"} =>
          s.reveal_deadline = r.reveal_deadline
     /\ a.phase = "Resolved" => RevealedWeight(s) = RevealedWeight(r)

SameTally(r, s) ==
  /\ s.reveal_deadline = r.reveal_deadline
  /\ s.agree_weight = r.agree_weight /\ s.disagree_weight = r.disagree_weight

\* A call that shows no position, does not count and does not close.
LEMMA QuietStep ==
  ASSUME NEW id \in Ids,
         \A v \in Address : position'[id][v].agrees_with_outcome
                              = position[id][v].agrees_with_outcome,
         assertion[id].phase \in {"Reveal", "Resolved"} =>
           SameTally(resolution[id], resolution'[id]),
         ~Closed(assertion[id], assertion'[id])
  PROVE  DeadlineStep(id)
BY DEF DeadlineStep, SameTally, RevealedWeight

\* The lazy opening shows the parties' positions only, and starts a reveal
\* phase that is not over yet.
LEMMA LazyOpeningDeadline ==
  ASSUME NEW id \in Ids, now \in Nat, RegistrationOver(id),
         RoundOK(assertion[id], resolution[id], position[id])
  PROVE  LET a == assertion[id]
             p == position[id]
             s == RoundInReveal(id)
         IN
         /\ \A v \in Address \ {a.asserter, a.disputer} : s.p[v] = p[v]
         /\ a.phase = "Reveal" => s.a = a /\ s.r = resolution[id] /\ s.p = p
         /\ a.phase # "Reveal" => now <= s.r.reveal_deadline
<1> DEFINE a == assertion[id]
           r == resolution[id]
           p == position[id]
           s == RoundInReveal(id)
<1>1. /\ r \in LooseResolution /\ p \in [Address -> Position] /\ PartiesOK(a)
  BY DEF RoundOK
<1>2. CASE a.phase = "Reveal"
  <2>1. s = [a |-> a, r |-> r, p |-> p]
    BY <1>2 DEF RoundInReveal
  <2> QED
    BY <1>2, <2>1
<1>3. CASE a.phase = "Registration"
  <2> DEFINE d == now + a.policy.reveal_duration_secs
             x == p[a.asserter].amount
             y == p[a.disputer].amount
             t == [r EXCEPT !.reveal_opened_at = now, !.reveal_deadline = d,
                            !.agree_weight = @ + x, !.disagree_weight = @ + y]
             q == [p EXCEPT ![a.asserter] = Show(@, "agree"),
                            ![a.disputer] = Show(@, "disagree")]
  <2>1. s.r = t /\ s.p = q
    BY <1>3 DEF RoundInReveal, OpenRevealPhase
  <2>2. a.policy.reveal_duration_secs \in Nat
    BY <1>1, <1>3, PolicyFacts DEF PartiesOK
  <2>3. now <= d
    BY <2>2
  <2> HIDE DEF d, x, y
  <2>4. t.reveal_deadline = d
    BY <1>1 DEF LooseResolution
  <2>5. \A v \in Address \ {a.asserter, a.disputer} : q[v] = p[v]
    BY <1>1
  <2> HIDE DEF a, r, p, s, t, q
  <2> QED
    BY <1>3, <2>1, <2>3, <2>4, <2>5 DEF a, r, p, s
<1> QED
  BY <1>2, <1>3 DEF RegistrationOver

\* A reveal is in time, and closes the round only when it is the last one.
LEMMA RevealInTime ==
  ASSUME StructureInv, NEW id \in Ids, NEW v \in Address, NEW o \in Outcomes,
         Reveal(v, id, o)
  PROVE  DeadlineStep(id)
<1> DEFINE a == assertion[id]
           b == assertion'[id]
           r == resolution[id]
           s == RoundInReveal(id)
           n == s.p[v].amount
           side == IF o = s.a.outcome THEN "agree" ELSE "disagree"
           tally == Counted(s.r, side, n)
<1>1. Shape /\ RoundOK(a, r, position[id]) /\ now \in Nat
  BY DEF StructureInv, Shape
<1>2. /\ RegistrationOver(id) /\ now <= s.r.reveal_deadline
      /\ b = CloseRevealIfReady(s.a, tally, FALSE) /\ resolution'[id] = tally
  BY <1>1 DEF Reveal, Shape
<1>3. /\ s.a \in AssertionV2 /\ s.r \in LooseResolution /\ n \in Nat
      /\ s.a.phase \in {"Reveal", "Resolved"}
  BY <1>1, <1>2, LazyOpening DEF RoundOK, Position
<1>4. a.phase = "Reveal" => s.r = r
  BY <1>1, <1>2, LazyOpeningDeadline
<1>5. s.a.phase = "Resolved" => RevealedWeight(s.r) >= s.r.eligible_total
  BY <1>1, <1>2, LazyOpeningTally
<1>6. a.phase # "Resolved"
  BY <1>2 DEF RegistrationOver
<1> HIDE DEF s, side, n
<1>7. /\ tally.reveal_deadline = s.r.reveal_deadline
      /\ tally.eligible_total = s.r.eligible_total
      /\ RevealedWeight(tally) = RevealedWeight(s.r) + n
  BY <1>3 DEF Counted, LooseResolution, RevealedWeight
<1>8. RevealedWeight(s.r) \in Nat /\ s.r.eligible_total \in Nat
  BY <1>3 DEF LooseResolution, RevealedWeight
<1> HIDE DEF tally
<1>9. ASSUME b.phase = "Resolved"
      PROVE  RevealedWeight(tally) >= tally.eligible_total
  <2>1. CASE s.a.phase = "Resolved"
    BY <1>3, <1>5, <1>7, <1>8, <2>1
  <2>2. CASE s.a.phase # "Resolved" /\ ~(RevealedWeight(tally) >= tally.eligible_total)
    <3>1. b = LockOutcomeIfUndecided(s.a, tally)
      BY <1>2, <2>2 DEF CloseRevealIfReady
    <3>2. b.phase = s.a.phase
      BY <1>3, <3>1 DEF LockOutcomeIfUndecided, AssertionV2
    <3> QED
      BY <1>9, <2>2, <3>2
  <2> QED
    BY <2>1, <2>2
<1>10. ~(Closed(a, b) /\ RevealedWeight(tally) < tally.eligible_total)
  BY <1>3, <1>7, <1>8, <1>9 DEF Closed
<1> QED
  BY <1>2, <1>4, <1>6, <1>7, <1>10 DEF DeadlineStep

\* resolve_outcome shows no outside position, and closes a round with
\* unrevealed weight only if it finds an open reveal phase past its deadline.
LEMMA ResolveInTime ==
  ASSUME StructureInv, NEW id \in Ids, ResolveOutcome(id)
  PROVE  DeadlineStep(id)
<1> DEFINE a == assertion[id]
           r == resolution[id]
           p == position[id]
           s == RoundInReveal(id)
<1>1. Shape /\ RoundOK(a, r, p) /\ now \in Nat
  BY DEF StructureInv, Shape
<1>2. /\ RegistrationOver(id)
      /\ s.a.phase = "Resolved" \/ RevealOver(s.r)
      /\ resolution'[id] = s.r /\ position'[id] = s.p
  BY <1>1 DEF ResolveOutcome, Shape
<1>3. s.r \in LooseResolution
  BY <1>1, <1>2, LazyOpening DEF RoundOK
<1>4. /\ \A v \in Address \ {a.asserter, a.disputer} : s.p[v] = p[v]
      /\ a.phase = "Reveal" => s.r = r
      /\ a.phase # "Reveal" => now <= s.r.reveal_deadline
      /\ s.a.phase = "Resolved" => RevealedWeight(s.r) >= s.r.eligible_total
  BY <1>1, <1>2, LazyOpeningDeadline, LazyOpeningTally
<1>5. a.phase # "Resolved"
  BY <1>2 DEF RegistrationOver
<1>6. RevealedWeight(s.r) \in Nat /\ s.r.eligible_total \in Nat
      /\ s.r.reveal_deadline \in Nat
  BY <1>3 DEF LooseResolution, RevealedWeight
<1> HIDE DEF s
<1>7. ASSUME RevealedWeight(s.r) < s.r.eligible_total
      PROVE  a.phase = "Reveal" /\ now > r.reveal_deadline
  BY <1>1, <1>2, <1>4, <1>6, <1>7 DEF RevealOver
<1> QED
  BY <1>2, <1>4, <1>5, <1>7 DEF DeadlineStep

\* Every step respects the end of the reveal phase.
LEMMA DeadlineKept ==
  ASSUME StructureInv, [Next]_vars, NEW id \in Ids
  PROVE  DeadlineStep(id)
<1> DEFINE a == assertion[id]
           r == resolution[id]
           p == position[id]
<1>1. /\ Shape /\ a \in AssertionV2 /\ r \in LooseResolution
      /\ p \in [Address -> Position]
      /\ PartiesOK(a) /\ CauseOK(a) /\ ScopeOK(a, r, p)
  BY DEF StructureInv, RoundOK
<1>2. ASSUME assertion'[id] = a PROVE ~Closed(a, assertion'[id])
  BY <1>2 DEF Closed
<1>3. CASE SameRound(id)
  BY <1>2, <1>3, QuietStep DEF SameRound, SameTally
<1>4. CASE id = next_id /\ \E v \in Address, o \in Outcomes : AssertOutcome(v, o)
  <2>1. assertion'[id].phase = "Pending" /\ resolution' = resolution
        /\ position' = position
    BY <1>1, <1>4 DEF AssertOutcome, Shape, NoAssertion
  <2> QED
    BY <2>1, QuietStep DEF Closed, SameTally
<1>5. CASE \E k \in AdminKeys : CancelRound(k, id)
  <2>1. assertion'[id].terminal_cause = "AdminCancelled"
        /\ resolution' = resolution /\ position' = position
    BY <1>1, <1>5 DEF CancelRound, Shape, AssertionV2
  <2> QED
    BY <2>1, QuietStep DEF Closed, SameTally
<1>6. CASE \E v \in Address : Finalize(v, id)
  <2>1. assertion'[id].disputer = NoAddress
        /\ resolution' = resolution /\ position' = position
    BY <1>1, <1>6 DEF Finalize, Shape, AssertionV2, PartiesOK
  <2> QED
    BY <2>1, QuietStep DEF Closed, SameTally
<1>7. CASE \E v \in Address : Dispute(v, id)
  <2>1. PICK v \in Address : Dispute(v, id)
    BY <1>7
  <2>2. a.phase = "Pending" /\ assertion'[id].phase = "Registration"
    BY <1>1, <2>1 DEF Dispute, Shape, AssertionV2
  <2> DEFINE f == FixedPosition("FixedFor", a.policy.base_bond)
             g == FixedPosition("FixedAgainst", a.policy.base_bond)
  <2>3. f.agrees_with_outcome = "none" /\ g.agrees_with_outcome = "none"
    BY DEF FixedPosition, NoPosition
  <2>4. position'[id] = [p EXCEPT ![a.asserter] = f, ![v] = g]
    BY <1>1, <2>1 DEF Dispute, Shape
  <2>5. \A u \in Address : p[u].agrees_with_outcome = "none"
    BY <1>1, <2>2 DEF ScopeOK, PartiesOK, NoPosition
  <2> HIDE DEF f, g
  <2>6. \A u \in Address : position'[id][u].agrees_with_outcome
                           = p[u].agrees_with_outcome
    BY <1>1, <2>3, <2>4, <2>5
  <2> QED
    BY <2>2, <2>6, QuietStep DEF Closed
<1>8. CASE \E v \in Address, d \in Deposits, o \in Outcomes : Register(v, id, d, o)
  <2>1. PICK v \in Address, d \in Deposits, o \in Outcomes : Register(v, id, d, o)
    BY <1>8
  <2> DEFINE w == [NoPosition EXCEPT !.amount = p[v].amount + d,
                                     !.kind = CommitTo(o)]
  <2>2. a.phase = "Registration" /\ assertion' = assertion
        /\ position'[id] = [p EXCEPT ![v] = w]
    BY <1>1, <2>1 DEF Register, Shape
  <2>3. w.agrees_with_outcome = "none"
    BY DEF NoPosition
  <2>4. \A u \in Address : p[u].agrees_with_outcome = "none"
    BY <1>1, <2>2 DEF ScopeOK
  <2> HIDE DEF w
  <2>5. \A u \in Address : position'[id][u].agrees_with_outcome
                           = p[u].agrees_with_outcome
    BY <1>1, <2>2, <2>3, <2>4
  <2> QED
    BY <1>2, <2>2, <2>5, QuietStep
<1>9. CASE \E v \in Address, o \in Outcomes : Reveal(v, id, o)
  BY <1>9, RevealInTime
<1>10. CASE ResolveOutcome(id)
  BY <1>10, ResolveInTime
<1>11. CASE \E v \in Address : Settle(id, v)
  <2>1. PICK v \in Address : Settle(id, v)
    BY <1>11
  <2> DEFINE w == [p[v] EXCEPT !.settled = TRUE]
  <2>2. position'[id] = [p EXCEPT ![v] = w] /\ assertion' = assertion
    BY <1>1, <2>1 DEF Settle, SettleRecipient, SettleForfeited, Shape
  <2>3. w.agrees_with_outcome = p[v].agrees_with_outcome
    BY <1>1 DEF Position
  <2>4. SameTally(r, resolution'[id])
    BY <1>1, <2>1, ZenonT(60)
       DEF Settle, SettleRecipient, SettleForfeited, LooseResolution, Shape, SameTally
  <2> HIDE DEF w
  <2>5. \A u \in Address : position'[id][u].agrees_with_outcome
                           = p[u].agrees_with_outcome
    BY <1>1, <2>2, <2>3
  <2> QED
    BY <1>2, <2>2, <2>4, <2>5, QuietStep
<1>12. CASE \E v \in Address, d \in Address \cup {Contract} : Withdraw(v, id, d)
  <2>1. /\ SameTally(r, resolution'[id])
        /\ assertion' = assertion /\ position' = position
    BY <1>1, <1>12 DEF Withdraw, LooseResolution, Shape, SameTally
  <2> QED
    BY <1>2, <2>1, QuietStep
<1> HIDE DEF a, r, p
<1> QED
  BY <1>3, <1>4, <1>5, <1>6, <1>7, <1>8, <1>9, <1>10, <1>11, <1>12, StepOfRound
     DEF RoundNext

\* The reveal deadline is one and the same for everybody: no reveal counts
\* after it, no round with unrevealed weight is closed by anything but its
\* passing, and no close is followed by another count, in whatever order the
\* permissionless calls around that second arrive.
THEOREM DeadlineAlwaysEndsReveal == Spec => RevealEndsAtDeadline
<1>1. StructureInv /\ [Next]_vars =>
        [\A id \in Ids :
           LET a == assertion[id]
               b == assertion'[id]
               r == resolution[id]
               s == resolution'[id]
               closed == /\ a.phase # "Resolved" /\ b.phase = "Resolved"
                         /\ b.disputer # NoAddress
                         /\ b.terminal_cause # "AdminCancelled"
           IN /\ \A v \in Address \ {a.asserter, a.disputer} :
                   position'[id][v].agrees_with_outcome
                       # position[id][v].agrees_with_outcome
                     => now <= s.reveal_deadline
              /\ closed /\ RevealedWeight(s) < s.eligible_total =>
                   a.phase = "Reveal" /\ now > r.reveal_deadline
              /\ a.phase \in {"Reveal", "Resolved"} =>
                   s.reveal_deadline = r.reveal_deadline
              /\ a.phase = "Resolved" => RevealedWeight(s) = RevealedWeight(r)]_vars
  BY DeadlineKept DEF DeadlineStep, Closed
<1> QED
  BY <1>1, StructureInvariant, PTL DEF Spec, RevealEndsAtDeadline

-----------------------------------------------------------------------------
(* The cutoff.                                                             *)

SameCutoff(r, t) ==
  /\ t.registration_deadline = r.registration_deadline
  /\ t.registration_hard_deadline = r.registration_hard_deadline

CutoffOK(a, r) ==
  a.phase = "Registration" =>
    r.registration_deadline <= r.registration_hard_deadline

CutoffInv ==
  /\ StructureInv
  /\ \A id \in Ids : CutoffOK(assertion[id], resolution[id])

\* The weight a deposit must bring to move the cutoff.
WorthExtending(id) ==
  LET p == assertion[id].policy IN
  \/ resolution'[id].eligible_total - resolution[id].eligible_total
       >= MinResolutionBond(p)
  \/ \E v \in Address : /\ position'[id][v].amount = p.max_position
                        /\ position[id][v].amount < p.max_position

CutoffMoves(id) ==
  LET r == resolution[id]
      s == resolution'[id]
  IN /\ s.registration_deadline >= r.registration_deadline
     /\ s.registration_deadline <= s.registration_hard_deadline
     /\ s.registration_hard_deadline = r.registration_hard_deadline
     /\ s.registration_deadline # r.registration_deadline => WorthExtending(id)

\* A deposit within the cutoff never moves it back, nor past the hard
\* deadline.
LEMMA ExtensionWithinBounds ==
  ASSUME NEW p \in CandidatePolicies, ValidPolicy(p), NEW r \in LooseResolution,
         now \in Nat, RegistrationOpen(r),
         r.registration_deadline <= r.registration_hard_deadline
  PROVE  /\ ExtendedDeadline(p, r) \in Nat
         /\ ExtendedDeadline(p, r) >= r.registration_deadline
         /\ ExtendedDeadline(p, r) <= r.registration_hard_deadline
<1> DEFINE d == r.registration_deadline
           h == r.registration_hard_deadline
           e == p.anti_snipe_extension_secs
<1>1. d \in Nat /\ h \in Nat /\ e \in Nat /\ d <= h /\ now <= d
  BY PolicyFacts DEF LooseResolution, RegistrationOpen
<1>2. ExtendedDeadline(p, r)
        = IF now >= (IF d >= e THEN d - e ELSE 0)
          THEN (IF now + e <= h THEN now + e ELSE h) ELSE d
  BY DEF ExtendedDeadline, SaturatingSub, AtMost
<1> HIDE DEF d, h, e
<1>3. LET x == IF now >= (IF d >= e THEN d - e ELSE 0)
               THEN (IF now + e <= h THEN now + e ELSE h) ELSE d
      IN x \in Nat /\ x >= d /\ x <= h
  BY <1>1
<1> QED
  BY <1>2, <1>3 DEF d, h

LEMMA RegisterMovesCutoff ==
  ASSUME CutoffInv, NEW id \in Ids, NEW v \in Address, NEW d \in Deposits,
         NEW o \in Outcomes, Register(v, id, d, o)
  PROVE  CutoffMoves(id)
<1> DEFINE a == assertion[id]
           r == resolution[id]
           t == resolution'[id]
           n == position[id][v].amount
           total == TotalAfter(r, n, n + d)
           deadline == ExtendedDeadline(a.policy, r)
           m == a.policy.max_position
           w == [NoPosition EXCEPT !.amount = n + d, !.kind = CommitTo(o)]
<1>1. /\ Shape /\ a \in AssertionV2 /\ r \in LooseResolution /\ PartiesOK(a)
      /\ resolution \in [Ids -> LooseResolution] /\ now \in Nat
      /\ position \in [Ids -> [Address -> Position]]
      /\ position[id] \in [Address -> Position] /\ CutoffOK(a, r)
  BY DEF CutoffInv, StructureInv, RoundOK, Shape
<1>2. /\ a.phase = "Registration" /\ d > 0 /\ RegistrationOpen(r)
      /\ d >= EffectiveMinimum(a.policy, n) /\ n + d <= m
      /\ t = [r EXCEPT !.registration_deadline = deadline, !.eligible_total = total]
      /\ position'[id] = [position[id] EXCEPT ![v] = w]
  BY <1>1 DEF Register
<1>3. /\ a.policy \in CandidatePolicies /\ ValidPolicy(a.policy)
      /\ a.policy \in PolicyArgs
  BY <1>1, <1>2, PolicyAssumption DEF PartiesOK
<1>4. /\ deadline \in Nat /\ deadline >= r.registration_deadline
      /\ deadline <= r.registration_hard_deadline
  BY <1>1, <1>2, <1>3, ExtensionWithinBounds DEF CutoffOK
<1>5. /\ n \in Nat /\ d \in Int /\ m \in Int /\ r.eligible_total \in Nat
      /\ MinResolutionBond(a.policy) \in Nat
  BY <1>1, <1>3, BoundAssumption, PolicyFacts
     DEF LooseResolution, Position, PolicyArgs, MinResolutionBond
<1>6. total = r.eligible_total + d
  BY <1>5 DEF TotalAfter
<1>7. position'[id][v].amount = n + d
  BY <1>1, <1>2 DEF NoPosition
<1>8. d >= MinResolutionBond(a.policy) \/ d >= m - n
  BY <1>2, <1>5 DEF EffectiveMinimum, AtMost, Headroom
<1> HIDE DEF deadline, total
<1>9. /\ t.registration_deadline = deadline /\ t.eligible_total = total
      /\ t.registration_hard_deadline = r.registration_hard_deadline
  BY <1>1, <1>2 DEF LooseResolution
<1>10. \/ t.eligible_total - r.eligible_total >= MinResolutionBond(a.policy)
       \/ position'[id][v].amount = m /\ position[id][v].amount < m
  <2>1. CASE d >= MinResolutionBond(a.policy)
    BY <1>5, <1>6, <1>9, <2>1
  <2>2. CASE d >= m - n
    <3>1. n + d = m /\ n < m
      BY <1>2, <1>5, <2>2
    <3> QED
      BY <1>7, <3>1
  <2> QED
    BY <1>8, <2>1, <2>2
<1>11. WorthExtending(id)
  BY <1>10 DEF WorthExtending
<1> QED
  BY <1>4, <1>9, <1>11 DEF CutoffMoves

LEMMA KeptCutoff ==
  ASSUME CutoffInv, NEW id \in Ids, assertion[id].phase = "Registration",
         SameCutoff(resolution[id], resolution'[id])
  PROVE  CutoffMoves(id)
<1>1. /\ resolution[id] \in LooseResolution
      /\ CutoffOK(assertion[id], resolution[id])
  BY DEF CutoffInv, StructureInv, RoundOK
<1> QED
  BY <1>1 DEF CutoffOK, CutoffMoves, SameCutoff, LooseResolution

LEMMA OpeningKeepsCutoff ==
  ASSUME NEW id \in Ids, resolution[id] \in LooseResolution
  PROVE  SameCutoff(resolution[id], RoundInReveal(id).r)
<1> DEFINE a == assertion[id]
           r == resolution[id]
           p == position[id]
           deadline == now + a.policy.reveal_duration_secs
           x == p[a.asserter].amount
           y == p[a.disputer].amount
           t == [r EXCEPT !.reveal_opened_at = now, !.reveal_deadline = deadline,
                          !.agree_weight = @ + x, !.disagree_weight = @ + y]
<1>1. RoundInReveal(id).r = IF a.phase = "Registration" THEN t ELSE r
  BY DEF RoundInReveal, OpenRevealPhase
<1> HIDE DEF deadline, x, y
<1>2. SameCutoff(r, t) /\ SameCutoff(r, r)
  BY DEF SameCutoff, LooseResolution
<1> QED
  BY <1>1, <1>2

\* While registration is open, a step moves the cutoff as stated.
LEMMA CutoffStep ==
  ASSUME CutoffInv, [Next]_vars, NEW id \in Ids,
         assertion[id].phase = "Registration"
  PROVE  CutoffMoves(id)
<1> DEFINE a == assertion[id]
           r == resolution[id]
           t == resolution'[id]
<1>1. /\ StructureInv /\ Shape /\ RoundOK(a, r, position[id])
      /\ r \in LooseResolution /\ resolution \in [Ids -> LooseResolution]
  BY DEF CutoffInv, StructureInv, RoundOK, Shape
<1>2. CASE id = next_id /\ \E v \in Address, o \in Outcomes : AssertOutcome(v, o)
  BY <1>2, KeptCutoff DEF AssertOutcome, SameCutoff
<1>3. CASE \/ SameRound(id)
           \/ \E k \in AdminKeys : CancelRound(k, id)
           \/ \E v \in Address : Finalize(v, id)
  BY <1>3, KeptCutoff DEF SameRound, CancelRound, Finalize, SameCutoff
<1>4. CASE \E v \in Address : Dispute(v, id)
  BY <1>4 DEF Dispute
<1>5. CASE \E v \in Address, d \in Deposits, o \in Outcomes : Register(v, id, d, o)
  BY <1>5, RegisterMovesCutoff
<1>6. CASE \E v \in Address, o \in Outcomes : Reveal(v, id, o)
  <2>1. PICK v \in Address, o \in Outcomes : Reveal(v, id, o)
    BY <1>6
  <2> DEFINE s == RoundInReveal(id)
             side == IF o = s.a.outcome THEN "agree" ELSE "disagree"
             n == s.p[v].amount
  <2>2. t = Counted(s.r, side, n) /\ RegistrationOver(id)
    BY <1>1, <2>1 DEF Reveal
  <2>3. SameCutoff(r, s.r)
    BY <1>1, OpeningKeepsCutoff
  <2>4. s.r \in LooseResolution
    BY <1>1, <2>2, LazyOpening DEF RoundOK, Shape
  <2> HIDE DEF s, side, n
  <2>5. SameCutoff(s.r, Counted(s.r, side, n))
    BY <2>4 DEF SameCutoff, Counted, LooseResolution
  <2>6. SameCutoff(r, t)
    BY <2>2, <2>3, <2>5 DEF SameCutoff
  <2> QED
    BY <2>6, KeptCutoff
<1>7. CASE ResolveOutcome(id)
  <2>1. t = RoundInReveal(id).r
    BY <1>1, <1>7 DEF ResolveOutcome
  <2>2. SameCutoff(r, t)
    BY <1>1, <2>1, OpeningKeepsCutoff
  <2> QED
    BY <2>2, KeptCutoff
<1>8. CASE \E v \in Address : Settle(id, v)
  BY <1>8 DEF Settle, SettleRecipient, SettleForfeited, Settleable
<1>9. CASE \E v \in Address, d \in Address \cup {Contract} : Withdraw(v, id, d)
  <2>1. SameCutoff(r, t)
    BY <1>1, <1>9 DEF Withdraw, SameCutoff, LooseResolution
  <2> QED
    BY <2>1, KeptCutoff
<1> QED
  BY <1>1, <1>2, <1>3, <1>4, <1>5, <1>6, <1>7, <1>8, <1>9, StepOfRound DEF RoundNext

\* No call but dispute starts a registration phase.
LEMMA RegistrationStarts ==
  ASSUME StructureInv, [Next]_vars, NEW id \in Ids,
         assertion[id].phase # "Registration",
         assertion'[id].phase = "Registration"
  PROVE  \E v \in Address : Dispute(v, id)
<1> DEFINE a == assertion[id]
           b == assertion'[id]
<1>1. /\ Shape /\ RoundOK(a, resolution[id], position[id]) /\ a \in AssertionV2
      /\ assertion \in [Ids -> AssertionV2] /\ now \in Nat
  BY DEF StructureInv, RoundOK, Shape
<1>2. CASE b = a
  BY <1>2
<1>3. CASE id = next_id /\ \E v \in Address, o \in Outcomes : AssertOutcome(v, o)
  <2>1. PICK v \in Address, o \in Outcomes :
          b = [NoAssertion EXCEPT !.phase = "Pending", !.asserter = v,
                           !.opened_at = now, !.outcome = o, !.policy = policy]
    BY <1>1, <1>3 DEF AssertOutcome
  <2>2. b.phase = "Pending"
    BY <2>1 DEF NoAssertion
  <2> QED
    BY <2>2
<1>4. CASE \/ \E k \in AdminKeys : CancelRound(k, id)
           \/ \E v \in Address : Finalize(v, id)
  <2>1. b.phase = "Resolved"
    BY <1>1, <1>4, ZenonT(60) DEF CancelRound, Finalize, AssertionV2
  <2> QED
    BY <2>1
<1>5. CASE \E v \in Address, o \in Outcomes : Reveal(v, id, o)
  <2>1. PICK v \in Address, o \in Outcomes : Reveal(v, id, o)
    BY <1>5
  <2>2. a.phase = "Reveal"
    BY <2>1 DEF Reveal, RegistrationOver
  <2>3. RoundInReveal(id).a = a
    BY <2>2 DEF RoundInReveal
  <2>4. \E t : b = CloseRevealIfReady(a, t, FALSE)
    BY <1>1, <2>1, <2>3 DEF Reveal
  <2> QED
    BY <1>1, <2>2, <2>4 DEF CloseRevealIfReady, DefaultIfUndecided,
       OptimisticDefault, LockOutcomeIfUndecided, AssertionV2
<1>6. CASE ResolveOutcome(id)
  <2>1. a.phase = "Reveal"
    BY <1>6 DEF ResolveOutcome, RegistrationOver
  <2>2. RoundInReveal(id).a = a
    BY <2>1 DEF RoundInReveal
  <2>3. b = CloseRevealIfReady(a, RoundInReveal(id).r, TRUE)
    BY <1>1, <1>6, <2>1, <2>2 DEF ResolveOutcome
  <2> QED
    BY <1>1, <2>1, <2>3 DEF CloseRevealIfReady, DefaultIfUndecided,
       OptimisticDefault, LockOutcomeIfUndecided, AssertionV2
<1>7. CASE \/ SameRound(id)
           \/ \E v \in Address, d \in Deposits, o \in Outcomes : Register(v, id, d, o)
           \/ \E v \in Address : Settle(id, v)
           \/ \E v \in Address, d \in Address \cup {Contract} : Withdraw(v, id, d)
  BY <1>2, <1>7 DEF SameRound, Register, Settle, SettleRecipient, SettleForfeited,
                    Withdraw
<1> QED
  BY <1>3, <1>4, <1>5, <1>6, <1>7, StepOfRound DEF RoundNext

LEMMA CutoffInvariant == Spec => []CutoffInv
<1>1. Init => CutoffInv
  <2> SUFFICES ASSUME Init, NEW id \in Ids
               PROVE  CutoffOK(assertion[id], resolution[id])
    BY InitStructure DEF CutoffInv
  <2> QED
    BY DEF Init, NoAssertion, CutoffOK
<1>2. CutoffInv /\ [Next]_vars => CutoffInv'
  <2> SUFFICES ASSUME CutoffInv, [Next]_vars, NEW id \in Ids
               PROVE  CutoffOK(assertion'[id], resolution'[id])
    <3>1. CutoffInv => StructureInv
      BY DEF CutoffInv
    <3> QED
      BY <3>1, StructureStep DEF CutoffInv
  <2>1. CASE assertion[id].phase = "Registration"
    BY <2>1, CutoffStep DEF CutoffMoves, CutoffOK
  <2>2. CASE /\ assertion[id].phase # "Registration"
             /\ assertion'[id].phase = "Registration"
    <3>1. StructureInv
      BY DEF CutoffInv
    <3>2. PICK v \in Address : Dispute(v, id)
      BY <2>2, <3>1, RegistrationStarts
    <3> DEFINE p == assertion[id].policy
    <3>3. p \in CandidatePolicies /\ ValidPolicy(p)
      BY <3>1, <3>2 DEF Dispute, StructureInv, RoundOK, PartiesOK
    <3>4. /\ now \in Nat /\ p.registration_duration_secs \in Nat
          /\ p.anti_snipe_hard_max_secs \in Nat
          /\ p.registration_duration_secs <= p.anti_snipe_hard_max_secs
      BY <3>1, <3>3, PolicyFacts DEF ValidPolicy, StructureInv, Shape
    <3>5. /\ resolution'[id].registration_deadline
               = now + p.registration_duration_secs
          /\ resolution'[id].registration_hard_deadline
               = now + p.anti_snipe_hard_max_secs
      BY <3>1, <3>2 DEF Dispute, NoResolution, StructureInv, Shape
    <3> QED
      BY <3>4, <3>5 DEF CutoffOK
  <2> QED
    BY <2>1, <2>2 DEF CutoffOK
<1> QED
  BY <1>1, <1>2, PTL DEF Spec

\* Whatever policy was accepted and whatever is deposited, the cutoff only
\* moves later and never past the hard deadline of the dispute, and nobody
\* moves it without bonding a minimum bond or filling a position.
THEOREM CutoffOnlyMovesForWeight == Spec => CutoffMovesOnlyForWeight
<1>1. CutoffInv /\ [Next]_vars =>
        [\A id \in Ids :
           LET r == resolution[id]
               s == resolution'[id]
               p == assertion[id].policy
           IN assertion[id].phase = "Registration" =>
                /\ s.registration_deadline >= r.registration_deadline
                /\ s.registration_deadline <= s.registration_hard_deadline
                /\ s.registration_hard_deadline = r.registration_hard_deadline
                /\ s.registration_deadline # r.registration_deadline =>
                     \/ s.eligible_total - r.eligible_total >= MinResolutionBond(p)
                     \/ \E v \in Address :
                          /\ position'[id][v].amount = p.max_position
                          /\ position[id][v].amount < p.max_position]_vars
  BY CutoffStep DEF CutoffMoves, WorthExtending
<1> QED
  BY <1>1, CutoffInvariant, PTL DEF Spec, CutoffMovesOnlyForWeight

-----------------------------------------------------------------------------
(* The decision and the weights.                                           *)

\* What DecisionMatchesWeights says of one round.
DecisionOK(a, r) ==
  LET w == r.eligible_total IN
  /\ a.terminal_cause = "StrictMajorityFor" =>
       2 * r.agree_weight > w /\ a.final_outcome = a.outcome
  /\ a.terminal_cause = "StrictMajorityAgainst" =>
       2 * r.disagree_weight > w /\ a.final_outcome = Opposite(a.outcome)
  /\ a.terminal_cause = "OptimisticTimeout" =>
       /\ 2 * RevealedWeight(r) > w
       /\ 2 * r.agree_weight <= w /\ 2 * r.disagree_weight <= w
       /\ a.final_outcome = a.outcome
  /\ a.terminal_cause = "RevealQuorumNotMet" =>
       2 * RevealedWeight(r) <= w /\ a.final_outcome = "none"
  /\ a.terminal_cause = "AdminCancelled" => a.final_outcome = "none"
  /\ a.terminal_cause = "NotYetDecided" =>
       /\ a.phase # "Resolved" /\ a.final_outcome = "none"
       /\ 2 * r.agree_weight <= w /\ 2 * r.disagree_weight <= w

\* What is known of a round before an attempt to close it: a locked majority
\* still is one, and without one no outcome is recorded.
LockedOK(a, r) ==
  LET w == r.eligible_total IN
  /\ a.terminal_cause \in {"NotYetDecided", "StrictMajorityFor",
                            "StrictMajorityAgainst"}
  /\ a.terminal_cause = "StrictMajorityFor" =>
       2 * r.agree_weight > w /\ a.final_outcome = a.outcome
  /\ a.terminal_cause = "StrictMajorityAgainst" =>
       2 * r.disagree_weight > w /\ a.final_outcome = Opposite(a.outcome)
  /\ a.terminal_cause = "NotYetDecided" => a.final_outcome = "none"

LEMMA CloseDecision ==
  ASSUME NEW a \in AssertionV2, NEW r \in LooseResolution, NEW f \in BOOLEAN,
         a.phase = "Reveal", LockedOK(a, r)
  PROVE  DecisionOK(CloseRevealIfReady(a, r, f), r)
<1> DEFINE w == r.eligible_total
           x == r.agree_weight
           y == r.disagree_weight
           locked == LockOutcomeIfUndecided(a, r)
           dflt == DefaultIfUndecided(locked, r)
           b == CloseRevealIfReady(a, r, f)
<1>1. w \in Nat /\ x \in Nat /\ y \in Nat
  BY DEF LooseResolution
<1>2. /\ \A n \in Nat : StrictMajority(n, w) <=> 2 * n > w
      /\ RevealedWeight(r) = x + y
  BY <1>1 DEF StrictMajority, RevealedWeight
<1>3. /\ LockedOK(locked, r) /\ locked.phase = "Reveal" /\ locked \in AssertionV2
      /\ locked.terminal_cause = "NotYetDecided" => 2 * x <= w /\ 2 * y <= w
  <2>1. CASE a.terminal_cause # "NotYetDecided"
    <3>1. locked = a
      BY <2>1 DEF LockOutcomeIfUndecided
    <3> QED
      BY <2>1, <3>1
  <2>2. CASE a.terminal_cause = "NotYetDecided" /\ 2 * x > w
    <3>1. locked = [a EXCEPT !.terminal_cause = "StrictMajorityFor",
                             !.final_outcome = a.outcome]
      BY <1>1, <1>2, <2>2 DEF LockOutcomeIfUndecided
    <3>2. /\ locked \in AssertionV2 /\ locked.phase = "Reveal"
          /\ locked.terminal_cause = "StrictMajorityFor"
          /\ locked.final_outcome = locked.outcome
      BY <3>1 DEF AssertionV2, Outcomes, TerminalCauses
    <3> HIDE DEF locked
    <3> QED
      BY <2>2, <3>2 DEF LockedOK
  <2>3. CASE a.terminal_cause = "NotYetDecided" /\ ~(2 * x > w) /\ 2 * y > w
    <3>1. locked = [a EXCEPT !.terminal_cause = "StrictMajorityAgainst",
                             !.final_outcome = Opposite(a.outcome)]
      BY <1>1, <1>2, <2>3 DEF LockOutcomeIfUndecided
    <3>2. /\ locked \in AssertionV2 /\ locked.phase = "Reveal"
          /\ locked.terminal_cause = "StrictMajorityAgainst"
          /\ locked.final_outcome = Opposite(locked.outcome)
      BY <3>1 DEF AssertionV2, Outcomes, Opposite, TerminalCauses
    <3> HIDE DEF locked
    <3> QED
      BY <2>3, <3>2 DEF LockedOK
  <2>4. CASE a.terminal_cause = "NotYetDecided" /\ ~(2 * x > w) /\ ~(2 * y > w)
    <3>1. locked = a
      BY <1>1, <1>2, <2>4 DEF LockOutcomeIfUndecided
    <3> QED
      BY <1>1, <2>4, <3>1
  <2> QED
    BY <2>1, <2>2, <2>3, <2>4
<1>4. CASE f \/ RevealedWeight(r) >= r.eligible_total
  <2>1. b = [dflt EXCEPT !.phase = "Resolved"]
    BY <1>4 DEF CloseRevealIfReady
  <2> HIDE DEF locked
  <2>2. CASE locked.terminal_cause # "NotYetDecided"
    <3>1. b = [locked EXCEPT !.phase = "Resolved"]
      BY <2>1, <2>2 DEF DefaultIfUndecided, OptimisticDefault
    <3>2. /\ b.phase = "Resolved" /\ b.terminal_cause = locked.terminal_cause
          /\ b.final_outcome = locked.final_outcome /\ b.outcome = locked.outcome
      BY <1>3, <3>1 DEF AssertionV2
    <3> HIDE DEF b
    <3> QED
      BY <1>3, <2>2, <3>2 DEF DecisionOK, LockedOK, b
  <2>3. CASE locked.terminal_cause = "NotYetDecided" /\ 2 * (x + y) > w
    <3>0. StrictMajority(RevealedWeight(r), w)
      BY <1>1, <1>2, <2>3
    <3>1. b = [[locked EXCEPT !.terminal_cause = "OptimisticTimeout",
                              !.final_outcome = locked.outcome]
                 EXCEPT !.phase = "Resolved"]
      <4>1. dflt = [locked EXCEPT !.terminal_cause = "OptimisticTimeout",
                                  !.final_outcome = locked.outcome]
        BY <2>3, <3>0 DEF DefaultIfUndecided, OptimisticDefault
      <4> HIDE DEF dflt, b
      <4> QED
        BY <2>1, <4>1
    <3>2. /\ b.terminal_cause = "OptimisticTimeout"
          /\ b.final_outcome = b.outcome
      BY <1>3, <3>1 DEF AssertionV2
    <3> HIDE DEF b
    <3> QED
      BY <1>2, <1>3, <2>3, <3>2 DEF DecisionOK, b
  <2>4. CASE locked.terminal_cause = "NotYetDecided" /\ ~(2 * (x + y) > w)
    <3>0. ~StrictMajority(RevealedWeight(r), w)
      BY <1>1, <1>2, <2>4
    <3>1. b = [[locked EXCEPT !.terminal_cause = "RevealQuorumNotMet"]
                 EXCEPT !.phase = "Resolved"]
      <4>1. dflt = [locked EXCEPT !.terminal_cause = "RevealQuorumNotMet"]
        BY <2>4, <3>0 DEF DefaultIfUndecided, OptimisticDefault
      <4> HIDE DEF dflt, b
      <4> QED
        BY <2>1, <4>1
    <3>2. /\ b.terminal_cause = "RevealQuorumNotMet"
          /\ b.final_outcome = locked.final_outcome
      BY <1>3, <3>1 DEF AssertionV2
    <3>3. locked.final_outcome = "none"
      BY <1>3, <2>4 DEF LockedOK
    <3>4. 2 * RevealedWeight(r) <= w
      BY <1>1, <1>2, <2>4
    <3> HIDE DEF b
    <3> QED
      BY <3>2, <3>3, <3>4 DEF DecisionOK, b
  <2> QED
    BY <2>2, <2>3, <2>4
<1>5. CASE ~(f \/ RevealedWeight(r) >= r.eligible_total)
  <2>1. b = locked
    BY <1>5 DEF CloseRevealIfReady
  <2> HIDE DEF locked, b
  <2> QED
    BY <1>3, <2>1 DEF DecisionOK, LockedOK, b
<1> QED
  BY <1>4, <1>5

\* Later reveals do not undo a locked majority.
LEMMA StillLocked ==
  ASSUME NEW a \in AssertionV2, NEW r \in LooseResolution, NEW t \in LooseResolution,
         a.phase = "Reveal", CauseOK(a), DecisionOK(a, r),
         t.eligible_total = r.eligible_total,
         t.agree_weight >= r.agree_weight, t.disagree_weight >= r.disagree_weight
  PROVE  LockedOK(a, t)
<1>1. /\ r.eligible_total \in Nat /\ r.agree_weight \in Nat /\ r.disagree_weight \in Nat
      /\ t.agree_weight \in Nat /\ t.disagree_weight \in Nat
  BY DEF LooseResolution
<1> QED
  BY <1>1 DEF DecisionOK, LockedOK, CauseOK

LEMMA LazyOpeningDecision ==
  ASSUME NEW id \in Ids, now \in Nat, RegistrationOver(id),
         RoundOK(assertion[id], resolution[id], position[id]),
         DecisionOK(assertion[id], resolution[id])
  PROVE  DecisionOK(RoundInReveal(id).a, RoundInReveal(id).r)
<1> DEFINE a == assertion[id]
           r == resolution[id]
           s == RoundInReveal(id)
           a1 == [a EXCEPT !.phase = "Reveal"]
<1>1. CASE a.phase = "Registration"
  <2>1. a \in AssertionV2 /\ a.terminal_cause = "NotYetDecided" /\ a.final_outcome = "none"
    BY <1>1 DEF RoundOK, CauseOK, DecisionOK
  <2>2. s.a = CloseRevealIfReady(a1, s.r, FALSE)
    BY <1>1 DEF RoundInReveal, OpenRevealPhase
  <2>3. s.r \in LooseResolution
    BY LazyOpening DEF RoundOK
  <2> HIDE DEF s
  <2>4. a1 \in AssertionV2 /\ a1.phase = "Reveal" /\ LockedOK(a1, s.r)
    BY <2>1 DEF AssertionV2, Phases, LockedOK
  <2> HIDE DEF a1
  <2>5. DecisionOK(s.a, s.r)
    BY <2>2, <2>3, <2>4, CloseDecision
  <2> QED
    BY <2>5 DEF s
<1>2. CASE a.phase = "Reveal"
  <2>1. s.a = a /\ s.r = r
    BY <1>2 DEF RoundInReveal
  <2> QED
    BY <2>1
<1> QED
  BY <1>1, <1>2 DEF RegistrationOver

DecisionInv ==
  /\ StructureInv
  /\ \A id \in Ids : DecisionOK(assertion[id], resolution[id])

LEMMA InitDecision == Init => DecisionInv
<1> SUFFICES ASSUME Init, NEW id \in Ids PROVE DecisionOK(assertion[id], resolution[id])
  BY InitStructure DEF DecisionInv
<1>1. assertion[id] = NoAssertion /\ resolution[id] = NoResolution
  BY DEF Init
<1>2. /\ NoAssertion.phase = "Absent" /\ NoAssertion.terminal_cause = "NotYetDecided"
      /\ NoAssertion.final_outcome = "none"
      /\ NoResolution.eligible_total = 0 /\ NoResolution.agree_weight = 0
      /\ NoResolution.disagree_weight = 0
  BY DEF NoAssertion, NoResolution
<1> QED
  BY <1>1, <1>2 DEF DecisionOK

\* The decision survives a step that changes neither the record of the
\* assertion nor the tallies.
LEMMA SameTallyDecision ==
  ASSUME NEW a, NEW r, NEW t, DecisionOK(a, r),
         t.eligible_total = r.eligible_total,
         t.agree_weight = r.agree_weight, t.disagree_weight = r.disagree_weight
  PROVE  DecisionOK(a, t)
BY DEF DecisionOK, RevealedWeight

\* DecisionInv is inductive.
LEMMA DecisionStep == DecisionInv /\ [Next]_vars => DecisionInv'
<1> SUFFICES ASSUME DecisionInv, [Next]_vars, NEW id \in Ids
             PROVE  DecisionOK(assertion'[id], resolution'[id])
  <2>1. DecisionInv => StructureInv
    BY DEF DecisionInv
  <2> QED
    BY <2>1, StructureStep DEF DecisionInv
<1> DEFINE a == assertion[id]
           r == resolution[id]
           b == assertion'[id]
           t == resolution'[id]
<1>1. /\ StructureInv /\ Shape /\ RoundOK(a, r, position[id]) /\ DecisionOK(a, r)
      /\ a \in AssertionV2 /\ r \in LooseResolution /\ now \in Nat
      /\ CauseOK(a) /\ PartiesOK(a)
      /\ assertion \in [Ids -> AssertionV2]
      /\ resolution \in [Ids -> LooseResolution]
      /\ position[id] \in [Address -> Position]
  BY DEF DecisionInv, StructureInv, RoundOK, Shape
<1>2. CASE SameRound(id)
  BY <1>1, <1>2 DEF SameRound
<1>3. CASE id = next_id /\ \E v \in Address, o \in Outcomes : AssertOutcome(v, o)
  <2>1. PICK v \in Address, o \in Outcomes : AssertOutcome(v, o)
    BY <1>3
  <2>2. /\ b = [NoAssertion EXCEPT !.phase = "Pending", !.asserter = v,
                           !.opened_at = now, !.outcome = o, !.policy = policy]
        /\ t = r
    BY <1>1, <1>3, <2>1 DEF AssertOutcome
  <2>3. /\ b.phase = "Pending" /\ b.terminal_cause = "NotYetDecided"
        /\ b.final_outcome = "none"
    BY <2>2 DEF NoAssertion
  <2>4. a.terminal_cause = "NotYetDecided"
    BY <1>1, <1>3 DEF Shape, CauseOK, Ids
  <2> QED
    BY <1>1, <2>2, <2>3, <2>4 DEF DecisionOK
<1>4. CASE \E k \in AdminKeys : CancelRound(k, id)
  <2>1. /\ b = [a EXCEPT !.phase = "Resolved", !.terminal_cause = "AdminCancelled"]
        /\ a.terminal_cause = "NotYetDecided"
    BY <1>1, <1>4 DEF CancelRound, Undecided
  <2>2. b.terminal_cause = "AdminCancelled" /\ b.final_outcome = "none"
    BY <1>1, <2>1 DEF AssertionV2, DecisionOK
  <2> QED
    BY <2>2 DEF DecisionOK
<1>5. CASE \E v \in Address : Finalize(v, id)
  <2>1. b = [a EXCEPT !.phase = "Resolved",
                      !.terminal_cause = "UncontestedFinalize",
                      !.final_outcome = a.outcome]
    BY <1>1, <1>5 DEF Finalize
  <2>2. b.terminal_cause = "UncontestedFinalize"
    BY <1>1, <2>1 DEF AssertionV2
  <2> QED
    BY <2>2 DEF DecisionOK
<1>6. CASE \E v \in Address : Dispute(v, id)
  <2>1. PICK v \in Address : Dispute(v, id)
    BY <1>6
  <2>2. /\ b = [a EXCEPT !.disputer = v, !.phase = "Registration"]
        /\ t.eligible_total = a.policy.base_bond * 2
        /\ t.agree_weight = 0 /\ t.disagree_weight = 0
        /\ a.phase = "Pending"
    BY <1>1, <2>1 DEF Dispute, NoResolution
  <2>3. a.terminal_cause = "NotYetDecided" /\ a.policy.base_bond \in Nat
    BY <1>1, <2>2, PolicyFacts DEF CauseOK, PartiesOK
  <2>4. /\ b.terminal_cause = "NotYetDecided" /\ b.phase = "Registration"
        /\ b.final_outcome = "none"
    BY <1>1, <2>2, <2>3 DEF AssertionV2, DecisionOK
  <2> QED
    BY <2>2, <2>3, <2>4 DEF DecisionOK
<1>7. CASE \E v \in Address, d \in Deposits, o \in Outcomes : Register(v, id, d, o)
  <2>1. PICK v \in Address, d \in Deposits, o \in Outcomes : Register(v, id, d, o)
    BY <1>7
  <2> DEFINE amount == position[id][v].amount
             total == TotalAfter(r, amount, amount + d)
  <2>2. /\ b = a /\ a.phase = "Registration" /\ d > 0
        /\ t = [r EXCEPT !.registration_deadline = ExtendedDeadline(a.policy, r),
                         !.eligible_total = total]
    BY <1>1, <2>1 DEF Register
  <2>3. /\ t.eligible_total = total /\ t.agree_weight = r.agree_weight
        /\ t.disagree_weight = r.disagree_weight
    BY <1>1, <2>2 DEF LooseResolution
  <2>4. /\ r.eligible_total \in Nat /\ r.agree_weight \in Nat
        /\ r.disagree_weight \in Nat /\ amount \in Nat /\ d \in Int
    BY <1>1, BoundAssumption DEF LooseResolution, Position
  <2>5. total = r.eligible_total + d
    BY <2>4 DEF TotalAfter
  <2>6. a.terminal_cause = "NotYetDecided"
    BY <1>1, <2>2 DEF CauseOK
  <2> HIDE DEF amount, total
  <2> QED
    BY <1>1, <2>2, <2>3, <2>4, <2>5, <2>6 DEF DecisionOK
<1>8. CASE \E v \in Address, o \in Outcomes : Reveal(v, id, o)
  <2>1. PICK v \in Address, o \in Outcomes : Reveal(v, id, o)
    BY <1>8
  <2> DEFINE s == RoundInReveal(id)
             side == IF o = s.a.outcome THEN "agree" ELSE "disagree"
             n == s.p[v].amount
             tally == Counted(s.r, side, n)
             c == CloseRevealIfReady(s.a, tally, FALSE)
  <2>2. /\ RegistrationOver(id) /\ s.p[v].agrees_with_outcome = "none"
        /\ b = c /\ t = tally
    BY <1>1, <2>1 DEF Reveal
  <2>3. /\ RoundOK(s.a, s.r, s.p)
        /\ s.a.phase \in {"Reveal", "Resolved"} /\ s.a.disputer # NoAddress
    BY <1>1, <2>2, LazyOpening
  <2>4. DecisionOK(s.a, s.r)
    BY <1>1, <2>2, LazyOpeningDecision
  <2>5. s.a.phase = "Resolved" => RevealedWeight(s.r) >= s.r.eligible_total
    BY <1>1, <2>2, LazyOpeningTally
  <2>6. side \in {"agree", "disagree"}
    OBVIOUS
  <2> HIDE DEF s, side
  <2>7. /\ s.a \in AssertionV2 /\ s.r \in LooseResolution /\ CauseOK(s.a) /\ n \in Nat
    BY <2>3 DEF RoundOK, Position
  <2>8. RoundOK(c, tally, ShowAt(s.p, v, side))
    BY <2>2, <2>3, <2>6, RevealResult
  <2> HIDE DEF n
  <2>9. /\ tally.eligible_total = s.r.eligible_total
        /\ tally.agree_weight = s.r.agree_weight + (IF side = "agree" THEN n ELSE 0)
        /\ tally.disagree_weight
              = s.r.disagree_weight + (IF side = "disagree" THEN n ELSE 0)
    BY <2>6, <2>7 DEF Counted, LooseResolution
  <2>10. /\ s.r.agree_weight \in Nat /\ s.r.disagree_weight \in Nat
         /\ s.r.eligible_total \in Nat /\ tally \in LooseResolution
    BY <2>7, <2>8 DEF LooseResolution, RoundOK
  <2> HIDE DEF tally
  <2>11. CASE s.a.phase = "Reveal"
    <3>1. /\ tally.agree_weight >= s.r.agree_weight
          /\ tally.disagree_weight >= s.r.disagree_weight
      BY <2>7, <2>9, <2>10
    <3>2. LockedOK(s.a, tally)
      BY <2>4, <2>7, <2>9, <2>10, <2>11, <3>1, StillLocked
    <3> QED
      BY <2>2, <2>7, <2>10, <2>11, <3>2, CloseDecision
  <2>12. CASE s.a.phase = "Resolved"
    <3>1. tally.agree_weight + tally.disagree_weight <= tally.eligible_total
      <4>1. TalliesOK(tally, ShowAt(s.p, v, side))
            /\ ShowAt(s.p, v, side) \in [Address -> Position]
        BY <2>8 DEF RoundOK
      <4> QED
        BY <4>1, RevealedWithinStake DEF TalliesOK
    <3>2. n = 0
      BY <2>5, <2>6, <2>7, <2>9, <2>10, <2>12, <3>1 DEF RevealedWeight
    <3>3. /\ tally.agree_weight = s.r.agree_weight
          /\ tally.disagree_weight = s.r.disagree_weight
      BY <2>9, <2>10, <3>2
    <3>4. s.a.terminal_cause # "NotYetDecided"
      BY <2>7, <2>12 DEF CauseOK
    <3>5. c = s.a
      <4>1. LockOutcomeIfUndecided(s.a, tally) = s.a
        BY <3>4 DEF LockOutcomeIfUndecided
      <4>2. DefaultIfUndecided(s.a, tally) = s.a
        BY <3>4 DEF DefaultIfUndecided, OptimisticDefault
      <4>3. [s.a EXCEPT !.phase = "Resolved"] = s.a
        BY <2>7, <2>12 DEF AssertionV2
      <4> QED
        BY <4>1, <4>2, <4>3 DEF CloseRevealIfReady
    <3> QED
      BY <2>2, <2>4, <2>9, <3>3, <3>5, SameTallyDecision
  <2> QED
    BY <2>3, <2>11, <2>12
<1>9. CASE ResolveOutcome(id)
  <2> DEFINE s == RoundInReveal(id)
             c == IF s.a.phase = "Resolved" THEN s.a
                  ELSE CloseRevealIfReady(s.a, s.r, TRUE)
  <2>1. RegistrationOver(id) /\ b = c /\ t = s.r
    BY <1>1, <1>9 DEF ResolveOutcome
  <2>2. /\ RoundOK(s.a, s.r, s.p)
        /\ s.a.phase \in {"Reveal", "Resolved"} /\ s.a.disputer # NoAddress
    BY <1>1, <2>1, LazyOpening
  <2>3. DecisionOK(s.a, s.r)
    BY <1>1, <2>1, LazyOpeningDecision
  <2> HIDE DEF s
  <2>4. CASE s.a.phase = "Resolved"
    BY <2>1, <2>3, <2>4
  <2>5. CASE s.a.phase = "Reveal"
    <3>1. s.a \in AssertionV2 /\ s.r \in LooseResolution /\ CauseOK(s.a)
      BY <2>2 DEF RoundOK
    <3>2. s.r.agree_weight >= s.r.agree_weight /\ s.r.disagree_weight >= s.r.disagree_weight
      BY <3>1 DEF LooseResolution
    <3>3. LockedOK(s.a, s.r)
      BY <2>3, <2>5, <3>1, <3>2, StillLocked
    <3>4. b = CloseRevealIfReady(s.a, s.r, TRUE)
      BY <2>1, <2>5
    <3> QED
      BY <2>1, <2>5, <3>1, <3>3, <3>4, CloseDecision
  <2> QED
    BY <2>2, <2>4, <2>5
<1>10. CASE \E v \in Address : Settle(id, v)
  <2>1. /\ b = a /\ t.eligible_total = r.eligible_total
        /\ t.agree_weight = r.agree_weight /\ t.disagree_weight = r.disagree_weight
    <3>1. PICK v \in Address : Settle(id, v)
      BY <1>10
    <3>2. CASE SettleForfeited(id, v)
      BY <3>2 DEF SettleForfeited
    <3>3. CASE SettleRecipient(id, v)
      <4> DEFINE x == Settlement(id, v)
      <4>1. b = a
        BY <3>3 DEF SettleRecipient
      <4>2. t = [r EXCEPT !.settled_recipient_weight = x.settled_weight,
                         !.settled_reward_total = x.rewards,
                         !.outstanding_liability = @ + x.accrued]
        BY <1>1, <3>3 DEF SettleRecipient
      <4> HIDE DEF x
      <4> QED
        BY <1>1, <4>1, <4>2 DEF LooseResolution
    <3> QED
      BY <3>1, <3>2, <3>3 DEF Settle
  <2> QED
    BY <1>1, <2>1, SameTallyDecision
<1>11. CASE \E v \in Address, d \in Address \cup {Contract} : Withdraw(v, id, d)
  <2>1. /\ b = a /\ t.eligible_total = r.eligible_total
        /\ t.agree_weight = r.agree_weight /\ t.disagree_weight = r.disagree_weight
    BY <1>1, <1>11 DEF Withdraw, LooseResolution
  <2> QED
    BY <1>1, <2>1, SameTallyDecision
<1> HIDE DEF a, r, b, t
<1> QED
  BY <1>1, <1>2, <1>3, <1>4, <1>5, <1>6, <1>7, <1>8, <1>9, <1>10, <1>11, StepOfRound
     DEF RoundNext, a, r, b, t

LEMMA DecisionInvariant == Spec => []DecisionInv
BY InitDecision, DecisionStep, PTL DEF Spec

\* Every recorded decision is the one that the frozen weights call for: an
\* early lock, a close by resolve_outcome and a close by the last reveal
\* agree on it, in rounds of any size.
THEOREM DecisionFollowsWeights == Spec => []DecisionMatchesWeights
<1>1. DecisionInv => DecisionMatchesWeights
  BY DEF DecisionInv, DecisionOK, DecisionMatchesWeights
<1> QED
  BY <1>1, DecisionInvariant, PTL
=============================================================================
