----------------------- MODULE TholosV2LifetimesProofs -----------------------
(***************************************************************************)
(* The records of a disputed round outlast its horizon, and spent credits  *)
(* are not renewed, for any policies, any lifetimes and any order of       *)
(* calls, bumps and restorations.                                          *)
(*                                                                         *)
(* A step of the contract with lifetimes is a step of the contract or      *)
(* changes none of its entries, so everything proved of Spec holds.  The   *)
(* argument for the lifetimes: no call shortens one, a call that writes an *)
(* entry leaves it record_bump ledgers less a day, a round's hard deadline *)
(* is never further away than its policy's hard maximum, an entry that     *)
(* comes to matter to a round is one that the same call writes, and        *)
(* converting the durations and the clock apart loses one ledger at most.  *)
(***************************************************************************)
EXTENDS TholosV2Lifetimes, TholosV2SettlementProofs

\* A hard deadline was fixed a hard maximum ahead of a time gone by.
DeadlineNear(id) ==
  Disputed(id) => resolution[id].registration_hard_deadline
                    <= now + assertion[id].policy.anti_snipe_hard_max_secs
Covered(id) ==
  Disputed(id) => \A k \in RoundRecords(id) : live_until[k] >= CoveredUntil(id)

LiveInv ==
  /\ live_until \in [Keys -> Nat]
  /\ \A id \in Ids : DeadlineNear(id) /\ Covered(id)
LifetimeInv == SettlementInv /\ LiveInv

-----------------------------------------------------------------------------
(* Ledgers.                                                                *)

LEMMA LedgersOf ==
  ASSUME NEW x \in Nat
  PROVE  /\ x \div SecsPerLedger \in Nat
         /\ SecsPerLedger * (x \div SecsPerLedger) <= x
         /\ x < SecsPerLedger * (x \div SecsPerLedger) + SecsPerLedger
<1>1. SecsPerLedger \in Nat /\ SecsPerLedger > 0
  BY LifetimeAssumption
<1> QED
  BY <1>1

\* So many whole ledgers have passed, and no more.
LEMMA LedgersAtMost ==
  ASSUME NEW x \in Nat, NEW q \in Nat,
         x < SecsPerLedger * q + SecsPerLedger
  PROVE  x \div SecsPerLedger <= q
<1> DEFINE s == SecsPerLedger
           y == x \div s
<1>1. s \in Nat /\ s > 0 /\ y \in Nat /\ s * y <= x
  BY LedgersOf, LifetimeAssumption
<1> HIDE DEF y, s
<1>2. SUFFICES ASSUME y >= q + 1 PROVE FALSE
  BY <1>1 DEF y, s
<1>3. s * y >= s * (q + 1)
  BY <1>1, <1>2
<1>4. s * (q + 1) = s * q + s
  BY <1>1
<1>5. x < s * q + s
  BY DEF s
<1> QED
  BY <1>1, <1>3, <1>4, <1>5

\* Time only adds ledgers.
LEMMA LaterLedger ==
  ASSUME NEW x \in Nat, NEW y \in Nat, x <= y
  PROVE  x \div SecsPerLedger <= y \div SecsPerLedger
<1> DEFINE q == y \div SecsPerLedger
<1>1. q \in Nat /\ y < SecsPerLedger * q + SecsPerLedger
  BY LedgersOf
<1>2. SecsPerLedger * q \in Nat /\ SecsPerLedger \in Nat
  BY <1>1, LifetimeAssumption
<1> HIDE DEF q
<1>3. x < SecsPerLedger * q + SecsPerLedger
  BY <1>1, <1>2
<1> QED
  BY <1>1, <1>3, LedgersAtMost DEF q

\* Converting two durations apart loses at most one ledger.
LEMMA LedgersOfSum ==
  ASSUME NEW x \in Nat, NEW y \in Nat
  PROVE  (x + y) \div SecsPerLedger
           <= x \div SecsPerLedger + y \div SecsPerLedger + 1
<1> DEFINE s == SecsPerLedger
           m == x \div s
           n == y \div s
<1>1. s \in Nat /\ m \in Nat /\ n \in Nat /\ x < s * m + s /\ y < s * n + s
  BY LedgersOf, LifetimeAssumption
<1> HIDE DEF s, m, n
<1>2. s * (m + n + 1) = s * m + s * n + s /\ s * m \in Nat /\ s * n \in Nat
  BY <1>1
<1>3. m + n + 1 \in Nat /\ x + y \in Nat
  BY <1>1
<1>4. x + y < s * (m + n + 1) + s
  BY <1>1, <1>2
<1> QED
  BY <1>3, <1>4, LedgersAtMost DEF s, m, n

-----------------------------------------------------------------------------
(* Renewal.                                                                *)

\* A renewal shortens no lifetime and leaves what it renews all but a day of
\* the bump.
LEMMA Renewal ==
  ASSUME live_until \in [Keys -> Nat], Ledger \in Nat, NEW ks, NEW bump \in Nat,
         bump >= DayInLedgers, Renew(ks, bump)
  PROVE  /\ live_until' \in [Keys -> Nat]
         /\ \A k \in Keys : live_until'[k] >= live_until[k]
         /\ \A k \in Keys : k \in ks => live_until'[k] >= Ledger + bump - DayInLedgers
<1>1. DayInLedgers \in Nat /\ MinPersistentTtl \in Nat
  BY LifetimeAssumption
<1>2. ASSUME NEW k \in Keys
      PROVE  /\ Lifetime(k) \in Nat /\ Lifetime(k) >= live_until[k]
             /\ Extended(Lifetime(k), bump) \in Nat
             /\ Extended(Lifetime(k), bump) >= Lifetime(k)
             /\ Extended(Lifetime(k), bump) >= Ledger + bump - DayInLedgers
  <2>1. Lifetime(k) \in Nat /\ Lifetime(k) >= live_until[k]
    BY <1>1 DEF Lifetime, Written
  <2> QED
    BY <1>1, <2>1 DEF Extended
<1>3. live_until' = [k \in Keys |-> IF k \in ks THEN Extended(Lifetime(k), bump)
                                    ELSE live_until[k]]
  BY DEF Renew
<1>4. ASSUME NEW k \in Keys
      PROVE  /\ live_until'[k] \in Nat /\ live_until'[k] >= live_until[k]
             /\ k \in ks => live_until'[k] >= Ledger + bump - DayInLedgers
  BY <1>2, <1>3
<1> QED
  BY <1>3, <1>4

\* record_bump covers the horizon of its policy.
LEMMA BumpCoversHorizon ==
  ASSUME NEW p \in CandidatePolicies
  PROVE  /\ RecordBump(p) \in Nat /\ RecordBump(p) >= DayInLedgers
         /\ p.anti_snipe_hard_max_secs \in Nat /\ p.reveal_duration_secs \in Nat
         /\ RecordBump(p) >= (p.anti_snipe_hard_max_secs + p.reveal_duration_secs
                                + SettlementGrace) \div SecsPerLedger
<1> DEFINE x == p.anti_snipe_hard_max_secs + p.reveal_duration_secs + SettlementGrace
           n == x \div SecsPerLedger
<1>1. p.anti_snipe_hard_max_secs \in Nat /\ p.reveal_duration_secs \in Nat
  BY PolicyAssumption DEF PolicyArgs
<1>2. x \in Nat
  BY <1>1, LifetimeAssumption
<1> HIDE DEF x
<1>3. n \in Nat
  BY <1>2, LedgersOf
<1>4. RecordBump(p) = Larger(n, InstanceBumpAmount)
  BY DEF RecordBump, x
<1> HIDE DEF n
<1>5. RecordBump(p) \in Nat /\ RecordBump(p) >= DayInLedgers /\ RecordBump(p) >= n
  BY <1>3, <1>4, LifetimeAssumption DEF Larger
<1> QED
  BY <1>1, <1>5 DEF n, x

LEMMA RecordsAreKeys ==
  ASSUME NEW id \in Ids
  PROVE  RoundRecords(id) \subseteq Keys /\ RoundRecords(id)' \subseteq Keys
BY DEF RoundRecords, Keys, AssertionKey, ResolutionKey, PositionKey, CreditKey

-----------------------------------------------------------------------------
(* Rounds that a step leaves alone, and the one that it writes.            *)

SameEntries(i) ==
  /\ assertion'[i] = assertion[i] /\ resolution'[i] = resolution[i]
  /\ position'[i] = position[i] /\ credit'[i] = credit[i]

\* The dates of a round are dates.
LEMMA RoundDates ==
  ASSUME SettlementInv, NEW i \in Ids
  PROVE  /\ resolution[i].registration_hard_deadline \in Nat
         /\ assertion[i].phase # "Absent" => assertion[i].policy \in CandidatePolicies
         /\ Disputed(i) => assertion[i].phase # "Absent"
<1>1. RoundFacts(assertion[i], resolution[i], position[i], credit[i], paid[i])
  BY FactsOfRound
<1> QED
  BY <1>1 DEF RoundFacts, LooseResolution, PartiesOK, Disputed

LEMMA UntouchedRound ==
  ASSUME LifetimeInv, NEW i \in Ids, SameEntries(i), now' \in Nat, now' >= now,
         live_until' \in [Keys -> Nat],
         \A k \in Keys : live_until'[k] >= live_until[k]
  PROVE  DeadlineNear(i)' /\ Covered(i)'
<1> SUFFICES ASSUME Disputed(i)' PROVE DeadlineNear(i)' /\ Covered(i)'
  BY DEF DeadlineNear, Covered
<1>1. Disputed(i)
  BY DEF SameEntries, Disputed
<1>2. assertion[i].policy \in CandidatePolicies
  BY <1>1, RoundDates DEF LifetimeInv
<1>3. /\ resolution[i].registration_hard_deadline \in Nat
      /\ assertion[i].policy.anti_snipe_hard_max_secs \in Nat
      /\ assertion[i].policy.reveal_duration_secs \in Nat
  BY <1>2, RoundDates, BumpCoversHorizon DEF LifetimeInv
<1>4. now \in Nat
  BY FactsOfRound DEF LifetimeInv
<1>5. DeadlineNear(i)'
  <2>1. resolution[i].registration_hard_deadline
          <= now + assertion[i].policy.anti_snipe_hard_max_secs
    BY <1>1 DEF LifetimeInv, LiveInv, DeadlineNear
  <2> QED
    BY <1>3, <1>4, <2>1 DEF DeadlineNear, SameEntries
<1>6. ASSUME NEW k \in RoundRecords(i)'
      PROVE  live_until'[k] >= CoveredUntil(i)'
  <2>1. k \in RoundRecords(i) /\ k \in Keys
    BY RecordsAreKeys DEF RoundRecords, SameEntries
  <2>2. CoveredUntil(i)' = CoveredUntil(i) /\ CoveredUntil(i) \in Int
    <3>1. CoveredUntil(i)' = CoveredUntil(i)
      BY DEF CoveredUntil, SameEntries
    <3>2. resolution[i].registration_hard_deadline
            + assertion[i].policy.reveal_duration_secs + SettlementGrace \in Nat
      BY <1>3, LifetimeAssumption
    <3> QED
      BY <3>1, <3>2, LedgersOf, LifetimeAssumption DEF CoveredUntil
  <2>3. live_until[k] >= CoveredUntil(i)
    BY <1>1, <2>1 DEF LifetimeInv, LiveInv, Covered
  <2>4. live_until[k] \in Nat /\ live_until'[k] \in Nat /\ live_until'[k] >= live_until[k]
    BY <2>1 DEF LifetimeInv, LiveInv
  <2> HIDE DEF CoveredUntil
  <2> QED
    BY <2>2, <2>3, <2>4
<1> QED
  BY <1>5, <1>6 DEF Covered

\* A call that writes entries of round id: what the round needs afterwards
\* it needed before, or the call has just written it.
WrittenRound(id, writes) ==
  /\ assertion[id].phase # "Absent"
  /\ assertion'[id].policy = assertion[id].policy
  /\ Disputed(id)' =>
       /\ resolution'[id].registration_hard_deadline
            = IF Disputed(id) THEN resolution[id].registration_hard_deadline
              ELSE now + assertion[id].policy.anti_snipe_hard_max_secs
       /\ \A k \in RoundRecords(id)' : k \in writes \/ (Disputed(id) /\ k \in RoundRecords(id))

LEMMA RecordCallStep ==
  ASSUME LifetimeInv, NEW id \in Ids, NEW reads, NEW writes, now' = now,
         RecordCall(id, reads, writes), WrittenRound(id, writes),
         \A i \in Ids : i # id => SameEntries(i)
  PROVE  LiveInv'
<1> DEFINE p == assertion[id].policy
           bump == RecordBump(p)
<1>1. live_until \in [Keys -> Nat] /\ now \in Nat /\ Ledger \in Nat
  BY FactsOfRound, LedgersOf DEF LifetimeInv, LiveInv, Ledger
<1>2. p \in CandidatePolicies
  BY RoundDates DEF WrittenRound, LifetimeInv
<1>3. /\ bump \in Nat /\ bump >= DayInLedgers
      /\ p.anti_snipe_hard_max_secs \in Nat /\ p.reveal_duration_secs \in Nat
      /\ bump >= (p.anti_snipe_hard_max_secs + p.reveal_duration_secs
                    + SettlementGrace) \div SecsPerLedger
  BY <1>2, BumpCoversHorizon
<1>4. Renew(writes, bump)
  BY DEF RecordCall, Call
<1> HIDE DEF bump
<1>5. /\ live_until' \in [Keys -> Nat]
      /\ \A k \in Keys : live_until'[k] >= live_until[k]
      /\ \A k \in Keys : k \in writes => live_until'[k] >= Ledger + bump - DayInLedgers
  BY <1>1, <1>3, <1>4, Renewal
<1>6. ASSUME NEW i \in Ids, i # id PROVE DeadlineNear(i)' /\ Covered(i)'
  BY <1>1, <1>5, <1>6, UntouchedRound
<1>7. ASSUME Disputed(id)' PROVE DeadlineNear(id)' /\ Covered(id)'
  <2> DEFINE d == resolution[id].registration_hard_deadline
             e == resolution'[id].registration_hard_deadline
  <2>1. d \in Nat /\ SettlementGrace \in Nat /\ DayInLedgers \in Nat
    BY RoundDates, LifetimeAssumption DEF LifetimeInv
  <2>2. Disputed(id) => d <= now + p.anti_snipe_hard_max_secs
    BY DEF LifetimeInv, LiveInv, DeadlineNear
  <2>3. /\ e = IF Disputed(id) THEN d ELSE now + p.anti_snipe_hard_max_secs
        /\ assertion'[id].policy = p
        /\ \A k \in RoundRecords(id)' : k \in writes \/ (Disputed(id) /\ k \in RoundRecords(id))
    BY <1>7 DEF WrittenRound
  <2>4. e \in Nat /\ e <= now + p.anti_snipe_hard_max_secs
    BY <1>1, <1>3, <2>1, <2>2, <2>3
  <2> DEFINE horizon == p.anti_snipe_hard_max_secs + p.reveal_duration_secs
                          + SettlementGrace
             end == e + p.reveal_duration_secs + SettlementGrace
             before == CoveredUntil(id)
             after == CoveredUntil(id)'
  <2>5. /\ after = end \div SecsPerLedger - DayInLedgers - 1
        /\ Disputed(id) => after = before
    BY <2>3 DEF CoveredUntil
  <2>6. DeadlineNear(id)'
    BY <2>3, <2>4 DEF DeadlineNear
  <2> HIDE DEF p
  <2>7. end \in Nat /\ horizon \in Nat /\ end <= now + horizon
    BY <1>1, <1>3, <2>1, <2>4
  <2>8. after \in Int /\ after <= Ledger + bump - DayInLedgers
    <3> DEFINE m == end \div SecsPerLedger
               n == horizon \div SecsPerLedger
    <3>1. m <= (now + horizon) \div SecsPerLedger
      BY <1>1, <2>7, LaterLedger
    <3>2. (now + horizon) \div SecsPerLedger <= Ledger + n + 1
      BY <1>1, <2>7, LedgersOfSum DEF Ledger
    <3>3. m \in Nat /\ n \in Nat /\ (now + horizon) \div SecsPerLedger \in Nat
      BY <1>1, <2>7, LedgersOf
    <3>4. bump >= n
      BY <1>3
    <3> DEFINE l == (now + horizon) \div SecsPerLedger
    <3> HIDE DEF m, n, l, end, horizon
    <3>5. m <= l /\ l <= Ledger + n + 1 /\ l \in Nat
      BY <3>1, <3>2, <3>3 DEF l
    <3> QED
      BY <1>1, <1>3, <2>1, <2>5, <3>3, <3>4, <3>5 DEF m
  <2> HIDE DEF CoveredUntil, d, e, end, horizon, before, after
  <2>9. ASSUME NEW k \in RoundRecords(id)' PROVE live_until'[k] >= CoveredUntil(id)'
    <3>1. /\ k \in Keys /\ live_until'[k] \in Nat /\ live_until[k] \in Nat
          /\ live_until'[k] >= live_until[k]
      BY <1>1, <1>5, RecordsAreKeys
    <3>2. CASE k \in writes
      <4>1. live_until'[k] >= Ledger + bump - DayInLedgers
        BY <1>5, <3>1, <3>2
      <4> QED
        BY <1>1, <1>3, <2>1, <2>8, <3>1, <4>1 DEF after
    <3>3. CASE Disputed(id) /\ k \in RoundRecords(id)
      <4>1. live_until[k] >= before
        BY <3>3 DEF LifetimeInv, LiveInv, Covered, before
      <4> QED
        BY <2>5, <2>8, <3>1, <3>3, <4>1 DEF after
    <3> QED
      BY <2>3, <3>2, <3>3
  <2> QED
    BY <2>6, <2>9 DEF Covered
<1>8. ~Disputed(id)' => DeadlineNear(id)' /\ Covered(id)'
  BY DEF DeadlineNear, Covered
<1> QED
  BY <1>5, <1>6, <1>7, <1>8 DEF LiveInv


-----------------------------------------------------------------------------
(* The calls.                                                              *)

\* Calls that write no round, and the clock.
LEMMA NoRoundWritten ==
  ASSUME LifetimeInv, \A i \in Ids : SameEntries(i), now' \in Nat, now' >= now,
         live_until' \in [Keys -> Nat],
         \A k \in Keys : live_until'[k] >= live_until[k]
  PROVE  LiveInv'
BY UntouchedRound DEF LiveInv

LEMMA TypesOfRecords ==
  ASSUME LifetimeInv
  PROVE  /\ now \in Nat /\ Ledger \in Nat /\ live_until \in [Keys -> Nat]
         /\ assertion \in [Ids -> AssertionV2]
         /\ resolution \in [Ids -> LooseResolution]
         /\ position \in [Ids -> [Address -> Position]]
         /\ credit \in [Ids -> [Address -> Int]]
BY LedgersOf DEF LifetimeInv, LiveInv, SettlementInv, DecisionInv, StructureInv,
                 Shape, Ledger

LEMMA AdminCallLive ==
  ASSUME LifetimeInv, AdminCall,
         UNCHANGED <<now, assertion, resolution, position, credit>>
  PROVE  LiveInv'
<1>1. now \in Nat /\ Ledger \in Nat /\ live_until \in [Keys -> Nat]
  BY TypesOfRecords
<1>2. InstanceBumpAmount \in Nat /\ InstanceBumpAmount >= DayInLedgers
  BY LifetimeAssumption
<1>3. Renew({Instance}, InstanceBumpAmount)
  BY DEF AdminCall, Call
<1>4. /\ live_until' \in [Keys -> Nat]
      /\ \A k \in Keys : live_until'[k] >= live_until[k]
  BY <1>1, <1>2, <1>3, Renewal
<1> QED
  BY <1>1, <1>4, NoRoundWritten DEF SameEntries

\* Posting writes an assertion that is not disputed.
LEMMA AssertOutcomeLive ==
  ASSUME LifetimeInv, NEW v \in Address, NEW o \in Outcomes, LAssertOutcome(v, o)
  PROVE  LiveInv'
<1>1. /\ now \in Nat /\ Ledger \in Nat /\ live_until \in [Keys -> Nat]
      /\ assertion \in [Ids -> AssertionV2]
      /\ policy \in CandidatePolicies
  BY TypesOfRecords
     DEF LAssertOutcome, AssertOutcome, LifetimeInv, SettlementInv, DecisionInv,
         StructureInv, Shape
<1>2. RecordBump(policy) \in Nat /\ RecordBump(policy) >= DayInLedgers
  BY <1>1, BumpCoversHorizon
<1>3. Renew({AssertionKey(next_id)}, RecordBump(policy))
  BY DEF LAssertOutcome, Call
<1>4. /\ live_until' \in [Keys -> Nat]
      /\ \A k \in Keys : live_until'[k] >= live_until[k]
  BY <1>1, <1>2, <1>3, Renewal
<1>5. ASSUME NEW i \in Ids PROVE DeadlineNear(i)' /\ Covered(i)'
  <2>1. CASE i = next_id
    <3>1. ~Disputed(i)'
      BY <1>1, <2>1 DEF LAssertOutcome, AssertOutcome, Disputed, NoAssertion
    <3> QED
      BY <3>1 DEF DeadlineNear, Covered
  <2>2. CASE i # next_id
    <3>1. SameEntries(i) /\ now' = now
      BY <1>1, <2>2 DEF LAssertOutcome, AssertOutcome, SameEntries
    <3> QED
      BY <1>1, <1>4, <3>1, UntouchedRound
  <2> QED
    BY <2>1, <2>2
<1> QED
  BY <1>4, <1>5 DEF LiveInv

\* A round that is not disputed afterwards needs nothing.
LEMMA UndisputedWrites ==
  ASSUME NEW id \in Ids, NEW writes, assertion[id].phase # "Absent",
         assertion'[id].policy = assertion[id].policy, ~Disputed(id)'
  PROVE  WrittenRound(id, writes)
BY DEF WrittenRound

LEMMA FinalizeLive ==
  ASSUME LifetimeInv, NEW v \in Address, NEW id \in Ids, LFinalize(v, id)
  PROVE  LiveInv'
<1>1. /\ assertion \in [Ids -> AssertionV2] /\ assertion[id].phase = "Pending"
      /\ assertion[id] \in AssertionV2
  BY TypesOfRecords DEF LFinalize, Finalize
<1>2. assertion[id].disputer = NoAddress
  BY <1>1, FactsOfRound DEF LifetimeInv, RoundFacts, PartiesOK
<1>3. /\ assertion'[id].policy = assertion[id].policy
      /\ assertion'[id].disputer = assertion[id].disputer
  BY <1>1 DEF LFinalize, Finalize, AssertionV2
<1>4. WrittenRound(id, {AssertionKey(id)})
  BY <1>1, <1>2, <1>3, UndisputedWrites DEF Disputed
<1>5. now' = now /\ \A i \in Ids : i # id => SameEntries(i)
  BY <1>1 DEF LFinalize, Finalize, SameEntries
<1> QED
  BY <1>4, <1>5, RecordCallStep DEF LFinalize

\* A call on a disputed round that keeps its parties, its policy and its
\* hard deadline, and writes every position it funds and credit it raises.
LEMMA DisputedWrites ==
  ASSUME NEW id \in Ids, NEW writes, assertion[id].phase # "Absent",
         assertion'[id].policy = assertion[id].policy,
         assertion'[id].disputer = assertion[id].disputer,
         resolution'[id].registration_hard_deadline
           = resolution[id].registration_hard_deadline,
         \A a \in Address :
           /\ position'[id][a].kind # "None" =>
                position[id][a].kind # "None" \/ PositionKey(id, a) \in writes
           /\ credit'[id][a] > 0 =>
                credit[id][a] > 0 \/ CreditKey(id, a) \in writes
  PROVE  WrittenRound(id, writes)
<1>1. Disputed(id)' <=> Disputed(id)
  BY DEF Disputed
<1>2. ASSUME NEW k \in RoundRecords(id)'
      PROVE  k \in writes \/ k \in RoundRecords(id)
  <2>1. CASE k \in {AssertionKey(id), ResolutionKey(id)}
    BY <2>1 DEF RoundRecords
  <2>2. CASE \E a \in Address : k = PositionKey(id, a) /\ position'[id][a].kind # "None"
    BY <2>2 DEF RoundRecords
  <2>3. CASE \E a \in Address : k = CreditKey(id, a) /\ credit'[id][a] > 0
    BY <2>3 DEF RoundRecords
  <2>4. RoundRecords(id)' =
          {AssertionKey(id), ResolutionKey(id)}
            \cup {PositionKey(id, a) : a \in {b \in Address : position'[id][b].kind # "None"}}
            \cup {CreditKey(id, a) : a \in {b \in Address : credit'[id][b] > 0}}
    BY DEF RoundRecords, AssertionKey, ResolutionKey, PositionKey, CreditKey
  <2> QED
    BY <1>2, <2>1, <2>2, <2>3, <2>4
<1> QED
  BY <1>1, <1>2 DEF WrittenRound

LEMMA CancelRoundLive ==
  ASSUME LifetimeInv, NEW v \in AdminKeys, NEW id \in Ids, LCancelRound(v, id)
  PROVE  LiveInv'
<1>1. /\ assertion \in [Ids -> AssertionV2] /\ assertion[id].phase # "Absent"
      /\ assertion[id] \in AssertionV2
  BY TypesOfRecords DEF LCancelRound, CancelRound, Undecided
<1>2. /\ assertion'[id].policy = assertion[id].policy
      /\ assertion'[id].disputer = assertion[id].disputer
      /\ resolution' = resolution /\ position' = position /\ credit' = credit
  BY <1>1 DEF LCancelRound, CancelRound, AssertionV2
<1>3. WrittenRound(id, {AssertionKey(id)})
  BY <1>1, <1>2, DisputedWrites
<1>4. now' = now /\ \A i \in Ids : i # id => SameEntries(i)
  BY <1>1 DEF LCancelRound, CancelRound, SameEntries
<1> QED
  BY <1>3, <1>4, RecordCallStep DEF LCancelRound

LEMMA RegisterLive ==
  ASSUME LifetimeInv, NEW v \in Address, NEW id \in Ids, NEW amount \in Deposits,
         NEW o \in Outcomes, LRegister(v, id, amount, o)
  PROVE  LiveInv'
<1> DEFINE writes == {PositionKey(id, v), ResolutionKey(id)}
<1>1. /\ resolution \in [Ids -> LooseResolution] /\ resolution[id] \in LooseResolution
      /\ position \in [Ids -> [Address -> Position]]
  BY TypesOfRecords
<1>2. /\ assertion[id].phase # "Absent" /\ assertion' = assertion /\ credit' = credit
      /\ resolution'[id].registration_hard_deadline
           = resolution[id].registration_hard_deadline
  BY <1>1 DEF LRegister, Register, LooseResolution
<1>3. \A a \in Address : a # v => position'[id][a] = position[id][a]
  BY <1>1 DEF LRegister, Register
<1>4. WrittenRound(id, writes)
  <2>1. PositionKey(id, v) \in writes
    OBVIOUS
  <2> HIDE DEF writes
  <2>2. ASSUME NEW a \in Address
        PROVE  /\ position'[id][a].kind # "None" =>
                    position[id][a].kind # "None" \/ PositionKey(id, a) \in writes
               /\ credit'[id][a] > 0 =>
                    credit[id][a] > 0 \/ CreditKey(id, a) \in writes
    BY <1>2, <1>3, <2>1
  <2> QED
    BY <1>2, <2>2, DisputedWrites
<1>5. now' = now /\ \A i \in Ids : i # id => SameEntries(i)
  BY <1>1 DEF LRegister, Register, SameEntries
<1> QED
  BY <1>4, <1>5, RecordCallStep DEF LRegister

\* Opening the reveal phase moves no deadline and funds no position.
LEMMA OpeningKeeps ==
  ASSUME LifetimeInv, NEW id \in Ids, RegistrationOver(id)
  PROVE  LET s == RoundInReveal(id) IN
         /\ s.r.registration_hard_deadline
              = resolution[id].registration_hard_deadline
         /\ s.r \in LooseResolution /\ s.a \in AssertionV2
         /\ s.p \in [Address -> Position]
         /\ s.a.phase \in {"Reveal", "Resolved"}
         /\ PartiesOK(s.a) /\ CauseOK(s.a) /\ s.a.disputer # NoAddress
         /\ SameClaim(assertion[id], s.a) /\ SameBonds(position[id], s.p)
<1> DEFINE s == RoundInReveal(id)
<1>1. /\ resolution[id] \in LooseResolution /\ now \in Nat
      /\ RoundOK(assertion[id], resolution[id], position[id])
  BY FactsOfRound DEF LifetimeInv, RoundFacts
<1>2. /\ RoundOK(s.a, s.r, s.p) /\ s.a.phase \in {"Reveal", "Resolved"}
      /\ s.a.disputer # NoAddress
      /\ SameClaim(assertion[id], s.a) /\ SameBonds(position[id], s.p)
  BY <1>1, LazyOpening
<1>3. s.r.registration_hard_deadline = resolution[id].registration_hard_deadline
  BY <1>1 DEF RoundInReveal, OpenRevealPhase, LooseResolution
<1> HIDE DEF s
<1> QED
  BY <1>2, <1>3 DEF RoundOK, s

LEMMA RevealLive ==
  ASSUME LifetimeInv, NEW v \in Address, NEW id \in Ids, NEW o \in Outcomes,
         LReveal(v, id, o)
  PROVE  LiveInv'
<1> DEFINE s == RoundInReveal(id)
           side == IF o = s.a.outcome THEN "agree" ELSE "disagree"
           tally == Counted(s.r, side, s.p[v].amount)
           closed == CloseRevealIfReady(s.a, tally, FALSE)
           shown == [s.p EXCEPT ![v] = Show(@, side)]
           writes == {AssertionKey(id), ResolutionKey(id), PositionKey(id, v)}
                       \cup OpeningWrites(id)
<1>1. /\ assertion \in [Ids -> AssertionV2] /\ resolution \in [Ids -> LooseResolution]
      /\ position \in [Ids -> [Address -> Position]]
  BY TypesOfRecords
<1>2. /\ RegistrationOver(id)
      /\ assertion' = [assertion EXCEPT ![id] = closed]
      /\ resolution' = [resolution EXCEPT ![id] = tally]
      /\ position' = [position EXCEPT ![id] = shown]
      /\ credit' = credit /\ now' = now
  BY DEF LReveal, Reveal
<1>3. /\ s.r.registration_hard_deadline = resolution[id].registration_hard_deadline
      /\ s.r \in LooseResolution /\ s.a \in AssertionV2 /\ s.p \in [Address -> Position]
      /\ s.a.phase \in {"Reveal", "Resolved"}
      /\ PartiesOK(s.a) /\ CauseOK(s.a) /\ s.a.disputer # NoAddress
      /\ SameClaim(assertion[id], s.a) /\ SameBonds(position[id], s.p)
  BY <1>2, OpeningKeeps
<1>4. RecordCall(id, {}, writes)
  BY DEF LReveal
<1> HIDE DEF s, writes
<1>5. s.p[v].amount \in Nat
  BY <1>3 DEF Position
<1>6. /\ tally \in LooseResolution
      /\ tally.registration_hard_deadline = s.r.registration_hard_deadline
  BY <1>3, <1>5 DEF Counted, LooseResolution
<1> HIDE DEF tally
<1>7. SameClaim(s.a, closed)
  BY <1>3, <1>6, CloseResult
<1>8. \A a \in Address : shown[a].kind = s.p[a].kind
  BY <1>3 DEF Show, Position
<1> HIDE DEF closed, shown
<1>9. /\ assertion'[id].policy = assertion[id].policy
      /\ assertion'[id].disputer = assertion[id].disputer
      /\ resolution'[id].registration_hard_deadline
           = resolution[id].registration_hard_deadline
      /\ \A a \in Address : position'[id][a].kind = position[id][a].kind
  BY <1>1, <1>2, <1>3, <1>6, <1>7, <1>8 DEF SameClaim, SameBonds
<1>10. assertion[id].phase # "Absent"
  BY <1>2 DEF RegistrationOver
<1>11. WrittenRound(id, writes)
  BY <1>2, <1>9, <1>10, DisputedWrites
<1>12. \A i \in Ids : i # id => SameEntries(i)
  BY <1>1, <1>2 DEF SameEntries
<1> QED
  BY <1>2, <1>4, <1>11, <1>12, RecordCallStep

LEMMA ResolveOutcomeLive ==
  ASSUME LifetimeInv, NEW id \in Ids, LResolveOutcome(id)
  PROVE  LiveInv'
<1> DEFINE s == RoundInReveal(id)
           closed == IF s.a.phase = "Resolved" THEN s.a
                     ELSE CloseRevealIfReady(s.a, s.r, TRUE)
           writes == {AssertionKey(id)} \cup OpeningWrites(id)
<1>1. /\ assertion \in [Ids -> AssertionV2] /\ resolution \in [Ids -> LooseResolution]
      /\ position \in [Ids -> [Address -> Position]]
  BY TypesOfRecords
<1>2. /\ RegistrationOver(id)
      /\ assertion' = [assertion EXCEPT ![id] = closed]
      /\ resolution' = [resolution EXCEPT ![id] = s.r]
      /\ position' = [position EXCEPT ![id] = s.p]
      /\ credit' = credit /\ now' = now
  BY DEF LResolveOutcome, ResolveOutcome
<1>3. /\ s.r.registration_hard_deadline = resolution[id].registration_hard_deadline
      /\ s.r \in LooseResolution /\ s.a \in AssertionV2
      /\ s.a.phase \in {"Reveal", "Resolved"}
      /\ PartiesOK(s.a) /\ CauseOK(s.a) /\ s.a.disputer # NoAddress
      /\ SameClaim(assertion[id], s.a) /\ SameBonds(position[id], s.p)
  BY <1>2, OpeningKeeps
<1>4. RecordCall(id, {ResolutionKey(id)}, writes)
  BY DEF LResolveOutcome
<1> HIDE DEF s, writes
<1>5. SameClaim(s.a, closed)
  <2>1. SameClaim(s.a, CloseRevealIfReady(s.a, s.r, TRUE))
    BY <1>3, CloseResult
  <2> QED
    BY <2>1 DEF SameClaim
<1> HIDE DEF closed
<1>6. /\ assertion'[id].policy = assertion[id].policy
      /\ assertion'[id].disputer = assertion[id].disputer
      /\ resolution'[id].registration_hard_deadline
           = resolution[id].registration_hard_deadline
      /\ \A a \in Address : position'[id][a].kind = position[id][a].kind
  BY <1>1, <1>2, <1>3, <1>5 DEF SameClaim, SameBonds
<1>7. assertion[id].phase # "Absent"
  BY <1>2 DEF RegistrationOver
<1>8. WrittenRound(id, writes)
  BY <1>2, <1>6, <1>7, DisputedWrites
<1>9. \A i \in Ids : i # id => SameEntries(i)
  BY <1>1, <1>2 DEF SameEntries
<1> QED
  BY <1>2, <1>4, <1>8, <1>9, RecordCallStep

\* Settling a recipient raises two credits and writes both, unless there is
\* no dust, which raises one.
LEMMA SettleRecipientLive ==
  ASSUME LifetimeInv, NEW id \in Ids, NEW v \in Address, SettleRecipient(id, v),
         RecordCall(id, {}, SettleWrites(id, v))
  PROVE  LiveInv'
<1> DEFINE a == assertion[id]
           dust == Settlement(id, v).dust
           payout == Settlement(id, v).payout
           d == DustRecipient(a)
           writes == SettleWrites(id, v)
<1>1. /\ resolution \in [Ids -> LooseResolution] /\ resolution[id] \in LooseResolution
      /\ position \in [Ids -> [Address -> Position]] /\ credit[id] \in [Address -> Int]
      /\ credit \in [Ids -> [Address -> Int]]
  BY TypesOfRecords
<1>2. a.phase # "Absent"
  BY DEF SettleRecipient, Settleable
<1>3. /\ assertion' = assertion /\ now' = now
      /\ resolution'[id].registration_hard_deadline
           = resolution[id].registration_hard_deadline
      /\ credit' = [credit EXCEPT ![id] = CreditBoth(credit[id], d, dust, v, payout)]
  BY <1>1 DEF SettleRecipient, LooseResolution
<1>4. \A b \in Address : position'[id][b].kind = position[id][b].kind
  BY <1>1 DEF SettleRecipient, Position
<1>5. CreditKey(id, v) \in writes /\ (dust # 0 => CreditKey(id, d) \in writes)
  BY DEF SettleWrites
<1>6. credit'[id] = CreditBoth(credit[id], d, dust, v, payout)
  BY <1>1, <1>3
<1>7. RoundOK(a, resolution[id], position[id]) /\ position[id][v].kind # "None"
  BY FactsOfRound DEF LifetimeInv, RoundFacts, SettleRecipient, Settleable
<1>8. d \in Address
  BY <1>7, PositionsAreDisputed
<1> HIDE DEF dust, payout, d, writes
<1>9. ASSUME NEW b \in Address
      PROVE  credit'[id][b] > 0 => credit[id][b] > 0 \/ CreditKey(id, b) \in writes
  <2>1. CASE b = v
    BY <1>5, <2>1
  <2>2. CASE b # v /\ b = d /\ dust # 0
    BY <1>5, <2>2
  <2>3. CASE b # v /\ (b # d \/ dust = 0)
    <3>1. credit'[id][b] = credit[id][b]
      BY <1>1, <1>6, <1>8, <2>3 DEF CreditBoth, Plus
    <3> QED
      BY <3>1
  <2> QED
    BY <2>1, <2>2, <2>3
<1>10. WrittenRound(id, writes)
  BY <1>2, <1>3, <1>4, <1>9, DisputedWrites
<1>11. \A i \in Ids : i # id => SameEntries(i)
  BY <1>1, <1>3 DEF SettleRecipient, SameEntries
<1> QED
  BY <1>3, <1>10, <1>11, RecordCallStep DEF writes

LEMMA SettleLive ==
  ASSUME LifetimeInv, NEW id \in Ids, NEW v \in Address, LSettle(id, v)
  PROVE  LiveInv'
<1>1. CASE SettleRecipient(id, v) /\ RecordCall(id, {}, SettleWrites(id, v))
  BY <1>1, SettleRecipientLive
<1>2. CASE /\ SettleForfeited(id, v)
           /\ RecordCall(id, {ResolutionKey(id)}, {PositionKey(id, v)})
  <2>1. position \in [Ids -> [Address -> Position]]
    BY TypesOfRecords
  <2>2. /\ assertion[id].phase # "Absent" /\ assertion' = assertion
        /\ resolution' = resolution /\ credit' = credit /\ now' = now
    BY <1>2 DEF SettleForfeited, Settleable
  <2>3. \A b \in Address : position'[id][b].kind = position[id][b].kind
    BY <1>2, <2>1 DEF SettleForfeited, Position
  <2>4. WrittenRound(id, {PositionKey(id, v)})
    BY <2>2, <2>3, DisputedWrites
  <2>5. \A i \in Ids : i # id => SameEntries(i)
    BY <1>2, <2>1, <2>2 DEF SettleForfeited, SameEntries
  <2> QED
    BY <1>2, <2>2, <2>4, <2>5, RecordCallStep
<1> QED
  BY <1>1, <1>2 DEF LSettle

LEMMA WithdrawLive ==
  ASSUME LifetimeInv, NEW id \in Ids, NEW v \in Address,
         NEW dst \in Address \cup {Contract}, LWithdraw(v, id, dst)
  PROVE  LiveInv'
<1>1. /\ resolution \in [Ids -> LooseResolution] /\ resolution[id] \in LooseResolution
      /\ credit \in [Ids -> [Address -> Int]]
      /\ AccountOK(assertion[id], resolution[id], position[id], credit[id], paid[id])
      /\ PartiesOK(assertion[id])
  BY TypesOfRecords, FactsOfRound DEF LifetimeInv, RoundFacts
<1>2. /\ credit[id][v] > 0 /\ assertion' = assertion /\ position' = position
      /\ now' = now
      /\ credit' = [credit EXCEPT ![id] = [credit[id] EXCEPT ![v] = 0]]
      /\ resolution'[id].registration_hard_deadline
           = resolution[id].registration_hard_deadline
  BY <1>1 DEF LWithdraw, Withdraw, LooseResolution
<1>3. assertion[id].phase # "Absent"
  BY <1>1, <1>2 DEF AccountOK, PartiesOK
<1>4. \A b \in Address : credit'[id][b] > 0 => credit[id][b] > 0
  BY <1>1, <1>2
<1>5. WrittenRound(id, {ResolutionKey(id)})
  BY <1>2, <1>3, <1>4, DisputedWrites
<1>6. \A i \in Ids : i # id => SameEntries(i)
  BY <1>1, <1>2 DEF LWithdraw, Withdraw, SameEntries
<1> QED
  BY <1>2, <1>5, <1>6, RecordCallStep DEF LWithdraw

\* A dispute writes the whole round: before it there was no position.
LEMMA DisputeLive ==
  ASSUME LifetimeInv, NEW v \in Address, NEW id \in Ids, LDispute(v, id)
  PROVE  LiveInv'
<1> DEFINE a == assertion[id]
           writes == DisputeWrites(id, v)
<1>1. /\ assertion \in [Ids -> AssertionV2] /\ resolution \in [Ids -> LooseResolution]
      /\ position \in [Ids -> [Address -> Position]] /\ a \in AssertionV2
      /\ PartiesOK(a) /\ ScopeOK(a, resolution[id], position[id])
      /\ AccountOK(a, resolution[id], position[id], credit[id], paid[id])
  BY TypesOfRecords, FactsOfRound DEF LifetimeInv, RoundFacts, RoundOK
<1>2. a.phase = "Pending"
  BY DEF LDispute, Dispute
<1>3. a.disputer = NoAddress
  BY <1>1, <1>2 DEF PartiesOK
<1>4. /\ \A b \in Address : position[id][b].kind = "None"
      /\ \A b \in Address : credit[id][b] = 0
  BY <1>1, <1>3 DEF ScopeOK, NoPosition, AccountOK
<1>5. /\ assertion'[id].policy = a.policy /\ credit' = credit /\ now' = now
      /\ resolution'[id].registration_hard_deadline
           = now + a.policy.anti_snipe_hard_max_secs
      /\ \A b \in Address : b # a.asserter /\ b # v =>
           position'[id][b] = position[id][b]
  BY <1>1 DEF LDispute, Dispute, AssertionV2, NoResolution
<1>6. ~Disputed(id)
  BY <1>3 DEF Disputed
<1>7. /\ AssertionKey(id) \in writes /\ ResolutionKey(id) \in writes
      /\ PositionKey(id, a.asserter) \in writes /\ PositionKey(id, v) \in writes
  BY DEF DisputeWrites
<1> HIDE DEF writes, a
<1>8. ASSUME NEW k \in RoundRecords(id)' PROVE k \in writes
  <2>1. \/ k \in {AssertionKey(id), ResolutionKey(id)}
        \/ \E b \in Address : k = PositionKey(id, b) /\ position'[id][b].kind # "None"
        \/ \E b \in Address : k = CreditKey(id, b) /\ credit'[id][b] > 0
    BY <1>8 DEF RoundRecords, AssertionKey, ResolutionKey, PositionKey, CreditKey
  <2>2. ASSUME NEW b \in Address, position'[id][b].kind # "None"
        PROVE  PositionKey(id, b) \in writes
    BY <1>4, <1>5, <1>7, <2>2
  <2>3. \A b \in Address : ~(credit'[id][b] > 0)
    BY <1>4, <1>5
  <2> QED
    BY <1>7, <2>1, <2>2, <2>3
<1>9. WrittenRound(id, writes)
  BY <1>2, <1>5, <1>6, <1>8 DEF WrittenRound, a
<1>10. \A i \in Ids : i # id => SameEntries(i)
  BY <1>1, <1>5 DEF LDispute, Dispute, SameEntries
<1> QED
  BY <1>5, <1>9, <1>10, RecordCallStep DEF LDispute, writes

LEMMA BumpTtlLive ==
  ASSUME LifetimeInv, NEW id \in Ids, NEW named, BumpTtl(id, named)
  PROVE  LiveInv'
<1> DEFINE writes == BumpTargets(id, named)
<1>1. /\ assertion[id].phase # "Absent"
      /\ assertion' = assertion /\ resolution' = resolution
      /\ position' = position /\ credit' = credit /\ now' = now
  BY DEF BumpTtl, vars
<1>2. RecordCall(id, {CreditKey(id, b) : b \in named}, writes)
  BY DEF BumpTtl
<1> HIDE DEF writes
<1>3. WrittenRound(id, writes)
  BY <1>1, DisputedWrites
<1>4. \A i \in Ids : i # id => SameEntries(i)
  BY <1>1 DEF SameEntries
<1> QED
  BY <1>1, <1>2, <1>3, <1>4, RecordCallStep

\* Restoring an entry only lengthens its lifetime.
LEMMA RestoreLive ==
  ASSUME LifetimeInv, NEW k \in Keys, Restore(k)
  PROVE  LiveInv'
<1>1. /\ now \in Nat /\ Ledger \in Nat /\ live_until \in [Keys -> Nat]
      /\ MinPersistentTtl \in Nat
  BY TypesOfRecords, LifetimeAssumption
<1>2. live_until' = [live_until EXCEPT ![k] = Ledger + MinPersistentTtl]
  BY DEF Restore
<1>3. live_until[k] < Ledger
  BY DEF Restore, Archived
<1>4. /\ live_until' \in [Keys -> Nat]
      /\ \A j \in Keys : live_until'[j] >= live_until[j]
  BY <1>1, <1>2, <1>3
<1>5. now' = now /\ \A i \in Ids : SameEntries(i)
  BY DEF Restore, vars, SameEntries
<1> QED
  BY <1>1, <1>4, <1>5, NoRoundWritten

LEMMA TickLive == ASSUME LifetimeInv, LTick PROVE LiveInv'
<1>1. now \in Nat /\ live_until \in [Keys -> Nat]
  BY TypesOfRecords
<1>2. /\ now' \in Nat /\ now' >= now /\ live_until' = live_until
      /\ \A i \in Ids : SameEntries(i)
  BY <1>1 DEF LTick, Tick, SameEntries
<1>3. /\ live_until' \in [Keys -> Nat]
      /\ \A k \in Keys : live_until'[k] >= live_until[k]
  BY <1>1, <1>2
<1> QED
  BY <1>2, <1>3, NoRoundWritten

-----------------------------------------------------------------------------
(* The invariant.                                                          *)

\* Every step of the contract with lifetimes is a step of the contract, or
\* leaves all of its entries as they are.
LEMMA LifetimeStepIsStep == [LNext]_lvars => [Next]_vars
<1> SUFFICES ASSUME [LNext]_lvars PROVE [Next]_vars
  OBVIOUS
<1>1. CASE LAdminNext
  BY <1>1 DEF LAdminNext, LInitialize, LSetAdmin, LSetPaused, LCancelRound,
              Next, AdminNext
<1>2. CASE \E v \in Address, o \in Outcomes : LAssertOutcome(v, o)
  BY <1>2 DEF LAssertOutcome, Next
<1>3. ASSUME NEW id \in Ids, LRoundNext(id) PROVE [Next]_vars
  <2>1. CASE RoundNext(id)
    BY <2>1 DEF Next
  <2>2. CASE \E named \in {{}} \cup {{a} : a \in Address} : BumpTtl(id, named)
    BY <2>2 DEF BumpTtl
  <2> QED
    BY <1>3, <2>1, <2>2
       DEF LRoundNext, RoundNext, LFinalize, LDispute, LRegister, LReveal,
           LResolveOutcome, LSettle, Settle, LWithdraw
<1>4. CASE \E k \in Keys : Restore(k)
  BY <1>4 DEF Restore
<1>5. CASE LTick
  BY <1>5 DEF LTick, Next
<1>6. CASE UNCHANGED lvars
  BY <1>6 DEF lvars
<1> QED
  BY <1>1, <1>2, <1>3, <1>4, <1>5, <1>6 DEF LNext

LEMMA LiveStep == LifetimeInv /\ [LNext]_lvars => LiveInv'
<1> SUFFICES ASSUME LifetimeInv, [LNext]_lvars PROVE LiveInv'
  OBVIOUS
<1>1. CASE LAdminNext
  <2>1. ASSUME NEW k \in AdminKeys, NEW p \in CandidatePolicies, LInitialize(k, p)
        PROVE  LiveInv'
    BY <2>1, AdminCallLive DEF LInitialize, Initialize
  <2>2. ASSUME NEW k \in AdminKeys, NEW n \in AdminKeys, LSetAdmin(k, n)
        PROVE  LiveInv'
    BY <2>2, AdminCallLive DEF LSetAdmin, SetAdmin
  <2>3. ASSUME NEW k \in AdminKeys, NEW b \in BOOLEAN, LSetPaused(k, b)
        PROVE  LiveInv'
    BY <2>3, AdminCallLive DEF LSetPaused, SetPaused
  <2> QED
    BY <1>1, <2>1, <2>2, <2>3, CancelRoundLive DEF LAdminNext
<1>2. CASE \E v \in Address, o \in Outcomes : LAssertOutcome(v, o)
  BY <1>2, AssertOutcomeLive
<1>3. CASE \E id \in Ids : LRoundNext(id)
  BY <1>3, FinalizeLive, DisputeLive, RegisterLive, RevealLive, ResolveOutcomeLive,
     SettleLive, WithdrawLive, BumpTtlLive DEF LRoundNext
<1>4. CASE \E k \in Keys : Restore(k)
  BY <1>4, RestoreLive
<1>5. CASE LTick
  BY <1>5, TickLive
<1>6. CASE UNCHANGED lvars
  <2>1. now' = now /\ live_until' = live_until /\ \A i \in Ids : SameEntries(i)
    BY <1>6 DEF lvars, vars, SameEntries
  <2>2. now \in Nat /\ live_until \in [Keys -> Nat]
    BY TypesOfRecords
  <2> QED
    BY <2>1, <2>2, NoRoundWritten
<1> QED
  BY <1>1, <1>2, <1>3, <1>4, <1>5, <1>6 DEF LNext

LEMMA InitLive == LInit => LifetimeInv
<1> SUFFICES ASSUME LInit PROVE LifetimeInv
  OBVIOUS
<1>1. SettlementInv
  BY InitSettlement DEF LInit
<1>2. live_until \in [Keys -> Nat]
  BY LifetimeAssumption DEF LInit, Larger
<1>3. \A id \in Ids : ~Disputed(id)
  BY DEF LInit, Init, NoAssertion, Disputed
<1> QED
  BY <1>1, <1>2, <1>3 DEF LifetimeInv, LiveInv, DeadlineNear, Covered

LEMMA LifetimeStep == LifetimeInv /\ [LNext]_lvars => LifetimeInv'
BY LiveStep, LifetimeStepIsStep, SettlementStep DEF LifetimeInv

LEMMA LifetimeInvariant == LSpec => []LifetimeInv
BY InitLive, LifetimeStep, PTL DEF LSpec

\* With lifetimes the contract does only what it does without them: archived
\* entries make calls fail and change no call that succeeds.  So every theorem
\* about Spec holds on a ledger that archives.
THEOREM LifetimesKeepContract == LSpec => Spec
<1>1. LInit => Init
  BY DEF LInit
<1> QED
  BY <1>1, LifetimeStepIsStep, PTL DEF LSpec, Spec

\* record_bump covers the round: every entry that settling a disputed round
\* still needs is live through the longest registration and reveal and the
\* settlement grace, less the day within which nothing is renewed, whatever
\* the policy, whoever calls what and when, and without a single bump_ttl.
THEOREM RecordsAlwaysCovered == LSpec => []RoundRecordsCovered
<1>1. LifetimeInv => RoundRecordsCovered
  BY DEF LifetimeInv, LiveInv, Covered, RoundRecordsCovered
<1> QED
  BY <1>1, LifetimeInvariant, PTL

-----------------------------------------------------------------------------
(* Spent credits.                                                          *)

\* A renewal touches the entries it is given, and no other.
LEMMA OnlyRenewed ==
  ASSUME NEW ks, NEW bump, NEW k \in Keys, Renew(ks, bump), k \notin ks
  PROVE  live_until'[k] = live_until[k]
BY DEF Renew

LEMMA CreditKeysDiffer ==
  ASSUME NEW id \in Ids, NEW a \in Address
  PROVE  LET k == CreditKey(id, a) IN
         /\ k \in Keys /\ k # Instance
         /\ \A i \in Ids :
              /\ k # AssertionKey(i) /\ k # ResolutionKey(i)
              /\ \A b \in Address :
                   /\ k # PositionKey(i, b)
                   /\ k = CreditKey(i, b) => i = id /\ b = a
<1> DEFINE k == CreditKey(id, a)
<1>1. k = <<"Credit", id, a>> /\ k[1] = "Credit"
  BY DEF CreditKey
<1>2. k \in Keys
  BY DEF CreditKey, Keys
<1>3. k # Instance
  BY <1>1 DEF Instance
<1>4. ASSUME NEW i \in Ids, NEW b \in Address
      PROVE  /\ k # AssertionKey(i) /\ k # ResolutionKey(i) /\ k # PositionKey(i, b)
             /\ k = CreditKey(i, b) => i = id /\ b = a
  BY <1>1 DEF AssertionKey, ResolutionKey, PositionKey, CreditKey
<1>5. ASSUME NEW i \in Ids PROVE k # AssertionKey(i) /\ k # ResolutionKey(i)
  BY <1>1 DEF AssertionKey, ResolutionKey
<1> QED
  BY <1>2, <1>3, <1>4, <1>5

\* A settlement leaves a positive balance in every credit it writes.
LEMMA SettledCreditsPositive ==
  ASSUME LifetimeInv, NEW id \in Ids, NEW v \in Address, SettleRecipient(id, v)
  PROVE  \A a \in Address :
           CreditKey(id, a) \in SettleWrites(id, v) => credit'[id][a] > 0
<1> DEFINE a == assertion[id]
           r == resolution[id]
           p == position[id]
           c == credit[id]
           w == paid[id]
           weight == RecipientWeight(a.terminal_cause, r)
           pool == ForfeitedPool(a.terminal_cause, r)
           n == p[v].amount
           z == Reward(n, pool, weight)
           s == r.settled_recipient_weight
           y == r.settled_reward_total
           dust == DustOf(weight, pool, s + n, y + z)
           accrued == Accrued(n, z, dust)
           d == DustRecipient(a)
           t == resolution'[id]
<1>1. /\ RoundFacts(a, r, p, c, w) /\ SettlementInv
      /\ resolution \in [Ids -> LooseResolution]
      /\ credit \in [Ids -> [Address -> Int]]
  BY FactsOfRound DEF LifetimeInv
<1>2. /\ a.phase = "Resolved" /\ p[v].kind # "None" /\ ~p[v].settled
      /\ IsRecipient(a.terminal_cause, p[v]) /\ weight > 0
  BY DEF SettleRecipient, Settleable, SettleInRange
<1>3. Settlement(id, v) =
        [weight |-> weight, product |-> n * pool, payout |-> n + z,
         settled_weight |-> s + n, rewards |-> y + z, dust |-> dust,
         accrued |-> accrued]
  BY DEF Settlement, DustOf
<1>4. /\ t = [r EXCEPT
            !.settled_recipient_weight = Settlement(id, v).settled_weight,
            !.settled_reward_total = Settlement(id, v).rewards,
            !.outstanding_liability = @ + Settlement(id, v).accrued]
      /\ credit'[id] = CreditBoth(c, d, Settlement(id, v).dust, v,
                                 Settlement(id, v).payout)
  BY <1>1 DEF SettleRecipient
<1> HIDE DEF accrued, dust
<1>5. /\ credit'[id] = CreditBoth(c, d, dust, v, n + z)
      /\ r \in LooseResolution
  BY <1>1, <1>3, <1>4
<1>6. /\ t.eligible_total = r.eligible_total
      /\ t.agree_weight = r.agree_weight /\ t.disagree_weight = r.disagree_weight
      /\ t.withdrawn_total = r.withdrawn_total
      /\ t.settled_recipient_weight = s + n /\ t.settled_reward_total = y + z
      /\ t.outstanding_liability = r.outstanding_liability + accrued
  BY <1>3, <1>4, <1>5 DEF LooseResolution
<1>7. SettleWrites(id, v) =
        {ResolutionKey(id), PositionKey(id, v), CreditKey(id, v)}
          \cup (IF dust = 0 THEN {} ELSE {CreditKey(id, d)})
  BY <1>3 DEF SettleWrites
<1> HIDE DEF t
<1>8. RecipientStep(a, r, p, v, weight, pool, n, z, s, y, dust, t)
  BY <1>2, <1>6 DEF RecipientStep, accrued, dust
<1>9. d \in Address /\ c \in [Address -> Nat]
  <2>1. RoundOK(a, r, p) /\ AccountOK(a, r, p, c, w)
    BY <1>1 DEF RoundFacts
  <2> QED
    BY <1>2, <2>1, PositionsAreDisputed DEF AccountOK
<1> HIDE DEF a, r, p, c, w, weight, pool, n, z, s, y
<1>10. n \in Nat /\ n > 0 /\ z \in Nat /\ dust \in Nat
  BY <1>1, <1>2, <1>8, RecipientStepFigures
<1> HIDE DEF d
<1>11. ASSUME NEW b \in Address, CreditKey(id, b) \in SettleWrites(id, v)
       PROVE  b = v \/ (b = d /\ dust # 0)
  <2>1. /\ CreditKey(id, b) # ResolutionKey(id)
        /\ CreditKey(id, b) # PositionKey(id, v)
        /\ CreditKey(id, b) = CreditKey(id, v) => v = b
        /\ CreditKey(id, b) = CreditKey(id, d) => d = b
    BY <1>9, CreditKeysDiffer
  <2> QED
    BY <1>7, <1>11, <2>1
<1>12. ASSUME NEW b \in Address, b = v \/ (b = d /\ dust # 0)
       PROVE  CreditBoth(c, d, dust, v, n + z)[b] > 0
  BY <1>9, <1>10, <1>12 DEF CreditBoth, Plus
<1> QED
  BY <1>5, <1>11, <1>12

\* What a call leaves of the lifetime of a credit it does not renew.
LEMMA CallSpares ==
  ASSUME NEW id \in Ids, NEW a \in Address, NEW reads, NEW writes, NEW bump,
         Call(reads, writes, bump), CreditKey(id, a) \notin writes
  PROVE  live_until'[CreditKey(id, a)] = live_until[CreditKey(id, a)]
BY CreditKeysDiffer, OnlyRenewed DEF Call

\* A credit that is 0 before and after a step is not renewed by it: the only
\* calls that renew credits are settle, which raises each one it writes, and
\* bump_ttl, which renews a credit only for its balance.
LEMMA SpentStays ==
  ASSUME LifetimeInv, [LNext]_lvars, NEW id \in Ids, NEW a \in Address,
         credit[id][a] = 0, credit'[id][a] = 0, ~Archived(CreditKey(id, a))
  PROVE  live_until'[CreditKey(id, a)] = live_until[CreditKey(id, a)]
<1> DEFINE k == CreditKey(id, a)
           Spared == live_until'[k] = live_until[k]
<1>1. CASE LAdminNext
  <2>1. ASSUME AdminCall PROVE Spared
    BY <2>1, CreditKeysDiffer, CallSpares DEF AdminCall
  <2>2. ASSUME NEW v \in AdminKeys, NEW i \in Ids, LCancelRound(v, i) PROVE Spared
    BY <2>2, CreditKeysDiffer, CallSpares DEF LCancelRound, RecordCall
  <2> QED
    BY <1>1, <2>1, <2>2 DEF LAdminNext, LInitialize, LSetAdmin, LSetPaused
<1>2. CASE \E v \in Address, o \in Outcomes : LAssertOutcome(v, o)
  <2>1. PICK v \in Address, o \in Outcomes : LAssertOutcome(v, o)
    BY <1>2
  <2>2. k # AssertionKey(next_id)
    BY DEF CreditKey, AssertionKey
  <2> QED
    BY <2>1, <2>2, CallSpares DEF LAssertOutcome
<1>3. ASSUME NEW i \in Ids, LRoundNext(i) PROVE Spared
  <2>1. ASSUME NEW reads, NEW writes, RecordCall(i, reads, writes), k \notin writes
        PROVE  Spared
    BY <2>1, CallSpares DEF RecordCall
  <2>2. /\ k # AssertionKey(i) /\ k # ResolutionKey(i)
        /\ \A b \in Address : k # PositionKey(i, b)
        /\ \A b \in Address : k = CreditKey(i, b) => i = id /\ b = a
    BY CreditKeysDiffer
  <2>3. /\ assertion[i].phase = "Registration" =>
             assertion[i].asserter \in Address /\ assertion[i].disputer \in Address
        /\ assertion[i].phase # "Absent" => assertion[i].asserter \in Address
    <3>1. assertion[i] \in AssertionV2 /\ PartiesOK(assertion[i])
      BY FactsOfRound, TypesOfRecords DEF LifetimeInv, RoundFacts
    <3> QED
      BY <3>1 DEF PartiesOK, AssertionV2
  <2>4. k \notin OpeningWrites(i)
    BY <2>2, <2>3 DEF OpeningWrites
  <2>5. ASSUME NEW v \in Address, LFinalize(v, i) PROVE Spared
    BY <2>1, <2>2, <2>5 DEF LFinalize
  <2>6. ASSUME NEW v \in Address, LDispute(v, i) PROVE Spared
    <3>1. k \notin DisputeWrites(i, v)
      BY <2>2, <2>3, <2>6 DEF LDispute, Dispute, DisputeWrites
    <3> QED
      BY <2>1, <2>6, <3>1 DEF LDispute
  <2>7. ASSUME NEW v \in Address, NEW n \in Deposits, NEW o \in Outcomes,
               LRegister(v, i, n, o)
        PROVE  Spared
    BY <2>1, <2>2, <2>7 DEF LRegister
  <2>8. ASSUME NEW v \in Address, NEW o \in Outcomes, LReveal(v, i, o) PROVE Spared
    BY <2>1, <2>2, <2>4, <2>8 DEF LReveal
  <2>9. ASSUME LResolveOutcome(i) PROVE Spared
    BY <2>1, <2>2, <2>4, <2>9 DEF LResolveOutcome
  <2>10. ASSUME NEW v \in Address, LSettle(i, v) PROVE Spared
    <3>1. CASE SettleRecipient(i, v) /\ RecordCall(i, {}, SettleWrites(i, v))
      <4>1. CASE k \notin SettleWrites(i, v)
        BY <2>1, <3>1, <4>1
      <4>2. CASE k \in SettleWrites(i, v)
        <5>1. DustRecipient(assertion[i]) \in Address
          <6>1. /\ RoundOK(assertion[i], resolution[i], position[i])
                /\ position[i][v].kind # "None"
            BY <3>1, FactsOfRound DEF LifetimeInv, RoundFacts, SettleRecipient, Settleable
          <6> QED
            BY <6>1, PositionsAreDisputed
        <5>2. i = id
          BY <2>2, <4>2, <5>1 DEF SettleWrites
        <5>3. credit'[id][a] > 0
          BY <3>1, <4>2, <5>2, SettledCreditsPositive
        <5> QED
          BY <5>3
      <4> QED
        BY <4>1, <4>2
    <3>2. CASE RecordCall(i, {ResolutionKey(i)}, {PositionKey(i, v)})
      BY <2>1, <2>2, <3>2
    <3> QED
      BY <2>10, <3>1, <3>2 DEF LSettle
  <2>11. ASSUME NEW v \in Address, NEW d \in Address \cup {Contract},
                LWithdraw(v, i, d)
         PROVE  Spared
    BY <2>1, <2>2, <2>11 DEF LWithdraw
  <2>12. ASSUME NEW named \in {{}} \cup {{b} : b \in Address}, BumpTtl(i, named)
         PROVE  Spared
    <3>1. named \subseteq Address
      OBVIOUS
    <3>2. k \notin BumpTargets(i, named)
      BY <2>2, <3>1 DEF BumpTargets, CreditWorthKeeping
    <3> QED
      BY <2>1, <2>12, <3>2 DEF BumpTtl
  <2> QED
    BY <1>3, <2>5, <2>6, <2>7, <2>8, <2>9, <2>10, <2>11, <2>12 DEF LRoundNext
<1>4. CASE \E j \in Keys : Restore(j)
  <2>1. PICK j \in Keys : Restore(j)
    BY <1>4
  <2>2. j # k
    BY <2>1 DEF Restore
  <2> QED
    BY <2>1, <2>2 DEF Restore
<1>5. CASE LTick
  BY <1>5 DEF LTick
<1>6. CASE UNCHANGED lvars
  BY <1>6 DEF lvars
<1> QED
  BY <1>1, <1>2, <1>3, <1>4, <1>5, <1>6 DEF LNext

\* Nobody pays to keep a spent credit: from the moment its balance is 0, no
\* settlement of another position, no withdrawal and no bump of the round
\* extends its lifetime, unless it is credited again or restored.
THEOREM SpentCreditsExpire == LSpec => SpentCreditNotRenewed
<1>1. LifetimeInv /\ [LNext]_lvars =>
        [\A id \in Ids, a \in Address :
           LET k == CreditKey(id, a) IN
           credit[id][a] = 0 /\ credit'[id][a] = 0 /\ ~Archived(k)
             => live_until'[k] = live_until[k]]_lvars
  BY SpentStays
<1> QED
  BY <1>1, LifetimeInvariant, PTL DEF LSpec, SpentCreditNotRenewed
=============================================================================
