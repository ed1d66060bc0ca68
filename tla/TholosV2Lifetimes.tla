-------------------------- MODULE TholosV2Lifetimes --------------------------
(***************************************************************************)
(* The v2 contract on a ledger that archives entries.  Every storage entry *)
(* has a time to live, which the contract renews as it writes; a call that *)
(* touches an archived entry fails until somebody restores the entry.      *)
(* This module adds those lifetimes to the actions of TholosV2, and the    *)
(* one entry point that exists for them, bump_ttl.                         *)
(*                                                                         *)
(* extend_ttl(threshold, bump) renews an entry to bump ledgers from now,   *)
(* and only if fewer than threshold are left.  Lifetimes count ledgers,    *)
(* which close every SecsPerLedger seconds of the clock: the rate at which *)
(* record_bump converts a policy's durations, rounding down.  The code     *)
(* entry of the contract is taken to live as long as its instance.         *)
(***************************************************************************)
EXTENDS TholosV2

CONSTANTS
  SecsPerLedger,        \* SECS_PER_LEDGER
  DayInLedgers,         \* DAY_IN_LEDGERS
  InstanceBumpAmount,   \* INSTANCE_BUMP_AMOUNT
  SettlementGrace,      \* SETTLEMENT_GRACE_SECS
  MinPersistentTtl      \* what the network gives a new or restored entry

ASSUME LifetimeAssumption ==
  /\ SecsPerLedger \in Nat /\ SecsPerLedger > 0
  /\ DayInLedgers \in Nat /\ DayInLedgers > 0
  /\ InstanceBumpAmount \in Nat /\ DayInLedgers <= InstanceBumpAmount
  /\ SettlementGrace \in Nat
  /\ MinPersistentTtl \in Nat /\ MinPersistentTtl > 0

\* The keys of the contract's storage entries.
Instance == <<"Instance">>
AssertionKey(id) == <<"AssertionV2", id>>
ResolutionKey(id) == <<"Resolution", id>>
PositionKey(id, a) == <<"Position", id, a>>
CreditKey(id, a) == <<"Credit", id, a>>
Keys == {Instance} \cup ({"AssertionV2", "Resolution"} \X Ids)
          \cup ({"Position", "Credit"} \X Ids \X Address)

VARIABLE live_until  \* the last ledger each entry is live in, 0 if not written
lvars == <<vars, live_until>>

\* env.ledger().sequence().
Ledger == now \div SecsPerLedger

Written(k) == live_until[k] # 0
Archived(k) == Written(k) /\ live_until[k] < Ledger

-----------------------------------------------------------------------------
(* Renewal.                                                                *)

Larger(x, y) == IF x >= y THEN x ELSE y

\* record_bump: the round's longest registration and reveal, and the grace,
\* in whole ledgers.  The durations initialize accepts keep it below 2^32.
FlatRecordBump(p) == InstanceBumpAmount  \* fault: one bump for every policy
RecordBump(p) ==
  LET horizon_secs ==
        p.anti_snipe_hard_max_secs + p.reveal_duration_secs + SettlementGrace
  IN Larger(horizon_secs \div SecsPerLedger, InstanceBumpAmount)

\* What extend_ttl makes of an entry with this lifetime.
Extended(until, bump) ==
  IF until < Ledger + (bump - DayInLedgers) THEN Ledger + bump ELSE until

\* A first write gives the entry the network's minimum lifetime.
Lifetime(k) == IF Written(k) THEN live_until[k] ELSE Ledger + MinPersistentTtl
Renew(ks, bump) ==
  live_until' = [k \in Keys |-> IF k \in ks THEN Extended(Lifetime(k), bump)
                                ELSE live_until[k]]

\* A call needs the instance and every entry it reads or writes.
Call(reads, writes, bump) ==
  /\ \A k \in {Instance} \cup reads \cup writes : ~Archived(k)
  /\ Renew(writes, bump)

\* touch_instance_ttl: the administrative calls, and only they.
AdminCall == Call({}, {Instance}, InstanceBumpAmount)
\* A call that writes entries of an assertion.
RecordCall(id, reads, writes) ==
  Call({AssertionKey(id)} \cup reads, writes, RecordBump(assertion[id].policy))

LInit ==
  /\ Init
  /\ live_until = [k \in Keys |->
       IF k = Instance THEN Larger(InstanceBumpAmount, MinPersistentTtl) ELSE 0]

-----------------------------------------------------------------------------
(* The contract's calls, with the entries each one writes.                 *)

LInitialize(caller, p) == Initialize(caller, p) /\ AdminCall
LSetAdmin(caller, new_admin) == SetAdmin(caller, new_admin) /\ AdminCall
LSetPaused(caller, value) == SetPaused(caller, value) /\ AdminCall

LAssertOutcome(asserter, outcome) ==
  /\ AssertOutcome(asserter, outcome)
  /\ Call({}, {AssertionKey(next_id)}, RecordBump(policy))

LFinalize(caller, id) ==
  Finalize(caller, id) /\ RecordCall(id, {}, {AssertionKey(id)})
LCancelRound(caller, id) ==
  CancelRound(caller, id) /\ RecordCall(id, {}, {AssertionKey(id)})

DisputeWrites(id, disputer) ==
  {AssertionKey(id), ResolutionKey(id), PositionKey(id, assertion[id].asserter),
   PositionKey(id, disputer)}
LDispute(disputer, id) ==
  Dispute(disputer, id) /\ RecordCall(id, {}, DisputeWrites(id, disputer))

LRegister(voter, id, amount, choice) ==
  /\ Register(voter, id, amount, choice)
  /\ RecordCall(id, {}, {PositionKey(id, voter), ResolutionKey(id)})

\* open_reveal_phase rewrites the two fixed positions and the resolution, and
\* close_reveal_if_ready rewrites the assertion whether or not it closes.
OpeningWrites(id) ==
  IF assertion[id].phase = "Registration"
  THEN {ResolutionKey(id), PositionKey(id, assertion[id].asserter),
        PositionKey(id, assertion[id].disputer)}
  ELSE {}
LReveal(voter, id, choice) ==
  /\ Reveal(voter, id, choice)
  /\ RecordCall(id, {}, {AssertionKey(id), ResolutionKey(id),
                         PositionKey(id, voter)} \cup OpeningWrites(id))
LResolveOutcome(id) ==
  /\ ResolveOutcome(id)
  /\ RecordCall(id, {ResolutionKey(id)}, {AssertionKey(id)} \cup OpeningWrites(id))

\* add_credit returns early, without renewing, when there is no dust.
SettleWrites(id, address) ==
  {ResolutionKey(id), PositionKey(id, address), CreditKey(id, address)}
    \cup (IF Settlement(id, address).dust = 0 THEN {}
          ELSE {CreditKey(id, DustRecipient(assertion[id]))})
LSettle(id, address) ==
  \/ /\ SettleRecipient(id, address)
     /\ RecordCall(id, {}, SettleWrites(id, address))
  \/ /\ SettleForfeited(id, address)
     /\ RecordCall(id, {ResolutionKey(id)}, {PositionKey(id, address)})

\* The zeroed credit is written but not renewed.
LWithdraw(owner, id, destination) ==
  /\ Withdraw(owner, id, destination)
  /\ RecordCall(id, {CreditKey(id, owner)}, {ResolutionKey(id)})

-----------------------------------------------------------------------------
(* bump_ttl, restoration and the clock.                                    *)

CreditWritten(id, a) == Written(CreditKey(id, a))  \* fault: has() for a balance
CreditWorthKeeping(id, a) == credit[id][a] > 0

\* The entries bump_ttl renews, for the address the caller names, if any.
BumpTargets(id, named) ==
  {AssertionKey(id)}
    \cup {k \in {ResolutionKey(id)} : Written(k)}
    \cup {k \in {PositionKey(id, a) : a \in named} : Written(k)}
    \cup {CreditKey(id, a) : a \in {b \in named : CreditWorthKeeping(id, b)}}

BumpTtl(id, named) ==
  /\ assertion[id].phase # "Absent"
  /\ RecordCall(id, {CreditKey(id, a) : a \in named}, BumpTargets(id, named))
  /\ UNCHANGED vars

\* Anyone may pay to restore an archived entry.
Restore(k) ==
  /\ Archived(k)
  /\ live_until' = [live_until EXCEPT ![k] = Ledger + MinPersistentTtl]
  /\ UNCHANGED vars

LTick == Tick /\ UNCHANGED live_until

LAdminNext ==
  \E k \in AdminKeys :
    \/ \E p \in CandidatePolicies : LInitialize(k, p)
    \/ \E n \in AdminKeys : LSetAdmin(k, n)
    \/ \E b \in BOOLEAN : LSetPaused(k, b)
    \/ \E id \in Ids : LCancelRound(k, id)

LRoundNext(id) ==
  \/ \E a \in Address : LFinalize(a, id)
  \/ \E a \in Address : LDispute(a, id)
  \/ \E a \in Address, d \in Deposits, o \in Outcomes : LRegister(a, id, d, o)
  \/ \E a \in Address, o \in Outcomes : LReveal(a, id, o)
  \/ LResolveOutcome(id)
  \/ \E a \in Address : LSettle(id, a)
  \/ \E a \in Address, d \in Address \cup {Contract} : LWithdraw(a, id, d)
  \/ \E named \in {{}} \cup {{a} : a \in Address} : BumpTtl(id, named)

LNext ==
  \/ LAdminNext
  \/ \E a \in Address, o \in Outcomes : LAssertOutcome(a, o)
  \/ \E id \in Ids : LRoundNext(id)
  \/ \E k \in Keys : Restore(k)
  \/ LTick

LSpec == LInit /\ [][LNext]_lvars

-----------------------------------------------------------------------------
(* Properties.                                                             *)

\* The entries that settling a disputed round still needs.
RoundRecords(id) ==
  {AssertionKey(id), ResolutionKey(id)}
    \cup {PositionKey(id, a) : a \in {b \in Address : position[id][b].kind # "None"}}
    \cup {CreditKey(id, a) : a \in {b \in Address : credit[id][b] > 0}}

\* The ledger of the end of a round's longest registration and reveal, when
\* they follow each other, and the grace, less the day within which nothing
\* is renewed and the ledger that the rounding may lose.
CoveredUntil(id) ==
  (resolution[id].registration_hard_deadline
     + assertion[id].policy.reveal_duration_secs + SettlementGrace)
    \div SecsPerLedger - DayInLedgers - 1

\* record_bump covers the round: whoever wrote an entry of a disputed round
\* last, and however long ago, the entry is live through the longest
\* registration and reveal and the settlement grace, up to a day and one
\* ledger, with no bump_ttl call.
RoundRecordsCovered ==
  \A id \in Ids :
    Disputed(id) => \A k \in RoundRecords(id) : live_until[k] >= CoveredUntil(id)

\* Nobody pays to keep a spent credit: once its balance is 0 its lifetime
\* stays as it is, whoever bumps the round, unless it is credited again or
\* restored.
SpentCreditNotRenewed ==
  [][\A id \in Ids, a \in Address :
       LET k == CreditKey(id, a) IN
       credit[id][a] = 0 /\ credit'[id][a] = 0 /\ ~Archived(k)
         => live_until'[k] = live_until[k]]_lvars

\* touch_instance_ttl: "Renews instance storage after a state-changing call
\* that uses the deployment-wide instance entries", so that they do not
\* expire "while the contract is still in use": a pending claim that may
\* still be disputed or finalized finds the instance live.
InstanceOutlivesClaims ==
  \A id \in Ids :
    /\ assertion[id].phase = "Pending"
    /\ now <= assertion[id].opened_at + assertion[id].policy.challenge_window_secs
    => ~Archived(Instance)
=============================================================================
