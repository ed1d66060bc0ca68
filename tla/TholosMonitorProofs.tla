------------------------ MODULE TholosMonitorProofs ------------------------
(***************************************************************************)
(* The monitor, for any deployments, limits and faults: no event is passed *)
(* over in silence, nothing is alerted again after a save, and a streak of *)
(* failures is announced once.                                             *)
(*                                                                         *)
(* The properties speak of the saved state, and none is inductive: what is *)
(* saved is what the polls left in memory, a poll records its outcome, and *)
(* the outcome rests on the pages fetched before and on the alerts still   *)
(* to be posted.  The invariant follows an event along that way, and says  *)
(* that a deployment whose turn has not passed is as saved.                *)
(***************************************************************************)
EXTENDS TholosMonitor, SequenceTheorems, TLAPS

Types ==
  /\ TypeOK
  /\ sending \in [InFlight -> 0..(MaxAttempts - 1)]
  /\ faults \in 0..MaxFaults
  /\ handled \in [Names -> SUBSET Ledgers]
  /\ skipped \in [Names -> SUBSET Ledgers]
  /\ excuse \in [Names -> BOOLEAN]

\* What follows is stated over the parts of the state: s is a DeploymentState,
\* told are the ledgers that were alerted or knowingly skipped, why says that
\* the cursor may be absent, k counts the faults, P are alerts to be posted.

StreakOK(s) ==
  s.alertedForFailureStreak <=> s.consecutiveFailures >= FailuresBeforeAlert
NothingSkipped(s, told, why) ==
  1..s.cursor \subseteq told /\ (s.cursor = NoCursor => why)
StateOK(s, told, why, k) ==
  /\ s.consecutiveFailures <= k
  /\ StreakOK(s)
  /\ NothingSkipped(s, told, why)

Told(n) == handled[n] \cup skipped[n]
Elements(q) == {q[i] : i \in DOMAIN q}
Posting == InFlight \cup Elements(outbox)
LedgersOf(P) == {l \in Ledgers : Event(l) \in P}

\* No event before the saved cursor is posted, no streak a second time.
NoRepeat(P, s) ==
  /\ \A l \in LedgersOf(P) : l > s.cursor
  /\ Health("rpc_failure") \in P => ~s.alertedForFailureStreak

\* The pages fetched so far are to be alerted, and the next one follows them.
FetchOK(r, pages, P, s, told) ==
  /\ pages > 0 => r.by = "cursor"
  /\ FirstOf(r) > s.cursor
  /\ 1..(FirstOf(r) - 1) \subseteq told \cup LedgersOf(P)
  /\ Health("rpc_failure") \notin P

\* The outcome is right once the alerts are posted.
AlertOK(s, P, told, why, k) ==
  StateOK(s, told \cup LedgersOf(P), why \/ Health("retention_gap") \in P, k)

MonitorInv ==
  /\ Types
  /\ \A n \in Names :
       /\ StateOK(saved[n], Told(n), excuse[n], faults)
       /\ StateOK(state[n], Told(n), excuse[n], faults)
  /\ \A i \in turn..Len(Deployments) :
       state[Deployments[i]] = saved[Deployments[i]]
  /\ pc \in {"latest", "fetch", "alert"} => turn \in DOMAIN Deployments
  /\ pc \notin {"fetch", "alert"} => outbox = <<>>
  /\ pc # "alert" => InFlight = {}
  /\ pc = "latest" => page = 0 /\ saved[d].cursor = NoCursor
  /\ turn \in DOMAIN Deployments => NoRepeat(Posting, saved[d])
  /\ pc = "fetch" => FetchOK(request, page, Posting, saved[d], Told(d))
  /\ pc = "alert" => AlertOK(outcome, Posting, Told(d), excuse[d], faults)

-----------------------------------------------------------------------------
(* Operators.                                                              *)

\* Every limit is a positive number.
LEMMA Limits ==
  /\ Lookback \in Nat /\ Lookback >= 1
  /\ FailuresBeforeAlert \in Nat /\ FailuresBeforeAlert >= 1
  /\ MaxAttempts \in Nat /\ MaxAttempts >= 1
  /\ PageLimit \in Nat /\ PageLimit >= 1
  /\ MaxPages \in Nat /\ MaxPages >= 1
  /\ Retention \in Nat /\ Retention >= 1
  /\ MaxLedger \in Nat /\ MaxLedger >= 1
  /\ MaxFaults \in Nat
  /\ Len(Deployments) \in Nat /\ DOMAIN Deployments = 1..Len(Deployments)
<1>1. \A n \in {Lookback, FailuresBeforeAlert, MaxConcurrency, MaxAttempts,
                PageLimit, MaxPages, Retention, MaxLedger} : n \in Nat \ {0}
  BY MonitorAssumption
<1>2. \A n \in Nat \ {0} : n \in Nat /\ n >= 1
  OBVIOUS
<1>3. MaxFaults \in Nat /\ Deployments \in Seq(Names)
  BY MonitorAssumption
<1>4. Len(Deployments) \in Nat /\ DOMAIN Deployments = 1..Len(Deployments)
  BY <1>3
<1> QED
  BY <1>1, <1>2, <1>3, <1>4

\* The alert of an event tells its ledger, and is none of the health alerts.
LEMMA AlertsDiffer ==
  /\ \A l, m : Event(l) = Event(m) => l = m
  /\ \A l : \A k \in HealthKinds : Event(l) # Health(k)
  /\ \A j, k : Health(j) = Health(k) => j = k
  /\ \A l \in Ledgers : Event(l) \in Alerts
  /\ \A k \in HealthKinds : Health(k) \in Alerts
<1>1. \A l, m : Event(l) = Event(m) => l = m
  BY DEF Event
<1>2. \A l : \A k \in HealthKinds : Event(l)[1] # Health(k)[1]
  BY DEF Event, Health, HealthKinds
<1>3. \A j, k : Health(j) = Health(k) => j = k
  BY DEF Health
<1>4. \A l \in Ledgers : Event(l) \in Alerts
  BY DEF Alerts
<1>5. \A k \in HealthKinds : Health(k) \in Alerts
  BY DEF Alerts
<1> QED
  BY <1>1, <1>2, <1>3, <1>4, <1>5

\* What is alerted next goes behind what is not posted yet.
LEMMA AppendElements ==
  ASSUME NEW q \in Seq(Alerts), NEW r \in Seq(Alerts)
  PROVE  /\ q \o r \in Seq(Alerts)
         /\ Elements(q \o r) = Elements(q) \cup Elements(r)
<1>1. /\ q \o r \in Seq(Alerts)
      /\ Len(q) \in Nat /\ Len(r) \in Nat /\ Len(q \o r) = Len(q) + Len(r)
      /\ DOMAIN q = 1..Len(q) /\ DOMAIN r = 1..Len(r)
      /\ DOMAIN (q \o r) = 1..Len(q \o r)
  OBVIOUS
<1>2. /\ \A i \in 1..Len(q) : (q \o r)[i] = q[i]
      /\ \A i \in (Len(q) + 1)..(Len(q) + Len(r)) : (q \o r)[i] = r[i - Len(q)]
  OBVIOUS
<1>3. Elements(q \o r) \subseteq Elements(q) \cup Elements(r)
  BY <1>1, <1>2 DEF Elements
<1>4. Elements(q) \subseteq Elements(q \o r)
  BY <1>1, <1>2 DEF Elements
<1>5. \A j \in 1..Len(r) : /\ Len(q) + j \in 1..Len(q \o r)
                           /\ (q \o r)[Len(q) + j] = r[j]
  BY <1>1, <1>2
<1>6. Elements(r) \subseteq Elements(q \o r)
  BY <1>1, <1>5 DEF Elements
<1> QED
  BY <1>1, <1>3, <1>4, <1>6

\* The next alert, and those behind it.
LEMMA TailElements ==
  ASSUME NEW q \in Seq(Alerts), q # <<>>
  PROVE  /\ Head(q) \in Alerts /\ Tail(q) \in Seq(Alerts)
         /\ Elements(q) = {Head(q)} \cup Elements(Tail(q))
<1>1. /\ Head(q) \in Alerts /\ Tail(q) \in Seq(Alerts)
      /\ Len(q) \in Nat \ {0} /\ DOMAIN q = 1..Len(q) /\ Head(q) = q[1]
      /\ Len(Tail(q)) = Len(q) - 1 /\ DOMAIN Tail(q) = 1..(Len(q) - 1)
      /\ \A i \in 1..(Len(q) - 1) : Tail(q)[i] = q[i + 1]
  OBVIOUS
<1>2. \A i \in 1..Len(q) : i = 1 \/ i - 1 \in 1..(Len(q) - 1)
  BY <1>1
<1>3. \A i \in 1..(Len(q) - 1) : i + 1 \in 1..Len(q)
  BY <1>1
<1>4. Elements(q) \subseteq {Head(q)} \cup Elements(Tail(q))
  <2> SUFFICES ASSUME NEW i \in 1..Len(q)
               PROVE  q[i] \in {Head(q)} \cup Elements(Tail(q))
    BY <1>1 DEF Elements
  <2>1. CASE i = 1
    BY <2>1, <1>1
  <2>2. CASE i - 1 \in 1..(Len(q) - 1)
    <3>1. i - 1 \in DOMAIN Tail(q) /\ Tail(q)[i - 1] = q[(i - 1) + 1]
      BY <2>2, <1>1
    <3>2. (i - 1) + 1 = i
      BY <1>1
    <3> QED
      BY <3>1, <3>2 DEF Elements
  <2> QED
    BY <2>1, <2>2, <1>2
<1>5. {Head(q)} \cup Elements(Tail(q)) \subseteq Elements(q)
  BY <1>1, <1>3 DEF Elements
<1> QED
  BY <1>1, <1>4, <1>5

\* The ledgers of some alerts and of some more.
LEMMA LedgersOfUnion ==
  ASSUME NEW P, NEW Q
  PROVE  LedgersOf(P \cup Q) = LedgersOf(P) \cup LedgersOf(Q)
BY DEF LedgersOf

\* A health alert is about no ledger.
LEMMA LedgersOfHealth ==
  ASSUME NEW k \in HealthKinds
  PROVE  LedgersOf({Health(k)}) = {}
BY AlertsDiffer DEF LedgersOf

\* A sequence of one alert, and of none.
LEMMA ShortSequences ==
  /\ Elements(<<>>) = {} /\ <<>> \in Seq(Alerts) /\ LedgersOf({}) = {}
  /\ \A a \in Alerts : Elements(<<a>>) = {a} /\ <<a>> \in Seq(Alerts)
BY DEF Elements, LedgersOf

\* A page holds the events from its first ledger to its last one, and moves
\* on: the last ledger is at most the tip and not before the one asked for.
LEMMA FoundEvents ==
  ASSUME tip \in Ledgers, NEW r \in Requests, Served(r)
  PROVE  /\ Found(r) \in Seq(Alerts)
         /\ LastOf(r) \in Ledgers /\ FirstOf(r) \in Nat
         /\ 1 <= FirstOf(r) /\ FirstOf(r) <= LastOf(r) + 1
         /\ LedgersOf(Elements(Found(r))) = FirstOf(r)..LastOf(r)
         /\ Health("rpc_failure") \notin Elements(Found(r))
<1> DEFINE first == FirstOf(r)
           last == LastOf(r)
<1>1. /\ tip \in Nat /\ tip <= MaxLedger /\ r.ledger \in Nat /\ 1 <= r.ledger
      /\ r.ledger <= tip
  BY Limits DEF Ledgers, Requests, Served
<1>2. first \in Nat /\ 1 <= first /\ first <= tip + 1
  BY <1>1 DEF FirstOf
<1>3. last \in Nat /\ 1 <= last /\ last <= tip /\ first <= last + 1
  BY <1>1, <1>2, Limits DEF LastOf, Smaller
<1>4. last \in Ledgers
  BY <1>1, <1>3, Limits DEF Ledgers
<1>5. \A i \in 1..(last - first + 1) :
        first + i - 1 \in Ledgers /\ first + i - 1 \in first..last
  BY <1>1, <1>2, <1>3, Limits DEF Ledgers
<1> HIDE DEF first, last
<1>6. Found(r) = [i \in 1..(last - first + 1) |-> Event(first + i - 1)]
  BY DEF Found, first, last
<1>7. Found(r) \in [1..(last - first + 1) -> Alerts]
  BY <1>5, <1>6, AlertsDiffer
<1>8. Found(r) \in Seq(Alerts)
  BY <1>2, <1>3, <1>7
<1>9. Elements(Found(r)) = {Event(l) : l \in first..last}
  <2>1. Elements(Found(r)) \subseteq {Event(l) : l \in first..last}
    BY <1>5, <1>6 DEF Elements
  <2>2. ASSUME NEW l \in first..last
        PROVE  Event(l) \in Elements(Found(r))
    <3>1. l - first + 1 \in 1..(last - first + 1)
          /\ first + (l - first + 1) - 1 = l
      BY <1>2, <1>3
    <3> QED
      BY <3>1, <1>6 DEF Elements
  <2> QED
    BY <2>1, <2>2
<1>10. first..last \subseteq Ledgers
  BY <1>2, <1>4, Limits DEF Ledgers
<1>11. LedgersOf(Elements(Found(r))) = first..last
  BY <1>9, <1>10, AlertsDiffer DEF LedgersOf
<1>12. Health("rpc_failure") \notin Elements(Found(r))
  BY <1>9, AlertsDiffer DEF HealthKinds
<1> QED
  BY <1>2, <1>3, <1>4, <1>8, <1>11, <1>12 DEF first, last

\* What is right of a state stays right when more is told of, when there is a
\* reason more and when faults are added.
LEMMA StateOKGrows ==
  ASSUME NEW s \in DeploymentState, NEW t1, NEW t2, t1 \subseteq t2,
         NEW w1, NEW w2, w1 => w2,
         NEW k1 \in Nat, NEW k2 \in Nat, k1 <= k2, StateOK(s, t1, w1, k1)
  PROVE  StateOK(s, t2, w2, k2)
<1>1. s.consecutiveFailures \in Nat
  BY Limits DEF DeploymentState
<1>2. s.consecutiveFailures <= k2
  BY <1>1 DEF StateOK
<1>3. NothingSkipped(s, t2, w2)
  BY DEF StateOK, NothingSkipped
<1> QED
  BY <1>2, <1>3 DEF StateOK

\* A state without failures, and with the cursor a poll has reached.
LEMMA FreshOK ==
  ASSUME NEW c \in {NoCursor} \cup Ledgers, NEW told, NEW why, NEW k \in Nat,
         1..c \subseteq told, c = NoCursor => why
  PROVE  /\ [FreshState EXCEPT !.cursor = c] \in DeploymentState
         /\ StateOK([FreshState EXCEPT !.cursor = c], told, why, k)
<1> DEFINE s == [FreshState EXCEPT !.cursor = c]
<1>1. FreshState \in DeploymentState
  BY Limits DEF FreshState, DeploymentState
<1>2. s \in DeploymentState
  BY <1>1 DEF DeploymentState
<1>3. /\ s.cursor = c /\ s.consecutiveFailures = 0
      /\ s.alertedForFailureStreak = FALSE
  BY DEF FreshState
<1> HIDE DEF s
<1>4. ~(0 >= FailuresBeforeAlert)
  BY Limits
<1>5. StreakOK(s)
  BY <1>3, <1>4 DEF StreakOK
<1>6. NothingSkipped(s, told, why)
  BY <1>3 DEF NothingSkipped
<1>7. StateOK(s, told, why, k)
  BY <1>3, <1>5, <1>6 DEF StateOK
<1> QED
  BY <1>2, <1>7 DEF s

\* The state a new deployment starts from.
LEMMA FreshStateOK ==
  ASSUME NEW told, NEW k \in Nat
  PROVE  FreshState \in DeploymentState /\ StateOK(FreshState, told, TRUE, k)
<1>1. FreshState \in DeploymentState
  BY Limits DEF FreshState, DeploymentState
<1>2. /\ FreshState.cursor = 0 /\ FreshState.consecutiveFailures = 0
      /\ FreshState.alertedForFailureStreak = FALSE
  BY DEF FreshState, NoCursor
<1>3. ~(0 >= FailuresBeforeAlert) /\ 1..0 \subseteq told
  BY Limits
<1>4. StreakOK(FreshState) /\ FreshState.consecutiveFailures <= k
  BY <1>2, <1>3 DEF StreakOK
<1>5. 1..FreshState.cursor \subseteq told
  BY <1>2, <1>3
<1> QED
  BY <1>1, <1>4, <1>5, Zenon DEF StateOK, NothingSkipped

\* While a deployment is polled, it is one of the names and as saved.
LEMMA Current ==
  ASSUME MonitorInv, turn \in DOMAIN Deployments
  PROVE  /\ d \in Names /\ before = saved[d] /\ before \in DeploymentState
         /\ StateOK(before, Told(d), excuse[d], faults)
         /\ faults \in Nat /\ faults <= MaxFaults
<1>1. turn \in turn..Len(Deployments)
  BY Limits
<1>2. d \in Names
  BY DEF Names, d
<1>3. before = saved[d]
  BY <1>1 DEF MonitorInv, before, d
<1>4. before \in DeploymentState
  BY <1>2 DEF MonitorInv, Types, TypeOK, before
<1>5. StateOK(before, Told(d), excuse[d], faults)
  BY <1>2 DEF MonitorInv, before
<1>6. faults \in Nat /\ faults <= MaxFaults
  BY Limits DEF MonitorInv, Types
<1> QED
  BY <1>2, <1>3, <1>4, <1>5, <1>6

-----------------------------------------------------------------------------
(* The three ways a step moves the run.                                    *)

\* The next poll starts from states that are right, and from that of the file
\* for each deployment whose turn is to come.
LEMMA EnterKeeps ==
  ASSUME MonitorInv, UNCHANGED <<tip, saved, history, faults>>,
         NEW i \in 1..(Len(Deployments) + 1), NEW s \in [Names -> DeploymentState],
         \A n \in Names : StateOK(s[n], Told(n), excuse[n], faults),
         \A j \in i..Len(Deployments) : s[Deployments[j]] = saved[Deployments[j]],
         Enter(i, s)
  PROVE  MonitorInv'
<1>1. /\ turn' = i /\ state' = s /\ page' = 0 /\ outbox' = <<>>
      /\ sending' = <<>> /\ outcome' = FreshState
      /\ tip' = tip /\ saved' = saved /\ faults' = faults
      /\ handled' = handled /\ skipped' = skipped /\ excuse' = excuse
  BY DEF Enter, history
<1>2. InFlight' = {}
  BY <1>1 DEF InFlight
<1>3. \/ pc' = "save" /\ request' = NoRequest /\ i \notin DOMAIN Deployments
      \/ /\ pc' = "latest" /\ request' = NoRequest
         /\ i \in DOMAIN Deployments /\ s[Deployments[i]].cursor = NoCursor
      \/ /\ pc' = "fetch" /\ i \in DOMAIN Deployments
         /\ s[Deployments[i]].cursor # NoCursor
         /\ request' = [by |-> "cursor", ledger |-> s[Deployments[i]].cursor]
  <2>1. i <= Len(Deployments) => i \in DOMAIN Deployments
    BY Limits
  <2>2. i > Len(Deployments) => i \notin DOMAIN Deployments
    BY Limits
  <2>3. i <= Len(Deployments) \/ i > Len(Deployments)
    BY Limits
  <2> QED
    BY <2>1, <2>2, <2>3, Limits DEF Enter
<1>4. i \in DOMAIN Deployments =>
        /\ Deployments[i] \in Names
        /\ s[Deployments[i]] \in DeploymentState
        /\ saved[Deployments[i]] = s[Deployments[i]]
  <2> SUFFICES ASSUME i \in DOMAIN Deployments
               PROVE  /\ Deployments[i] \in Names
                      /\ s[Deployments[i]] \in DeploymentState
                      /\ saved[Deployments[i]] = s[Deployments[i]]
    OBVIOUS
  <2>1. Deployments[i] \in Names
    BY DEF Names
  <2>2. i \in i..Len(Deployments)
    BY Limits
  <2> QED
    BY <2>1, <2>2
<1>5. request' \in Requests
  <2>1. NoRequest \in Requests
    BY Limits DEF NoRequest, Requests, Ledgers
  <2>2. \A c \in Ledgers : [by |-> "cursor", ledger |-> c] \in Requests
    BY DEF Requests
  <2>3. \A t \in DeploymentState : t.cursor # NoCursor => t.cursor \in Ledgers
    BY DEF DeploymentState
  <2> QED
    BY <2>1, <2>2, <2>3, <1>3, <1>4
<1>6. Types'
  <2>1. FreshState \in DeploymentState
    BY FreshStateOK, Limits
  <2>2. outbox' \in Seq(Alerts)
    BY <1>1, ShortSequences
  <2>3. sending' \in [{} -> 0..(MaxAttempts - 1)]
    BY <1>1
  <2>4. page' \in 0..(MaxPages - 1)
    BY <1>1, Limits
  <2>5. TypeOK'
    BY <1>1, <1>2, <1>3, <1>5, <2>1, <2>2, <2>4 DEF MonitorInv, Types, TypeOK
  <2> QED
    BY <1>1, <1>2, <2>3, <2>5 DEF MonitorInv, Types
<1>7. \A n \in Names : Told(n)' = Told(n)
  BY <1>1 DEF Told
<1>8. \A n \in Names :
        /\ StateOK(saved'[n], Told(n)', excuse'[n], faults')
        /\ StateOK(state'[n], Told(n)', excuse'[n], faults')
  BY <1>1, <1>7 DEF MonitorInv
<1>9. Posting' = {}
  BY <1>1, <1>2, ShortSequences DEF Posting
<1>10. NoRepeat({}, saved'[d'])
  BY ShortSequences DEF NoRepeat
<1>11. pc' = "fetch" =>
         FetchOK(request', page', {}, saved'[d'], Told(d)')
  <2> SUFFICES ASSUME pc' = "fetch"
               PROVE  FetchOK(request', page', {}, saved'[d'], Told(d)')
    OBVIOUS
  <2> DEFINE n == Deployments[i]
             c == s[n].cursor
  <2>1. /\ i \in DOMAIN Deployments /\ c # NoCursor
        /\ request' = [by |-> "cursor", ledger |-> c]
    BY <1>3
  <2>2. n \in Names /\ c \in Ledgers /\ saved[n].cursor = c
    BY <1>4, <2>1 DEF DeploymentState
  <2>3. d' = n /\ Told(d)' = Told(n)
    BY <1>1 DEF d, Told
  <2>4. 1..c \subseteq Told(n)
    BY <2>2 DEF StateOK, NothingSkipped
  <2>5. FirstOf(request') = c + 1 /\ c \in Nat
    BY <2>1, <2>2, Limits DEF FirstOf, Ledgers
  <2> HIDE DEF n, c
  <2>6. FirstOf(request') > c /\ FirstOf(request') - 1 = c
    BY <2>5
  <2> QED
    BY <2>1, <2>2, <2>3, <2>4, <2>6, <1>1, ShortSequences DEF FetchOK
<1>12. pc' = "latest" => page' = 0 /\ saved'[d'].cursor = NoCursor
  BY <1>1, <1>3, <1>4 DEF d
<1>13. \A j \in turn'..Len(Deployments) :
         state'[Deployments[j]] = saved'[Deployments[j]]
  BY <1>1
<1>14. /\ pc' \in {"latest", "fetch", "alert"} => turn' \in DOMAIN Deployments
       /\ outbox' = <<>> /\ pc' # "alert"
  BY <1>1, <1>3
<1> QED
  BY <1>2, <1>6, <1>8, <1>9, <1>10, <1>11, <1>12, <1>13, <1>14 DEF MonitorInv

\* The run ends: what is left is the file, and it is right.
LEMMA StopKeeps ==
  ASSUME MonitorInv, Stop, tip' = tip, faults' \in 0..MaxFaults,
         saved' \in [Names -> DeploymentState],
         handled' = handled, skipped' = skipped, excuse' \in [Names -> BOOLEAN],
         \A n \in Names : StateOK(saved'[n], Told(n), excuse'[n], faults')
  PROVE  MonitorInv'
<1>1. /\ pc' = "idle" /\ turn' = 1 /\ state' = saved' /\ page' = 0
      /\ request' = NoRequest /\ outcome' = FreshState
      /\ outbox' = <<>> /\ sending' = <<>>
  BY DEF Stop
<1>2. InFlight' = {}
  BY <1>1 DEF InFlight
<1>3. Types'
  <2>1. FreshState \in DeploymentState
    BY FreshStateOK, Limits
  <2>2. outbox' \in Seq(Alerts)
    BY <1>1, ShortSequences
  <2>3. sending' \in [{} -> 0..(MaxAttempts - 1)]
    BY <1>1
  <2>4. page' \in 0..(MaxPages - 1) /\ turn' \in 1..(Len(Deployments) + 1)
    BY <1>1, Limits
  <2>5. request' \in Requests
    BY <1>1, Limits DEF NoRequest, Requests, Ledgers
  <2>6. TypeOK'
    BY <1>1, <1>2, <2>1, <2>2, <2>4, <2>5 DEF MonitorInv, Types, TypeOK
  <2> QED
    BY <1>2, <2>3, <2>6 DEF MonitorInv, Types
<1>4. \A n \in Names : Told(n)' = Told(n)
  BY DEF Told
<1>5. \A n \in Names :
        /\ StateOK(saved'[n], Told(n)', excuse'[n], faults')
        /\ StateOK(state'[n], Told(n)', excuse'[n], faults')
  BY <1>1, <1>4
<1>6. Posting' = {}
  BY <1>1, <1>2, ShortSequences DEF Posting
<1>7. NoRepeat({}, saved'[d'])
  BY ShortSequences DEF NoRepeat
<1> QED
  BY <1>1, <1>2, <1>3, <1>5, <1>6, <1>7 DEF MonitorInv

\* The poll ends with a state that is right once its alerts are posted.
LEMMA ConcludeKeeps ==
  ASSUME MonitorInv, pc \in {"latest", "fetch"},
         faults' \in 0..MaxFaults, faults <= faults',
         NEW alerts \in Seq(Alerts), NEW s \in DeploymentState,
         NoRepeat(Elements(alerts), saved[d]),
         AlertOK(s, Elements(alerts), Told(d), excuse[d], faults'),
         Conclude(alerts, s)
  PROVE  MonitorInv'
<1>1. /\ pc' = "alert" /\ outbox' = alerts /\ outcome' = s
      /\ tip' = tip /\ saved' = saved /\ turn' = turn /\ state' = state
      /\ request' = request /\ page' = page /\ sending' = sending
      /\ handled' = handled /\ skipped' = skipped /\ excuse' = excuse
  BY DEF Conclude, history
<1>2. turn \in DOMAIN Deployments /\ InFlight = {}
  BY DEF MonitorInv
<1>3. InFlight' = {} /\ d' = d
  BY <1>1, <1>2 DEF InFlight, d
<1>4. Types'
  <2>1. TypeOK'
    BY <1>1, <1>3 DEF MonitorInv, Types, TypeOK
  <2> QED
    BY <1>1, <1>2, <1>3, <2>1 DEF MonitorInv, Types
<1>5. \A n : Told(n)' = Told(n)
  BY <1>1 DEF Told
<1>6. Told(d)' = Told(d)
  BY <1>1, <1>3 DEF Told
<1>7. faults \in Nat /\ faults' \in Nat
  BY Limits DEF MonitorInv, Types
<1>8. \A n \in Names : saved[n] \in DeploymentState /\ state[n] \in DeploymentState
  BY DEF MonitorInv, Types, TypeOK
<1>9. \A n \in Names :
        /\ StateOK(saved'[n], Told(n)', excuse'[n], faults')
        /\ StateOK(state'[n], Told(n)', excuse'[n], faults')
  <2> SUFFICES ASSUME NEW n \in Names
               PROVE  /\ StateOK(saved[n], Told(n), excuse[n], faults')
                      /\ StateOK(state[n], Told(n), excuse[n], faults')
    BY <1>1, <1>5
  <2>1. /\ StateOK(saved[n], Told(n), excuse[n], faults)
        /\ StateOK(state[n], Told(n), excuse[n], faults)
    BY DEF MonitorInv
  <2> QED
    BY <2>1, <1>7, <1>8, StateOKGrows
<1>10. Posting' = Elements(alerts)
  BY <1>1, <1>3 DEF Posting
<1>11. NoRepeat(Posting', saved'[d'])
  BY <1>1, <1>3, <1>10
<1>12. AlertOK(outcome', Posting', Told(d)', excuse'[d'], faults')
  BY <1>1, <1>3, <1>6, <1>10
<1>13. \A j \in turn'..Len(Deployments) :
         state'[Deployments[j]] = saved'[Deployments[j]]
  BY <1>1 DEF MonitorInv
<1> QED
  BY <1>1, <1>2, <1>4, <1>9, <1>11, <1>12, <1>13 DEF MonitorInv

-----------------------------------------------------------------------------
(* A poll, from its first request to its outcome.                          *)

\* A fault is one more of those allowed.
LEMMA FaultCounted ==
  ASSUME MonitorInv, Fault
  PROVE  /\ faults \in Nat /\ faults < MaxFaults /\ faults' = faults + 1
         /\ faults' \in 0..MaxFaults /\ faults <= faults'
BY Limits DEF MonitorInv, Types, Fault

\* A failed poll is counted, and announced when the streak gets long enough.
LEMMA FailKeeps ==
  ASSUME MonitorInv, pc \in {"latest", "fetch"}, Fault, Fail
  PROVE  MonitorInv'
<1> DEFINE failures == before.consecutiveFailures + 1
           due == AlertDue(failures)
           alerts == IF due THEN <<Health("rpc_failure")>> ELSE <<>>
           s == [before EXCEPT !.consecutiveFailures = failures,
                   !.alertedForFailureStreak = @ \/ due]
<1>1. Conclude(alerts, s)
  BY DEF Fail
<1>2. turn \in DOMAIN Deployments
  BY DEF MonitorInv
<1>3. /\ before = saved[d] /\ before \in DeploymentState
      /\ StateOK(before, Told(d), excuse[d], faults)
  BY <1>2, Current
<1>4. before.consecutiveFailures \in Nat /\ before.consecutiveFailures <= faults
  BY <1>3, Limits DEF StateOK, DeploymentState
<1>5. failures \in 0..MaxFaults /\ failures <= faults'
  BY <1>4, FaultCounted, Limits
<1>6. due <=> failures >= FailuresBeforeAlert /\ ~before.alertedForFailureStreak
  BY DEF AlertDue
<1> HIDE DEF due
<1>7. due \in BOOLEAN
  BY DEF due, AlertDue
<1>8. s \in DeploymentState
  BY <1>3, <1>5, <1>7 DEF DeploymentState
<1>9. /\ s.cursor = before.cursor /\ s.consecutiveFailures = failures
      /\ s.alertedForFailureStreak = (before.alertedForFailureStreak \/ due)
  BY <1>3 DEF DeploymentState
<1> HIDE DEF s
<1>10. before.alertedForFailureStreak => failures >= FailuresBeforeAlert
  BY <1>3, <1>4, Limits DEF StateOK, StreakOK
<1> HIDE DEF failures
<1>11. StreakOK(s)
  BY <1>6, <1>9, <1>10, Zenon DEF StreakOK
<1>12. NothingSkipped(s, Told(d), excuse[d])
  BY <1>3, <1>9 DEF StateOK, NothingSkipped
<1>13. StateOK(s, Told(d), excuse[d], faults')
  BY <1>5, <1>9, <1>11, <1>12 DEF StateOK
<1>14. alerts \in Seq(Alerts) /\ LedgersOf(Elements(alerts)) = {}
  BY ShortSequences, AlertsDiffer, LedgersOfHealth DEF HealthKinds
<1>15. due \/ Elements(alerts) = {}
  BY ShortSequences
<1>16. NoRepeat(Elements(alerts), saved[d])
  BY <1>3, <1>6, <1>14, <1>15 DEF NoRepeat
<1> HIDE DEF alerts
<1>17. NothingSkipped(s, Told(d) \cup LedgersOf(Elements(alerts)),
                      excuse[d] \/ Health("retention_gap") \in Elements(alerts))
  BY <1>12, Zenon DEF NothingSkipped
<1>18. AlertOK(s, Elements(alerts), Told(d), excuse[d], faults')
  BY <1>13, <1>17, Zenon DEF AlertOK, StateOK
<1> QED
  BY <1>1, <1>8, <1>14, <1>16, <1>18, FaultCounted, ConcludeKeeps

\* A request the RPC refuses drops the cursor, and tells so.
LEMMA ReportGapKeeps ==
  ASSUME MonitorInv, pc = "fetch", faults' \in 0..MaxFaults, faults <= faults',
         ReportGap
  PROVE  MonitorInv'
<1> DEFINE gap == Health("retention_gap")
           s == AfterGap
<1>1. Conclude(<<gap>>, s)
  BY DEF ReportGap
<1>2. turn \in DOMAIN Deployments
  BY DEF MonitorInv
<1>3. /\ before \in DeploymentState /\ faults \in Nat
      /\ StateOK(before, Told(d), excuse[d], faults)
  BY <1>2, Current
<1>4. s \in DeploymentState
  BY <1>3 DEF AfterGap, DeploymentState
<1>5. /\ s.cursor = 0 /\ s.consecutiveFailures = before.consecutiveFailures
      /\ s.alertedForFailureStreak = before.alertedForFailureStreak
  BY <1>3 DEF AfterGap, DeploymentState, NoCursor
<1> HIDE DEF s
<1>6. gap \in Alerts /\ LedgersOf({gap}) = {} /\ gap # Health("rpc_failure")
  BY AlertsDiffer, LedgersOfHealth DEF HealthKinds
<1> HIDE DEF gap
<1>7. <<gap>> \in Seq(Alerts) /\ Elements(<<gap>>) = {gap}
  BY <1>6, ShortSequences
<1>8. NoRepeat({gap}, saved[d])
  BY <1>6 DEF NoRepeat
<1>9. StreakOK(s)
  BY <1>3, <1>5 DEF StateOK, StreakOK
<1>10. before.consecutiveFailures \in Nat
  BY <1>3, Limits DEF DeploymentState
<1>11. s.consecutiveFailures <= faults'
  BY <1>3, <1>5, <1>10, Limits DEF StateOK
<1>12. 1..s.cursor = {}
  BY <1>5
<1>13. NothingSkipped(s, Told(d) \cup LedgersOf({gap}), excuse[d] \/ gap \in {gap})
  BY <1>12, Zenon DEF NothingSkipped
<1>14. AlertOK(s, {gap}, Told(d), excuse[d], faults')
  BY <1>9, <1>11, <1>13 DEF AlertOK, StateOK, gap
<1> QED
  BY <1>1, <1>4, <1>7, <1>8, <1>14, ConcludeKeeps

\* A poll that has seen the events up to c records c, without failures.
LEMMA SucceedKeeps ==
  ASSUME MonitorInv, pc = "fetch", faults' \in 0..MaxFaults, faults <= faults',
         NEW events \in Seq(Alerts), NEW c \in Ledgers,
         \A l \in LedgersOf(Elements(events)) : l > saved[d].cursor,
         Health("rpc_failure") \notin Elements(events),
         1..c \subseteq Told(d) \cup LedgersOf(Elements(events)),
         Succeed(events, c)
  PROVE  MonitorInv'
<1> DEFINE alerts == events \o Recovery
           s == [FreshState EXCEPT !.cursor = c]
           told == Told(d) \cup LedgersOf(Elements(alerts))
<1>1. Conclude(alerts, s)
  BY DEF Succeed
<1>2. Recovery \in Seq(Alerts) /\ LedgersOf(Elements(Recovery)) = {}
  BY ShortSequences, AlertsDiffer, LedgersOfHealth DEF Recovery, HealthKinds
<1>3. Health("rpc_failure") \notin Elements(Recovery)
  BY ShortSequences, AlertsDiffer DEF Recovery, HealthKinds
<1>4. /\ alerts \in Seq(Alerts)
      /\ Elements(alerts) = Elements(events) \cup Elements(Recovery)
  BY <1>2, AppendElements
<1> HIDE DEF alerts
<1>5. LedgersOf(Elements(alerts)) = LedgersOf(Elements(events))
  <2>1. LedgersOf(Elements(events) \cup Elements(Recovery))
          = LedgersOf(Elements(events)) \cup LedgersOf(Elements(Recovery))
    BY LedgersOfUnion, Zenon
  <2> QED
    BY <2>1, <1>2, <1>4
<1>6. NoRepeat(Elements(alerts), saved[d])
  BY <1>3, <1>4, <1>5 DEF NoRepeat
<1>7. c # NoCursor /\ faults' \in Nat
  BY Limits DEF NoCursor, Ledgers
<1>8. 1..c \subseteq told
  BY <1>5
<1> HIDE DEF told
<1>9. /\ s \in DeploymentState
      /\ StateOK(s, told, excuse[d] \/ Health("retention_gap") \in Elements(alerts),
                 faults')
  BY <1>7, <1>8, FreshOK
<1> HIDE DEF s
<1>10. AlertOK(s, Elements(alerts), Told(d), excuse[d], faults')
  BY <1>9 DEF AlertOK, told
<1> QED
  BY <1>1, <1>4, <1>6, <1>9, <1>10, ConcludeKeeps

\* Pages so far, with nothing in flight: the alerts are those of the pages.
LEMMA Fetching ==
  ASSUME MonitorInv, pc = "fetch"
  PROVE  /\ turn \in DOMAIN Deployments /\ InFlight = {}
         /\ Posting = Elements(outbox) /\ outbox \in Seq(Alerts)
         /\ request \in Requests /\ tip \in Ledgers
         /\ FetchOK(request, page, Elements(outbox), saved[d], Told(d))
         /\ \A l \in LedgersOf(Elements(outbox)) : l > saved[d].cursor
<1>1. turn \in DOMAIN Deployments /\ InFlight = {}
  BY DEF MonitorInv
<1>2. Posting = Elements(outbox)
  BY <1>1 DEF Posting
<1>3. FetchOK(request, page, Posting, saved[d], Told(d)) /\ NoRepeat(Posting, saved[d])
  BY <1>1 DEF MonitorInv
<1>4. outbox \in Seq(Alerts) /\ request \in Requests /\ tip \in Ledgers
  BY DEF MonitorInv, Types, TypeOK
<1> QED
  BY <1>1, <1>2, <1>3, <1>4 DEF NoRepeat

\* What later pages failed to add is left to the next run.
LEMMA PartialResultKeeps ==
  ASSUME MonitorInv, pc = "fetch", page > 0,
         faults' \in 0..MaxFaults, faults <= faults', PartialResult
  PROVE  MonitorInv'
<1>1. request.by = "cursor" /\ request.ledger \in Ledgers
  BY Fetching DEF FetchOK, Requests
<1>2. FirstOf(request) - 1 = request.ledger
  BY <1>1, Limits DEF FirstOf, Ledgers
<1>3. 1..request.ledger \subseteq Told(d) \cup LedgersOf(Elements(outbox))
  BY <1>2, Fetching DEF FetchOK
<1>4. Health("rpc_failure") \notin Elements(outbox)
  BY Fetching DEF FetchOK
<1> QED
  BY <1>1, <1>3, <1>4, Fetching, SucceedKeeps DEF PartialResult

-----------------------------------------------------------------------------
(* The steps.                                                              *)

\* Nothing of the monitor changes but the clock of the chain.
LEMMA CloseLedgerKeeps ==
  ASSUME MonitorInv, CloseLedger
  PROVE  MonitorInv'
<1>1. /\ tip' \in Ledgers /\ saved' = saved /\ pc' = pc /\ turn' = turn
      /\ state' = state /\ request' = request /\ page' = page
      /\ outbox' = outbox /\ sending' = sending /\ outcome' = outcome
      /\ handled' = handled /\ skipped' = skipped /\ excuse' = excuse
      /\ faults' = faults
  BY Limits DEF MonitorInv, Types, TypeOK, CloseLedger, Ledgers, run, history
<1>2. InFlight' = InFlight /\ d' = d
  BY <1>1 DEF InFlight, d
<1>3. Posting' = Posting /\ Told(d)' = Told(d) /\ \A n : Told(n)' = Told(n)
  BY <1>1, <1>2 DEF Posting, Told
<1>4. Types'
  BY <1>1, <1>2 DEF MonitorInv, Types, TypeOK
<1> QED
  BY <1>1, <1>2, <1>3, <1>4 DEF MonitorInv

\* A deployment without a cursor starts a lookback before the tip; what lies
\* below is skipped for the reason the cursor is absent.
LEMMA GetLatestLedgerKeeps ==
  ASSUME MonitorInv, GetLatestLedger
  PROVE  MonitorInv'
<1> DEFINE below == 1..(StartLedger - 1)
           first == [by |-> "startLedger", ledger |-> StartLedger]
<1>1. /\ pc = "latest" /\ pc' = "fetch" /\ request' = first
      /\ skipped' = [skipped EXCEPT ![d] = IF excuse[d] THEN @ \cup below ELSE @]
      /\ tip' = tip /\ saved' = saved /\ turn' = turn /\ state' = state
      /\ page' = page /\ outbox' = outbox /\ sending' = sending
      /\ outcome' = outcome /\ handled' = handled /\ excuse' = excuse
      /\ faults' = faults
  BY DEF GetLatestLedger
<1>2. /\ turn \in DOMAIN Deployments /\ outbox = <<>> /\ InFlight = {}
      /\ page = 0 /\ saved[d].cursor = NoCursor
  BY <1>1 DEF MonitorInv
<1>3. d \in Names /\ d' = d /\ InFlight' = {}
  BY <1>1, <1>2, Current DEF d, InFlight
<1>4. excuse[d]
  BY <1>2, <1>3 DEF MonitorInv, StateOK, NothingSkipped
<1>5. StartLedger \in Ledgers /\ StartLedger \in Nat /\ 1 <= StartLedger
  BY Limits DEF MonitorInv, Types, TypeOK, StartLedger, Larger, Ledgers
<1>6. below \subseteq Ledgers
  BY <1>5, Limits DEF Ledgers
<1>7. /\ first \in Requests /\ first.by = "startLedger"
      /\ first.ledger = StartLedger
  BY <1>5 DEF Requests
<1>8. FirstOf(first) = StartLedger
  BY <1>7 DEF FirstOf
<1> HIDE DEF first, below
<1>9. skipped \in [Names -> SUBSET Ledgers]
  BY DEF MonitorInv, Types
<1>10. /\ skipped' \in [Names -> SUBSET Ledgers]
       /\ \A n \in Names : skipped[n] \subseteq skipped'[n]
       /\ below \subseteq skipped'[d]
  BY <1>1, <1>3, <1>4, <1>6, <1>9
<1>11. Types'
  BY <1>1, <1>2, <1>3, <1>7, <1>10 DEF MonitorInv, Types, TypeOK
<1>12. \A n \in Names : Told(n) \subseteq Told(n)'
  BY <1>1, <1>10 DEF Told
<1>13. \A n \in Names : saved[n] \in DeploymentState /\ state[n] \in DeploymentState
  BY DEF MonitorInv, Types, TypeOK
<1>14. faults \in Nat
  BY Limits DEF MonitorInv, Types
<1>15. \A n \in Names :
         /\ StateOK(saved'[n], Told(n)', excuse'[n], faults')
         /\ StateOK(state'[n], Told(n)', excuse'[n], faults')
  <2> SUFFICES ASSUME NEW n \in Names
               PROVE  /\ StateOK(saved[n], Told(n)', excuse[n], faults)
                      /\ StateOK(state[n], Told(n)', excuse[n], faults)
    BY <1>1
  <2>1. /\ StateOK(saved[n], Told(n), excuse[n], faults)
        /\ StateOK(state[n], Told(n), excuse[n], faults)
    BY DEF MonitorInv
  <2>2. Told(n) \subseteq Told(n)'
    BY <1>12
  <2> QED
    BY <2>1, <2>2, <1>13, <1>14, StateOKGrows
<1>16. Posting' = {} /\ Posting = {}
  BY <1>1, <1>2, <1>3, ShortSequences DEF Posting
<1>17. NoRepeat(Posting', saved'[d'])
  BY <1>16, ShortSequences DEF NoRepeat
<1>18. FetchOK(request', page', Posting', saved'[d'], Told(d)')
  <2>1. FirstOf(request') > saved[d].cursor
    BY <1>1, <1>2, <1>5, <1>8 DEF NoCursor
  <2>2. 1..(FirstOf(request') - 1) \subseteq Told(d)'
    BY <1>1, <1>3, <1>8, <1>10 DEF Told, below
  <2>3. ~(page' > 0) /\ saved'[d'] = saved[d]
    BY <1>1, <1>2, <1>3
  <2> QED
    BY <2>1, <2>2, <2>3, <1>16 DEF FetchOK
<1>19. \A j \in turn'..Len(Deployments) :
         state'[Deployments[j]] = saved'[Deployments[j]]
  BY <1>1 DEF MonitorInv
<1> QED
  BY <1>1, <1>2, <1>3, <1>11, <1>15, <1>17, <1>18, <1>19 DEF MonitorInv

\* A page ends the poll, or is kept and the next one asked for.
LEMMA FetchPageKeeps ==
  ASSUME MonitorInv, FetchPage
  PROVE  MonitorInv'
<1> DEFINE events == outbox \o Found(request)
           last == LastOf(request)
           next == [by |-> "cursor", ledger |-> last]
<1>1. pc = "fetch" /\ Served(request) /\ faults' = faults
  BY DEF FetchPage
<1>2. /\ turn \in DOMAIN Deployments /\ InFlight = {}
      /\ Posting = Elements(outbox) /\ outbox \in Seq(Alerts)
      /\ request \in Requests /\ tip \in Ledgers
      /\ FetchOK(request, page, Elements(outbox), saved[d], Told(d))
      /\ \A l \in LedgersOf(Elements(outbox)) : l > saved[d].cursor
  BY <1>1, Fetching
<1>3. /\ Found(request) \in Seq(Alerts) /\ last \in Ledgers
      /\ FirstOf(request) \in Nat
      /\ 1 <= FirstOf(request) /\ FirstOf(request) <= last + 1
      /\ LedgersOf(Elements(Found(request))) = FirstOf(request)..last
      /\ Health("rpc_failure") \notin Elements(Found(request))
  BY <1>1, <1>2, FoundEvents
<1>4. /\ events \in Seq(Alerts)
      /\ Elements(events) = Elements(outbox) \cup Elements(Found(request))
  BY <1>2, <1>3, AppendElements
<1> HIDE DEF last
<1>5. last \in Nat
  BY <1>3, Limits DEF Ledgers
<1>6. /\ d \in Names /\ saved[d] \in DeploymentState
      /\ faults' \in 0..MaxFaults /\ faults <= faults'
  BY <1>1, <1>2, Current, Limits
<1>7. saved[d].cursor \in Nat
  BY <1>6, Limits DEF DeploymentState, NoCursor, Ledgers
<1> HIDE DEF events
<1>8. LedgersOf(Elements(events))
        = LedgersOf(Elements(outbox)) \cup (FirstOf(request)..last)
  <2>1. LedgersOf(Elements(outbox) \cup Elements(Found(request)))
          = LedgersOf(Elements(outbox)) \cup LedgersOf(Elements(Found(request)))
    BY LedgersOfUnion, Zenon
  <2> QED
    BY <2>1, <1>3, <1>4
<1>9. FirstOf(request) > saved[d].cursor
  BY <1>2 DEF FetchOK
<1>10. \A l \in FirstOf(request)..last : l > saved[d].cursor
  BY <1>3, <1>5, <1>7, <1>9
<1>11. \A l \in LedgersOf(Elements(events)) : l > saved[d].cursor
  BY <1>2, <1>8, <1>10
<1>12. Health("rpc_failure") \notin Elements(events)
  BY <1>2, <1>3, <1>4 DEF FetchOK
<1>13. 1..last \subseteq Told(d) \cup LedgersOf(Elements(events))
  <2>1. 1..last \subseteq (1..(FirstOf(request) - 1)) \cup (FirstOf(request)..last)
    BY <1>3, <1>5
  <2>2. 1..(FirstOf(request) - 1) \subseteq Told(d) \cup LedgersOf(Elements(outbox))
    BY <1>2 DEF FetchOK
  <2> QED
    BY <2>1, <2>2, <1>8
<1>14. CASE Succeed(events, last)
  BY <1>1, <1>3, <1>4, <1>6, <1>11, <1>12, <1>13, <1>14, SucceedKeeps
<1>15. CASE /\ outbox' = events /\ page' = page + 1 /\ request' = next
            /\ page + 1 # MaxPages
            /\ UNCHANGED <<tip, saved, pc, turn, state, sending, outcome, history>>
  <2>1. /\ outbox' = events /\ page' = page + 1 /\ request' = next /\ pc' = "fetch"
        /\ page + 1 # MaxPages
        /\ tip' = tip /\ saved' = saved /\ turn' = turn /\ state' = state
        /\ sending' = sending /\ outcome' = outcome /\ handled' = handled
        /\ skipped' = skipped /\ excuse' = excuse
    BY <1>1, <1>15 DEF history
  <2>2. InFlight' = {} /\ d' = d
    BY <1>2, <2>1 DEF InFlight, d
  <2>3. Posting' = Elements(events) /\ Told(d)' = Told(d)
        /\ \A n : Told(n)' = Told(n)
    BY <2>1, <2>2 DEF Posting, Told
  <2>4. next \in Requests /\ next.by = "cursor" /\ next.ledger = last
    BY <1>3 DEF Requests
  <2> HIDE DEF next
  <2>5. FirstOf(next) = last + 1
    BY <2>4 DEF FirstOf
  <2>6. page' \in 0..(MaxPages - 1)
    BY <2>1, Limits DEF MonitorInv, Types, TypeOK
  <2>7. Types'
    BY <1>1, <1>2, <1>4, <2>1, <2>2, <2>4, <2>6 DEF MonitorInv, Types, TypeOK
  <2>8. NoRepeat(Posting', saved'[d'])
    BY <1>11, <1>12, <2>1, <2>2, <2>3 DEF NoRepeat
  <2>9. FirstOf(next) > saved[d].cursor /\ FirstOf(next) - 1 = last
    BY <1>3, <1>5, <1>7, <1>9, <2>5
  <2>10. FetchOK(request', page', Posting', saved'[d'], Told(d)')
    BY <1>12, <1>13, <2>1, <2>2, <2>3, <2>4, <2>9 DEF FetchOK
  <2>11. \A n \in Names :
           /\ StateOK(saved'[n], Told(n)', excuse'[n], faults')
           /\ StateOK(state'[n], Told(n)', excuse'[n], faults')
    BY <1>1, <2>1, <2>3 DEF MonitorInv
  <2>12. \A j \in turn'..Len(Deployments) :
           state'[Deployments[j]] = saved'[Deployments[j]]
    BY <2>1 DEF MonitorInv
  <2> QED
    BY <1>2, <2>1, <2>2, <2>7, <2>8, <2>10, <2>11, <2>12 DEF MonitorInv
<1>16. \/ Succeed(events, last)
       \/ /\ outbox' = events /\ page' = page + 1 /\ request' = next
          /\ page + 1 # MaxPages
          /\ UNCHANGED <<tip, saved, pc, turn, state, sending, outcome, history>>
  BY Zenon DEF FetchPage, events, last
<1> QED
  BY <1>14, <1>15, <1>16

\* A refused request is a gap on the first page, and an end of the poll later.
LEMMA FetchRefusedKeeps ==
  ASSUME MonitorInv, FetchRefused
  PROVE  MonitorInv'
<1>1. pc = "fetch" /\ faults' = faults
  BY DEF FetchRefused
<1>2. faults' \in 0..MaxFaults /\ faults <= faults' /\ (page # 0 => page > 0)
  BY <1>1, Limits DEF MonitorInv, Types, TypeOK
<1>3. CASE page = 0 /\ ReportGap
  BY <1>1, <1>2, <1>3, ReportGapKeeps
<1>4. CASE page # 0 /\ PartialResult
  BY <1>1, <1>2, <1>4, PartialResultKeeps
<1> QED
  BY <1>3, <1>4 DEF FetchRefused

\* The same with a request that fails for another reason.
LEMMA FetchFailsKeeps ==
  ASSUME MonitorInv, FetchFails
  PROVE  MonitorInv'
<1>1. pc = "fetch" /\ Fault
  BY DEF FetchFails
<1>2. faults' \in 0..MaxFaults /\ faults <= faults'
  BY <1>1, FaultCounted
<1>3. CASE page = 0 /\ Fail
  BY <1>1, <1>3, FailKeeps
<1>4. CASE page = 0 /\ ReportGap
  BY <1>1, <1>2, <1>4, ReportGapKeeps
<1>5. CASE page > 0 /\ PartialResult
  BY <1>1, <1>2, <1>5, PartialResultKeeps
<1> QED
  BY <1>3, <1>4, <1>5 DEF FetchFails

LEMMA DecodeFailsKeeps ==
  ASSUME MonitorInv, DecodeFails
  PROVE  MonitorInv'
BY FailKeeps DEF DecodeFails

\* While alerts are posted, none is lost: it waits, is in flight, or is done.
LEMMA PostingKeeps ==
  ASSUME MonitorInv, pc = "alert",
         outbox' \in Seq(Alerts), InFlight' \subseteq Alerts,
         sending' \in [InFlight' -> 0..(MaxAttempts - 1)],
         handled' \in [Names -> SUBSET Ledgers], excuse' \in [Names -> BOOLEAN],
         \A n \in Names : handled[n] \subseteq handled'[n],
         \A n \in Names : excuse[n] => excuse'[n],
         Posting' \subseteq Posting,
         LedgersOf(Posting) \subseteq LedgersOf(Posting') \cup handled'[d],
         Health("retention_gap") \in Posting
           => Health("retention_gap") \in Posting' \/ excuse'[d],
         UNCHANGED <<tip, saved, pc, turn, state, request, page, outcome,
                     skipped, faults>>
  PROVE  MonitorInv'
<1>1. /\ tip' = tip /\ saved' = saved /\ pc' = pc /\ turn' = turn
      /\ state' = state /\ request' = request /\ page' = page
      /\ outcome' = outcome /\ skipped' = skipped /\ faults' = faults
  OBVIOUS
<1>2. turn \in DOMAIN Deployments /\ d' = d
  BY <1>1 DEF MonitorInv, d
<1>3. d \in Names /\ faults \in Nat
  BY <1>2, Current
<1>4. \A n \in Names : Told(n) \subseteq Told(n)'
  BY <1>1 DEF Told
<1>5. Types'
  <2>1. \A a \in InFlight' : sending'[a] < MaxAttempts
    BY Limits
  <2>2. TypeOK'
    BY <1>1, <2>1 DEF MonitorInv, Types, TypeOK
  <2> QED
    BY <1>1, <2>2 DEF MonitorInv, Types
<1>6. \A n \in Names : saved[n] \in DeploymentState /\ state[n] \in DeploymentState
  BY DEF MonitorInv, Types, TypeOK
<1>7. \A n \in Names :
        /\ StateOK(saved'[n], Told(n)', excuse'[n], faults')
        /\ StateOK(state'[n], Told(n)', excuse'[n], faults')
  <2> SUFFICES ASSUME NEW n \in Names
               PROVE  /\ StateOK(saved[n], Told(n)', excuse'[n], faults)
                      /\ StateOK(state[n], Told(n)', excuse'[n], faults)
    BY <1>1
  <2>1. /\ StateOK(saved[n], Told(n), excuse[n], faults)
        /\ StateOK(state[n], Told(n), excuse[n], faults)
    BY DEF MonitorInv
  <2>2. Told(n) \subseteq Told(n)' /\ (excuse[n] => excuse'[n])
    BY <1>4
  <2> QED
    BY <2>1, <2>2, <1>3, <1>6, StateOKGrows
<1>8. NoRepeat(Posting', saved'[d'])
  <2>1. LedgersOf(Posting') \subseteq LedgersOf(Posting)
    BY DEF LedgersOf
  <2>2. NoRepeat(Posting, saved[d])
    BY <1>2 DEF MonitorInv
  <2> QED
    BY <2>1, <2>2, <1>1, <1>2 DEF NoRepeat
<1>9. AlertOK(outcome', Posting', Told(d)', excuse'[d'], faults')
  <2>1. AlertOK(outcome, Posting, Told(d), excuse[d], faults)
    BY DEF MonitorInv
  <2>2. Told(d)' = handled'[d] \cup skipped[d] /\ Told(d) \subseteq Told(d)'
    BY <1>1, <1>2, <1>3, <1>4 DEF Told
  <2>3. Told(d) \cup LedgersOf(Posting) \subseteq Told(d)' \cup LedgersOf(Posting')
    BY <2>2
  <2>4. excuse[d] \/ Health("retention_gap") \in Posting
          => excuse'[d] \/ Health("retention_gap") \in Posting'
    BY <1>3
  <2> HIDE DEF d, Posting, Told
  <2>5. NothingSkipped(outcome, Told(d)' \cup LedgersOf(Posting'),
                       excuse'[d] \/ Health("retention_gap") \in Posting')
    <3>1. NothingSkipped(outcome, Told(d) \cup LedgersOf(Posting),
                         excuse[d] \/ Health("retention_gap") \in Posting)
      BY <2>1, Zenon DEF AlertOK, StateOK
    <3>2. 1..outcome.cursor \subseteq Told(d) \cup LedgersOf(Posting)
      BY <3>1, Zenon DEF NothingSkipped
    <3>3. outcome.cursor = NoCursor
            => excuse'[d] \/ Health("retention_gap") \in Posting'
      BY <3>1, <2>4, Zenon DEF NothingSkipped
    <3>4. 1..outcome.cursor \subseteq Told(d)' \cup LedgersOf(Posting')
      BY <3>2, <2>3
    <3> QED
      BY <3>3, <3>4, Zenon DEF NothingSkipped
  <2>6. AlertOK(outcome, Posting', Told(d)', excuse'[d], faults)
    BY <2>1, <2>5, Zenon DEF AlertOK, StateOK
  <2> QED
    BY <2>6, <1>1, <1>2
<1>10. \A j \in turn'..Len(Deployments) :
         state'[Deployments[j]] = saved'[Deployments[j]]
  BY <1>1 DEF MonitorInv
<1> QED
  BY <1>1, <1>2, <1>5, <1>7, <1>8, <1>9, <1>10 DEF MonitorInv

\* An alert goes from the outbox into flight.
LEMMA StartAlertKeeps ==
  ASSUME MonitorInv, StartAlert
  PROVE  MonitorInv'
<1>1. /\ pc = "alert" /\ outbox # <<>> /\ outbox' = Tail(outbox)
      /\ sending' = [a \in InFlight \cup {Head(outbox)} |->
                       IF a \in InFlight THEN sending[a] ELSE 0]
      /\ handled' = handled /\ excuse' = excuse
      /\ UNCHANGED <<tip, saved, pc, turn, state, request, page, outcome,
                     skipped, faults>>
  BY DEF StartAlert, history
<1>2. /\ outbox \in Seq(Alerts) /\ InFlight \subseteq Alerts
      /\ sending \in [InFlight -> 0..(MaxAttempts - 1)]
      /\ handled \in [Names -> SUBSET Ledgers] /\ excuse \in [Names -> BOOLEAN]
  BY DEF MonitorInv, Types, TypeOK
<1>3. /\ Head(outbox) \in Alerts /\ Tail(outbox) \in Seq(Alerts)
      /\ Elements(outbox) = {Head(outbox)} \cup Elements(Tail(outbox))
  BY <1>1, <1>2, TailElements
<1>4. InFlight' = InFlight \cup {Head(outbox)}
  BY <1>1 DEF InFlight
<1>5. sending' \in [InFlight' -> 0..(MaxAttempts - 1)]
  <2>1. 0 \in 0..(MaxAttempts - 1)
    BY Limits
  <2> QED
    BY <2>1, <1>1, <1>2, <1>4
<1>6. Posting' = Posting
  BY <1>1, <1>3, <1>4 DEF Posting
<1> QED
  BY <1>1, <1>2, <1>3, <1>4, <1>5, <1>6, PostingKeeps

\* An alert that was delivered or given up has left the flight.
LEMMA DoneKeeps ==
  ASSUME MonitorInv, NEW a \in InFlight, Done(a),
         UNCHANGED <<tip, saved, pc, turn, state, request, page, outbox, outcome,
                     faults>>
  PROVE  MonitorInv'
<1>1. /\ sending' = [x \in InFlight \ {a} |-> sending[x]]
      /\ handled' = IF a[1] = "contract_event"
                    THEN [handled EXCEPT ![d] = @ \cup {a[2]}] ELSE handled
      /\ excuse' = IF a[1] = "retention_gap"
                   THEN [excuse EXCEPT ![d] = TRUE] ELSE excuse
      /\ skipped' = skipped /\ outbox' = outbox
  BY DEF Done
<1>2. /\ outbox \in Seq(Alerts) /\ InFlight \subseteq Alerts
      /\ sending \in [InFlight -> 0..(MaxAttempts - 1)]
      /\ handled \in [Names -> SUBSET Ledgers] /\ excuse \in [Names -> BOOLEAN]
  BY DEF MonitorInv, Types, TypeOK
<1>3. pc = "alert" /\ turn \in DOMAIN Deployments
  BY DEF MonitorInv
<1>4. d \in Names
  BY <1>3, Current
<1>5. InFlight' = InFlight \ {a}
  BY <1>1 DEF InFlight
<1>6. sending' \in [InFlight' -> 0..(MaxAttempts - 1)]
  BY <1>1, <1>2, <1>5
<1>7. Posting' \subseteq Posting /\ Posting \subseteq Posting' \cup {a}
  BY <1>1, <1>5 DEF Posting
<1>8. \/ \E l \in Ledgers : a = Event(l)
      \/ \E k \in HealthKinds : a = Health(k)
  BY <1>2 DEF Alerts
<1>9. /\ \A l : Event(l)[1] = "contract_event" /\ Event(l)[2] = l
      /\ \A k : Health(k)[1] = k
  BY DEF Event, Health
<1>10. /\ handled' \in [Names -> SUBSET Ledgers]
       /\ \A n \in Names : handled[n] \subseteq handled'[n]
       /\ \A l \in Ledgers : a = Event(l) => l \in handled'[d]
  <2>1. CASE \E l \in Ledgers : a = Event(l)
    <3>1. PICK l \in Ledgers : a = Event(l)
      BY <2>1
    <3>2. handled' = [handled EXCEPT ![d] = @ \cup {l}]
      BY <3>1, <1>1, <1>9
    <3>3. \A m \in Ledgers : a = Event(m) => m = l
      BY <3>1, AlertsDiffer
    <3> QED
      BY <3>2, <3>3, <1>2, <1>4
  <2>2. CASE \E k \in HealthKinds : a = Health(k)
    <3>1. handled' = handled
      BY <2>2, <1>1, <1>9 DEF HealthKinds
    <3>2. \A l \in Ledgers : a # Event(l)
      BY <2>2, AlertsDiffer
    <3> QED
      BY <3>1, <3>2, <1>2
  <2> QED
    BY <2>1, <2>2, <1>8
<1>11. /\ excuse' \in [Names -> BOOLEAN]
       /\ \A n \in Names : excuse[n] => excuse'[n]
       /\ a = Health("retention_gap") => excuse'[d]
  <2>1. CASE a = Health("retention_gap")
    <3>1. excuse' = [excuse EXCEPT ![d] = TRUE]
      BY <2>1, <1>1, <1>9
    <3> QED
      BY <3>1, <1>2, <1>4
  <2>2. CASE a # Health("retention_gap")
    <3>1. a[1] # "retention_gap"
      BY <2>2, <1>8, <1>9
    <3> QED
      BY <3>1, <2>2, <1>1, <1>2
  <2> QED
    BY <2>1, <2>2
<1>12. LedgersOf(Posting) \subseteq LedgersOf(Posting') \cup handled'[d]
  BY <1>7, <1>10 DEF LedgersOf
<1>13. Health("retention_gap") \in Posting
         => Health("retention_gap") \in Posting' \/ excuse'[d]
  BY <1>7, <1>11
<1> QED
  BY <1>1, <1>2, <1>3, <1>5, <1>6, <1>7, <1>10, <1>11, <1>12, <1>13, PostingKeeps

\* An attempt that fails is repeated until the last one.
LEMMA PostFailsKeeps ==
  ASSUME MonitorInv, NEW a \in InFlight, PostFails(a)
  PROVE  MonitorInv'
<1>1. CASE LastAttempt(a) /\ Done(a)
  BY <1>1, DoneKeeps DEF PostFails
<1>2. CASE /\ ~LastAttempt(a)
           /\ sending' = [sending EXCEPT ![a] = @ + 1]
           /\ UNCHANGED history
  <2>1. /\ handled' = handled /\ excuse' = excuse /\ outbox' = outbox
        /\ UNCHANGED <<tip, saved, pc, turn, state, request, page, outcome,
                       skipped, faults>>
    BY <1>2 DEF PostFails, history
  <2>2. /\ outbox \in Seq(Alerts) /\ InFlight \subseteq Alerts
        /\ sending \in [InFlight -> 0..(MaxAttempts - 1)]
        /\ handled \in [Names -> SUBSET Ledgers] /\ excuse \in [Names -> BOOLEAN]
    BY DEF MonitorInv, Types, TypeOK
  <2>3. pc = "alert"
    BY DEF MonitorInv
  <2>4. InFlight' = InFlight
    BY <1>2 DEF InFlight
  <2>5. sending[a] + 1 \in 0..(MaxAttempts - 1)
    BY <1>2, <2>2, Limits DEF LastAttempt
  <2>6. sending' \in [InFlight' -> 0..(MaxAttempts - 1)]
    BY <1>2, <2>2, <2>4, <2>5
  <2>7. Posting' = Posting
    BY <2>1, <2>4 DEF Posting
  <2> QED
    BY <2>1, <2>2, <2>3, <2>4, <2>6, <2>7, PostingKeeps
<1> QED
  BY <1>1, <1>2 DEF PostFails

\* A run starts from the file.
LEMMA StartRunKeeps ==
  ASSUME MonitorInv, StartRun
  PROVE  MonitorInv'
<1>1. 1 \in 1..(Len(Deployments) + 1)
  BY Limits
<1>2. /\ saved \in [Names -> DeploymentState]
      /\ \A n \in Names : StateOK(saved[n], Told(n), excuse[n], faults)
  BY DEF MonitorInv, Types, TypeOK
<1> QED
  BY <1>1, <1>2, EnterKeeps DEF StartRun

\* The outcome is recorded when all is posted, and is right by then; no other
\* deployment has this one's name.
LEMMA EndPollKeeps ==
  ASSUME MonitorInv, EndPoll
  PROVE  MonitorInv'
<1> DEFINE s == [state EXCEPT ![d] = outcome]
<1>1. /\ pc = "alert" /\ outbox = <<>> /\ InFlight = {} /\ Enter(turn + 1, s)
      /\ UNCHANGED <<tip, saved, history, faults>>
  BY DEF EndPoll
<1>2. turn \in DOMAIN Deployments
  BY <1>1 DEF MonitorInv
<1>3. d \in Names
  BY <1>2, Current
<1>4. /\ state \in [Names -> DeploymentState] /\ outcome \in DeploymentState
      /\ turn + 1 \in 1..(Len(Deployments) + 1)
  BY <1>2, Limits DEF MonitorInv, Types, TypeOK
<1>5. /\ s \in [Names -> DeploymentState] /\ s[d] = outcome
      /\ \A n \in Names : n # d => s[n] = state[n]
  BY <1>3, <1>4
<1> HIDE DEF s
<1>6. StateOK(outcome, Told(d), excuse[d], faults)
  <2>1. Posting = {}
    BY <1>1, ShortSequences DEF Posting
  <2>2. AlertOK(outcome, {}, Told(d), excuse[d], faults)
    BY <1>1, <2>1 DEF MonitorInv
  <2>3. NothingSkipped(outcome, Told(d) \cup LedgersOf({}),
                       excuse[d] \/ Health("retention_gap") \in {})
    BY <2>2, Zenon DEF AlertOK, StateOK
  <2>4. 1..outcome.cursor \subseteq Told(d)
    <3>1. 1..outcome.cursor \subseteq Told(d) \cup LedgersOf({})
      BY <2>3, Zenon DEF NothingSkipped
    <3> QED
      BY <3>1, ShortSequences
  <2>5. outcome.cursor = NoCursor => excuse[d]
    BY <2>3, Zenon DEF NothingSkipped
  <2>6. outcome.consecutiveFailures <= faults /\ StreakOK(outcome)
    BY <2>2, Zenon DEF AlertOK, StateOK
  <2> QED
    BY <2>4, <2>5, <2>6, Zenon DEF StateOK, NothingSkipped
<1>7. \A n \in Names : StateOK(s[n], Told(n), excuse[n], faults)
  <2> SUFFICES ASSUME NEW n \in Names
               PROVE  StateOK(s[n], Told(n), excuse[n], faults)
    OBVIOUS
  <2>1. CASE n = d
    BY <2>1, <1>5, <1>6
  <2>2. CASE n # d
    <3>1. StateOK(state[n], Told(n), excuse[n], faults)
      BY DEF MonitorInv
    <3> QED
      BY <3>1, <2>2, <1>5
  <2> QED
    BY <2>1, <2>2
<1>8. ASSUME NEW j \in (turn + 1)..Len(Deployments)
      PROVE  s[Deployments[j]] = saved[Deployments[j]]
  <2>1. j \in DOMAIN Deployments /\ j # turn /\ j \in turn..Len(Deployments)
    BY <1>2, Limits
  <2>2. Deployments[j] \in Names /\ Deployments[j] # d
    BY <1>2, <2>1, MonitorAssumption DEF Names, d
  <2>3. state[Deployments[j]] = saved[Deployments[j]]
    BY <2>1 DEF MonitorInv
  <2> QED
    BY <2>2, <2>3, <1>5
<1> QED
  BY <1>1, <1>4, <1>5, <1>7, <1>8, EnterKeeps

\* The states of the run become the file.
LEMMA SaveStateKeeps ==
  ASSUME MonitorInv, SaveState
  PROVE  MonitorInv'
<1>1. /\ Stop /\ saved' = state /\ tip' = tip /\ faults' = faults
      /\ handled' = handled /\ skipped' = skipped
      /\ excuse' = [n \in Names |-> excuse[n] /\ state[n].cursor = NoCursor]
  BY DEF SaveState
<1>2. /\ faults' \in 0..MaxFaults /\ saved' \in [Names -> DeploymentState]
      /\ excuse' \in [Names -> BOOLEAN]
  BY <1>1 DEF MonitorInv, Types, TypeOK
<1>3. ASSUME NEW n \in Names
      PROVE  StateOK(saved'[n], Told(n), excuse'[n], faults')
  <2>1. StateOK(state[n], Told(n), excuse[n], faults)
    BY DEF MonitorInv
  <2>2. excuse'[n] <=> excuse[n] /\ state[n].cursor = NoCursor
    BY <1>1
  <2>3. NothingSkipped(state[n], Told(n), excuse'[n])
    BY <2>1, <2>2, Zenon DEF StateOK, NothingSkipped
  <2>4. StateOK(state[n], Told(n), excuse'[n], faults)
    BY <2>1, <2>3, Zenon DEF StateOK
  <2> QED
    BY <2>4, <1>1
<1> QED
  BY <1>1, <1>2, <1>3, StopKeeps

\* The run dies: the file is as it was.
LEMMA CrashKeeps ==
  ASSUME MonitorInv, Crash
  PROVE  MonitorInv'
<1>1. /\ Stop /\ saved' = saved /\ tip' = tip
      /\ handled' = handled /\ skipped' = skipped /\ excuse' = excuse
  BY DEF Crash, history
<1>2. /\ faults' \in 0..MaxFaults /\ faults \in Nat /\ faults' \in Nat
      /\ faults <= faults'
  BY FaultCounted DEF Crash
<1>3. saved \in [Names -> DeploymentState] /\ excuse \in [Names -> BOOLEAN]
  BY DEF MonitorInv, Types, TypeOK
<1>4. ASSUME NEW n \in Names
      PROVE  StateOK(saved'[n], Told(n), excuse'[n], faults')
  <2>1. StateOK(saved[n], Told(n), excuse[n], faults)
    BY DEF MonitorInv
  <2> QED
    BY <2>1, <1>1, <1>2, <1>3, StateOKGrows
<1> QED
  BY <1>1, <1>2, <1>3, <1>4, StopKeeps

\* The file is lost: every deployment is new again.
LEMMA LoseStateKeeps ==
  ASSUME MonitorInv, LoseState
  PROVE  MonitorInv'
<1>1. /\ Stop /\ saved' = [n \in Names |-> FreshState] /\ tip' = tip
      /\ handled' = handled /\ skipped' = skipped
      /\ excuse' = [n \in Names |-> TRUE]
  BY DEF LoseState
<1>2. faults' \in 0..MaxFaults /\ faults' \in Nat
  BY FaultCounted DEF LoseState
<1>3. ASSUME NEW n \in Names
      PROVE  /\ saved'[n] \in DeploymentState
             /\ StateOK(saved'[n], Told(n), excuse'[n], faults')
  <2>1. /\ FreshState \in DeploymentState
        /\ StateOK(FreshState, Told(n), TRUE, faults')
    BY <1>2, FreshStateOK
  <2>2. saved'[n] = FreshState /\ excuse'[n] = TRUE
    BY <1>1
  <2> QED
    BY <2>1, <2>2
<1>4. saved' \in [Names -> DeploymentState] /\ excuse' \in [Names -> BOOLEAN]
  BY <1>1, <1>3
<1> QED
  BY <1>1, <1>2, <1>3, <1>4, StopKeeps

-----------------------------------------------------------------------------
(* The theorems.                                                           *)

\* The first run finds no file.
LEMMA MonitorInit ==
  ASSUME Init
  PROVE  MonitorInv
<1>1. /\ tip = 1 /\ saved = [n \in Names |-> FreshState] /\ pc = "idle"
      /\ turn = 1 /\ state = saved /\ page = 0 /\ request = NoRequest
      /\ outcome = FreshState /\ outbox = <<>> /\ sending = <<>>
      /\ handled = [n \in Names |-> {}] /\ skipped = [n \in Names |-> {}]
      /\ excuse = [n \in Names |-> TRUE] /\ faults = 0
  BY DEF Init
<1>2. InFlight = {}
  BY <1>1 DEF InFlight
<1>3. FreshState \in DeploymentState
  BY FreshStateOK, Limits
<1>4. Types
  <2>1. outbox \in Seq(Alerts)
    BY <1>1, ShortSequences
  <2>2. /\ page \in 0..(MaxPages - 1) /\ turn \in 1..(Len(Deployments) + 1)
        /\ faults \in 0..MaxFaults /\ tip \in Ledgers
    BY <1>1, Limits DEF Ledgers
  <2>3. request \in Requests
    BY <1>1, Limits DEF NoRequest, Requests, Ledgers
  <2>4. saved \in [Names -> DeploymentState]
    BY <1>1, <1>3
  <2>5. TypeOK
    BY <1>1, <1>2, <1>3, <2>1, <2>2, <2>3, <2>4 DEF TypeOK
  <2>6. sending \in [{} -> 0..(MaxAttempts - 1)]
    BY <1>1
  <2> QED
    BY <1>1, <1>2, <2>2, <2>5, <2>6 DEF Types
<1>5. ASSUME NEW n \in Names
      PROVE  StateOK(saved[n], Told(n), excuse[n], faults)
  <2>1. StateOK(FreshState, Told(n), TRUE, 0)
    BY FreshStateOK
  <2>2. saved[n] = FreshState /\ excuse[n] = TRUE /\ faults = 0
    BY <1>1
  <2> QED
    BY <2>1, <2>2
<1>6. Posting = {}
  BY <1>1, <1>2, ShortSequences DEF Posting
<1>7. NoRepeat(Posting, saved[d])
  BY <1>6, ShortSequences DEF NoRepeat
<1> QED
  BY <1>1, <1>2, <1>4, <1>5, <1>7 DEF MonitorInv

\* Every step of the monitor, of the RPC and of the faults keeps the invariant.
LEMMA MonitorNext ==
  ASSUME MonitorInv, [Next]_vars
  PROVE  MonitorInv'
<1>1. CASE CloseLedger
  BY <1>1, CloseLedgerKeeps
<1>2. CASE StartRun
  BY <1>2, StartRunKeeps
<1>3. CASE GetLatestLedger
  BY <1>3, GetLatestLedgerKeeps
<1>4. CASE FetchPage
  BY <1>4, FetchPageKeeps
<1>5. CASE FetchRefused
  BY <1>5, FetchRefusedKeeps
<1>6. CASE StartAlert
  BY <1>6, StartAlertKeeps
<1>7. CASE \E a \in InFlight : PostAlert(a) \/ PostFails(a)
  <2>1. PICK a \in InFlight : PostAlert(a) \/ PostFails(a)
    BY <1>7
  <2>2. CASE PostAlert(a)
    BY <2>2, DoneKeeps DEF PostAlert
  <2>3. CASE PostFails(a)
    BY <2>3, PostFailsKeeps
  <2> QED
    BY <2>1, <2>2, <2>3
<1>8. CASE EndPoll
  BY <1>8, EndPollKeeps
<1>9. CASE SaveState
  BY <1>9, SaveStateKeeps
<1>10. CASE LatestLedgerFails
  BY <1>10, FailKeeps DEF LatestLedgerFails
<1>11. CASE FetchFails
  BY <1>11, FetchFailsKeeps
<1>12. CASE DecodeFails
  BY <1>12, DecodeFailsKeeps
<1>13. CASE Crash
  BY <1>13, CrashKeeps
<1>14. CASE LoseState
  BY <1>14, LoseStateKeeps
<1>15. CASE UNCHANGED vars
  <2>1. /\ tip' = tip /\ saved' = saved /\ pc' = pc /\ turn' = turn
        /\ state' = state /\ request' = request /\ page' = page
        /\ outbox' = outbox /\ sending' = sending /\ outcome' = outcome
        /\ handled' = handled /\ skipped' = skipped /\ excuse' = excuse
        /\ faults' = faults
    BY <1>15 DEF vars, run, history
  <2>2. InFlight' = InFlight /\ d' = d
    BY <2>1 DEF InFlight, d
  <2>3. Posting' = Posting /\ Told(d)' = Told(d) /\ \A n : Told(n)' = Told(n)
    BY <2>1, <2>2 DEF Posting, Told
  <2>4. Types'
    BY <2>1, <2>2 DEF MonitorInv, Types, TypeOK
  <2> QED
    BY <2>1, <2>2, <2>3, <2>4 DEF MonitorInv
<1> QED
  BY <1>1, <1>2, <1>3, <1>4, <1>5, <1>6, <1>7, <1>8, <1>9, <1>10, <1>11, <1>12,
     <1>13, <1>14, <1>15 DEF Next, RunStep, FaultStep

\* The invariant holds in every state of the monitor.
LEMMA MonitorInvariant == Spec => []MonitorInv
<1>1. Init => MonitorInv
  BY MonitorInit
<1>2. MonitorInv /\ [Next]_vars => MonitorInv'
  BY MonitorNext
<1> QED
  BY <1>1, <1>2, PTL DEF Spec

\* The invariant gives each of the properties.
LEMMA MonitorInvGives ==
  ASSUME MonitorInv
  PROVE  TypeOK /\ NoSilentSkip /\ NoRepeatAfterSave /\ StreakAnnounced
<1>1. TypeOK
  BY DEF MonitorInv, Types
<1>2. NoSilentSkip
  BY DEF MonitorInv, StateOK, NothingSkipped, Told, NoSilentSkip
<1>3. NoRepeatAfterSave
  BY DEF MonitorInv, NoRepeat, LedgersOf, Posting, Elements, NoRepeatAfterSave
<1>4. StreakAnnounced
  <2>1. \A n \in Names : StreakOK(saved[n])
    BY DEF MonitorInv, StateOK
  <2>2. InFlight # {} => turn \in DOMAIN Deployments
    BY DEF MonitorInv
  <2>3. Health("rpc_failure") \in InFlight => ~saved[d].alertedForFailureStreak
    BY <2>2 DEF MonitorInv, NoRepeat, Posting
  <2> QED
    BY <2>1, <2>3 DEF StreakOK, StreakAnnounced
<1> QED
  BY <1>1, <1>2, <1>3, <1>4

\* The monitor's variables keep their types: every cursor and every request is
\* a ledger the chain can have, no page is beyond the cap, and no attempt
\* beyond the last one.
THEOREM MonitorTypesOK == Spec => []TypeOK
BY MonitorInvariant, MonitorInvGives, PTL

\* No event is passed over in silence, by whatever requests, runs, posts and
\* files fail: what a saved cursor has left behind was alerted, or knowingly
\* skipped.
THEOREM MonitorSkipsNothing == Spec => []NoSilentSkip
BY MonitorInvariant, MonitorInvGives, PTL

\* What a saved cursor covers is not alerted again.
THEOREM MonitorRepeatsNothing == Spec => []NoRepeatAfterSave
BY MonitorInvariant, MonitorInvGives, PTL

\* A streak of failures is on record as announced exactly from the threshold
\* on, and is not announced twice while it is.
THEOREM MonitorAnnouncesStreaks == Spec => []StreakAnnounced
BY MonitorInvariant, MonitorInvGives, PTL
=============================================================================
