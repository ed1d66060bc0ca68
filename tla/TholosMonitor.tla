--------------------------- MODULE TholosMonitor ---------------------------
(***************************************************************************)
(* packages/tholos-monitor: a script that GitHub Actions starts again and  *)
(* again.  A run loads the saved state, polls each deployment in turn for  *)
(* the events after its cursor, posts an alert for each, and saves the     *)
(* state once at the end.  Nothing else survives from one run to the next. *)
(*                                                                         *)
(* Each ledger is one event of each deployment, and every event meets      *)
(* ALERT_MIN_SEVERITY; a ledger without events asks nothing of the monitor.*)
(***************************************************************************)
EXTENDS Integers, Sequences, FiniteSets

CONSTANTS
  Deployments,   \* the order of Object.entries(config.contracts)
  Lookback,      \* INITIAL_LEDGER_LOOKBACK
  FailuresBeforeAlert, \* CONSECUTIVE_FAILURES_BEFORE_ALERT
  MaxConcurrency, \* ALERT_MAX_CONCURRENCY
  MaxAttempts,   \* sendAlert's maxAttempts
  PageLimit,     \* fetchNewEvents' limit
  MaxPages,      \* fetchNewEvents' maxPages
  Retention,     \* ledgers the RPC keeps
  MaxLedger,     \* bound on the chain
  MaxFaults      \* bound on failed requests, crashes and losses

Names == {Deployments[i] : i \in DOMAIN Deployments}

\* The deployments are keys of one object, so their names differ.  A lookback
\* beyond the RPC's retention asks for ledgers it never serves, on every run;
\* the margin is for a ledger that closes between two requests.
ASSUME MonitorAssumption ==
  /\ Deployments \in Seq(Names)
  /\ \A i, j \in DOMAIN Deployments : Deployments[i] = Deployments[j] => i = j
  /\ \A n \in {Lookback, FailuresBeforeAlert, MaxConcurrency, MaxAttempts,
               PageLimit, MaxPages, Retention, MaxLedger} : n \in Nat \ {0}
  /\ MaxFaults \in Nat
  /\ Lookback + 1 < Retention

VARIABLES
  tip,       \* the latest closed ledger
  saved,     \* the state file in the Actions cache, per deployment
  pc,        \* where the run is
  turn,      \* the deployment it polls
  state,     \* its MonitorState in memory
  request,   \* its next getEvents request
  page,      \* pages fetched in this poll
  outbox,    \* alerts not yet posted, in order
  sending,   \* alerts in flight, with the attempts that failed
  outcome,   \* the DeploymentState this poll will record
  handled,   \* history: events whose alert was delivered or given up
  skipped,   \* history: events below a start ledger that was re-derived
  excuse,    \* history: why the saved cursor may be absent
  announced, \* history: the last health alert said the RPC fails
  forgotten, \* history: the state file was lost
  faults     \* history: faults so far

run == <<pc, turn, state, request, page, outbox, sending, outcome>>
history == <<handled, skipped, excuse, announced, forgotten>>
vars == <<tip, saved, run, history, faults>>

Ledgers == 1..MaxLedger
NoCursor == 0

DeploymentState ==
  [cursor : {NoCursor} \cup Ledgers, consecutiveFailures : 0..MaxFaults,
   alertedForFailureStreak : BOOLEAN]
FreshState ==
  [cursor |-> NoCursor, consecutiveFailures |-> 0,
   alertedForFailureStreak |-> FALSE]

Health(kind) == <<kind, 0>>
Event(l) == <<"contract_event", l>>
HealthKinds == {"rpc_failure", "retention_gap", "recovered"}
Alerts == {Event(l) : l \in Ledgers} \cup {Health(k) : k \in HealthKinds}

\* getEvents is asked for what follows a cursor, or for a start ledger on.
Requests == [by : {"cursor", "startLedger"}, ledger : Ledgers]
NoRequest == [by |-> "startLedger", ledger |-> 1]

Larger(x, y) == IF x >= y THEN x ELSE y
Smaller(x, y) == IF x <= y THEN x ELSE y

d == Deployments[turn]
before == state[d]

-----------------------------------------------------------------------------
(* The RPC: it refuses a cursor or a start ledger outside its window.      *)

Oldest == Larger(1, tip - Retention + 1)
Served(r) == Oldest <= r.ledger /\ r.ledger <= tip

FromCursorOn(r) == r.ledger  \* fault: the cursor's own event again
FirstOf(r) == IF r.by = "cursor" THEN r.ledger + 1 ELSE r.ledger
LastOf(r) == Smaller(tip, FirstOf(r) + PageLimit - 1)
Found(r) ==
  [i \in 1..(LastOf(r) - FirstOf(r) + 1) |-> Event(FirstOf(r) + i - 1)]

CloseLedger ==
  /\ tip < MaxLedger
  /\ tip' = tip + 1
  /\ UNCHANGED <<saved, run, history, faults>>

-----------------------------------------------------------------------------
(* runOnce and pollOneDeployment.                                          *)

\* The poll of the i-th deployment starts from s, or the run goes on to save.
Enter(i, s) ==
  /\ turn' = i
  /\ state' = s
  /\ page' = 0
  /\ IF i > Len(Deployments)
     THEN pc' = "save" /\ request' = NoRequest
     ELSE LET c == s[Deployments[i]].cursor IN
          IF c = NoCursor
          THEN pc' = "latest" /\ request' = NoRequest
          ELSE pc' = "fetch" /\ request' = [by |-> "cursor", ledger |-> c]
  /\ outbox' = <<>> /\ sending' = <<>> /\ outcome' = FreshState

StartRun ==
  /\ pc = "idle"
  /\ Enter(1, saved)
  /\ UNCHANGED <<tip, saved, history, faults>>

UnclampedStart == tip - Lookback  \* fault: a young chain has no such ledger
StartLedger == Larger(1, tip - Lookback)

GetLatestLedger ==
  /\ pc = "latest"
  /\ pc' = "fetch"
  /\ request' = [by |-> "startLedger", ledger |-> StartLedger]
  /\ skipped' = [skipped EXCEPT
       ![d] = IF excuse[d] THEN @ \cup (1..(StartLedger - 1)) ELSE @]
  /\ UNCHANGED <<tip, saved, turn, state, page, outbox, sending, outcome,
                 handled, excuse, announced, forgotten, faults>>

\* The poll ends: what is left is to post the alerts and to record the state.
Conclude(alerts, s) ==
  /\ pc' = "alert"
  /\ outbox' = alerts
  /\ outcome' = s
  /\ UNCHANGED <<tip, saved, turn, state, request, page, sending, history>>

\* A success after an announced outage is announced too, after the events.
Recovery ==
  IF before.consecutiveFailures > 0 /\ before.alertedForFailureStreak
  THEN <<Health("recovered")>> ELSE <<>>
Succeed(events, cursor) ==
  Conclude(events \o Recovery, [FreshState EXCEPT !.cursor = cursor])

OneTooLate(failures) ==  \* fault: the streak is announced a run late
  failures > FailuresBeforeAlert /\ ~before.alertedForFailureStreak
AlertDue(failures) ==
  failures >= FailuresBeforeAlert /\ ~before.alertedForFailureStreak

Fail ==
  LET failures == before.consecutiveFailures + 1 IN
  Conclude(IF AlertDue(failures) THEN <<Health("rpc_failure")>> ELSE <<>>,
           [before EXCEPT !.consecutiveFailures = failures,
              !.alertedForFailureStreak = @ \/ AlertDue(failures)])

AfterGapForgetful == FreshState  \* fault: the streak is dropped as well
AfterGapStuck == before  \* fault: asks for the same cursor for ever
AfterGap == [before EXCEPT !.cursor = NoCursor]
ReportGap == Conclude(<<Health("retention_gap")>>, AfterGap)

\* A page: a short one means that the poll has caught up, and the page cap
\* ends it with more to come.
FetchPage ==
  LET events == outbox \o Found(request) IN
  /\ pc = "fetch"
  /\ Served(request)
  /\ UNCHANGED faults
  /\ IF Len(Found(request)) < PageLimit \/ page + 1 = MaxPages
     THEN Succeed(events, LastOf(request))
     ELSE /\ outbox' = events
          /\ page' = page + 1
          /\ request' = [by |-> "cursor", ledger |-> LastOf(request)]
          /\ UNCHANGED <<tip, saved, pc, turn, state, sending, outcome, history>>

\* A request fails.  On the first page that is the poll's failure; later the
\* events so far are kept, and the next run meets the error again.
PartialWithoutEvents == Succeed(<<>>, request.ledger)  \* fault: events dropped
PartialResult == Succeed(outbox, request.ledger)

FetchRefused ==
  /\ pc = "fetch"
  /\ ~Served(request)
  /\ UNCHANGED faults
  /\ IF page = 0 THEN ReportGap ELSE PartialResult

-----------------------------------------------------------------------------
(* sendAlert, at most MaxConcurrency at a time.  A health alert is posted  *)
(* alone, when those of the events are done.                               *)

InFlight == DOMAIN sending

StartAlert ==
  /\ pc = "alert"
  /\ outbox # <<>>
  /\ Cardinality(InFlight) < MaxConcurrency
  /\ Head(outbox)[1] \in HealthKinds => InFlight = {}
  /\ outbox' = Tail(outbox)
  /\ sending' = [a \in InFlight \cup {Head(outbox)} |->
                   IF a \in InFlight THEN sending[a] ELSE 0]
  /\ UNCHANGED <<tip, saved, pc, turn, state, request, page, outcome, history,
                 faults>>

Done(a) ==
  /\ sending' = [x \in InFlight \ {a} |-> sending[x]]
  /\ handled' = IF a[1] = "contract_event"
                THEN [handled EXCEPT ![d] = @ \cup {a[2]}] ELSE handled
  /\ excuse' = IF a[1] = "retention_gap"
               THEN [excuse EXCEPT ![d] = TRUE] ELSE excuse
  /\ announced' = IF a[1] \in {"rpc_failure", "recovered"}
                  THEN [announced EXCEPT ![d] = (a[1] = "rpc_failure")]
                  ELSE announced
  /\ UNCHANGED <<skipped, forgotten>>

LastAttempt(a) == sending[a] = MaxAttempts - 1

\* Delivered, or given up after the last attempt.
PostAlert(a) ==
  /\ a \in InFlight
  /\ Done(a)
  /\ UNCHANGED <<tip, saved, pc, turn, state, request, page, outbox, outcome,
                 faults>>
PostFails(a) ==
  /\ a \in InFlight
  /\ IF LastAttempt(a) THEN Done(a)
     ELSE /\ sending' = [sending EXCEPT ![a] = @ + 1]
          /\ UNCHANGED history
  /\ UNCHANGED <<tip, saved, pc, turn, state, request, page, outbox, outcome,
                 faults>>

EndPoll ==
  /\ pc = "alert"
  /\ outbox = <<>> /\ InFlight = {}
  /\ Enter(turn + 1, [state EXCEPT ![d] = outcome])
  /\ UNCHANGED <<tip, saved, history, faults>>

\* The run is over, or was killed: nothing of it is left but the file.
Stop ==
  /\ pc' = "idle" /\ turn' = 1 /\ state' = saved' /\ page' = 0
  /\ request' = NoRequest /\ outcome' = FreshState
  /\ outbox' = <<>> /\ sending' = <<>>

SaveState ==
  /\ pc = "save"
  /\ saved' = state
  /\ Stop
  /\ excuse' = [n \in Names |-> excuse[n] /\ state[n].cursor = NoCursor]
  /\ forgotten' = [n \in Names |-> FALSE]
  /\ UNCHANGED <<tip, handled, skipped, announced, faults>>

-----------------------------------------------------------------------------
(* Faults, at most MaxFaults in all.                                       *)

Fault == faults < MaxFaults /\ faults' = faults + 1

LatestLedgerFails == pc = "latest" /\ Fault /\ Fail

\* The text of an error decides whether it is taken for a retention gap.
FetchFails ==
  /\ pc = "fetch"
  /\ Fault
  /\ \/ page = 0 /\ Fail
     \/ page = 0 /\ ReportGap
     \/ page > 0 /\ PartialResult

\* An event of a served page cannot be decoded.  That is outside the handler
\* that keeps partial results: whatever the page, the whole poll fails and
\* the cursor stays where the poll began.
DecodeFails ==
  /\ pc = "fetch"
  /\ Served(request)
  /\ Found(request) # <<>>
  /\ Fault
  /\ Fail

\* The runner dies, or the state cannot be written or put into the cache.
Crash ==
  /\ pc # "idle"
  /\ Fault
  /\ saved' = saved
  /\ Stop
  /\ UNCHANGED <<tip, history>>

\* The cache entry is evicted, or the file cannot be parsed.
LoseState ==
  /\ pc = "idle"
  /\ Fault
  /\ saved' = [n \in Names |-> FreshState]
  /\ Stop
  /\ excuse' = [n \in Names |-> TRUE]
  /\ forgotten' = [n \in Names |-> TRUE]
  /\ UNCHANGED <<tip, handled, skipped, announced>>

-----------------------------------------------------------------------------
Init ==
  /\ tip = 1
  /\ saved = [n \in Names |-> FreshState]
  /\ pc = "idle" /\ turn = 1 /\ state = saved /\ page = 0
  /\ request = NoRequest /\ outcome = FreshState
  /\ outbox = <<>> /\ sending = <<>>
  /\ handled = [n \in Names |-> {}]
  /\ skipped = [n \in Names |-> {}]
  /\ excuse = [n \in Names |-> TRUE]
  /\ announced = [n \in Names |-> FALSE]
  /\ forgotten = [n \in Names |-> FALSE]
  /\ faults = 0

RunStep ==
  \/ StartRun
  \/ GetLatestLedger
  \/ FetchPage
  \/ FetchRefused
  \/ StartAlert
  \/ \E a \in InFlight : PostAlert(a) \/ PostFails(a)
  \/ EndPoll
  \/ SaveState

FaultStep ==
  LatestLedgerFails \/ FetchFails \/ DecodeFails \/ Crash \/ LoseState

Next == CloseLedger \/ RunStep \/ FaultStep

\* The schedule starts run after run, and a run left alone goes on: every
\* await returns or times out.  Whether the webhook accepts an alert is open.
Spec == Init /\ [][Next]_vars /\ WF_vars(RunStep)

-----------------------------------------------------------------------------
TypeOK ==
  /\ tip \in Ledgers
  /\ saved \in [Names -> DeploymentState]
  /\ state \in [Names -> DeploymentState]
  /\ pc \in {"idle", "latest", "fetch", "alert", "save"}
  /\ turn \in 1..(Len(Deployments) + 1)
  /\ request \in Requests
  /\ page \in 0..(MaxPages - 1)
  /\ outbox \in Seq(Alerts)
  /\ InFlight \subseteq Alerts /\ \A a \in InFlight : sending[a] < MaxAttempts
  /\ outcome \in DeploymentState

\* No event is passed over in silence: what a saved cursor has left behind
\* was alerted, or lies below a start ledger the monitor derived because it
\* had told of a retention gap, had lost its file, or had never run; and the
\* cursor is absent for one of these reasons only.
NoSilentSkip ==
  \A n \in Names :
    /\ 1..saved[n].cursor \subseteq handled[n] \cup skipped[n]
    /\ saved[n].cursor = NoCursor => excuse[n]

\* Once the state of a run is saved, none of the events it covers is alerted
\* again, unless the cursor is dropped: a repeat comes from a run that died
\* before its save.
NoRepeatAfterSave ==
  turn \in DOMAIN Deployments =>
    \A l \in Ledgers :
      Event(l) \in InFlight \cup {outbox[i] : i \in DOMAIN outbox}
        => l > saved[d].cursor

\* A streak of failed runs is on record as announced exactly when it has
\* reached the threshold, whatever gaps, crashes and losses lie between, and
\* while it is on record its alert is not posted a second time.
StreakAnnounced ==
  /\ \A n \in Names :
       saved[n].alertedForFailureStreak
         <=> saved[n].consecutiveFailures >= FailuresBeforeAlert
  /\ Health("rpc_failure") \in InFlight => ~saved[d].alertedForFailureStreak

\* Every event is alerted or knowingly skipped in the end, in whatever way
\* requests, posts and runs fail meanwhile.
EveryEventAccounted ==
  \A l \in Ledgers :
    l <= tip ~> \A n \in Names : l \in handled[n] \cup skipped[n]

\* An outage on record as announced is followed by the announcement of the
\* recovery, unless the state file is lost.
RecoveryAnnounced ==
  \A n \in Names :
    saved[n].alertedForFailureStreak ~> ~announced[n] \/ forgotten[n]
=============================================================================
