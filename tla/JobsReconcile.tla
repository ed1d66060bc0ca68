---------------------------- MODULE JobsReconcile ----------------------------
(***************************************************************************)
(* demos/freelance-escrow: one milestone in one browser tab.  What the tab *)
(* shows is reconciled with its v1 assertion by reads that overlap: a poll *)
(* every half minute, a manual refresh, the read that follows the tab's    *)
(* own call, and the one after a page load.                                *)
(*                                                                         *)
(* Each read has a sequence number and its answer is dropped if the answer *)
(* of a later one was applied already.  Only this order matters, so that   *)
(* reads is the queue of reads in the order they were issued and each one  *)
(* carries whether it is superseded.  The wallet stays connected.          *)
(***************************************************************************)
EXTENDS Integers, Sequences

CONSTANTS
  MaxAssertions, \* bound on assertions posted for the milestone
  MaxReads,      \* bound on reads in flight
  MaxFaults      \* bound on failed reads and page loads

ASSUME JobsAssumption ==
  MaxAssertions \in Nat /\ MaxReads \in Nat \ {0} /\ MaxFaults \in Nat

VARIABLES
  chain,   \* the assertions posted for the milestone, in order of their ids
  shown,   \* the Milestone in React state
  stored,  \* the Milestone in localStorage
  reads,   \* reads in flight
  call,    \* the row's own call, while it is busy
  seen,    \* history: the last answer applied since the page was loaded
  settledByCall, \* history: a call of this page learned the verdict
  faults   \* history: faults so far

vars == <<chain, shown, stored, reads, call, seen, settledByCall, faults>>

-----------------------------------------------------------------------------
(* v1's assertions, and how the demo reads them.                           *)

Final == {"agreed", "rejected", "refunded"}  \* Resolved, by final_outcome
Statuses == {"Pending", "Disputed"} \cup Final
Unread == "unread"
NoVerdict == "none"

\* What v1's calls do to an assertion.
Becomes == {<<"Pending", "Disputed">>, <<"Pending", "agreed">>,
            <<"Disputed", "agreed">>, <<"Disputed", "rejected">>,
            <<"Disputed", "refunded">>}

\* mapAssertionToPatch: a refund has no final_outcome, which is falsy.
ClaimStands(status) ==  \* fault: what was claimed, not what was decided
  IF status \in Final THEN "released"
  ELSE IF status = "Disputed" THEN "disputed" ELSE "submitted"
MappedStatus(status) ==
  CASE status = "Pending" -> "submitted"
    [] status = "Disputed" -> "disputed"
    [] status = "agreed" -> "released"
    [] status \in {"rejected", "refunded"} -> "returned"

MilestoneStatuses ==
  {"in_progress", "submitted", "disputed", "released", "returned"}
Milestones == [status : MilestoneStatuses, assertion : 0..MaxAssertions]
NewMilestone == [status |-> "in_progress", assertion |-> 0]

SettledIfDisputed == shown.status # "submitted"  \* fault: stops at a dispute
Settled == shown.status \in {"released", "returned"}

-----------------------------------------------------------------------------
(* reconcileFromChain.                                                     *)

\* s without its i-th element.
Without(s, i) == [j \in 1..(Len(s) - 1) |-> IF j < i THEN s[j] ELSE s[j + 1]]

Reads == [assertion : 1..MaxAssertions, answer : {Unread} \cup Statuses,
          superseded : BOOLEAN, fallback : {NoVerdict} \cup Final, own : BOOLEAN]

Read(id, fallback, own) ==
  [assertion |-> id, answer |-> Unread, superseded |-> FALSE,
   fallback |-> fallback, own |-> own]

NotBusy == [name |-> "none", assertion |-> 0, result |-> "none"]

\* The RPC reads the ledger, some time before its answer arrives.
Serve(i) ==
  /\ reads[i].answer = Unread
  /\ reads' = [reads EXCEPT ![i].answer = chain[reads[i].assertion]]
  /\ UNCHANGED <<chain, shown, stored, call, seen, settledByCall, faults>>

AlwaysNewest(i) == TRUE  \* fault: every answer is applied
IsNewest(i) == ~reads[i].superseded

\* applyIfNewest, for the read's answer or for its fallback; the read ends.
Apply(i, status) ==
  /\ IF IsNewest(i)
     THEN /\ shown' = [shown EXCEPT !.status = MappedStatus(status)]
          /\ seen' = status
     ELSE UNCHANGED <<shown, seen>>
  /\ reads' = Without([j \in DOMAIN reads |->
                 IF j < i /\ IsNewest(i)
                 THEN [reads[j] EXCEPT !.superseded = TRUE] ELSE reads[j]], i)

\* The action that awaits the read is over.
Awaited(i) ==
  /\ call' = IF reads[i].own THEN NotBusy ELSE call
  /\ settledByCall' = (settledByCall \/ reads[i].fallback # NoVerdict)

Answer(i) ==
  /\ reads[i].answer # Unread
  /\ Apply(i, reads[i].answer)
  /\ Awaited(i)
  /\ UNCHANGED <<chain, stored, faults>>

Fault == faults < MaxFaults /\ faults' = faults + 1

ReadFails(i) ==
  /\ Fault
  /\ IF reads[i].fallback = NoVerdict
     THEN reads' = Without(reads, i) /\ UNCHANGED <<shown, seen>>
     ELSE Apply(i, reads[i].fallback)
  /\ Awaited(i)
  /\ UNCHANGED <<chain, stored>>

\* The polling interval, or the refresh button.
PollsAnything == ~Settled  \* fault: also before anything was asserted
Pollable == ~Settled /\ shown.assertion # 0

RefreshMilestone ==
  /\ Pollable
  /\ Len(reads) < MaxReads
  /\ reads' = Append(reads, Read(shown.assertion, NoVerdict, FALSE))
  /\ UNCHANGED <<chain, shown, stored, call, seen, settledByCall, faults>>

-----------------------------------------------------------------------------
(* The row's own calls.  The row is busy from the click until the read     *)
(* that follows the call has ended.                                        *)

Buttons == {<<"in_progress", "submit">>, <<"submitted", "dispute">>,
            <<"submitted", "finalize">>, <<"disputed", "vote">>}

Click ==
  /\ call = NotBusy
  /\ \E b \in Buttons :
       /\ b[1] = shown.status
       /\ call' = [name |-> b[2], assertion |-> shown.assertion,
                   result |-> "waiting"]
  /\ UNCHANGED <<chain, shown, stored, reads, seen, settledByCall, faults>>

Moves(id, from, to) == chain[id] = from /\ chain' = [chain EXCEPT ![id] = to]

\* The transaction is executed; a vote may leave the dispute open.
Execute ==
  LET id == call.assertion
      Result(r) == call' = [call EXCEPT !.result = r]
  IN
  /\ call.result = "waiting"
  /\ \/ /\ call.name = "submit"
        /\ Len(chain) < MaxAssertions
        /\ chain' = Append(chain, "Pending")
        /\ call' = [call EXCEPT !.assertion = Len(chain) + 1, !.result = "done"]
     \/ /\ call.name = "dispute"
        /\ Moves(id, "Pending", "Disputed")
        /\ Result("done")
     \/ /\ call.name = "finalize"
        /\ Moves(id, "Pending", "agreed")
        /\ Result("agreed")
     \/ /\ call.name = "vote"
        /\ \/ \E v \in {"agreed", "rejected"} : Moves(id, "Disputed", v) /\ Result(v)
           \/ chain[id] = "Disputed" /\ chain' = chain /\ Result("undecided")
  /\ UNCHANGED <<shown, stored, reads, seen, settledByCall, faults>>

\* submitMilestone, disputeMilestone, finalizeMilestone and voteOnMilestone
\* when the call returns: what is certain is shown at once, and a verdict is
\* the fallback of the read that follows.
CallReturns ==
  LET id == call.assertion
      verdict == IF call.result \in Final THEN call.result ELSE NoVerdict
  IN
  /\ call.result \notin {"none", "waiting", "reading"}
  /\ shown' = CASE call.name = "submit" -> [status |-> "submitted", assertion |-> id]
                [] call.name = "dispute" -> [shown EXCEPT !.status = "disputed"]
                [] OTHER -> shown
  /\ IF call.result = "undecided"
     THEN call' = NotBusy /\ reads' = reads
     ELSE /\ Len(reads) < MaxReads
          /\ reads' = Append(reads, Read(id, verdict, TRUE))
          /\ call' = [call EXCEPT !.result = "reading"]
  /\ seen' = IF call.name = "submit" THEN Unread ELSE seen
  /\ UNCHANGED <<chain, stored, settledByCall, faults>>

\* The call throws: it was refused, or its transaction was executed and the
\* answer was lost.
CallFails ==
  /\ call.result \notin {"none", "reading"}
  /\ call' = NotBusy
  /\ UNCHANGED <<chain, shown, stored, reads, seen, settledByCall, faults>>

-----------------------------------------------------------------------------
(* Everybody else, and the page.                                           *)

OthersCall ==
  /\ \E id \in DOMAIN chain, b \in Becomes : Moves(id, b[1], b[2])
  /\ UNCHANGED <<shown, stored, reads, call, seen, settledByCall, faults>>

\* The effect that runs after the render, unless the storage is full.
PersistJobs ==
  /\ stored # shown
  /\ stored' = shown
  /\ UNCHANGED <<chain, shown, reads, call, seen, settledByCall, faults>>

\* A new page: reads in flight and their numbers are gone, and a restored
\* assertion is read once.
LoadPage ==
  /\ Fault
  /\ shown' = stored
  /\ reads' = IF stored.assertion = 0 THEN <<>>
              ELSE <<Read(stored.assertion, NoVerdict, FALSE)>>
  /\ call' = NotBusy
  /\ seen' = Unread
  /\ settledByCall' = FALSE
  /\ UNCHANGED <<chain, stored>>

Init ==
  /\ chain = <<>>
  /\ shown = NewMilestone /\ stored = NewMilestone
  /\ reads = <<>> /\ call = NotBusy
  /\ seen = Unread /\ settledByCall = FALSE /\ faults = 0

Next ==
  \/ \E i \in DOMAIN reads : Serve(i) \/ Answer(i) \/ ReadFails(i)
  \/ RefreshMilestone
  \/ Click \/ Execute \/ CallReturns \/ CallFails
  \/ OthersCall \/ PersistJobs \/ LoadPage

\* The interval keeps firing while the milestone is not settled, and reads
\* come back; nobody has to press a button.
Spec ==
  /\ Init /\ [][Next]_vars
  /\ WF_vars(RefreshMilestone)
  /\ WF_vars(\E i \in DOMAIN reads : Serve(i) \/ Answer(i))

-----------------------------------------------------------------------------
TypeOK ==
  /\ chain \in Seq(Statuses) /\ Len(chain) <= MaxAssertions
  /\ shown \in Milestones /\ stored \in Milestones
  /\ reads \in Seq(Reads) /\ Len(reads) <= MaxReads
  /\ call.assertion \in 0..MaxAssertions
  /\ seen \in {Unread} \cup Statuses

\* "Paid out" is only ever shown of a claim that was upheld, and "Returned"
\* only of one that was rejected, or refunded without a verdict: also from
\* an old answer, a fallback or a restored page.
SettledIsTrue ==
  /\ shown.status = "released" => chain[shown.assertion] = "agreed"
  /\ shown.status = "returned" =>
       chain[shown.assertion] \in {"rejected", "refunded"}

\* Once a call of this page that decided the assertion has ended, the verdict
\* is shown and stays, whether the read after the call failed or not and
\* whatever older answers are still on their way.
VerdictSticks ==
  settledByCall => shown.status = MappedStatus(chain[shown.assertion])

\* However answers overtake each other, the tab ends up showing what became
\* of its assertion.
StatusCatchesUp ==
  \A id \in 1..MaxAssertions, s \in Final :
    (id \in DOMAIN chain /\ chain[id] = s)
      ~> [](shown.assertion = id => shown.status = MappedStatus(s))

\* How far an assertion has moved: it never moves back.
Age(status) ==
  CASE status = Unread -> 0 [] status = "Pending" -> 1
    [] status = "Disputed" -> 2 [] status \in Final -> 3

\* reconcileFromChain: "a slow stale poll response can never overwrite a
\* fresher one".  The stale answer is the one the assertion has moved on from.
StaleNeverOverwrites ==
  [][Len(chain') = Len(chain) /\ faults' = faults => Age(seen') >= Age(seen)]_vars
=============================================================================
