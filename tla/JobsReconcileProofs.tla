------------------------- MODULE JobsReconcileProofs -------------------------
(***************************************************************************)
(* The demo's milestone, for any number of assertions, reads and faults:   *)
(* what the tab shows as settled is true, and a verdict that a call of the *)
(* page learned sticks.                                                    *)
(*                                                                         *)
(* Neither property is inductive.  A settled status is true because every  *)
(* read, every call and the stored copy concern the assertion shown and    *)
(* hold no verdict but the chain's.  A verdict sticks because the order of *)
(* reads is the order of what they can answer as far as it matters: those  *)
(* issued after the read that follows the deciding call find the verdict,  *)
(* and those issued before it are superseded together, from the oldest on. *)
(***************************************************************************)
EXTENDS JobsReconcile, SequenceTheorems, TLAPS

Calls ==
  [name : {"none", "submit", "dispute", "finalize", "vote"},
   assertion : 0..MaxAssertions,
   result : {"none", "waiting", "reading", "done", "undecided"} \cup Final]

Types ==
  /\ chain \in Seq(Statuses) /\ Len(chain) <= MaxAssertions
  /\ shown \in Milestones /\ stored \in Milestones
  /\ reads \in Seq(Reads) /\ Len(reads) <= MaxReads
  /\ call \in Calls
  /\ seen \in {Unread} \cup Statuses
  /\ settledByCall \in BOOLEAN

\* What follows is stated over the parts of the state, c being the chain, m a
\* milestone, q the reads, k the call: each step changes few of them.

Posted(id, c) == id \in DOMAIN c

\* A verdict is only ever the one on the chain.
OnChain(status, id, c) == status \in Final => c[id] = status

MilestoneOK(m, c) ==
  /\ m.assertion = 0 <=> m.status = "in_progress"
  /\ m.assertion # 0 => Posted(m.assertion, c)
  /\ m.status = "released" => c[m.assertion] = "agreed"
  /\ m.status = "returned" => c[m.assertion] \in {"rejected", "refunded"}

\* A read is one of the assertion shown; only that of a deciding call has a
\* fallback.
ReadOK(r, m, k, c) ==
  /\ r.assertion = m.assertion
  /\ OnChain(r.answer, m.assertion, c) /\ OnChain(r.fallback, m.assertion, c)
  /\ r.fallback # NoVerdict => r.own
  /\ r.own => k.result = "reading"

\* The call that is on its way concerns the assertion shown; nothing is shown
\* before the first one is posted.
CallOK(k, m, c) ==
  /\ k.name = "submit" /\ k.result # "reading" => m.assertion = 0
  /\ k.name \notin {"none", "submit"} =>
       m.assertion # 0
         /\ (k.result # "reading" => k.assertion = m.assertion)
  /\ k.result \notin {"none", "waiting"} => Posted(k.assertion, c)
  /\ k.result # "none" => k.name # "none"
  /\ k.result \in Final => c[k.assertion] = k.result

\* Reads are superseded from the oldest on, and no read behind that of a
\* deciding call finds anything but its verdict.
InOrder(r, s) ==
  /\ s.superseded => r.superseded
  /\ r.fallback # NoVerdict => s.answer \in {Unread, r.fallback}
ReadsInOrder(q) ==
  \A i, j \in DOMAIN q : i <= j =>
    InOrder(q[i], q[j]) /\ (q[i].own /\ q[j].own => i = j)

\* The verdict of a deciding call is shown once its read is over, or a later
\* read has been applied before; nothing older can still be applied.
AppliedOK(r, m) ==
  r.fallback # NoVerdict /\ r.superseded => m.status = MappedStatus(r.fallback)
LearnedOK(q, m, k, c) ==
  /\ k = NotBusy
  /\ m.assertion # 0 /\ c[m.assertion] \in Final
  /\ m.status = MappedStatus(c[m.assertion])
  /\ \A i \in DOMAIN q :
       ~q[i].superseded => q[i].answer \in {Unread, c[m.assertion]}

JobsInv ==
  /\ Types
  /\ MilestoneOK(shown, chain) /\ MilestoneOK(stored, chain)
  /\ \A i \in DOMAIN reads :
       ReadOK(reads[i], shown, call, chain) /\ AppliedOK(reads[i], shown)
  /\ CallOK(call, shown, chain)
  /\ ReadsInOrder(reads)
  /\ settledByCall => LearnedOK(reads, shown, call, chain)

-----------------------------------------------------------------------------
(* Operators.                                                              *)

\* A sequence without its i-th element: the elements behind it move up.
LEMMA WithoutElement ==
  ASSUME NEW S, NEW s \in Seq(S), NEW i \in 1..Len(s)
  PROVE  /\ Without(s, i) \in Seq(S)
         /\ Len(Without(s, i)) = Len(s) - 1
         /\ \A j \in 1..(Len(s) - 1) :
              Without(s, i)[j] = s[IF j < i THEN j ELSE j + 1]
<1>1. Len(s) \in Nat /\ Len(s) - 1 \in Nat /\ \A j \in 1..Len(s) : s[j] \in S
  OBVIOUS
<1>2. \A j \in 1..(Len(s) - 1) : (IF j < i THEN s[j] ELSE s[j + 1]) \in S
  BY <1>1
<1>3. Without(s, i) \in [1..(Len(s) - 1) -> S]
  BY <1>2 DEF Without
<1>4. Without(s, i) \in Seq(S) /\ Len(Without(s, i)) = Len(s) - 1
  BY <1>1, <1>3
<1>5. \A j \in 1..(Len(s) - 1) :
        Without(s, i)[j] = IF j < i THEN s[j] ELSE s[j + 1]
  BY DEF Without
<1> QED
  BY <1>4, <1>5

\* What the demo shows of an assertion.
LEMMA MappedStatuses ==
  ASSUME NEW s \in Statuses
  PROVE  /\ MappedStatus(s) \in MilestoneStatuses
         /\ MappedStatus(s) # "in_progress"
         /\ MappedStatus(s) = "released" <=> s = "agreed"
         /\ MappedStatus(s) = "returned" <=> s \in {"rejected", "refunded"}
BY DEF MappedStatus, Statuses, Final, MilestoneStatuses

\* Nothing is not an assertion, and no answer is no status.
LEMMA Distinct ==
  /\ Unread \notin Statuses /\ NoVerdict \notin Final
  /\ Final \subseteq Statuses
BY DEF Unread, NoVerdict, Statuses, Final

LEMMA ReadsTyped ==
  ASSUME JobsInv, NEW i \in DOMAIN reads
  PROVE  /\ i \in 1..Len(reads) /\ Len(reads) \in Nat
         /\ reads[i] \in Reads /\ reads[i].assertion = shown.assertion
         /\ Posted(shown.assertion, chain) /\ shown.assertion # 0
<1>1. i \in 1..Len(reads) /\ Len(reads) \in Nat /\ reads[i] \in Reads
  BY DEF JobsInv, Types
<1>2. reads[i].assertion = shown.assertion
  BY DEF JobsInv, ReadOK
<1>3. reads[i].assertion # 0
  BY <1>1, JobsAssumption DEF Reads
<1> QED
  BY <1>1, <1>2, <1>3 DEF JobsInv, MilestoneOK

-----------------------------------------------------------------------------
(* The chain only grows: assertions stay, and a verdict is final.          *)

Grows(c, d) ==
  \A id \in DOMAIN c :
    id \in DOMAIN d /\ (c[id] \in Final => d[id] = c[id])

LEMMA MoveGrows ==
  ASSUME Types, NEW id \in DOMAIN chain, NEW from \in {"Pending", "Disputed"},
         NEW to \in Statuses, Moves(id, from, to)
  PROVE  /\ chain' \in Seq(Statuses) /\ Len(chain') = Len(chain)
         /\ chain'[id] = to /\ Grows(chain, chain')
<1>1. chain' = [chain EXCEPT ![id] = to] /\ chain[id] = from
  BY DEF Moves
<1>2. id \in 1..Len(chain) /\ DOMAIN chain = 1..Len(chain) /\ chain \in Seq(Statuses)
  BY DEF Types
<1>3. /\ chain' \in Seq(Statuses) /\ Len(chain') = Len(chain)
      /\ \A j \in 1..Len(chain) : chain'[j] = IF j = id THEN to ELSE chain[j]
  BY <1>1, <1>2, ExceptSeq
<1>4. DOMAIN chain' = DOMAIN chain
  BY <1>1
<1> QED
  BY <1>1, <1>2, <1>3, <1>4 DEF Grows, Final

LEMMA PostGrows ==
  ASSUME Types, chain' = Append(chain, "Pending")
  PROVE  /\ chain' \in Seq(Statuses) /\ Len(chain') = Len(chain) + 1
         /\ Len(chain) + 1 \in DOMAIN chain' /\ Grows(chain, chain')
<1>1. chain \in Seq(Statuses) /\ "Pending" \in Statuses /\ Len(chain) \in Nat
      /\ DOMAIN chain = 1..Len(chain)
  BY DEF Types, Statuses
<1>2. /\ chain' \in Seq(Statuses) /\ Len(chain') = Len(chain) + 1
      /\ \A i \in 1..Len(chain) : chain'[i] = chain[i]
  BY <1>1, AppendProperties
<1> QED
  BY <1>1, <1>2 DEF Grows

\* What is known of a milestone and of the reads stays true.
LEMMA GrowthKeepsMilestone ==
  ASSUME NEW c, NEW d, Grows(c, d), NEW m, MilestoneOK(m, c)
  PROVE  MilestoneOK(m, d)
<1>1. m.status \in {"released", "returned"} =>
        Posted(m.assertion, c) /\ c[m.assertion] \in Final
  BY DEF MilestoneOK, Final
<1> QED
  BY <1>1 DEF Grows, MilestoneOK, Posted

LEMMA GrowthKeepsRead ==
  ASSUME NEW c, NEW d, Grows(c, d), NEW m, Posted(m.assertion, c),
         NEW k, NEW r, ReadOK(r, m, k, c)
  PROVE  ReadOK(r, m, k, d)
BY DEF Grows, ReadOK, OnChain, Posted

LEMMA GrowthKeepsLearned ==
  ASSUME NEW c, NEW d, Grows(c, d), NEW m, MilestoneOK(m, c),
         NEW k, NEW q, LearnedOK(q, m, k, c)
  PROVE  LearnedOK(q, m, k, d)
<1>1. d[m.assertion] = c[m.assertion]
  BY DEF Grows, LearnedOK, MilestoneOK, Posted
<1> QED
  BY <1>1 DEF LearnedOK

\* A step of the chain that nothing else of the page sees but the call.
LEMMA ChainStep ==
  ASSUME JobsInv, Grows(chain, chain'), chain' \in Seq(Statuses),
         Len(chain') <= MaxAssertions, call' \in Calls,
         CallOK(call', shown, chain'),
         call.result = "reading" => call'.result = "reading",
         settledByCall => call' = call,
         UNCHANGED <<shown, stored, reads, seen, settledByCall>>
  PROVE  JobsInv'
<1>1. Types'
  BY DEF JobsInv, Types
<1>2. MilestoneOK(shown, chain') /\ MilestoneOK(stored, chain')
  BY GrowthKeepsMilestone DEF JobsInv
<1>3. \A i \in DOMAIN reads : ReadOK(reads[i], shown, call', chain')
  <2> TAKE i \in DOMAIN reads
  <2>1. ReadOK(reads[i], shown, call, chain) /\ Posted(shown.assertion, chain)
    BY ReadsTyped DEF JobsInv
  <2>2. ReadOK(reads[i], shown, call, chain')
    BY <2>1, GrowthKeepsRead
  <2> QED
    BY <2>2 DEF ReadOK
<1>4. settledByCall => LearnedOK(reads, shown, call', chain')
  BY GrowthKeepsLearned DEF JobsInv
<1> QED
  BY <1>1, <1>2, <1>3, <1>4 DEF JobsInv

LEMMA SameChainGrows == Grows(chain, chain)
BY DEF Grows

LEMMA OthersStep == ASSUME JobsInv, OthersCall PROVE JobsInv'
<1>1. PICK id \in DOMAIN chain, b \in Becomes : Moves(id, b[1], b[2])
  BY DEF OthersCall
<1>2. b[1] \in {"Pending", "Disputed"} /\ b[2] \in Statuses
  BY DEF Becomes, Statuses, Final
<1>3. Types /\ CallOK(call, shown, chain)
  BY DEF JobsInv
<1>4. /\ chain' \in Seq(Statuses) /\ Len(chain') = Len(chain)
      /\ Grows(chain, chain')
  BY <1>1, <1>2, <1>3, MoveGrows
<1>5. CallOK(call, shown, chain')
  BY <1>3, <1>4 DEF CallOK, Grows, Posted, Final
<1> QED
  BY <1>3, <1>4, <1>5, ChainStep DEF OthersCall, Types

LEMMA ClickStep == ASSUME JobsInv, Click PROVE JobsInv'
<1>1. PICK b \in Buttons :
        /\ b[1] = shown.status
        /\ call' = [name |-> b[2], assertion |-> shown.assertion,
                    result |-> "waiting"]
  BY DEF Click
<1>2. /\ b \in Buttons /\ call.result = "none"
      /\ shown.assertion \in 0..MaxAssertions
      /\ MilestoneOK(shown, chain) /\ Types
  BY DEF JobsInv, Types, Milestones, Click, NotBusy
<1>3. /\ b[2] \in {"submit", "dispute", "finalize", "vote"}
      /\ b[2] = "submit" <=> b[1] = "in_progress"
      /\ b[1] \in {"in_progress", "submitted", "disputed"}
  BY DEF Buttons
<1>4. call' \in Calls /\ CallOK(call', shown, chain)
  BY <1>1, <1>2, <1>3 DEF Calls, CallOK, MilestoneOK, Final
<1>5. ~settledByCall
  <2> SUFFICES ASSUME settledByCall PROVE FALSE
    OBVIOUS
  <2>1. /\ chain[shown.assertion] \in Final
        /\ shown.status = MappedStatus(chain[shown.assertion])
    BY DEF JobsInv, LearnedOK
  <2>2. shown.status \in {"released", "returned"}
    BY <2>1 DEF MappedStatus, Final
  <2> QED
    BY <1>1, <1>3, <2>2
<1> QED
  BY <1>2, <1>4, <1>5, ChainStep, SameChainGrows DEF Click, Types

LEMMA CallFailsStep == ASSUME JobsInv, CallFails PROVE JobsInv'
<1>1. Types /\ call' = NotBusy /\ call.result \notin {"none", "reading"}
  BY DEF JobsInv, CallFails
<1>2. call' \in Calls /\ CallOK(call', shown, chain)
  BY <1>1, JobsAssumption DEF NotBusy, Calls, CallOK, Final
<1>3. ~settledByCall
  BY <1>1 DEF JobsInv, LearnedOK, NotBusy
<1> QED
  BY <1>1, <1>2, <1>3, ChainStep, SameChainGrows DEF CallFails, Types

\* The transaction of a call that is on its way.
LEMMA ExecuteStep == ASSUME JobsInv, Execute PROVE JobsInv'
<1> DEFINE id == call.assertion
<1>1. /\ Types /\ CallOK(call, shown, chain) /\ MilestoneOK(shown, chain)
      /\ call \in Calls /\ call.result = "waiting"
      /\ UNCHANGED <<shown, stored, reads, seen, settledByCall>>
  BY DEF JobsInv, Types, Execute
<1>2. ~settledByCall
  BY <1>1 DEF JobsInv, LearnedOK, NotBusy
<1>3. call.name \notin {"none", "submit"} =>
        shown.assertion # 0 /\ id = shown.assertion /\ id \in DOMAIN chain
  BY <1>1 DEF CallOK, MilestoneOK, Posted
\* The chain moved to s, which the call returns if it is a verdict.
<1>4. ASSUME call.name \notin {"none", "submit"},
             NEW s \in {"done", "undecided"} \cup Final,
             call' = [call EXCEPT !.result = s],
             chain' \in Seq(Statuses), Len(chain') = Len(chain),
             Grows(chain, chain'), s \in Final => chain'[id] = s
      PROVE  JobsInv'
  <2>1. /\ call' \in Calls /\ call'.name = call.name
        /\ call'.assertion = id /\ call'.result = s
    BY <1>1, <1>4 DEF Calls
  <2>2. id \in DOMAIN chain'
    BY <1>3, <1>4 DEF Grows
  <2>3. CallOK(call', shown, chain')
    BY <1>1, <1>3, <1>4, <2>1, <2>2 DEF CallOK, Posted, Final
  <2> QED
    BY <1>1, <1>2, <1>4, <2>1, <2>3, ChainStep DEF Types
<1>5. CASE /\ call.name = "submit" /\ Len(chain) < MaxAssertions
           /\ chain' = Append(chain, "Pending")
           /\ call' = [call EXCEPT !.assertion = Len(chain) + 1, !.result = "done"]
  <2>1. /\ chain' \in Seq(Statuses) /\ Len(chain') = Len(chain) + 1
        /\ Len(chain) + 1 \in DOMAIN chain' /\ Grows(chain, chain')
        /\ Len(chain) \in Nat
    BY <1>1, <1>5, PostGrows DEF Types
  <2>2. /\ call' \in Calls /\ call'.name = "submit"
        /\ call'.assertion = Len(chain) + 1 /\ call'.result = "done"
    <3>1. Len(chain) + 1 \in 0..MaxAssertions
      BY <1>5, <2>1, JobsAssumption
    <3> QED
      BY <1>1, <1>5, <3>1 DEF Calls
  <2>3. CallOK(call', shown, chain')
    BY <1>1, <1>5, <2>1, <2>2 DEF CallOK, Posted, Final
  <2>4. Len(chain') <= MaxAssertions
    BY <1>5, <2>1, JobsAssumption
  <2> QED
    BY <1>1, <1>2, <2>1, <2>2, <2>3, <2>4, ChainStep
<1>6. CASE /\ call.name = "dispute" /\ Moves(id, "Pending", "Disputed")
           /\ call' = [call EXCEPT !.result = "done"]
  <2>1. /\ chain' \in Seq(Statuses) /\ Len(chain') = Len(chain)
        /\ Grows(chain, chain')
    BY <1>1, <1>3, <1>6, MoveGrows DEF Statuses
  <2> QED
    BY <1>4, <1>6, <2>1 DEF Final
<1>7. CASE /\ call.name = "finalize" /\ Moves(id, "Pending", "agreed")
           /\ call' = [call EXCEPT !.result = "agreed"]
  <2>1. /\ chain' \in Seq(Statuses) /\ Len(chain') = Len(chain)
        /\ chain'[id] = "agreed" /\ Grows(chain, chain')
    BY <1>1, <1>3, <1>7, MoveGrows DEF Statuses, Final
  <2> QED
    BY <1>4, <1>7, <2>1 DEF Final
<1>8. ASSUME NEW v \in {"agreed", "rejected"}, call.name = "vote",
             Moves(id, "Disputed", v), call' = [call EXCEPT !.result = v]
      PROVE  JobsInv'
  <2>1. /\ chain' \in Seq(Statuses) /\ Len(chain') = Len(chain)
        /\ chain'[id] = v /\ Grows(chain, chain')
    BY <1>1, <1>3, <1>8, MoveGrows DEF Statuses, Final
  <2> QED
    BY <1>4, <1>8, <2>1 DEF Final
<1>9. CASE /\ call.name = "vote" /\ chain' = chain
           /\ call' = [call EXCEPT !.result = "undecided"]
  BY <1>1, <1>4, <1>9, SameChainGrows DEF Types, Final
<1> QED
  BY <1>5, <1>6, <1>7, <1>8, <1>9 DEF Execute

-----------------------------------------------------------------------------
(* Steps that begin or answer a read.                                      *)

LEMMA ServeStep ==
  ASSUME JobsInv, NEW i \in DOMAIN reads, Serve(i)
  PROVE  JobsInv'
<1> DEFINE id == shown.assertion
           r == [reads[i] EXCEPT !.answer = chain[id]]
<1>1. /\ i \in 1..Len(reads) /\ reads[i] \in Reads /\ reads[i].assertion = id
      /\ id \in DOMAIN chain /\ Types
  BY ReadsTyped DEF JobsInv, Posted
<1>2. chain[id] \in Statuses
  BY <1>1 DEF Types
<1>3. /\ r \in Reads /\ r.answer = chain[id]
      /\ r.assertion = reads[i].assertion /\ r.superseded = reads[i].superseded
      /\ r.fallback = reads[i].fallback /\ r.own = reads[i].own
  BY <1>1, <1>2 DEF Reads
<1> HIDE DEF r
<1>4. reads' = [reads EXCEPT ![i] = r]
  BY <1>1 DEF Serve, r
<1>5. /\ reads' \in Seq(Reads) /\ Len(reads') = Len(reads)
      /\ DOMAIN reads' = DOMAIN reads
      /\ \A j \in DOMAIN reads : reads'[j] = IF j = i THEN r ELSE reads[j]
  BY <1>1, <1>3, <1>4, ExceptSeq DEF Types
<1>6. UNCHANGED <<chain, shown, stored, call, seen, settledByCall>>
  BY DEF Serve
<1>7. Types'
  BY <1>1, <1>5, <1>6 DEF Types
<1>8. \A j \in DOMAIN reads :
        ReadOK(reads'[j], shown, call, chain) /\ AppliedOK(reads'[j], shown)
  BY <1>3, <1>5 DEF JobsInv, ReadOK, AppliedOK, OnChain
<1>9. ReadsInOrder(reads')
  <2> SUFFICES ASSUME NEW j \in DOMAIN reads, NEW k \in DOMAIN reads, j <= k
               PROVE  /\ InOrder(reads'[j], reads'[k])
                      /\ reads'[j].own /\ reads'[k].own => j = k
    BY <1>5 DEF ReadsInOrder
  <2>1. /\ InOrder(reads[j], reads[k])
        /\ reads[j].own /\ reads[k].own => j = k
    BY DEF JobsInv, ReadsInOrder
  <2>2. reads[j].fallback # NoVerdict => chain[id] = reads[j].fallback
    <3>1. reads[j] \in Reads /\ ReadOK(reads[j], shown, call, chain)
      BY ReadsTyped DEF JobsInv
    <3> QED
      BY <3>1 DEF Reads, ReadOK, OnChain
  <2> QED
    BY <1>3, <1>5, <2>1, <2>2 DEF InOrder
<1>10. settledByCall => LearnedOK(reads', shown, call, chain)
  BY <1>3, <1>5 DEF JobsInv, LearnedOK
<1> QED
  BY <1>5, <1>6, <1>7, <1>8, <1>9, <1>10 DEF JobsInv

\* A new read is the last in order, and has no answer yet.
LEMMA NewRead ==
  ASSUME NEW q \in Seq(Reads), NEW r \in Reads, ~r.superseded, r.answer = Unread,
         ReadsInOrder(q),
         r.own => \A i \in DOMAIN q : ~q[i].own
  PROVE  /\ Append(q, r) \in Seq(Reads) /\ Len(Append(q, r)) = Len(q) + 1
         /\ DOMAIN Append(q, r) = DOMAIN q \cup {Len(q) + 1}
         /\ Len(q) + 1 \notin DOMAIN q
         /\ \A i \in DOMAIN q : Append(q, r)[i] = q[i]
         /\ Append(q, r)[Len(q) + 1] = r
         /\ ReadsInOrder(Append(q, r))
<1> DEFINE p == Append(q, r)
<1>1. /\ Len(q) \in Nat /\ DOMAIN q = 1..Len(q)
      /\ p \in Seq(Reads) /\ Len(p) = Len(q) + 1
      /\ \A i \in 1..Len(q) : p[i] = q[i]
      /\ p[Len(q) + 1] = r
  BY AppendProperties, LenProperties
<1>2. DOMAIN p = 1..Len(p)
  BY <1>1, LenProperties
<1> HIDE DEF p
<1>3. DOMAIN p = DOMAIN q \cup {Len(q) + 1} /\ Len(q) + 1 \notin DOMAIN q
  BY <1>1, <1>2
<1>4. ReadsInOrder(p)
  <2> SUFFICES ASSUME NEW i \in DOMAIN p, NEW j \in DOMAIN p, i <= j
               PROVE  InOrder(p[i], p[j]) /\ (p[i].own /\ p[j].own => i = j)
    BY DEF ReadsInOrder
  <2>1. CASE j \in DOMAIN q
    <3>1. i \in DOMAIN q
      BY <1>1, <1>2, <2>1
    <3> QED
      BY <1>1, <2>1, <3>1 DEF ReadsInOrder
  <2>2. CASE j = Len(q) + 1
    <3>1. CASE i \in DOMAIN q
      BY <1>1, <1>3, <2>2, <3>1 DEF InOrder
    <3>2. CASE i = j
      BY <1>1, <2>2, <3>2 DEF InOrder
    <3> QED
      BY <1>3, <2>2, <3>1, <3>2
  <2> QED
    BY <1>3, <2>1, <2>2
<1> QED
  BY <1>1, <1>3, <1>4 DEF p

LEMMA RefreshStep == ASSUME JobsInv, RefreshMilestone PROVE JobsInv'
<1> DEFINE r == Read(shown.assertion, NoVerdict, FALSE)
<1>1. /\ Types /\ ReadsInOrder(reads) /\ reads' = Append(reads, r)
      /\ shown.assertion # 0 /\ Len(reads) < MaxReads
      /\ UNCHANGED <<chain, shown, stored, call, seen, settledByCall>>
  BY DEF JobsInv, RefreshMilestone, Pollable
<1>2. shown.assertion \in 1..MaxAssertions
  BY <1>1, JobsAssumption DEF Types, Milestones
<1>3. /\ r \in Reads /\ ~r.superseded /\ r.answer = Unread
      /\ r.fallback = NoVerdict /\ r.assertion = shown.assertion /\ ~r.own
  BY <1>2 DEF Read, Reads
<1> HIDE DEF r
<1>4. /\ reads' \in Seq(Reads) /\ Len(reads') = Len(reads) + 1
      /\ DOMAIN reads' = DOMAIN reads \cup {Len(reads) + 1}
      /\ \A i \in DOMAIN reads : reads'[i] = reads[i]
      /\ reads'[Len(reads) + 1] = r
      /\ ReadsInOrder(reads')
  BY <1>1, <1>3, NewRead DEF Types
<1>5. Types'
  BY <1>1, <1>4, JobsAssumption DEF Types
<1>6. ReadOK(r, shown, call, chain) /\ AppliedOK(r, shown)
  BY <1>3, Distinct DEF ReadOK, AppliedOK, OnChain, Statuses
<1>7. \A i \in DOMAIN reads' :
        ReadOK(reads'[i], shown, call, chain) /\ AppliedOK(reads'[i], shown)
  BY <1>4, <1>6 DEF JobsInv
<1>8. settledByCall => LearnedOK(reads', shown, call, chain)
  BY <1>3, <1>4 DEF JobsInv, LearnedOK
<1> QED
  BY <1>1, <1>4, <1>5, <1>7, <1>8 DEF JobsInv

LEMMA PersistStep == ASSUME JobsInv, PersistJobs PROVE JobsInv'
BY DEF JobsInv, PersistJobs, Types

LEMMA EmptyReads ==
  /\ <<>> \in Seq(Reads) /\ Len(<<>>) = 0 /\ DOMAIN <<>> = {}
  /\ ReadsInOrder(<<>>)
BY DEF ReadsInOrder

LEMMA LoadPageStep == ASSUME JobsInv, LoadPage PROVE JobsInv'
<1>1. /\ Types /\ MilestoneOK(stored, chain)
      /\ shown' = stored /\ call' = NotBusy /\ seen' = Unread
      /\ settledByCall' = FALSE /\ UNCHANGED <<chain, stored>>
  BY DEF JobsInv, LoadPage
<1>2. call' \in Calls /\ CallOK(call', stored, chain)
  BY <1>1, JobsAssumption DEF NotBusy, Calls, CallOK, Final
<1>3. ASSUME reads' \in Seq(Reads), Len(reads') <= MaxReads, ReadsInOrder(reads'),
             \A i \in DOMAIN reads' :
               /\ ReadOK(reads'[i], stored, call', chain)
               /\ AppliedOK(reads'[i], stored)
      PROVE  JobsInv'
  BY <1>1, <1>2, <1>3 DEF JobsInv, Types
<1>4. CASE stored.assertion = 0
  BY <1>3, <1>4, EmptyReads, JobsAssumption DEF LoadPage
<1>5. CASE stored.assertion # 0
  <2> DEFINE r == Read(stored.assertion, NoVerdict, FALSE)
  <2>1. reads' = <<r>>
    BY <1>5 DEF LoadPage
  <2>2. stored.assertion \in 1..MaxAssertions
    BY <1>1, <1>5, JobsAssumption DEF Types, Milestones
  <2>3. /\ r \in Reads /\ ~r.superseded /\ r.answer = Unread
        /\ r.fallback = NoVerdict /\ r.assertion = stored.assertion /\ ~r.own
    BY <2>2 DEF Read, Reads
  <2> HIDE DEF r
  <2>4. /\ reads' \in Seq(Reads) /\ Len(reads') = 1 /\ DOMAIN reads' = {1}
        /\ reads'[1] = r
    BY <2>1, <2>3
  <2>5. ReadOK(r, stored, call', chain) /\ AppliedOK(r, stored)
    BY <2>3, Distinct DEF ReadOK, AppliedOK, OnChain, Statuses
  <2>6. ReadsInOrder(reads')
    BY <2>3, <2>4 DEF ReadsInOrder, InOrder
  <2> QED
    BY <1>3, <2>4, <2>5, <2>6, JobsAssumption
<1> QED
  BY <1>4, <1>5

\* A call that returns has no read of its own yet, so that what it shows at
\* once meets no verdict on its way.
LEMMA CallReturnsStep == ASSUME JobsInv, CallReturns PROVE JobsInv'
<1> DEFINE id == call.assertion
           verdict == IF call.result \in Final THEN call.result ELSE NoVerdict
           r == Read(id, verdict, TRUE)
<1>1. /\ Types /\ ReadsInOrder(reads) /\ CallOK(call, shown, chain)
      /\ MilestoneOK(shown, chain) /\ MilestoneOK(stored, chain)
      /\ call.result \notin {"none", "waiting", "reading"}
      /\ UNCHANGED <<chain, stored, settledByCall>>
  BY DEF JobsInv, CallReturns
<1>2. ~settledByCall
  BY <1>1 DEF JobsInv, LearnedOK, NotBusy
<1>3. /\ call.name # "none" /\ id \in DOMAIN chain
      /\ id \in 1..MaxAssertions
      /\ OnChain(verdict, id, chain)
  <2>1. call.name # "none" /\ id \in DOMAIN chain
    BY <1>1 DEF CallOK, Posted
  <2>2. id \in 1..MaxAssertions
    BY <1>1, <2>1, JobsAssumption DEF Types
  <2>3. OnChain(verdict, id, chain)
    BY <1>1, Distinct DEF CallOK, OnChain
  <2> QED
    BY <2>1, <2>2, <2>3
<1>4. \A i \in DOMAIN reads :
        /\ call.name # "submit" /\ ~reads[i].own
        /\ reads[i].fallback = NoVerdict
        /\ reads[i].assertion = id /\ OnChain(reads[i].answer, id, chain)
        /\ OnChain(reads[i].fallback, id, chain)
  <2> TAKE i \in DOMAIN reads
  <2>1. ReadOK(reads[i], shown, call, chain) /\ shown.assertion # 0
    BY ReadsTyped DEF JobsInv
  <2>2. call.name # "submit" /\ id = shown.assertion
    BY <1>1, <1>3, <2>1 DEF CallOK
  <2>3. reads[i] \in Reads
    BY ReadsTyped
  <2> QED
    BY <1>1, <2>1, <2>2, <2>3 DEF ReadOK, Reads
<1>5. /\ shown' \in Milestones /\ shown'.assertion = id
      /\ MilestoneOK(shown', chain)
  <2>1. CASE call.name = "submit"
    <3>1. shown' = [status |-> "submitted", assertion |-> id]
      BY <2>1 DEF CallReturns
    <3> QED
      BY <1>3, <3>1 DEF Milestones, MilestoneStatuses, MilestoneOK, Posted
  <2>2. CASE call.name = "dispute"
    <3>1. shown' = [shown EXCEPT !.status = "disputed"]
      BY <2>2 DEF CallReturns
    <3>2. id = shown.assertion /\ shown \in Milestones
      BY <1>1, <2>2 DEF CallOK, Types
    <3> QED
      BY <1>3, <3>1, <3>2 DEF Milestones, MilestoneStatuses, MilestoneOK, Posted
  <2>3. CASE call.name \notin {"submit", "dispute"}
    <3>1. shown' = shown
      BY <2>3 DEF CallReturns
    <3> QED
      BY <1>1, <1>3, <2>3, <3>1 DEF CallOK, Types
  <2> QED
    BY <2>1, <2>2, <2>3
<1>6. \A i \in DOMAIN reads, k \in Calls :
        ReadOK(reads[i], shown', k, chain) /\ AppliedOK(reads[i], shown')
  BY <1>4, <1>5 DEF ReadOK, AppliedOK
<1>7. seen' \in {Unread} \cup Statuses
  BY <1>1 DEF CallReturns, Types
<1>8. CASE call.result = "undecided"
  <2>1. call' = NotBusy /\ reads' = reads
    BY <1>8 DEF CallReturns
  <2>2. call' \in Calls /\ CallOK(call', shown', chain)
    BY <2>1, JobsAssumption DEF NotBusy, Calls, CallOK, Final
  <2> QED
    BY <1>1, <1>2, <1>5, <1>6, <1>7, <2>1, <2>2 DEF JobsInv, Types
<1>9. CASE call.result # "undecided"
  <2>1. /\ Len(reads) < MaxReads /\ reads' = Append(reads, r)
        /\ call' = [call EXCEPT !.result = "reading"]
    BY <1>9 DEF CallReturns
  <2>2. /\ call' \in Calls /\ call'.result = "reading"
        /\ call'.name = call.name /\ call'.assertion = id
    BY <1>1, <2>1 DEF Types, Calls
  <2>3. CallOK(call', shown', chain)
    BY <1>3, <1>5, <2>2, JobsAssumption DEF CallOK, Posted, Final
  <2>4. /\ r \in Reads /\ ~r.superseded /\ r.answer = Unread
        /\ r.fallback = verdict /\ r.assertion = id /\ r.own
    BY <1>3 DEF Read, Reads
  <2> HIDE DEF r, verdict
  <2>5. /\ reads' \in Seq(Reads) /\ Len(reads') = Len(reads) + 1
        /\ DOMAIN reads' = DOMAIN reads \cup {Len(reads) + 1}
        /\ \A i \in DOMAIN reads : reads'[i] = reads[i]
        /\ reads'[Len(reads) + 1] = r
        /\ ReadsInOrder(reads')
    BY <1>1, <1>4, <2>1, <2>4, NewRead DEF Types
  <2>6. ReadOK(r, shown', call', chain) /\ AppliedOK(r, shown')
    BY <1>3, <1>5, <2>2, <2>4, Distinct DEF ReadOK, AppliedOK, OnChain
  <2>7. \A i \in DOMAIN reads' :
          ReadOK(reads'[i], shown', call', chain) /\ AppliedOK(reads'[i], shown')
    BY <1>6, <2>2, <2>5, <2>6
  <2>8. Types'
    <3>1. Len(reads') <= MaxReads
      BY <2>1, <2>5, JobsAssumption, <1>1 DEF Types
    <3> QED
      BY <1>1, <1>5, <1>7, <2>2, <2>5, <3>1 DEF Types
  <2> QED
    BY <1>1, <1>2, <1>5, <2>3, <2>5, <2>7, <2>8 DEF JobsInv
<1> QED
  BY <1>8, <1>9

-----------------------------------------------------------------------------
(* The end of a read.                                                      *)

\* The reads that are left when the i-th one ends; those before it are
\* superseded if its answer was applied.
Left(q, i, applied) ==
  Without([j \in DOMAIN q |->
             IF j < i /\ applied THEN [q[j] EXCEPT !.superseded = TRUE] ELSE q[j]], i)

\* Each read of l was there before, at a place of its own on the same side.
Survive(l, q, i, applied) ==
  \E old \in [DOMAIN l -> DOMAIN q \ {i}] :
    /\ \A j, k \in DOMAIN l :
         /\ j <= k => old[j] <= old[k]
         /\ old[j] = old[k] => j = k
    /\ \A j \in DOMAIN l :
         LET r == q[old[j]] IN
         /\ l[j].assertion = r.assertion /\ l[j].answer = r.answer
         /\ l[j].fallback = r.fallback /\ l[j].own = r.own
         /\ l[j].superseded <=> r.superseded \/ (applied /\ old[j] < i)

LEMMA LeftReads ==
  ASSUME NEW q \in Seq(Reads), NEW i \in DOMAIN q, NEW applied \in BOOLEAN,
         NEW l, l = Left(q, i, applied)
  PROVE  /\ l \in Seq(Reads) /\ Len(l) = Len(q) - 1
         /\ Survive(l, q, i, applied)
<1> DEFINE f(j) == IF j < i /\ applied THEN [q[j] EXCEPT !.superseded = TRUE] ELSE q[j]
           p == [j \in DOMAIN q |-> f(j)]
           n == Len(q) - 1
           old == [j \in 1..n |-> IF j < i THEN j ELSE j + 1]
<1>1. /\ Len(q) \in Nat /\ DOMAIN q = 1..Len(q) /\ n \in Nat
      /\ \A j \in 1..Len(q) : q[j] \in Reads
  BY LenProperties, ElementOfSeq
<1>2. \A j \in DOMAIN q :
        /\ f(j) \in Reads
        /\ f(j).assertion = q[j].assertion /\ f(j).answer = q[j].answer
        /\ f(j).fallback = q[j].fallback /\ f(j).own = q[j].own
        /\ f(j).superseded <=> q[j].superseded \/ (applied /\ j < i)
  BY <1>1 DEF Reads
<1>3. p \in Seq(Reads) /\ Len(p) = Len(q) /\ \A j \in DOMAIN q : p[j] = f(j)
  <2>1. p \in [1..Len(q) -> Reads]
    BY <1>1, <1>2
  <2> QED
    BY <1>1, <2>1
<1> HIDE DEF f
<1>4. /\ l \in Seq(Reads) /\ Len(l) = n
      /\ \A j \in 1..n : l[j] = p[IF j < i THEN j ELSE j + 1]
  <2> HIDE DEF p
  <2>1. i \in 1..Len(p)
    BY <1>1, <1>3
  <2>2. /\ Without(p, i) \in Seq(Reads) /\ Len(Without(p, i)) = n
        /\ \A j \in 1..n : Without(p, i)[j] = p[IF j < i THEN j ELSE j + 1]
    BY <1>3, <2>1, WithoutElement
  <2>3. l = Without(p, i)
    BY DEF Left, p, f
  <2> QED
    BY <2>2, <2>3
<1>5. DOMAIN l = 1..n
  BY <1>1, <1>4, LenProperties
<1> HIDE DEF p
<1>6. old \in [DOMAIN l -> DOMAIN q \ {i}]
  BY <1>1, <1>5
<1>7. \A j, k \in DOMAIN l :
        (j <= k => old[j] <= old[k]) /\ (old[j] = old[k] => j = k)
  BY <1>1, <1>5
<1>8. \A j \in DOMAIN l : l[j] = f(old[j]) /\ old[j] \in DOMAIN q
  BY <1>1, <1>3, <1>4, <1>5
<1> HIDE DEF old
<1>9. \A j \in DOMAIN l :
        /\ l[j].assertion = q[old[j]].assertion /\ l[j].answer = q[old[j]].answer
        /\ l[j].fallback = q[old[j]].fallback /\ l[j].own = q[old[j]].own
        /\ l[j].superseded <=> q[old[j]].superseded \/ (applied /\ old[j] < i)
  BY <1>2, <1>8
<1> QED
  BY <1>4, <1>6, <1>7, <1>9 DEF Survive

\* What a read that ends does to the status shown: nothing if it is superseded,
\* or if it failed and has no fallback; else it shows status, which no verdict
\* known to the page may contradict.
Shows(i, status) ==
  /\ status \in Statuses /\ OnChain(status, shown.assertion, chain)
  /\ ~reads[i].superseded
  /\ \A k \in DOMAIN reads :
       k <= i /\ reads[k].fallback # NoVerdict => status = reads[k].fallback
  /\ settledByCall => status = chain[shown.assertion]
  /\ shown' = [shown EXCEPT !.status = MappedStatus(status)]
ShowsNothing(i) ==
  /\ shown' = shown
  /\ reads[i].fallback # NoVerdict => reads[i].superseded

LEMMA EndOfRead ==
  ASSUME JobsInv, NEW i \in DOMAIN reads, NEW applied \in BOOLEAN, NEW status,
         applied => Shows(i, status),
         ~applied => ShowsNothing(i),
         reads' = Left(reads, i, applied), Awaited(i),
         UNCHANGED <<chain, stored>>, seen' \in {Unread} \cup Statuses
  PROVE  JobsInv'
<1> DEFINE c == chain
           id == shown.assertion
<1>1. /\ Types /\ ReadsInOrder(reads) /\ CallOK(call, shown, c)
      /\ MilestoneOK(shown, c) /\ MilestoneOK(stored, c)
      /\ \A j \in DOMAIN reads :
           ReadOK(reads[j], shown, call, c) /\ AppliedOK(reads[j], shown)
      /\ settledByCall => LearnedOK(reads, shown, call, c)
      /\ c' = c /\ stored' = stored
  BY DEF JobsInv
<1>2. /\ id # 0 /\ Posted(id, c) /\ reads[i] \in Reads
      /\ Len(reads) \in Nat /\ DOMAIN reads = 1..Len(reads) /\ i \in 1..Len(reads)
  BY <1>1, ReadsTyped, LenProperties DEF Types
<1>3. PICK old \in [DOMAIN reads' -> DOMAIN reads \ {i}] :
        /\ \A j, k \in DOMAIN reads' :
             /\ j <= k => old[j] <= old[k]
             /\ old[j] = old[k] => j = k
        /\ \A j \in DOMAIN reads' :
             LET r == reads[old[j]] IN
             /\ reads'[j].assertion = r.assertion /\ reads'[j].answer = r.answer
             /\ reads'[j].fallback = r.fallback /\ reads'[j].own = r.own
             /\ reads'[j].superseded <=> r.superseded \/ (applied /\ old[j] < i)
  <2>1. reads \in Seq(Reads) /\ reads' = Left(reads, i, applied)
    BY <1>1 DEF Types
  <2>2. Survive(reads', reads, i, applied)
    BY <2>1, LeftReads
  <2> QED
    BY <2>2, Zenon DEF Survive
<1>4. reads' \in Seq(Reads) /\ Len(reads') = Len(reads) - 1
  BY <1>1, LeftReads DEF Types
<1>5. /\ shown' \in Milestones /\ shown'.assertion = id
      /\ MilestoneOK(shown', c)
  <2>1. CASE applied
    <3>1. /\ status \in Statuses /\ OnChain(status, id, c)
          /\ shown' = [shown EXCEPT !.status = MappedStatus(status)]
      BY <2>1 DEF Shows
    <3>2. shown' \in Milestones /\ shown'.assertion = id
          /\ shown'.status = MappedStatus(status)
      BY <1>1, <3>1, MappedStatuses DEF Types, Milestones
    <3> QED
      BY <1>2, <3>1, <3>2, MappedStatuses DEF MilestoneOK, OnChain, Final
  <2>2. CASE ~applied
    BY <1>1, <2>2 DEF ShowsNothing, Types
  <2> QED
    BY <2>1, <2>2
\* The call is over only if the read was its own, and no other read is.
<1>6. /\ call' = IF reads[i].own THEN NotBusy ELSE call
      /\ settledByCall' = (settledByCall \/ reads[i].fallback # NoVerdict)
  BY DEF Awaited
<1>7. call' \in Calls /\ CallOK(call', shown', c)
  <2>1. NotBusy \in Calls /\ CallOK(NotBusy, shown', c)
    BY JobsAssumption DEF NotBusy, Calls, CallOK, Final
  <2>2. call \in Calls /\ CallOK(call, shown', c)
    BY <1>1, <1>5 DEF CallOK, Types
  <2> QED
    BY <1>6, <2>1, <2>2
<1>8. \A j \in DOMAIN reads' : ReadOK(reads'[j], shown', call', c)
  <2> TAKE j \in DOMAIN reads'
  <2>1. ReadOK(reads[old[j]], shown, call, c) /\ old[j] \in DOMAIN reads /\ old[j] # i
    BY <1>1, <1>3
  <2>2. reads[old[j]].own => ~reads[i].own
    BY <1>1, <1>2, <2>1 DEF ReadsInOrder
  <2> QED
    BY <1>3, <1>5, <1>6, <2>1, <2>2 DEF ReadOK
<1>9. ReadsInOrder(reads')
  <2> SUFFICES ASSUME NEW j \in DOMAIN reads', NEW k \in DOMAIN reads', j <= k
               PROVE  /\ InOrder(reads'[j], reads'[k])
                      /\ reads'[j].own /\ reads'[k].own => j = k
    BY DEF ReadsInOrder
  <2>1. /\ old[j] \in DOMAIN reads /\ old[k] \in DOMAIN reads
        /\ old[j] <= old[k] /\ (old[j] = old[k] => j = k)
    BY <1>3
  <2>2. /\ InOrder(reads[old[j]], reads[old[k]])
        /\ reads[old[j]].own /\ reads[old[k]].own => old[j] = old[k]
    BY <1>1, <2>1 DEF ReadsInOrder
  <2>3. old[k] < i => old[j] < i
    BY <1>2, <2>1
  <2> QED
    BY <1>3, <2>1, <2>2, <2>3 DEF InOrder
\* A superseded read lies before the one applied, or was superseded already.
<1>10. \A j \in DOMAIN reads' : AppliedOK(reads'[j], shown')
  <2> SUFFICES ASSUME NEW j \in DOMAIN reads', reads'[j].superseded,
                      reads'[j].fallback # NoVerdict
               PROVE  shown'.status = MappedStatus(reads'[j].fallback)
    BY DEF AppliedOK
  <2>1. /\ old[j] \in DOMAIN reads /\ reads[old[j]].fallback = reads'[j].fallback
        /\ reads[old[j]].superseded \/ (applied /\ old[j] < i)
    BY <1>3
  <2>2. CASE applied
    <3>1. old[j] <= i
      <4>1. ~(i <= old[j] /\ reads[old[j]].superseded)
        BY <1>1, <2>1, <2>2 DEF Shows, ReadsInOrder, InOrder
      <4> QED
        BY <1>2, <2>1, <4>1
    <3>2. status = reads[old[j]].fallback
      BY <2>1, <2>2, <3>1 DEF Shows
    <3> QED
      BY <1>1, <2>1, <2>2, <3>2 DEF Shows, Types, Milestones
  <2>3. CASE ~applied
    BY <1>1, <2>1, <2>3 DEF AppliedOK, ShowsNothing
  <2> QED
    BY <2>2, <2>3
<1>11. settledByCall' => LearnedOK(reads', shown', call', c)
  <2>1. CASE settledByCall
    <3>1. LearnedOK(reads, shown, call, c)
      BY <1>1, <2>1
    <3>2. call' = NotBusy
      BY <1>6, <3>1 DEF LearnedOK
    <3>3. shown'.status = MappedStatus(c[id])
      BY <1>1, <2>1, <3>1 DEF LearnedOK, Shows, ShowsNothing, Types, Milestones
    <3>4. \A j \in DOMAIN reads' :
            ~reads'[j].superseded => reads'[j].answer \in {Unread, c[id]}
      BY <1>3, <3>1 DEF LearnedOK
    <3> QED
      BY <1>5, <3>1, <3>2, <3>3, <3>4 DEF LearnedOK
  <2>2. CASE reads[i].fallback # NoVerdict
    <3>1. /\ reads[i].fallback \in Final /\ c[id] = reads[i].fallback
          /\ call' = NotBusy
      BY <1>1, <1>2, <1>6, <2>2 DEF ReadOK, OnChain, Reads
    <3>2. shown'.status = MappedStatus(c[id])
      <4>1. CASE applied
        <5>1. status = reads[i].fallback
          BY <1>2, <2>2, <4>1 DEF Shows
        <5> QED
          BY <1>1, <3>1, <4>1, <5>1 DEF Shows, Types, Milestones
      <4>2. CASE ~applied
        BY <1>1, <2>2, <3>1, <4>2 DEF ShowsNothing, AppliedOK
      <4> QED
        BY <4>1, <4>2
    <3>3. ASSUME NEW j \in DOMAIN reads', ~reads'[j].superseded
          PROVE  reads'[j].answer \in {Unread, c[id]}
      <4>1. /\ old[j] \in DOMAIN reads /\ old[j] # i
            /\ reads'[j].answer = reads[old[j]].answer
            /\ ~reads[old[j]].superseded /\ ~(applied /\ old[j] < i)
        BY <1>3, <3>3
      <4>2. i <= old[j]
        <5>1. CASE applied
          BY <1>2, <4>1, <5>1
        <5>2. CASE ~applied
          <6>1. ~(old[j] <= i)
            BY <1>1, <2>2, <4>1, <5>2 DEF ShowsNothing, ReadsInOrder, InOrder
          <6> QED
            BY <1>2, <4>1, <6>1
        <5> QED
          BY <5>1, <5>2
      <4>3. reads[old[j]].answer \in {Unread, reads[i].fallback}
        BY <1>1, <2>2, <4>1, <4>2 DEF ReadsInOrder, InOrder
      <4> QED
        BY <3>1, <4>1, <4>3
    <3> QED
      BY <1>2, <1>5, <3>1, <3>2, <3>3 DEF LearnedOK
  <2> QED
    BY <1>6, <2>1, <2>2
<1>12. Types'
  <2>1. Len(reads') <= MaxReads
    BY <1>1, <1>2, <1>4, JobsAssumption DEF Types
  <2>2. settledByCall' \in BOOLEAN
    BY <1>6
  <2> QED
    BY <1>1, <1>4, <1>5, <1>7, <2>1, <2>2 DEF Types
<1> QED
  BY <1>1, <1>5, <1>7, <1>8, <1>9, <1>10, <1>11, <1>12 DEF JobsInv

\* applyIfNewest with a status that no verdict contradicts.
LEMMA ApplyStep ==
  ASSUME JobsInv, NEW i \in DOMAIN reads, NEW status \in Statuses,
         Apply(i, status), Awaited(i), UNCHANGED <<chain, stored>>,
         OnChain(status, shown.assertion, chain),
         \A k \in DOMAIN reads :
           k <= i /\ reads[k].fallback # NoVerdict => status = reads[k].fallback,
         settledByCall /\ ~reads[i].superseded => status = chain[shown.assertion]
  PROVE  JobsInv'
<1> DEFINE applied == ~reads[i].superseded
<1>1. applied \in BOOLEAN /\ reads' = Left(reads, i, applied)
  BY DEF Apply, Left, IsNewest
<1>2. applied => Shows(i, status)
  BY DEF Apply, IsNewest, Shows
<1>3. ~applied => ShowsNothing(i)
  BY DEF Apply, IsNewest, ShowsNothing
<1>4. seen' \in {Unread} \cup Statuses
  BY DEF Apply, JobsInv, Types
<1> HIDE DEF applied
<1> QED
  BY <1>1, <1>2, <1>3, <1>4, EndOfRead

LEMMA AnswerStep ==
  ASSUME JobsInv, NEW i \in DOMAIN reads, Answer(i)
  PROVE  JobsInv'
<1> DEFINE status == reads[i].answer
<1>1. /\ status # Unread /\ Apply(i, status) /\ Awaited(i)
      /\ UNCHANGED <<chain, stored>>
  BY DEF Answer
<1>2. status \in Statuses
  BY <1>1, ReadsTyped DEF Reads
<1>3. OnChain(status, shown.assertion, chain)
  BY DEF JobsInv, ReadOK
<1>4. \A k \in DOMAIN reads :
        k <= i /\ reads[k].fallback # NoVerdict => status = reads[k].fallback
  BY <1>1 DEF JobsInv, ReadsInOrder, InOrder
<1>5. settledByCall /\ ~reads[i].superseded => status = chain[shown.assertion]
  BY <1>1 DEF JobsInv, LearnedOK
<1> HIDE DEF status
<1> QED
  BY <1>1, <1>2, <1>3, <1>4, <1>5, ApplyStep

LEMMA ReadFailsStep ==
  ASSUME JobsInv, NEW i \in DOMAIN reads, ReadFails(i)
  PROVE  JobsInv'
<1>1. /\ Awaited(i) /\ UNCHANGED <<chain, stored>> /\ reads \in Seq(Reads)
      /\ reads[i] \in Reads /\ ReadOK(reads[i], shown, call, chain)
  BY ReadsTyped DEF ReadFails, JobsInv, Types
<1>2. CASE reads[i].fallback = NoVerdict
  <2>1. reads' = Without(reads, i) /\ UNCHANGED <<shown, seen>>
    BY <1>2 DEF ReadFails
  <2>2. reads = [j \in DOMAIN reads |-> reads[j]]
    BY <1>1, LenProperties
  <2>3. reads' = Left(reads, i, FALSE)
    BY <2>1, <2>2 DEF Left
  <2>4. ShowsNothing(i) /\ seen' \in {Unread} \cup Statuses
    BY <1>2, <2>1 DEF ShowsNothing, JobsInv, Types
  <2> QED
    BY <1>1, <2>3, <2>4, EndOfRead
<1>3. CASE reads[i].fallback # NoVerdict
  <2> DEFINE status == reads[i].fallback
  <2>1. Apply(i, status)
    BY <1>3 DEF ReadFails
  <2>2. status \in Statuses /\ OnChain(status, shown.assertion, chain)
    BY <1>1, <1>3, Distinct DEF Reads, ReadOK
  <2>3. ASSUME NEW k \in DOMAIN reads, k <= i, reads[k].fallback # NoVerdict
        PROVE  status = reads[k].fallback
    <3>1. reads[i].own /\ reads[k].own
      BY <1>1, <1>3, <2>3 DEF JobsInv, ReadOK
    <3> QED
      BY <2>3, <3>1 DEF JobsInv, ReadsInOrder
  <2>4. ~settledByCall
    BY <1>1, <1>3 DEF JobsInv, LearnedOK, ReadOK, NotBusy
  <2> HIDE DEF status
  <2> QED
    BY <1>1, <2>1, <2>2, <2>3, <2>4, ApplyStep
<1> QED
  BY <1>2, <1>3

-----------------------------------------------------------------------------
(* The milestone.                                                          *)

LEMMA InitJobs == Init => JobsInv
<1> SUFFICES ASSUME Init PROVE JobsInv
  OBVIOUS
<1>1. Types
  <2>1. <<>> \in Seq(Statuses) /\ Len(<<>>) = 0 /\ 0 \in 0..MaxAssertions
        /\ 0 <= MaxAssertions /\ 0 <= MaxReads
    BY JobsAssumption
  <2>2. NewMilestone \in Milestones
    BY <2>1 DEF NewMilestone, Milestones, MilestoneStatuses
  <2>3. NotBusy \in Calls
    BY <2>1 DEF NotBusy, Calls
  <2> QED
    BY <2>1, <2>2, <2>3, EmptyReads DEF Init, Types
<1>2. MilestoneOK(NewMilestone, chain)
  BY DEF MilestoneOK, NewMilestone
<1>3. CallOK(NotBusy, shown, chain)
  BY DEF CallOK, NotBusy, Final
<1> QED
  BY <1>1, <1>2, <1>3, EmptyReads DEF Init, JobsInv

LEMMA JobsStep == JobsInv /\ [Next]_vars => JobsInv'
<1> SUFFICES ASSUME JobsInv, [Next]_vars PROVE JobsInv'
  OBVIOUS
<1>1. CASE UNCHANGED vars
  BY <1>1 DEF vars, JobsInv, Types
<1> QED
  BY <1>1, ServeStep, AnswerStep, ReadFailsStep, RefreshStep, ClickStep, ExecuteStep,
     CallReturnsStep, CallFailsStep, OthersStep, PersistStep, LoadPageStep DEF Next

LEMMA JobsAlways == Spec => []JobsInv
BY InitJobs, JobsStep, PTL DEF Spec

\* Type correctness, for any bounds.
THEOREM TypesAlwaysOK == Spec => []TypeOK
<1>1. JobsInv => TypeOK
  BY DEF JobsInv, Types, Calls, TypeOK
<1> QED
  BY <1>1, JobsAlways, PTL

\* The tab never shows a claim as paid out or returned unless the chain has
\* decided it so: not from an old answer, a fallback or a restored page,
\* however many reads overlap and whatever fails.
THEOREM SettledAlwaysTrue == Spec => []SettledIsTrue
<1>1. JobsInv => SettledIsTrue
  BY DEF JobsInv, MilestoneOK, SettledIsTrue
<1> QED
  BY <1>1, JobsAlways, PTL

\* A verdict that a call of the page has learned is shown once the read after
\* the call has ended, and stays, whatever older answers arrive later.
THEOREM VerdictAlwaysSticks == Spec => []VerdictSticks
<1>1. JobsInv => VerdictSticks
  BY DEF JobsInv, LearnedOK, VerdictSticks
<1> QED
  BY <1>1, JobsAlways, PTL
=============================================================================
