--------------------------- MODULE JobQueueProofs ---------------------------
(***************************************************************************)
(* Lemmas about the rows of the jobs table: every store call keeps the     *)
(* table well formed.  Used by EnrichmentProofs and VisionProofs.          *)
(***************************************************************************)
EXTENDS JobQueue, TLAPS

\* A row that is there has a frame and, while it is live, attempts left.
RowOK(row) ==
    /\ row \in Row
    /\ row.state # "absent" => row.frame \in Frames
    /\ row.state \in Live => row.attempts < MaxAttempts

RowsOK == jobs \in [JobIds -> Row] /\ \A id \in JobIds : RowOK(jobs[id])

\* The types of a row's fields.
LEMMA RowFields ==
    ASSUME NEW row \in Row
    PROVE  /\ row.kind \in Kinds /\ row.frame \in Frames \cup {NoFrame}
           /\ row.state \in States \cup {"absent"} /\ row.priority \in Priorities
           /\ row.attempts \in 0..MaxAttempts /\ row.wait \in 0..BackoffCap
           /\ row.age \in 0..VisibilityTimeout
BY DEF Row

\* enqueue_job writes a well-formed row,
LEMMA FreshRowOK ==
    ASSUME NEW kind \in Kinds, NEW f \in Frames, NEW prio \in Priorities
    PROVE  RowOK(FreshRow(kind, f, prio))
BY AttemptsAssumption, TimeAssumption DEF RowOK, FreshRow, Row, States, Live

\* the absence of one is well-formed,
LEMMA NoRowOK == RowOK(NoRow)
BY AttemptsAssumption, TimeAssumption DEF RowOK, NoRow, Row, States, Live, Kinds, Priorities

\* (none of the counters has a negative bound)
LEMMA Zero == 0 \in 0..VisibilityTimeout /\ 0 \in 0..BackoffCap /\ 0 \in 0..MaxAttempts
BY AttemptsAssumption, TimeAssumption

\* and so is a row after each update: claim_jobs,
LEMMA ClaimedOK ==
    ASSUME NEW row, RowOK(row), row.state = "pending"
    PROVE  RowOK(Claimed(row))
<1>1. Claimed(row) \in Row
  BY Zero, Zenon DEF RowOK, Claimed, Row, States
<1>2. /\ Claimed(row).state = "running"
      /\ Claimed(row).frame = row.frame
      /\ Claimed(row).attempts = row.attempts
  BY DEF RowOK, Claimed, Row
<1> QED BY <1>1, <1>2 DEF RowOK, Live

\* complete_job,
LEMMA CompletedOK ==
    ASSUME NEW row, RowOK(row), row.state = "running"
    PROVE  RowOK(Completed(row))
<1>1. Completed(row) \in Row
  BY Zero, Zenon DEF RowOK, Completed, Row, States
<1>2. Completed(row).state = "done" /\ Completed(row).frame = row.frame
  BY DEF RowOK, Completed, Row
<1> QED BY <1>1, <1>2 DEF RowOK, Live

\* fail_job, which retries only while attempts are left,
LEMMA FailedOK ==
    ASSUME NEW row, RowOK(row), row.state = "running", NEW retry \in BOOLEAN,
           NEW wait \in 0..BackoffCap
    PROVE  RowOK(Failed(row, retry, wait))
<1> DEFINE more == row.attempts + 1
<1>1. row \in Row /\ row.frame \in Frames /\ more \in 0..MaxAttempts /\ more \in Nat
  BY AttemptsAssumption DEF RowOK, Row, Live
<1>2. CASE retry /\ more < MaxAttempts
  <2> DEFINE r == [row EXCEPT !.attempts = more, !.state = "pending", !.wait = wait, !.age = 0]
  <2>1. r \in Row
    BY <1>1, Zero, Zenon DEF Row, States
  <2>2. r.state = "pending" /\ r.frame = row.frame /\ r.attempts = more
    BY <1>1 DEF Row
  <2>3. Failed(row, retry, wait) = r
    BY <1>2 DEF Failed
  <2> QED BY <1>1, <1>2, <2>1, <2>2, <2>3 DEF RowOK
<1>3. CASE ~ (retry /\ more < MaxAttempts)
  <2> DEFINE r == [row EXCEPT !.attempts = more, !.state = "dead", !.age = 0]
  <2>1. r \in Row
    BY <1>1, Zero, Zenon DEF Row, States
  <2>2. r.state = "dead" /\ r.frame = row.frame
    BY <1>1 DEF Row
  <2>3. Failed(row, retry, wait) = r
    BY <1>3 DEF Failed
  <2> QED BY <1>1, <2>1, <2>2, <2>3 DEF RowOK, Live
<1> QED BY <1>2, <1>3

\* the resets of running rows,
LEMMA RequeuedOK ==
    ASSUME NEW row, RowOK(row), row.state = "running"
    PROVE  RowOK(Requeued(row))
<1>1. Requeued(row) \in Row
  BY Zero, Zenon DEF RowOK, Requeued, Row, States
<1>2. /\ Requeued(row).state = "pending"
      /\ Requeued(row).frame = row.frame
      /\ Requeued(row).attempts = row.attempts
  BY DEF RowOK, Requeued, Row
<1> QED BY <1>1, <1>2 DEF RowOK, Live

\* and the passing of time.
LEMMA TickRowOK ==
    ASSUME NEW row, RowOK(row)
    PROVE  RowOK(TickRow(row))
<1> DEFINE wait == IF row.wait > 0 THEN row.wait - 1 ELSE 0
           age == IF row.state = "running" /\ row.age < VisibilityTimeout
                  THEN row.age + 1 ELSE row.age
<1>1. row \in Row
  BY DEF RowOK
<1>2. wait \in 0..BackoffCap /\ age \in 0..VisibilityTimeout
  BY <1>1, TimeAssumption, RowFields
<1>3. TickRow(row) = [row EXCEPT !.wait = wait, !.age = age]
  BY DEF TickRow
<1> HIDE DEF wait, age
<1>4. TickRow(row) \in Row
  BY <1>1, <1>2, <1>3, Zenon DEF Row
<1>5. /\ TickRow(row).state = row.state
      /\ TickRow(row).frame = row.frame
      /\ TickRow(row).attempts = row.attempts
  BY <1>1, <1>3 DEF Row
<1> QED BY <1>4, <1>5 DEF RowOK

\* A table stays well formed when one row, or each row, is replaced by such a row.
LEMMA OneRowReplaced ==
    ASSUME RowsOK, NEW id \in JobIds, NEW row, RowOK(row), jobs' = [jobs EXCEPT ![id] = row]
    PROVE  RowsOK'
BY DEF RowsOK, RowOK

\* The same of the whole table: enqueue_job,
LEMMA EnqueueRows ==
    ASSUME RowsOK, NEW kind \in Kinds, NEW f \in Frames, NEW prio \in Priorities,
           EnqueueJob(kind, f, prio)
    PROVE  RowsOK'
<1>1. PICK id \in JobIds : jobs' = [jobs EXCEPT ![id] = FreshRow(kind, f, prio)]
  BY DEF EnqueueJob
<1> QED BY <1>1, FreshRowOK, OneRowReplaced

\* the reset of all running rows when workers start,
LEMMA ResetAllRows == ASSUME RowsOK, ResetAllRunning PROVE RowsOK'
<1>1. \A id \in JobIds : RowOK(jobs'[id])
  BY RequeuedOK DEF RowsOK, ResetAllRunning
<1> QED BY <1>1 DEF RowsOK, RowOK, ResetAllRunning

\* the sweep's reset,
LEMMA ResetStaleRows == ASSUME RowsOK, ResetStaleRunning PROVE RowsOK'
<1>1. \A id \in JobIds : RowOK(jobs'[id])
  BY RequeuedOK DEF RowsOK, ResetStaleRunning
<1> QED BY <1>1 DEF RowsOK, RowOK, ResetStaleRunning

\* cancel_pending_vision_jobs,
LEMMA CancelRows == ASSUME RowsOK, CancelPendingVision PROVE RowsOK'
<1>1. \A id \in JobIds : RowOK(jobs'[id])
  BY NoRowOK DEF RowsOK, CancelPendingVision
<1> QED BY <1>1 DEF RowsOK, RowOK, CancelPendingVision

\* the cascade of a frame's deletion,
LEMMA DeleteRows == ASSUME RowsOK, NEW f \in Frames, DeleteFrame(f) PROVE RowsOK'
<1>1. \A id \in JobIds : RowOK(jobs'[id])
  BY NoRowOK DEF RowsOK, DeleteFrame
<1> QED BY <1>1 DEF RowsOK, RowOK, DeleteFrame

\* and time.
LEMMA TickRows == ASSUME RowsOK, StoreTick PROVE RowsOK'
<1>1. \A id \in JobIds : RowOK(jobs'[id])
  BY TickRowOK DEF RowsOK, StoreTick
<1> QED BY <1>1 DEF RowsOK, RowOK, StoreTick

\* A table no call touches stays well formed.
LEMMA RowsKept == ASSUME RowsOK, UNCHANGED jobs PROVE RowsOK'
BY DEF RowsOK, RowOK
=============================================================================
