---------------------------- MODULE VisionProofs ----------------------------
(***************************************************************************)
(* Theorems about VisionScheduler, for every set of frames, batch size and *)
(* bound.                                                                  *)
(***************************************************************************)
EXTENDS VisionScheduler, JobQueueProofs

-----------------------------------------------------------------------------
(* Types.  Beside TypeOK: the rows are well formed and a busy worker has a  *)
(* frame.                                                                   *)

DataOK ==
    /\ frames \in [Frames -> Contents]
    /\ emb \in [Frames -> {"absent", "old", "current"}]
    /\ vis \subseteq Frames

LanesOK ==
    /\ lane \in [Lanes -> Producer]
    /\ gate \in Lanes \cup {None}
    /\ warm \in BOOLEAN
    /\ sched \in {"running", "stopping", "stopped"}

Job == [pc : {"top", "busy", "final"}, id : JobIds,
        frame : Frames \cup {NoFrame}, attempts : 0..MaxAttempts,
        outcome : {"complete", "retry", "deadletter"}]

WorkerOK == worker \in Job /\ (worker.pc # "top" => worker.frame \in Frames)

UserOK == away \in BOOLEAN /\ request \in Producer

EventsOK == events \in 0..MaxEvents

TInv == RowsOK /\ DataOK /\ LanesOK /\ WorkerOK /\ UserOK /\ EventsOK

\* The invariant has the types in it.
LEMMA TInvTypes == TInv => TypeOK
BY DEF TInv, TypeOK, StoreTypeOK, RowsOK, DataOK, LanesOK, WorkerOK, Job, UserOK, EventsOK

\* Each part is kept by what leaves its variables alone: frames and results,
LEMMA DataKept == ASSUME DataOK, UNCHANGED <<frames, emb, vis>> PROVE DataOK'
BY DEF DataOK

\* the lanes,
LEMMA LanesKept == ASSUME LanesOK, UNCHANGED schedVars PROVE LanesOK'
BY DEF LanesOK, schedVars

\* the worker,
LEMMA WorkerKept == ASSUME WorkerOK, UNCHANGED worker PROVE WorkerOK'
BY DEF WorkerOK

\* the requests,
LEMMA UserKept == ASSUME UserOK, UNCHANGED <<away, request>> PROVE UserOK'
BY DEF UserOK

\* the events, also when one more happens,
LEMMA EventsKept == ASSUME EventsOK, UNCHANGED events \/ Event PROVE EventsOK'
BY BatchAssumption DEF EventsOK, Event

\* and the store.
LEMMA StoreKept == ASSUME RowsOK, DataOK, UNCHANGED storeVars PROVE RowsOK' /\ DataOK'
BY RowsKept, DataKept DEF storeVars

\* as have a call at rest and a client not yet spawned.
LEMMA RestingOK ==
    ASSUME NEW pc \in {"sleep", "count", "gate", "list", "enqueue", "off"}
    PROVE  Resting(pc) \in Producer /\ Resting(pc).pc = pc /\ Resting(pc).ids = {}
BY DEF Resting, Producer

\* and so is one that has listed untagged frames,
LEMMA ListedOK ==
    ASSUME NEW limit
    PROVE  /\ Listed(limit) \in Producer /\ Listed(limit).pc = "enqueue"
           /\ Listed(limit).ids \subseteq Untagged
BY DEF Listed, Oldest, Untagged, Producer

\* or has enqueued one of them.
LEMMA FewerOK ==
    ASSUME NEW p \in Producer, NEW f
    PROVE  LET q == [p EXCEPT !.ids = p.ids \ {f}]
           IN q \in Producer /\ q.pc = p.pc /\ q.ids = p.ids \ {f}
BY DEF Producer

\* A lane's step moves that lane only.
LEMMA LaneGoesOK ==
    ASSUME LanesOK, NEW l \in Lanes, NEW to \in Producer, LaneGoes(l, to)
    PROVE  /\ lane' \in [Lanes -> Producer]
           /\ lane'[l] = to
           /\ \A k \in Lanes : k # l => lane'[k] = lane[k]
BY DEF LanesOK, LaneGoes

\* The priorities in use, and the kind, are of the table's types.
LEMMA NumbersOK == {0, OnDemandPriority} \subseteq Priorities /\ "vision_tag" \in Kinds
BY DEF OnDemandPriority, Priorities, Kinds

\* Enqueueing the next frame of a list keeps the table well-formed.
LEMMA EnqueueNextOK ==
    ASSUME TInv, NEW ids \in SUBSET Frames, NEW f \in ids,
           NEW prio \in {0, OnDemandPriority}, EnqueueNext(ids, f, prio)
    PROVE  RowsOK' /\ DataOK' /\ EventsOK'
<1>1. DataOK' /\ EventsOK'
  BY DataKept, EventsKept DEF EnqueueNext, TInv
<1>2. RowsOK'
  <2>1. CASE EnqueueJob("vision_tag", f, prio)
    BY <2>1, EnqueueRows, NumbersOK DEF TInv
  <2>2. CASE UNCHANGED jobs
    BY <2>2, RowsKept DEF TInv
  <2> QED BY <2>1, <2>2 DEF EnqueueNext
<1> QED BY <1>1, <1>2

\* The types hold at the start,
LEMMA TypeInit == Init => TInv
<1> SUFFICES ASSUME Init PROVE TInv
  OBVIOUS
<1>1. RowsOK
  BY NoRowOK DEF Init, RowsOK, RowOK
<1>2. DataOK
  BY FramesAssumption DEF Init, DataOK, Contents
<1>3. LanesOK
  BY RestingOK DEF Init, LanesOK
<1>4. WorkerOK
  BY Zero, JobIdAssumption DEF Init, WorkerOK, Job, JobIds
<1>5. UserOK
  <2>1. away \in BOOLEAN
    BY Zenon DEF Init
  <2>2. request \in Producer
    BY RestingOK DEF Init
  <2> QED BY <2>1, <2>2 DEF UserOK
<1>6. EventsOK
  BY BatchAssumption DEF Init, EventsOK
<1> QED BY <1>1, <1>2, <1>3, <1>4, <1>5, <1>6 DEF TInv

\* through the steps of the lanes,
LEMMA LaneTypeStep ==
    ASSUME TInv, NEW l \in Lanes,
           LaneStep(l) \/ TimerWakes \/ IdleDeclines \/ IdleWakes
             \/ IdleFindsQueueFull \/ IdleFindsQueueLow
    PROVE  TInv'
<1>0. RowsOK /\ DataOK /\ LanesOK /\ WorkerOK /\ UserOK /\ EventsOK /\ lane[l] \in Producer
  BY DEF TInv, LanesOK
<1>1. WorkerOK' /\ UserOK'
  <2>1. UNCHANGED <<away, request, worker>>
    BY DEF LaneStep, LaneStops, LaneLocks, LaneLists, LaneListFails, LaneEnqueues, LaneReturns,
           TimerWakes, IdleDeclines, IdleWakes, IdleFindsQueueFull, IdleFindsQueueLow
  <2> QED BY <1>0, <2>1, WorkerKept, UserKept
<1>2. RowsOK' /\ DataOK' /\ EventsOK'
  <2>1. CASE LaneEnqueues(l)
    <3>1. PICK f \in lane[l].ids : EnqueueNext(lane[l].ids, f, 0)
      BY <2>1 DEF LaneEnqueues
    <3>2. lane[l].ids \in SUBSET Frames
      BY <1>0 DEF Producer
    <3> QED BY <3>1, <3>2, EnqueueNextOK
  <2>2. CASE ~ LaneEnqueues(l)
    <3>1. UNCHANGED storeVars /\ (UNCHANGED events \/ Event)
      BY <2>2 DEF LaneStep, LaneStops, LaneLocks, LaneLists, LaneListFails, LaneReturns,
             TimerWakes, IdleDeclines, IdleWakes, IdleFindsQueueFull, IdleFindsQueueLow
    <3> QED BY <1>0, <3>1, StoreKept, EventsKept
  <2> QED BY <2>1, <2>2
<1>3. LanesOK'
  <2>1. lane' \in [Lanes -> Producer]
    <3>1. ASSUME NEW k \in Lanes, NEW to \in Producer, LaneGoes(k, to) PROVE lane' \in [Lanes -> Producer]
      BY <1>0, <3>1 DEF LaneGoes, LanesOK
    <3>2. \A pc \in {"sleep", "count", "gate", "list", "off"} : Resting(pc) \in Producer
      BY RestingOK
    <3>3. Listed(Batch) \in Producer
      BY ListedOK
    <3>4. \A f : [lane[l] EXCEPT !.ids = lane[l].ids \ {f}] \in Producer
      BY <1>0, FewerOK
    <3>5. CASE LaneEnqueues(l)
      BY <3>1, <3>4, <3>5 DEF LaneEnqueues
    <3>6. CASE LaneStops(l) \/ LaneLocks(l) \/ LaneLists(l) \/ LaneListFails(l) \/ LaneReturns(l)
      BY <3>1, <3>2, <3>3, <3>6 DEF LaneStops, LaneLocks, LaneLists, LaneListFails, LaneReturns
    <3>7. CASE TimerWakes \/ IdleDeclines \/ IdleWakes \/ IdleFindsQueueFull \/ IdleFindsQueueLow
      BY <1>0, <3>1, <3>2, <3>7
         DEF TimerWakes, IdleDeclines, IdleWakes, IdleFindsQueueFull, IdleFindsQueueLow, Lanes, LanesOK
    <3> QED BY <3>5, <3>6, <3>7 DEF LaneStep
  <2>2. gate' \in Lanes \cup {None} /\ UNCHANGED sched
    BY <1>0 DEF LaneStep, LaneStops, LaneLocks, LaneLists, LaneListFails, LaneEnqueues, LaneReturns,
           TimerWakes, IdleDeclines, IdleWakes, IdleFindsQueueFull, IdleFindsQueueLow, LanesOK
  <2>3. warm' \in BOOLEAN
    <3>1. lane[l].found \in BOOLEAN /\ warm \in BOOLEAN
      BY <1>0 DEF Producer, LanesOK
    <3> QED BY <3>1, Zenon
      DEF LaneStep, LaneStops, LaneLocks, LaneLists, LaneListFails, LaneEnqueues, LaneReturns,
          TimerWakes, IdleDeclines, IdleWakes, IdleFindsQueueFull, IdleFindsQueueLow
  <2> QED BY <1>0, <2>1, <2>2, <2>3 DEF LanesOK
<1> QED BY <1>1, <1>2, <1>3 DEF TInv

\* of the user, the requests and time,
LEMMA UserTypeStep ==
    ASSUME TInv, UserStep \/ RequestStep \/ StopReturns \/ Capture \/ Tick
    PROVE  TInv'
<1>0. RowsOK /\ DataOK /\ LanesOK /\ WorkerOK /\ UserOK /\ EventsOK
  BY DEF TInv
<1>1. ASSUME StopSignals \/ StopReturns PROVE TInv'
  <2>1. UNCHANGED <<storeVars, lane, gate, warm, away, request, worker, events>>
    BY <1>1 DEF StopSignals, StopReturns
  <2>2. LanesOK'
    BY <1>0, <1>1 DEF LanesOK, StopSignals, StopReturns
  <2> QED BY <1>0, <2>1, <2>2, StoreKept, WorkerKept, UserKept, EventsKept DEF TInv
<1>2. ASSUME TagFrame PROVE TInv'
  <2>1. RowsOK'
    BY <1>0, <1>2, EnqueueRows, NumbersOK DEF TagFrame
  <2>2. Event /\ UNCHANGED <<frames, emb, vis, schedVars, away, request, worker>>
    BY <1>2 DEF TagFrame
  <2> QED BY <1>0, <2>1, <2>2, DataKept, LanesKept, WorkerKept, UserKept, EventsKept DEF TInv
<1>3. ASSUME TagRange PROVE TInv'
  <2>1. Event /\ UNCHANGED <<storeVars, schedVars, away, worker>>
    BY <1>3 DEF TagRange
  <2>2. UserOK'
    BY <1>0, <1>3, ListedOK DEF TagRange, UserOK
  <2> QED BY <1>0, <2>1, <2>2, StoreKept, LanesKept, WorkerKept, EventsKept DEF TInv
<1>4. ASSUME RequestEnqueues PROVE TInv'
  <2>1. PICK f \in request.ids :
          /\ EnqueueNext(request.ids, f, OnDemandPriority)
          /\ request' = [request EXCEPT !.ids = request.ids \ {f}]
    BY <1>4 DEF RequestEnqueues
  <2>2. request.ids \in SUBSET Frames /\ request \in Producer
    BY <1>0 DEF UserOK, Producer
  <2>3. RowsOK' /\ DataOK' /\ EventsOK'
    BY <2>1, <2>2, EnqueueNextOK
  <2>4. request' \in Producer /\ UNCHANGED <<schedVars, away, worker>>
    BY <1>4, <2>1, <2>2, FewerOK DEF RequestEnqueues
  <2>5. UserOK'
    BY <1>0, <2>4 DEF UserOK
  <2> QED BY <1>0, <2>3, <2>4, <2>5, LanesKept, WorkerKept DEF TInv
<1>5. ASSUME RequestReturns PROVE TInv'
  <2>1. UNCHANGED <<storeVars, schedVars, away, worker, events>>
    BY <1>5 DEF RequestReturns
  <2>2. UserOK'
    BY <1>0, <1>5, RestingOK DEF RequestReturns, UserOK
  <2> QED BY <1>0, <2>1, <2>2, StoreKept, LanesKept, WorkerKept, EventsKept DEF TInv
<1>6. ASSUME CancelVision PROVE TInv'
  <2>1. RowsOK'
    BY <1>0, <1>6, CancelRows DEF CancelVision
  <2>2. Event /\ UNCHANGED <<frames, emb, vis, schedVars, away, request, worker>>
    BY <1>6 DEF CancelVision
  <2> QED BY <1>0, <2>1, <2>2, DataKept, LanesKept, WorkerKept, UserKept, EventsKept DEF TInv
<1>7. ASSUME PurgeFrame PROVE TInv'
  <2>1. PICK f \in Frames : DeleteFrame(f)
    BY <1>7 DEF PurgeFrame
  <2>2. RowsOK'
    BY <1>0, <2>1, DeleteRows
  <2>3. DataOK'
    BY <1>0, <2>1 DEF DataOK, DeleteFrame, Contents
  <2>4. Event /\ UNCHANGED <<schedVars, away, request, worker>>
    BY <1>7 DEF PurgeFrame
  <2> QED BY <1>0, <2>2, <2>3, <2>4, LanesKept, WorkerKept, UserKept, EventsKept DEF TInv
<1>8. ASSUME UserMoves PROVE TInv'
  <2>1. UNCHANGED <<storeVars, schedVars, request, worker, events>>
    BY <1>8 DEF UserMoves
  <2>2. away' \in BOOLEAN
    BY <1>0, <1>8, Zenon DEF UserMoves, UserOK
  <2>3. UserOK'
    BY <1>0, <2>1, <2>2 DEF UserOK
  <2> QED BY <1>0, <2>1, <2>3, StoreKept, LanesKept, WorkerKept, EventsKept DEF TInv
<1>9. ASSUME Capture PROVE TInv'
  <2>1. Event /\ UNCHANGED <<jobs, emb, vis, schedVars, away, request, worker>>
    BY <1>9 DEF Capture
  <2>2. DataOK'
    BY <1>0, <1>9 DEF Capture, DataOK, Contents
  <2> QED BY <1>0, <2>1, <2>2, RowsKept, LanesKept, WorkerKept, UserKept, EventsKept DEF TInv
<1>10. ASSUME Tick PROVE TInv'
  <2>1. RowsOK' /\ UNCHANGED <<frames, emb, vis>>
    BY <1>0, <1>10, TickRows DEF Tick, StoreTick
  <2>2. UNCHANGED <<schedVars, away, request, worker, events>>
    BY <1>10 DEF Tick
  <2> QED BY <1>0, <2>1, <2>2, DataKept, LanesKept, WorkerKept, UserKept, EventsKept DEF TInv
<1> QED BY <1>1, <1>2, <1>3, <1>4, <1>5, <1>6, <1>7, <1>8, <1>9, <1>10 DEF UserStep, RequestStep

\* and of the worker;
LEMMA WorkerTypeStep == ASSUME TInv, WorkerStep PROVE TInv'
<1>0. RowsOK /\ DataOK /\ LanesOK /\ WorkerOK /\ UserOK /\ EventsOK /\ worker \in Job
  BY DEF TInv, WorkerOK
<1>1. LanesOK' /\ UserOK' /\ EventsOK'
  <2>1. UNCHANGED <<schedVars, away, request, events>>
    BY DEF WorkerStep, WorkerClaims, WorkerRuns, WorkerFinalizes
  <2> QED BY <1>0, <2>1, LanesKept, UserKept, EventsKept
<1>2. ASSUME WorkerClaims PROVE TInv'
  <2>1. PICK id \in JobIds :
          /\ ClaimJob(id, {"vision_tag"})
          /\ worker' = [pc |-> "busy", id |-> id, frame |-> jobs[id].frame,
                        attempts |-> jobs[id].attempts, outcome |-> "complete"]
    BY <1>2 DEF WorkerClaims
  <2>2. RowOK(jobs[id]) /\ jobs[id].state = "pending" /\ jobs' = [jobs EXCEPT ![id] = Claimed(jobs[id])]
    BY <1>0, <2>1 DEF RowsOK, ClaimJob, IsNextClaim, Claimable
  <2>3. RowsOK'
    BY <1>0, <2>2, ClaimedOK, OneRowReplaced
  <2>4. jobs[id].frame \in Frames /\ jobs[id].attempts \in 0..MaxAttempts
    BY <2>2, RowFields DEF RowOK
  <2>5. WorkerOK'
    BY <2>1, <2>4 DEF WorkerOK, Job
  <2>6. DataOK'
    BY <1>0, <1>2, DataKept DEF WorkerClaims
  <2> QED BY <1>1, <2>3, <2>5, <2>6 DEF TInv
<1>3. ASSUME WorkerRuns PROVE TInv'
  <2>1. worker.frame \in Frames /\ UNCHANGED <<jobs, frames, emb>>
    BY <1>0, <1>3 DEF WorkerRuns, WorkerOK
  <2>2. DataOK'
    BY <1>0, <1>3, <2>1 DEF DataOK, WorkerRuns, InsertVision
  <2>3. PICK out \in {"complete", "retry", "deadletter"} : WorkerFinds(out)
    BY <1>3 DEF WorkerRuns
  <2>4. WorkerOK'
    BY <1>0, <2>1, <2>3 DEF WorkerOK, WorkerFinds, Job
  <2>5. RowsOK'
    BY <1>0, <2>1, RowsKept
  <2> QED BY <1>1, <2>2, <2>4, <2>5 DEF TInv
<1>4. ASSUME WorkerFinalizes PROVE TInv'
  <2>1. worker.id \in JobIds /\ worker.attempts \in 0..MaxAttempts
    BY <1>0 DEF Job
  <2>2. BackoffTicks(worker.attempts) \in 0..BackoffCap
    BY <2>1, BackoffAssumption, TimeAssumption
  <2>3. RowsOK'
    <3>1. CASE CompleteJob(worker.id)
      BY <1>0, <2>1, <3>1, CompletedOK, OneRowReplaced DEF CompleteJob, RowsOK
    <3>2. CASE FailJob(worker.id, worker.outcome = "retry", BackoffTicks(worker.attempts))
      <4>1. ASSUME NEW retry \in BOOLEAN, NEW wait \in 0..BackoffCap, FailJob(worker.id, retry, wait)
            PROVE  RowsOK'
        BY <1>0, <2>1, <4>1, FailedOK, OneRowReplaced DEF FailJob, RowsOK
      <4> QED BY <3>2, <4>1, <2>2
    <3>3. CASE UNCHANGED jobs
      BY <1>0, <3>3, RowsKept
    <3> QED BY <1>4, <3>1, <3>2, <3>3 DEF WorkerFinalizes
  <2>4. WorkerOK'
    BY <1>0, <1>4 DEF WorkerFinalizes, WorkerOK, Job
  <2>5. DataOK'
    BY <1>0, <1>4, DataKept DEF WorkerFinalizes
  <2> QED BY <1>1, <2>3, <2>4, <2>5 DEF TInv
<1> QED BY <1>2, <1>3, <1>4 DEF WorkerStep

\* together, through every step,
LEMMA TypeStep == ASSUME TInv, [Next]_vars PROVE TInv'
<1>1. CASE Next
  <2>1. ASSUME NEW l \in Lanes, LaneStep(l) PROVE TInv'
    BY <2>1, LaneTypeStep
  <2>2. CASE TimerStep \/ IdleStep
    BY <2>1, <2>2, LaneTypeStep DEF TimerStep, IdleStep, Lanes
  <2> QED BY <1>1, <2>2, UserTypeStep, WorkerTypeStep DEF Next
<1>2. CASE UNCHANGED vars
  <2>1. UNCHANGED <<storeVars, schedVars, away, request, worker, events>>
    BY <1>2 DEF vars
  <2> QED BY <2>1, StoreKept, LanesKept, WorkerKept, UserKept, EventsKept DEF TInv
<1> QED BY <1>1, <1>2

\* and therefore always.
LEMMA TypeAlways == Spec => []TInv
<1> QED BY TypeInit, TypeStep, PTL DEF Spec

\* Every row, lane, request and worker stays in its type, for every batch size
\* and every history of requests, cancellations, deletions and store errors.
THEOREM SchedulerTypes == Spec => []TypeOK
<1> QED BY TypeAlways, TInvTypes, PTL

-----------------------------------------------------------------------------
(* No double queueing.  NoDoubleQueue is not inductive: an enqueue keeps it *)
(* only because the frame was listed without a background job and no other *)
(* lane could enqueue since.  That is the gate, held from the read to the  *)
(* last insert, and what the lane that holds it has listed.                *)

\* A lane between its read and its last insert holds the gate.
GateHeld == \A l \in Lanes : lane[l].pc \in {"list", "enqueue"} => gate = l

\* No frame that a lane still has to enqueue has a background job in flight.
ListedFresh ==
    \A l \in Lanes, id \in JobIds :
        LaneAt(l, "enqueue") /\ Background(id) => jobs[id].frame \notin lane[l].ids

Safe == NoDoubleQueue /\ GateHeld /\ ListedFresh

\* No background job is new, and none is moved to another frame.
NoNewBackground ==
    \A id \in JobIds : Background(id)' => Background(id) /\ jobs'[id].frame = jobs[id].frame

\* What keeps the queue and the lanes' lists apart: no new background job, and no
\* lane with more to enqueue.
LEMMA SafeKept ==
    ASSUME NoDoubleQueue, ListedFresh, NoNewBackground,
           \A l \in Lanes : LaneAt(l, "enqueue")' => LaneAt(l, "enqueue") /\ lane'[l].ids \subseteq lane[l].ids
    PROVE  NoDoubleQueue' /\ ListedFresh'
<1>1. NoDoubleQueue'
  BY DEF NoDoubleQueue, NoNewBackground
<1>2. ListedFresh'
  BY DEF ListedFresh, NoNewBackground
<1> QED BY <1>1, <1>2

\* A table that stays gets no new background job,
LEMMA QueueKept == ASSUME UNCHANGED jobs PROVE NoNewBackground
BY DEF NoNewBackground, Background

\* Replacing one row by one that is not a new background job
LEMMA RowReplaced ==
    ASSUME RowsOK, NEW id \in JobIds, NEW row, jobs' = [jobs EXCEPT ![id] = row],
           row.priority = 0 /\ row.kind = "vision_tag" /\ row.state \in Live
             => Background(id) /\ row.frame = jobs[id].frame
    PROVE  NoNewBackground
BY DEF NoNewBackground, Background, RowsOK

\* nor does one that gets a request's,
LEMMA OnDemandQueue ==
    ASSUME RowsOK, NEW f, EnqueueJob("vision_tag", f, OnDemandPriority)
    PROVE  NoNewBackground
<1>1. PICK id \in JobIds : jobs' = [jobs EXCEPT ![id] = FreshRow("vision_tag", f, OnDemandPriority)]
  BY DEF EnqueueJob
<1>2. FreshRow("vision_tag", f, OnDemandPriority).priority # 0
  BY DEF FreshRow, OnDemandPriority
<1> QED BY <1>1, <1>2, RowReplaced

\* nor by what the worker does,
LEMMA WorkerQueue == ASSUME TInv, WorkerStep PROVE NoNewBackground
<1>0. RowsOK /\ worker.id \in JobIds
  BY DEF TInv, WorkerOK, Job
<1>1. CASE WorkerClaims
  <2>1. PICK id \in JobIds : /\ jobs' = [jobs EXCEPT ![id] = Claimed(jobs[id])]
                             /\ jobs[id].state = "pending"
    BY <1>1 DEF WorkerClaims, ClaimJob, IsNextClaim, Claimable
  <2>2. LET r == Claimed(jobs[id])
        IN r.kind = jobs[id].kind /\ r.priority = jobs[id].priority /\ r.frame = jobs[id].frame
    BY <1>0 DEF Claimed, RowsOK, Row
  <2> QED BY <1>0, <2>1, <2>2, RowReplaced DEF Background, Live
<1>2. CASE WorkerRuns
  BY <1>2, QueueKept DEF WorkerRuns
<1>3. CASE WorkerFinalizes
  <2>1. CASE CompleteJob(worker.id)
    <3>1. Completed(jobs[worker.id]).state = "done"
      BY <1>0 DEF Completed, RowsOK, Row
    <3> QED BY <1>0, <2>1, <3>1, RowReplaced DEF CompleteJob, Live
  <2>2. CASE FailJob(worker.id, worker.outcome = "retry", BackoffTicks(worker.attempts))
    <3> DEFINE r == Failed(jobs[worker.id], worker.outcome = "retry", BackoffTicks(worker.attempts))
    <3>1. /\ r.kind = jobs[worker.id].kind /\ r.priority = jobs[worker.id].priority
          /\ r.frame = jobs[worker.id].frame
      BY <1>0 DEF Failed, RowsOK, Row
    <3>2. jobs[worker.id].state = "running" /\ jobs' = [jobs EXCEPT ![worker.id] = r]
      BY <2>2 DEF FailJob
    <3> HIDE DEF r
    <3> QED BY <1>0, <3>1, <3>2, RowReplaced DEF Background, Live
  <2>3. CASE UNCHANGED jobs
    BY <2>3, QueueKept
  <2> QED BY <1>3, <2>1, <2>2, <2>3 DEF WorkerFinalizes
<1> QED BY <1>1, <1>2, <1>3 DEF WorkerStep

\* nor by the user, the requests and time.
LEMMA UserQueue ==
    ASSUME TInv, UserStep \/ RequestStep \/ StopReturns \/ Capture \/ Tick
    PROVE  NoNewBackground
<1>0. RowsOK
  BY DEF TInv
<1>1. CASE TagFrame
  BY <1>0, <1>1, OnDemandQueue DEF TagFrame
<1>2. CASE RequestEnqueues
  <2>1. PICK f \in request.ids : EnqueueNext(request.ids, f, OnDemandPriority)
    BY <1>2 DEF RequestEnqueues
  <2> QED BY <1>0, <2>1, OnDemandQueue, QueueKept DEF EnqueueNext
<1>3. CASE CancelVision
  <2>1. \A id \in JobIds : jobs'[id] = NoRow \/ jobs'[id] = jobs[id]
    BY <1>3 DEF CancelVision, CancelPendingVision
  <2> QED BY <2>1 DEF NoNewBackground, Background, NoRow, Live
<1>4. CASE PurgeFrame
  <2>1. \A id \in JobIds : jobs'[id] = NoRow \/ jobs'[id] = jobs[id]
    BY <1>4 DEF PurgeFrame, DeleteFrame
  <2> QED BY <2>1 DEF NoNewBackground, Background, NoRow, Live
<1>5. CASE Tick
  <2>1. ASSUME NEW id \in JobIds
        PROVE  /\ jobs'[id].kind = jobs[id].kind /\ jobs'[id].priority = jobs[id].priority
               /\ jobs'[id].frame = jobs[id].frame /\ jobs'[id].state = jobs[id].state
    BY ZenonT(40), <1>0, <1>5 DEF Tick, StoreTick, TickRow, RowsOK, Row
  <2> QED BY <2>1 DEF NoNewBackground, Background
<1>6. CASE UNCHANGED jobs
  BY <1>6, QueueKept
<1> QED BY <1>1, <1>2, <1>3, <1>4, <1>5, <1>6
  DEF UserStep, RequestStep, StopSignals, TagRange, UserMoves, RequestReturns, StopReturns,
      Capture, storeVars

\* So none but a lane disturbs what a lane has listed;
LEMMA OthersSafe ==
    ASSUME TInv, Safe, UserStep \/ RequestStep \/ StopReturns \/ Capture \/ Tick \/ WorkerStep
    PROVE  Safe'
<1>1. UNCHANGED <<lane, gate>>
  BY DEF UserStep, RequestStep, WorkerStep, StopSignals, TagFrame, TagRange, CancelVision,
         PurgeFrame, UserMoves, RequestEnqueues, RequestReturns, StopReturns, Capture, Tick,
         WorkerClaims, WorkerRuns, WorkerFinalizes, schedVars
<1>2. GateHeld'
  BY <1>1 DEF Safe, GateHeld
<1>3. NoDoubleQueue' /\ ListedFresh'
  BY <1>1, SafeKept, UserQueue, WorkerQueue DEF Safe, LaneAt
<1> QED BY <1>2, <1>3 DEF Safe

\* A lane that leaves the queue alone and has not just listed
LEMMA LaneMovesSafe ==
    ASSUME LanesOK, Safe, UNCHANGED jobs, NEW l \in Lanes, NEW to \in Producer,
           LaneGoes(l, to), to.pc # "enqueue",
           to.pc = "list" => gate = None /\ gate' = l,
           to.pc # "list" => gate' = gate \/ (gate = l /\ gate' = None)
    PROVE  Safe'
<1>1. lane'[l] = to /\ \A k \in Lanes : k # l => lane'[k] = lane[k]
  BY LaneGoesOK
<1>2. GateHeld'
  BY <1>1 DEF Safe, GateHeld, Lanes, None
<1>3. NoDoubleQueue' /\ ListedFresh'
  BY <1>1, SafeKept, QueueKept DEF Safe, LaneAt
<1> QED BY <1>2, <1>3 DEF Safe

\* The insert of a lane that holds the gate: the frame had no background job, the
\* row is new, and no other lane has a list.
LEMMA LaneEnqueuesSafe ==
    ASSUME TInv, Safe, NEW l \in Lanes, LaneEnqueues(l)
    PROVE  Safe'
<1>0. RowsOK /\ LanesOK /\ lane[l] \in Producer /\ LaneAt(l, "enqueue") /\ UNCHANGED gate
  BY DEF TInv, LanesOK, LaneEnqueues
<1>1. PICK f \in lane[l].ids :
        /\ EnqueueNext(lane[l].ids, f, 0)
        /\ LaneGoes(l, [lane[l] EXCEPT !.ids = lane[l].ids \ {f}])
  BY DEF LaneEnqueues
<1>2. /\ lane'[l].pc = "enqueue" /\ lane'[l].ids = lane[l].ids \ {f}
      /\ \A k \in Lanes : k # l => lane'[k] = lane[k]
  <2> DEFINE q == [lane[l] EXCEPT !.ids = lane[l].ids \ {f}]
  <2>1. q \in Producer /\ q.pc = "enqueue" /\ q.ids = lane[l].ids \ {f}
    BY <1>0, FewerOK DEF LaneAt
  <2>2. LaneGoes(l, q)
    BY <1>1
  <2> HIDE DEF q
  <2> QED BY <1>0, <2>1, <2>2, LaneGoesOK
<1>3. GateHeld'
  BY <1>0, <1>2 DEF Safe, GateHeld, LaneAt
<1>4. CASE UNCHANGED jobs
  <2>1. NoDoubleQueue' /\ ListedFresh'
    BY <1>0, <1>2, <1>4, SafeKept, QueueKept DEF Safe, LaneAt
  <2> QED BY <1>3, <2>1 DEF Safe
<1>5. CASE EnqueueJob("vision_tag", f, 0)
  <2>1. PICK id \in JobIds : jobs' = [jobs EXCEPT ![id] = FreshRow("vision_tag", f, 0)]
    BY <1>5 DEF EnqueueJob
  <2>2. jobs'[id].frame = f /\ \A k \in JobIds : k # id => jobs'[k] = jobs[k]
    BY <1>0, <2>1 DEF FreshRow, RowsOK
  <2>3. \A k \in JobIds : k # id /\ Background(k)' => Background(k) /\ jobs[k].frame # f
    BY <1>0, <1>1, <2>2 DEF Background, Safe, ListedFresh
  <2>4. NoDoubleQueue'
    BY <2>2, <2>3 DEF NoDoubleQueue, Safe
  <2>5. \A k \in Lanes : LaneAt(k, "enqueue")' => k = l
    BY <1>0, <1>2 DEF Safe, GateHeld, LaneAt
  <2>6. ListedFresh'
    <3> SUFFICES ASSUME NEW k \in JobIds, Background(k)'
                 PROVE  jobs'[k].frame \notin lane'[l].ids
      BY <2>5 DEF ListedFresh
    <3>1. CASE k = id
      BY <1>2, <2>2, <3>1
    <3>2. CASE k # id
      BY <1>0, <1>2, <2>2, <2>3, <3>2 DEF Safe, ListedFresh
    <3> QED BY <3>1, <3>2
  <2> QED BY <1>3, <2>4, <2>6 DEF Safe
<1> QED BY <1>1, <1>4, <1>5 DEF EnqueueNext

\* The read under the gate lists only frames without a job in flight.
LEMMA LaneListsSafe ==
    ASSUME TInv, Safe, NEW l \in Lanes, LaneLists(l)
    PROVE  Safe'
<1>0. LanesOK /\ LaneAt(l, "list") /\ UNCHANGED <<jobs, gate>>
  BY DEF TInv, LaneLists, storeVars
<1>1. /\ lane'[l] = Listed(Batch) /\ lane'[l].pc = "enqueue" /\ lane'[l].ids \subseteq Untagged
      /\ \A k \in Lanes : k # l => lane'[k] = lane[k]
  BY <1>0, ListedOK, LaneGoesOK DEF LaneLists
<1>2. GateHeld'
  BY <1>0, <1>1 DEF Safe, GateHeld, LaneAt
<1>3. NoDoubleQueue'
  BY <1>0 DEF Safe, NoDoubleQueue, Background
<1>4. \A id \in JobIds : Background(id) => jobs[id].frame \notin Untagged
  BY DEF Background, Untagged
<1>5. ListedFresh'
  BY <1>0, <1>1, <1>4 DEF Safe, ListedFresh, LaneAt, Background
<1> QED BY <1>2, <1>3, <1>5 DEF Safe

\* and a lane that lists or enqueues has the gate.
LEMMA LaneSafe ==
    ASSUME TInv, Safe, NEW l \in Lanes,
           LaneStep(l) \/ TimerWakes \/ IdleDeclines \/ IdleWakes
             \/ IdleFindsQueueFull \/ IdleFindsQueueLow
    PROVE  Safe'
<1>0. LanesOK
  BY DEF TInv
<1>1. ASSUME NEW k \in Lanes, NEW to \in {"sleep", "count", "gate", "off"}, UNCHANGED jobs,
             LaneGoes(k, Resting(to)), gate' = gate \/ (gate = k /\ gate' = None)
      PROVE  Safe'
  BY <1>0, <1>1, RestingOK, LaneMovesSafe
<1>2. CASE LaneLocks(l)
  BY <1>0, <1>2, RestingOK, LaneMovesSafe DEF LaneLocks, storeVars
<1>3. CASE LaneStops(l)
  BY <1>1, <1>3 DEF LaneStops, storeVars
<1>4. CASE LaneListFails(l) \/ LaneReturns(l)
  <2>1. gate = l /\ gate' = None
    BY <1>4 DEF LaneListFails, LaneReturns, Safe, GateHeld, LaneAt
  <2> QED BY <1>1, <1>4, <2>1 DEF LaneListFails, LaneReturns, storeVars
<1>5. CASE TimerWakes \/ IdleWakes \/ IdleFindsQueueFull \/ IdleFindsQueueLow
  BY <1>1, <1>5 DEF TimerWakes, IdleWakes, IdleFindsQueueFull, IdleFindsQueueLow, storeVars, Lanes
<1>6. CASE IdleDeclines
  <2>1. UNCHANGED <<jobs, lane, gate>>
    BY <1>6 DEF IdleDeclines, storeVars
  <2> QED BY <2>1, SafeKept, QueueKept DEF Safe, GateHeld, LaneAt
<1> QED BY <1>2, <1>3, <1>4, <1>5, <1>6, LaneEnqueuesSafe, LaneListsSafe DEF LaneStep

\* Safe is inductive, given the types,
LEMMA SafeStep == ASSUME TInv, Safe, [Next]_vars PROVE Safe'
<1>1. CASE TimerStep \/ IdleStep
  BY <1>1, LaneSafe DEF TimerStep, IdleStep, Lanes
<1>2. CASE UserStep \/ RequestStep \/ StopReturns \/ Capture \/ Tick \/ WorkerStep
  BY <1>2, OthersSafe
<1>3. CASE UNCHANGED vars
  <2>1. UNCHANGED <<jobs, lane, gate>>
    BY <1>3 DEF vars, storeVars, schedVars
  <2> QED BY <2>1, SafeKept, QueueKept DEF Safe, GateHeld, LaneAt
<1> QED BY <1>1, <1>2, <1>3 DEF Next

\* and holds at the start.
LEMMA SafeInit == Init => Safe
BY DEF Init, Safe, NoDoubleQueue, GateHeld, ListedFresh, Background, NoRow, Live, Resting, LaneAt

\* For every batch size and number of frames, and whatever the user requests,
\* cancels or deletes meanwhile, the timer and the idle lane never have two
\* vision_tag jobs in flight for one frame (the gate of vision_scheduler::spawn).
THEOREM LanesNeverDoubleQueue == Spec => []NoDoubleQueue
<1>1. Spec => []Safe
  BY TypeAlways, SafeInit, SafeStep, PTL DEF Spec
<1>2. Safe => NoDoubleQueue
  BY DEF Safe
<1> QED BY <1>1, <1>2, PTL

-----------------------------------------------------------------------------
(* Stopping.  The join waits for lanes that are off; off lanes never wake,  *)
(* the idle lane goes off cold, and the gate has no owner but a lane inside *)
(* enqueue_untagged.                                                        *)

Cold ==
    /\ LaneAt("idle", "off") => ~ warm
    /\ gate # None => lane[gate].pc \in {"list", "enqueue"}
    /\ sched = "stopped" => \A l \in Lanes : LaneAt(l, "off")

\* A lane that is not off moves; only the idle lane touches the hint, and it goes
\* off with the hint cleared.
LEMMA LaneMovesCold ==
    ASSUME LanesOK, Cold, UNCHANGED sched, NEW l \in Lanes, NEW to \in Producer,
           LaneGoes(l, to), ~ LaneAt(l, "off"),
           l = "idle" /\ to.pc = "off" => ~ warm',
           l # "idle" => warm' = warm,
           gate' = None \/ (gate' = gate /\ gate # l) \/ (gate' = l /\ to.pc \in {"list", "enqueue"})
    PROVE  Cold'
<1>1. lane'[l] = to /\ \A k \in Lanes : k # l => lane'[k] = lane[k]
  BY LaneGoesOK
<1>2. "idle" \in Lanes /\ gate \in Lanes \cup {None}
  BY DEF LanesOK, Lanes
<1>3. (LaneAt("idle", "off") => ~ warm)'
  BY <1>1, <1>2 DEF Cold, LaneAt
<1>4. (gate # None => lane[gate].pc \in {"list", "enqueue"})'
  BY <1>1, <1>2 DEF Cold
<1>5. sched' # "stopped"
  BY DEF Cold
<1> QED BY <1>3, <1>4, <1>5 DEF Cold

\* The idle lane goes off only with the hint cleared.
LEMMA LaneCold ==
    ASSUME TInv, Safe, Cold, NEW l \in Lanes, LaneStep(l)
    PROVE  Cold'
<1>0. LanesOK /\ lane[l] \in Producer /\ (gate = l => lane[l].pc \in {"list", "enqueue"}) /\ l # None
  BY DEF TInv, LanesOK, Cold, Lanes, None
<1>hint. ASSUME warm' = (warm /\ l # "idle")
         PROVE  (l = "idle" => ~ warm') /\ (l # "idle" => warm' = warm)
  <2>1. warm \in BOOLEAN
    BY <1>0 DEF LanesOK
  <2> QED BY <1>hint, <2>1, Zenon
<1>1. CASE LaneStops(l)
  <2>1. (l = "idle" => ~ warm') /\ (l # "idle" => warm' = warm)
    BY <1>1, <1>hint DEF LaneStops
  <2> QED BY <1>0, <1>1, <2>1, RestingOK, LaneMovesCold DEF LaneStops, LaneAt
<1>2. CASE LaneLocks(l)
  BY <1>0, <1>2, RestingOK, LaneMovesCold DEF LaneLocks, LaneAt
<1>3. CASE LaneLists(l)
  BY <1>0, <1>3, ListedOK, LaneMovesCold DEF LaneLists, LaneAt, Safe, GateHeld
<1>4. CASE LaneListFails(l) \/ LaneReturns(l)
  <2>1. l # "idle" => warm' = warm
    BY <1>4, <1>hint DEF LaneListFails, LaneReturns
  <2>2. /\ lane[l].pc # "off" /\ UNCHANGED sched /\ gate' = None
        /\ LaneGoes(l, Resting("sleep"))
    BY <1>4 DEF LaneListFails, LaneReturns, LaneAt
  <2> QED BY <1>0, <2>1, <2>2, RestingOK, LaneMovesCold DEF LaneAt
<1>5. CASE LaneEnqueues(l)
  <2>1. PICK f \in lane[l].ids : LaneGoes(l, [lane[l] EXCEPT !.ids = lane[l].ids \ {f}])
    BY <1>5 DEF LaneEnqueues
  <2> DEFINE q == [lane[l] EXCEPT !.ids = lane[l].ids \ {f}]
  <2>2. q \in Producer /\ q.pc = lane[l].pc /\ LaneGoes(l, q)
    BY <1>0, <2>1, FewerOK
  <2>3. lane[l].pc = "enqueue" /\ gate = l /\ UNCHANGED <<gate, warm, sched>>
    BY <1>5 DEF LaneEnqueues, LaneAt, Safe, GateHeld
  <2> HIDE DEF q
  <2> QED BY <1>0, <2>2, <2>3, LaneMovesCold DEF LaneAt
<1> QED BY <1>1, <1>2, <1>3, <1>4, <1>5 DEF LaneStep

\* Cold is inductive.
LEMMA ColdStep == ASSUME TInv, Safe, Cold, [Next]_vars PROVE Cold'
<1>0. LanesOK /\ "idle" \in Lanes /\ "timer" \in Lanes
  BY DEF TInv, Lanes
<1>1. ASSUME NEW l \in Lanes, LaneStep(l) PROVE Cold'
  BY <1>1, LaneCold
<1>2. CASE TimerWakes
  BY <1>0, <1>2, RestingOK, LaneMovesCold DEF TimerWakes, LaneAt, Cold, Lanes, LanesOK
<1>3. CASE IdleWakes \/ IdleFindsQueueFull \/ IdleFindsQueueLow
  BY <1>0, <1>3, RestingOK, LaneMovesCold
     DEF IdleWakes, IdleFindsQueueFull, IdleFindsQueueLow, LaneAt, Cold, Lanes, LanesOK
<1>4. CASE IdleDeclines
  BY <1>4 DEF IdleDeclines, Cold, LaneAt
<1>5. CASE StopSignals \/ StopReturns
  BY <1>5 DEF StopSignals, StopReturns, Cold, LaneAt
<1>6. CASE UNCHANGED schedVars
  BY <1>6 DEF schedVars, Cold, LaneAt
<1> QED BY <1>0, <1>1, <1>2, <1>3, <1>4, <1>5, <1>6
  DEF Next, TimerStep, IdleStep, UserStep, RequestStep, WorkerStep, TagFrame, TagRange,
      CancelVision, PurgeFrame, UserMoves, RequestEnqueues, RequestReturns, Capture, Tick,
      WorkerClaims, WorkerRuns, WorkerFinalizes, vars

\* Once stop() has returned, the loops are over, nothing holds the gate and the
\* keep-warm hint is off: the sidecar is not left pinned (SchedulerHandle::stop).
THEOREM StopLeavesItCold == Spec => []StoppedIsCold
<1>1. Init => Cold
  BY DEF Init, Cold, LaneAt, Resting, Lanes
<1>2. Spec => []Cold
  BY <1>1, TypeAlways, SafeInit, SafeStep, ColdStep, PTL DEF Spec
<1>3. TInv /\ Cold => StoppedIsCold
  BY DEF TInv, LanesOK, Cold, StoppedIsCold, LaneAt, Lanes
<1> QED BY <1>2, <1>3, TypeAlways, PTL
=============================================================================
