-------------------------- MODULE VisionScheduler --------------------------
(***************************************************************************)
(* The deferred vision producers (crates/kernel/src/vision_scheduler.rs)   *)
(* and the on-demand ones of kernel/src/lib.rs, over the store of          *)
(* JobQueue.  enrich.embed_text is off here: vision_tag rows are the only  *)
(* ones in the queue.                                                      *)
(*                                                                         *)
(* The timer and the idle loop are the two lanes.  A lane is at            *)
(*   sleep    in wait_or_stop                                              *)
(*   count    (idle lane) idle, pending_vision_job_count not yet read      *)
(*   gate     waiting for the gate                                         *)
(*   list     holding the gate, untagged_frame_ids not yet executed        *)
(*   enqueue  holding the gate, `ids` still to be enqueued                 *)
(*   off      its loop has ended                                           *)
(* A range request of the user is at `list` or `enqueue` too, without ever *)
(* taking the gate.                                                        *)
(***************************************************************************)
EXTENDS JobQueue

CONSTANTS
    Batch,        \* settings.enrich_vision_batch_size, clamped to at least 1
    RangeCap,     \* VISION_RANGE_CAP
    MaxEvents     \* bound: captures, deletions, user requests, store errors

ASSUME BatchAssumption == Batch \in Nat \ {0} /\ RangeCap \in Nat \ {0} /\ MaxEvents \in Nat

VARIABLES
    lane,     \* Lanes -> where the loop is, and what it read
    gate,     \* the lane holding the gate, or None
    warm,     \* keep_warm, and the supervisor's backfill flag it mirrors
    sched,    \* the scheduler handle: "running" | "stopping" | "stopped"
    away,     \* enrich.vision_idle_enabled, and the OS reports the user idle
              \* past the threshold
    request,  \* an enqueue_vision call for a time range
    worker,   \* the worker pool, as one worker: its job and outcome
    events    \* events spent, at most MaxEvents

Lanes == {"timer", "idle"}
None == "none"

schedVars == <<lane, gate, warm, sched>>
vars == <<storeVars, schedVars, away, request, worker, events>>

\* A producer: its place, the frames it still has to enqueue and how many
\* frames its read found (usize, here only whether any).
Producer == [pc : {"sleep", "count", "gate", "list", "enqueue", "off"},
             ids : SUBSET Frames, found : BOOLEAN]

Resting(pc) == [pc |-> pc, ids |-> {}, found |-> FALSE]

Event == events < MaxEvents /\ events' = events + 1

-----------------------------------------------------------------------------
(* What the producers share *)

\* untagged_frame_ids: ORDER BY captured_at LIMIT limit.  Frame ids grow with
\* the capture time.
Oldest(limit) == {f \in Untagged : Cardinality({g \in Untagged : g < f}) < limit}

Listed(limit) == [pc |-> "enqueue", ids |-> Oldest(limit), found |-> Oldest(limit) # {}]

IsNext(f, ids) == f \in ids /\ \A g \in ids : f <= g

\* One turn of the enqueue loop: the job is inserted, or the error (the frame
\* is gone; the store failed) is logged and the loop goes on.
EnqueueNext(ids, f, priority) ==
    /\ IsNext(f, ids)
    /\ \/ /\ EnqueueJob("vision_tag", f, priority)
          /\ UNCHANGED events
       \/ /\ frames[f] = "absent"
          /\ UNCHANGED <<jobs, events>>
       \/ /\ Event
          /\ UNCHANGED jobs
    /\ UNCHANGED <<frames, emb, vis>>

-----------------------------------------------------------------------------
(* timer_loop and idle_loop *)

LaneAt(l, pc) == lane[l].pc = pc

LaneGoes(l, to) == lane' = [lane EXCEPT ![l] = to]

\* Mutant of LaneStops: the keep-warm hint outlives the idle loop.
LaneStopsWarm(l) ==
    /\ LaneAt(l, "sleep")
    /\ sched # "running"
    /\ LaneGoes(l, Resting("off"))
    /\ UNCHANGED <<storeVars, gate, warm, sched, away, request, worker, events>>

\* wait_or_stop reports the stop; the idle loop clears keep-warm on its way out.
LaneStops(l) ==
    /\ LaneAt(l, "sleep")
    /\ sched # "running"
    /\ LaneGoes(l, Resting("off"))
    /\ warm' = (warm /\ l # "idle")
    /\ UNCHANGED <<storeVars, gate, sched, away, request, worker, events>>

\* The timer's wait is over and the settings, read again, have it enabled.  With
\* the timer disabled the loop only goes back to sleep.
TimerWakes ==
    /\ LaneAt("timer", "sleep")
    /\ sched = "running"
    /\ LaneGoes("timer", Resting("gate"))
    /\ UNCHANGED <<storeVars, gate, warm, sched, away, request, worker, events>>

\* The idle loop's poll while the trigger is off or the user is at work.
IdleDeclines ==
    /\ LaneAt("idle", "sleep")
    /\ sched = "running"
    /\ ~ away
    /\ warm' = FALSE
    /\ UNCHANGED <<storeVars, lane, gate, sched, away, request, worker, events>>

IdleWakes ==
    /\ LaneAt("idle", "sleep")
    /\ sched = "running"
    /\ away
    /\ LaneGoes("idle", Resting("count"))
    /\ UNCHANGED <<storeVars, gate, warm, sched, away, request, worker, events>>

\* Mutant of Watermark: without the floor a batch below 4 gives 0.
WatermarkWithoutFloor == Batch \div 4

Watermark == IF Batch \div 4 > 1 THEN Batch \div 4 ELSE 1

\* pending_vision_job_count at the watermark or above: only keep the model warm.
IdleFindsQueueFull ==
    /\ LaneAt("idle", "count")
    /\ PendingVisionJobCount >= Watermark
    /\ warm' = TRUE
    /\ LaneGoes("idle", Resting("sleep"))
    /\ UNCHANGED <<storeVars, gate, sched, away, request, worker, events>>

\* ... below it, or unreadable, which counts as 0: top the queue up.
IdleFindsQueueLow ==
    /\ LaneAt("idle", "count")
    /\ \/ PendingVisionJobCount < Watermark /\ UNCHANGED events
       \/ Event
    /\ LaneGoes("idle", Resting("gate"))
    /\ UNCHANGED <<storeVars, gate, warm, sched, away, request, worker>>

\* enqueue_untagged, taking the gate
LaneLocks(l) ==
    /\ LaneAt(l, "gate")
    /\ gate = None
    /\ gate' = l
    /\ LaneGoes(l, Resting("list"))
    /\ UNCHANGED <<storeVars, warm, sched, away, request, worker, events>>

\* Mutant of LaneLists: the gate is held for the read only.
LaneListsAndUnlocks(l) ==
    /\ LaneAt(l, "list")
    /\ LaneGoes(l, Listed(Batch))
    /\ gate' = None
    /\ UNCHANGED <<storeVars, warm, sched, away, request, worker, events>>

LaneLists(l) ==
    /\ LaneAt(l, "list")
    /\ LaneGoes(l, Listed(Batch))
    /\ UNCHANGED <<storeVars, gate, warm, sched, away, request, worker, events>>

\* untagged_frame_ids failed: 0 frames found, the gate is released.
LaneListFails(l) ==
    /\ LaneAt(l, "list")
    /\ Event
    /\ LaneGoes(l, Resting("sleep"))
    /\ gate' = None
    /\ warm' = (warm /\ l # "idle")
    /\ UNCHANGED <<storeVars, sched, away, request, worker>>

LaneEnqueues(l) ==
    /\ LaneAt(l, "enqueue")
    /\ \E f \in lane[l].ids :
          /\ EnqueueNext(lane[l].ids, f, 0)
          /\ LaneGoes(l, [lane[l] EXCEPT !.ids = lane[l].ids \ {f}])
    /\ UNCHANGED <<gate, warm, sched, away, request, worker>>

\* Mutant of LaneReturns: an empty backlog keeps the model warm too.
LaneReturnsWarm(l) ==
    /\ LaneAt(l, "enqueue")
    /\ lane[l].ids = {}
    /\ LaneGoes(l, Resting("sleep"))
    /\ gate' = None
    /\ warm' = (warm \/ l = "idle")
    /\ UNCHANGED <<storeVars, sched, away, request, worker, events>>

\* enqueue_untagged returns: the gate is released, and the idle loop keeps the
\* model warm exactly if it found a backlog.
LaneReturns(l) ==
    /\ LaneAt(l, "enqueue")
    /\ lane[l].ids = {}
    /\ LaneGoes(l, Resting("sleep"))
    /\ gate' = None
    /\ warm' = IF l = "idle" THEN lane[l].found ELSE warm
    /\ UNCHANGED <<storeVars, sched, away, request, worker, events>>

-----------------------------------------------------------------------------
(* stop_vision_scheduler: signal, then join both loops *)

StopSignals ==
    /\ sched = "running"
    /\ sched' = "stopping"
    /\ UNCHANGED <<storeVars, lane, gate, warm, away, request, worker, events>>

StopReturns ==
    /\ sched = "stopping"
    /\ \A l \in Lanes : LaneAt(l, "off")
    /\ sched' = "stopped"
    /\ UNCHANGED <<storeVars, lane, gate, warm, away, request, worker, events>>

-----------------------------------------------------------------------------
(* The user's requests: enqueue_vision and cancel_vision *)

OnDemandPriority == 10

\* VisionTarget::Frame: always (re)tagged.
TagFrame ==
    /\ Event
    /\ \E f \in Frames : EnqueueJob("vision_tag", f, OnDemandPriority)
    /\ UNCHANGED <<frames, emb, vis, schedVars, away, request, worker>>

\* VisionTarget::Range, here any range that holds all frames
TagRange ==
    /\ request.pc = "off"
    /\ Event
    /\ request' = Listed(RangeCap)
    /\ UNCHANGED <<storeVars, schedVars, away, worker>>

RequestEnqueues ==
    /\ request.pc = "enqueue"
    /\ \E f \in request.ids :
          /\ EnqueueNext(request.ids, f, OnDemandPriority)
          /\ request' = [request EXCEPT !.ids = request.ids \ {f}]
    /\ UNCHANGED <<schedVars, away, worker>>

RequestReturns ==
    /\ request.pc = "enqueue"
    /\ request.ids = {}
    /\ request' = Resting("off")
    /\ UNCHANGED <<storeVars, schedVars, away, worker, events>>

CancelVision ==
    /\ Event
    /\ CancelPendingVision
    /\ UNCHANGED <<frames, emb, vis, schedVars, away, request, worker>>

-----------------------------------------------------------------------------
(* The rest of the program, as this part sees it *)

\* The worker pool of EnrichmentWorkers, cut down to one worker.
WorkerClaims ==
    /\ worker.pc = "top"
    /\ \E id \in JobIds :
          /\ ClaimJob(id, {"vision_tag"})
          /\ worker' = [pc |-> "busy", id |-> id, frame |-> jobs[id].frame,
                        attempts |-> jobs[id].attempts, outcome |-> "complete"]
    /\ UNCHANGED <<frames, emb, vis, schedVars, away, request, events>>

WorkerFinds(outcome) == worker' = [worker EXCEPT !.pc = "final", !.outcome = outcome]

\* vision_tag_outcome: analysed and stored; the frame purged; a retryable error;
\* an image file that is gone.
WorkerRuns ==
    /\ worker.pc = "busy"
    /\ \/ InsertVision(worker.frame) /\ WorkerFinds("complete")
       \/ frames[worker.frame] = "absent" /\ WorkerFinds("complete") /\ UNCHANGED vis
       \/ WorkerFinds("retry") /\ UNCHANGED vis
       \/ frames[worker.frame] # "absent" /\ WorkerFinds("deadletter") /\ UNCHANGED vis
    /\ UNCHANGED <<jobs, frames, emb, schedVars, away, request, events>>

\* process_job_with_providers: complete_job or fail_job, a no-op when the row
\* went with its frame.
WorkerFinalizes ==
    /\ worker.pc = "final"
    /\ \/ worker.outcome = "complete" /\ CompleteJob(worker.id)
       \/ worker.outcome # "complete" /\ FailJob(worker.id, worker.outcome = "retry",
                                                 BackoffTicks(worker.attempts))
       \/ jobs[worker.id].state # "running" /\ UNCHANGED jobs
    /\ worker' = [worker EXCEPT !.pc = "top"]
    /\ UNCHANGED <<frames, emb, vis, schedVars, away, request, events>>

\* `id INTEGER PRIMARY KEY` of frames, as IsNextRowid
Capture ==
    /\ Event
    /\ \E f \in Frames :
          /\ \A g \in Frames : frames[g] = "absent" <=> g >= f
          /\ frames' = [frames EXCEPT ![f] = "current"]
    /\ UNCHANGED <<jobs, emb, vis, schedVars, away, request, worker>>

PurgeFrame ==
    /\ Event
    /\ \E f \in Frames : DeleteFrame(f)
    /\ UNCHANGED <<schedVars, away, request, worker>>

\* The user leaves or comes back, or saves the idle trigger's setting.
UserMoves ==
    /\ away' = ~ away
    /\ UNCHANGED <<storeVars, schedVars, request, worker, events>>

\* Of the clock only a row in backoff is aware: this module has no sweep.
Tick ==
    /\ \E id \in JobIds : jobs[id].wait > 0
    /\ StoreTick
    /\ UNCHANGED <<schedVars, away, request, worker, events>>

-----------------------------------------------------------------------------
Init ==
    /\ frames = [f \in Frames |-> IF f \in OldFrames THEN "current" ELSE "absent"]
    /\ jobs = [id \in JobIds |-> NoRow]
    /\ emb = [f \in Frames |-> "absent"]
    /\ vis \in SUBSET OldFrames
    /\ lane = [l \in Lanes |-> Resting("sleep")]
    /\ gate = None
    /\ warm = FALSE
    /\ sched = "running"
    /\ away = FALSE
    /\ request = Resting("off")
    /\ worker = [pc |-> "top", id |-> 1, frame |-> NoFrame, attempts |-> 0,
                 outcome |-> "complete"]
    /\ events = 0

LaneStep(l) ==
    \/ LaneStops(l) \/ LaneLocks(l) \/ LaneLists(l) \/ LaneListFails(l)
    \/ LaneEnqueues(l) \/ LaneReturns(l)

TimerStep == TimerWakes \/ LaneStep("timer")

IdleStep ==
    \/ IdleDeclines \/ IdleWakes \/ IdleFindsQueueFull \/ IdleFindsQueueLow
    \/ LaneStep("idle")

RequestStep == RequestEnqueues \/ RequestReturns

WorkerStep == WorkerClaims \/ WorkerRuns \/ WorkerFinalizes

UserStep ==
    \/ StopSignals \/ TagFrame \/ TagRange \/ CancelVision \/ PurgeFrame
    \/ UserMoves

Next ==
    \/ TimerStep \/ IdleStep \/ RequestStep \/ WorkerStep \/ UserStep
    \/ StopReturns \/ Capture \/ Tick

\* Both loops sleep for a bounded time and tokio runs ready tasks (the timer may
\* stay disabled); the gate is a tokio Mutex, which is handed over first come,
\* first served; the pool claims and finishes due jobs (EnrichmentWorkers) and
\* the clock advances.
Fairness ==
    /\ WF_vars(LaneStep("timer"))
    /\ WF_vars(IdleStep)
    /\ \A l \in Lanes : SF_vars(LaneLocks(l))
    /\ WF_vars(RequestStep)
    /\ WF_vars(WorkerStep)
    /\ WF_vars(StopReturns)
    /\ WF_vars(Tick)

Spec == Init /\ [][Next]_vars

FairSpec == Spec /\ Fairness

-----------------------------------------------------------------------------
(* Properties *)

\* Every variable stays in its type, the table's rows included.
TypeOK ==
    /\ StoreTypeOK
    /\ lane \in [Lanes -> Producer]
    /\ gate \in Lanes \cup {None}
    /\ warm \in BOOLEAN
    /\ sched \in {"running", "stopping", "stopped"}
    /\ away \in BOOLEAN
    /\ request \in Producer
    /\ worker \in [pc : {"top", "busy", "final"}, id : JobIds,
                   frame : Frames \cup {NoFrame}, attempts : 0..MaxAttempts,
                   outcome : {"complete", "retry", "deadletter"}]
    /\ events \in 0..MaxEvents

Background(id) ==
    /\ jobs[id].kind = "vision_tag"
    /\ jobs[id].priority = 0
    /\ jobs[id].state \in Live

\* The timer and the idle lane never double-queue a frame: no frame has two
\* background vision_tag jobs in flight (vision_scheduler.rs, the gate in spawn),
\* whatever the user requests, cancels or deletes meanwhile.
NoDoubleQueue ==
    \A i, k \in JobIds :
        Background(i) /\ Background(k) /\ jobs[i].frame = jobs[k].frame => i = k

\* When stop() has returned, both loops are over, the gate is free, and the
\* sidecar is not left pinned warm ("On shutdown, never leave the sidecar pinned
\* warm").
StoppedIsCold ==
    sched = "stopped" => ~ warm /\ gate = None /\ \A l \in Lanes : LaneAt(l, "off")

\* Keep-warm always ends: the backlog is drained or dead, the user returns, the
\* trigger is switched off, or the scheduler stops (idle_loop).
WarmEnds == warm ~> ~ warm

Dead(f) ==
    \E id \in JobIds :
        jobs[id].kind = "vision_tag" /\ jobs[id].frame = f /\ jobs[id].state = "dead"

\* While the user stays away with the idle trigger on, every captured frame is
\* tagged, dead-lettered or deleted in the end: the watermark, LIMIT batch and
\* the excluded job states starve none (idle_loop, untagged_frame_ids).
BacklogDrains ==
    <>[](sched = "running" /\ away)
        => \A f \in Frames : []<>(frames[f] = "absent" \/ f \in vis \/ Dead(f))
=============================================================================
