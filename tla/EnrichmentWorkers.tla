------------------------- MODULE EnrichmentWorkers -------------------------
(***************************************************************************)
(* The enrichment worker pool (crates/kernel/src/worker_pool.rs), the      *)
(* Kernel operations that start, stop and restart it (kernel/src/lib.rs),  *)
(* and the producers that feed the queue, over the store of JobQueue.      *)
(*                                                                         *)
(* A pool is a set of worker tasks and one sweep task sharing a stop flag  *)
(* and an in-memory set of active job ids.  stop_workers takes the pool    *)
(* out of the kernel's slot before it waits for it, so an old pool may     *)
(* still be draining when a new one starts: Pools has room for both.       *)
(*                                                                         *)
(* A worker is at                                                          *)
(*   off      not spawned, or its loop has ended                           *)
(*   top      the head of its loop (or its idle sleep)                     *)
(*   polled   the claim kinds are decided, claim_jobs not yet executed     *)
(*   claimed  the row is running, ActiveJobGuard not yet taken             *)
(*   reading  the guard is held, the job's input not yet read              *)
(*   writing  input read, the provider's answer not yet stored             *)
(*   final    the outcome is known, complete_job / fail_job not executed   *)
(*   emit     finalized; emit_progress, then the guard is dropped          *)
(***************************************************************************)
EXTENDS JobQueue

CONSTANTS
    Pools,          \* pool incarnations that can coexist
    Workers,        \* worker tasks, settings.enrich_worker_concurrency per pool
    PoolOf,         \* Workers -> the pool each worker belongs to
    Controllers,    \* concurrent callers of start/stop/reconfigure
    Levels,         \* throttle levels the governor may publish, subset of 0..2
    Floor,          \* settings.throttle_embed_text_floor
    RowsDeleted,    \* are job rows deleted (cancel_vision, purge_self_captures)?
    SlowPoints,     \* the windows, of WindowPoints, during which time may pass
    MaxEvents       \* bound: restarts, store errors, settings saves, cancels
                    \* and on-demand tagging requests, in total

ASSUME PoolOfAssumption == PoolOf \in [Workers -> Pools]
ASSUME NoneAssumption == "none" \notin Pools \cup Controllers
ASSUME LevelsAssumption == Levels \subseteq 0..2 /\ 0 \in Levels
ASSUME RowsDeletedAssumption == RowsDeleted \in BOOLEAN
ASSUME EventsAssumption == MaxEvents \in Nat /\ Floor \in Nat

VARIABLES
    pc,       \* Workers -> where the worker is, see above
    work,     \* Workers -> the worker's locals: claim kinds and claimed job
    active,   \* Pools -> active_jobs, the set the sweep looks at
    sweeper,  \* Pools -> "off" | "sleep" | "checked"
    stop,     \* Pools -> the watch channel's value
    slot,     \* Kernel.workers: the current pool, or None
    lock,     \* the controller inside start_workers holding the workers mutex
    ctl,      \* Controllers -> what each caller is doing
    embedder, \* the embedding provider slot is filled
    vision,   \* the vision provider slot is filled
    level,    \* throttle_level
    ingest,   \* the frame the capture loop has inserted, its job not enqueued
    events    \* events spent, at most MaxEvents

workerVars == <<pc, work>>
poolVars == <<workerVars, active, sweeper, stop>>
kernelVars == <<slot, lock, ctl, embedder, vision>>
envVars == <<level, ingest, events>>
vars == <<storeVars, poolVars, kernelVars, envVars>>

None == "none"

\* Places where a task has read or changed something and not yet acted on it:
\* a claimed row whose guard is not taken, an active count the sweep has just
\* read, a finalized job whose guard is not yet dropped.
WindowPoints == {"claimed", "checked", "emit"}

Outcomes == {"complete", "retry", "deadletter"}

Busy == {"claimed", "reading", "writing", "final"}

Guarded == {"reading", "writing", "final", "emit"}

Labels == {"off", "top", "polled", "emit"} \cup Busy

NoWork ==
    [kinds |-> {}, id |-> 1, kind |-> "embed_text", frame |-> NoFrame,
     attempts |-> 0, text |-> "absent", outcome |-> "complete"]

Work ==
    [kinds : SUBSET Kinds, id : JobIds, kind : Kinds, frame : Frames \cup {NoFrame},
     attempts : 0..MaxAttempts, text : Contents, outcome : Outcomes]

Ops == {"attach_embedder", "attach_inference", "set_settings", "shutdown"}

\* Spend one of the bounded environment events.
Event == events < MaxEvents /\ events' = events + 1

-----------------------------------------------------------------------------
(* worker_loop *)

GoTo(w, label) == pc' = [pc EXCEPT ![w] = label]

SetWork(w, locals) == work' = [work EXCEPT ![w] = locals]

\* Number of EmbedTextGuards alive in the pool: active_embed_text.
ActiveEmbedText(p) ==
    Cardinality({w \in Workers :
        PoolOf[w] = p /\ pc[w] \in Guarded /\ work[w].kind = "embed_text"})

AllowEmbedText(p) == level < 2 \/ ActiveEmbedText(p) < Floor

\* claim_kinds, with enrich.embed_text enabled
ClaimKinds(p) ==
    {k \in Kinds : \/ k = "embed_text" /\ embedder /\ AllowEmbedText(p)
                   \/ k = "vision_tag" /\ vision /\ level = 0}

\* The head of the loop: leave when stopped, else decide what to claim.  With
\* nothing claimable the worker only sleeps.
WorkerStops(w) ==
    /\ pc[w] = "top"
    /\ stop[PoolOf[w]]
    /\ GoTo(w, "off")
    /\ UNCHANGED <<storeVars, work, active, sweeper, stop, kernelVars, envVars>>

WorkerPolls(w) ==
    /\ pc[w] = "top"
    /\ ~ stop[PoolOf[w]]
    /\ ClaimKinds(PoolOf[w]) # {}
    /\ GoTo(w, "polled")
    /\ SetWork(w, [NoWork EXCEPT !.kinds = ClaimKinds(PoolOf[w])])
    /\ UNCHANGED <<storeVars, active, sweeper, stop, kernelVars, envVars>>

WorkerClaims(w) ==
    /\ pc[w] = "polled"
    /\ \E id \in JobIds :
          /\ ClaimJob(id, work[w].kinds)
          /\ SetWork(w, [NoWork EXCEPT !.id = id, !.kind = jobs[id].kind,
                            !.frame = jobs[id].frame, !.attempts = jobs[id].attempts])
    /\ GoTo(w, "claimed")
    /\ UNCHANGED <<frames, emb, vis, active, sweeper, stop, kernelVars, envVars>>

WorkerClaimsNothing(w) ==
    /\ pc[w] = "polled"
    /\ ~ \E id \in JobIds : Claimable(id, work[w].kinds)
    /\ GoTo(w, "top")
    /\ SetWork(w, NoWork)
    /\ UNCHANGED <<storeVars, active, sweeper, stop, kernelVars, envVars>>

\* claim_jobs failed in the store: logged, and the worker sleeps.
WorkerClaimFails(w) ==
    /\ pc[w] = "polled"
    /\ Event
    /\ GoTo(w, "top")
    /\ SetWork(w, NoWork)
    /\ UNCHANGED <<storeVars, active, sweeper, stop, kernelVars, level, ingest>>

\* Mutant of WorkerBegins: the guard is dropped where it is created.
WorkerBeginsUnguarded(w) ==
    /\ pc[w] = "claimed"
    /\ GoTo(w, "reading")
    /\ UNCHANGED <<storeVars, work, active, sweeper, stop, kernelVars, envVars>>

\* ActiveJobGuard::new
WorkerBegins(w) ==
    /\ pc[w] = "claimed"
    /\ active' = [active EXCEPT ![PoolOf[w]] = active[PoolOf[w]] \cup {work[w].id}]
    /\ GoTo(w, "reading")
    /\ UNCHANGED <<storeVars, work, sweeper, stop, kernelVars, envVars>>

\* A purged frame, or blank text to embed, is a no-op success.
NothingToDo(kind) == IF kind = "embed_text" THEN {"absent", "empty"} ELSE {"absent"}

\* The outcomes reached without calling the provider: nothing to do; a read
\* error, an image that does not decode, a provider not attached; an image file
\* that is gone.
EarlyOutcomes(job) ==
    {"retry"}
    \cup {out \in {"complete"} : frames[job.frame] \in NothingToDo(job.kind)}
    \cup {out \in {"deadletter"} : job.kind = "vision_tag" /\ frames[job.frame] # "absent"}

\* embed_text_outcome / vision_tag_outcome, returning before the provider call
WorkerReturnsEarly(w) ==
    /\ pc[w] = "reading"
    /\ \E out \in EarlyOutcomes(work[w]) : SetWork(w, [work[w] EXCEPT !.outcome = out])
    /\ GoTo(w, "final")
    /\ UNCHANGED <<storeVars, active, sweeper, stop, kernelVars, envVars>>

\* ... or reading what the provider is then called with
WorkerReads(w) ==
    /\ pc[w] = "reading"
    /\ frames[work[w].frame] \notin NothingToDo(work[w].kind)
    /\ SetWork(w, [work[w] EXCEPT !.text = frames[work[w].frame]])
    /\ GoTo(w, "writing")
    /\ UNCHANGED <<storeVars, active, sweeper, stop, kernelVars, envVars>>

\* The provider answered: store its result.
WorkerWrites(w) ==
    /\ pc[w] = "writing"
    /\ \/ /\ work[w].kind = "embed_text"
          /\ UpsertTextEmbedding(work[w].frame, work[w].text)
          /\ UNCHANGED vis
       \/ /\ work[w].kind = "vision_tag"
          /\ InsertVision(work[w].frame)
          /\ UNCHANGED emb
    /\ SetWork(w, [work[w] EXCEPT !.outcome = "complete"])
    /\ GoTo(w, "final")
    /\ UNCHANGED <<jobs, frames, active, sweeper, stop, kernelVars, envVars>>

\* The provider failed, or the frame went away under the foreign key.
WorkerRetries(w) ==
    /\ pc[w] = "writing"
    /\ SetWork(w, [work[w] EXCEPT !.outcome = "retry"])
    /\ GoTo(w, "final")
    /\ UNCHANGED <<storeVars, active, sweeper, stop, kernelVars, envVars>>

\* The row update of process_job_with_providers
Finalize(job) ==
    \/ job.outcome = "complete" /\ CompleteJob(job.id)
    \/ job.outcome = "retry" /\ FailJob(job.id, TRUE, BackoffTicks(job.attempts))
    \/ job.outcome = "deadletter" /\ FailJob(job.id, FALSE, 0)

WorkerFinalizes(w) ==
    /\ pc[w] = "final"
    /\ Finalize(work[w])
    /\ GoTo(w, "emit")
    /\ UNCHANGED <<frames, emb, vis, work, active, sweeper, stop, kernelVars, envVars>>

\* complete_job / fail_job matched no running row: the error is logged.
WorkerFinalizesNothing(w) ==
    /\ pc[w] = "final"
    /\ jobs[work[w].id].state # "running"
    /\ GoTo(w, "emit")
    /\ UNCHANGED <<storeVars, work, active, sweeper, stop, kernelVars, envVars>>

\* complete_job / fail_job failed in the store: the row stays as it is.
WorkerFinalizeFails(w) ==
    /\ pc[w] = "final"
    /\ Event
    /\ GoTo(w, "emit")
    /\ UNCHANGED <<storeVars, work, active, sweeper, stop, kernelVars, level, ingest>>

\* emit_progress, then ActiveJobGuard and EmbedTextGuard drop
WorkerEmits(w) ==
    /\ pc[w] = "emit"
    /\ active' = [active EXCEPT ![PoolOf[w]] = active[PoolOf[w]] \ {work[w].id}]
    /\ GoTo(w, "top")
    /\ SetWork(w, NoWork)
    /\ UNCHANGED <<storeVars, sweeper, stop, kernelVars, envVars>>

WorkerStep(w) ==
    \/ WorkerStops(w)
    \/ WorkerPolls(w)
    \/ WorkerClaims(w)
    \/ WorkerClaimsNothing(w)
    \/ WorkerBegins(w)
    \/ WorkerReturnsEarly(w)
    \/ WorkerReads(w)
    \/ WorkerWrites(w)
    \/ WorkerRetries(w)
    \/ WorkerFinalizes(w)
    \/ WorkerFinalizesNothing(w)
    \/ WorkerEmits(w)

-----------------------------------------------------------------------------
(* sweep_loop *)

\* Mutant of SweepChecks: the sweep does not look at the active set.
SweepChecksBlindly(p) ==
    /\ sweeper[p] = "sleep"
    /\ ~ stop[p]
    /\ sweeper' = [sweeper EXCEPT ![p] = "checked"]
    /\ UNCHANGED <<storeVars, workerVars, active, stop, kernelVars, envVars>>

\* The minute is up, stop is not signalled (the select is biased towards it) and
\* active_job_count read zero.  A non-zero count skips the round, which changes
\* nothing.
SweepChecks(p) ==
    /\ sweeper[p] = "sleep"
    /\ ~ stop[p]
    /\ active[p] = {}
    /\ sweeper' = [sweeper EXCEPT ![p] = "checked"]
    /\ UNCHANGED <<storeVars, workerVars, active, stop, kernelVars, envVars>>

SweepResets(p) ==
    /\ sweeper[p] = "checked"
    /\ ResetStaleRunning
    /\ sweeper' = [sweeper EXCEPT ![p] = "sleep"]
    /\ UNCHANGED <<frames, emb, vis, workerVars, active, stop, kernelVars, envVars>>

\* The UPDATE failed: logged, and the sweep sleeps another minute.
SweepFails(p) ==
    /\ sweeper[p] = "checked"
    /\ Event
    /\ sweeper' = [sweeper EXCEPT ![p] = "sleep"]
    /\ UNCHANGED <<storeVars, workerVars, active, stop, kernelVars, level, ingest>>

SweepStops(p) ==
    /\ sweeper[p] = "sleep"
    /\ stop[p]
    /\ sweeper' = [sweeper EXCEPT ![p] = "off"]
    /\ UNCHANGED <<storeVars, workerVars, active, stop, kernelVars, envVars>>

-----------------------------------------------------------------------------
(* Kernel::start_workers, stop_workers and their callers *)

\* `after` is what follows stop_workers: start_workers in reconfigure_enrichment,
\* the end of the process in graceful_shutdown.
IdleCtl == [pc |-> "idle", after |-> "idle", pool |-> None]

Controller ==
    [pc : {"idle", "take", "join", "start", "spawn", "exit"},
     after : {"idle", "start", "exit"}, pool : Pools \cup {None}]

\* Every task of the pool has ended: what WorkerPool::shutdown joins on.
PoolOff(p) ==
    /\ sweeper[p] = "off"
    /\ \A w \in Workers : PoolOf[w] = p => pc[w] = "off"

\* A caller enters: attach_embedder and set_settings reconfigure (stop, then
\* start), attach_inference starts, graceful_shutdown stops.
Call(c, op) ==
    /\ ctl[c] = IdleCtl
    /\ \/ /\ op = "attach_embedder" /\ ~ embedder
          /\ embedder' = TRUE
          /\ ctl' = [ctl EXCEPT ![c] = [IdleCtl EXCEPT !.pc = "take", !.after = "start"]]
          /\ UNCHANGED <<vision, events>>
       \/ /\ op = "attach_inference" /\ ~ vision
          /\ vision' = TRUE
          /\ ctl' = [ctl EXCEPT ![c] = [IdleCtl EXCEPT !.pc = "start"]]
          /\ UNCHANGED <<embedder, events>>
       \/ /\ op = "set_settings"
          /\ Event
          /\ ctl' = [ctl EXCEPT ![c] = [IdleCtl EXCEPT !.pc = "take", !.after = "start"]]
          /\ UNCHANGED <<embedder, vision>>
       \/ /\ op = "shutdown"
          /\ Event
          /\ ctl' = [ctl EXCEPT ![c] = [IdleCtl EXCEPT !.pc = "take", !.after = "exit"]]
          /\ UNCHANGED <<embedder, vision>>
    /\ UNCHANGED <<storeVars, poolVars, slot, lock, level, ingest>>

\* Where a caller of stop_workers goes on once the old pool has ended.
AfterStop(c) == [IdleCtl EXCEPT !.pc = ctl[c].after]

\* stop_workers: take the pool out of the slot, release the mutex, signal stop.
StopTakesPool(c) ==
    /\ ctl[c].pc = "take"
    /\ lock = None
    /\ slot' = None
    /\ IF slot = None
       THEN ctl' = [ctl EXCEPT ![c] = AfterStop(c)] /\ UNCHANGED stop
       ELSE /\ stop' = [stop EXCEPT ![slot] = TRUE]
            /\ ctl' = [ctl EXCEPT ![c] = [ctl[c] EXCEPT !.pc = "join", !.pool = slot]]
    /\ UNCHANGED <<storeVars, workerVars, active, sweeper, lock, embedder, vision, envVars>>

\* Mutant of StopJoins: shutdown signals the tasks and does not await them.
StopDoesNotJoin(c) ==
    /\ ctl[c].pc = "join"
    /\ ctl' = [ctl EXCEPT ![c] = AfterStop(c)]
    /\ UNCHANGED <<storeVars, poolVars, slot, lock, embedder, vision, envVars>>

\* WorkerPool::shutdown has joined every task.
StopJoins(c) ==
    /\ ctl[c].pc = "join"
    /\ PoolOff(ctl[c].pool)
    /\ ctl' = [ctl EXCEPT ![c] = AfterStop(c)]
    /\ UNCHANGED <<storeVars, poolVars, slot, lock, embedder, vision, envVars>>

\* start_workers with a pool already running, or no lane to run
StartReturns(c) ==
    /\ ctl[c].pc = "start"
    /\ lock = None
    /\ slot # None \/ ~ (embedder \/ vision)
    /\ ctl' = [ctl EXCEPT ![c] = IdleCtl]
    /\ UNCHANGED <<storeVars, poolVars, slot, lock, embedder, vision, envVars>>

\* start_workers: the startup sweep, the mutex held until the pool is in the slot.
StartSweeps(c) ==
    /\ ctl[c].pc = "start"
    /\ lock = None
    /\ slot = None
    /\ embedder \/ vision
    /\ ResetAllRunning
    /\ lock' = c
    /\ ctl' = [ctl EXCEPT ![c] = [IdleCtl EXCEPT !.pc = "spawn"]]
    /\ UNCHANGED <<frames, emb, vis, poolVars, slot, embedder, vision, envVars>>

\* The startup sweep failed: logged, and the pool starts all the same.
StartSweepFails(c) ==
    /\ ctl[c].pc = "start"
    /\ lock = None
    /\ slot = None
    /\ embedder \/ vision
    /\ Event
    /\ lock' = c
    /\ ctl' = [ctl EXCEPT ![c] = [IdleCtl EXCEPT !.pc = "spawn"]]
    /\ UNCHANGED <<storeVars, poolVars, slot, embedder, vision, level, ingest>>

\* WorkerPool::spawn, into an incarnation whose tasks have all ended
StartSpawns(c) ==
    /\ ctl[c].pc = "spawn"
    /\ \E p \in Pools :
          /\ PoolOff(p)
          /\ \A d \in Controllers : ctl[d].pool # p
          /\ pc' = [w \in Workers |-> IF PoolOf[w] = p THEN "top" ELSE pc[w]]
          /\ work' = [w \in Workers |-> IF PoolOf[w] = p THEN NoWork ELSE work[w]]
          /\ active' = [active EXCEPT ![p] = {}]
          /\ sweeper' = [sweeper EXCEPT ![p] = "sleep"]
          /\ stop' = [stop EXCEPT ![p] = FALSE]
          /\ slot' = p
    /\ lock' = None
    /\ ctl' = [ctl EXCEPT ![c] = IdleCtl]
    /\ UNCHANGED <<storeVars, embedder, vision, envVars>>

-----------------------------------------------------------------------------
(* Producers, the startup maintenance task and the environment *)

\* ingest_frame: insert_frame and the frame's text ...
CaptureInserts(f) ==
    /\ ingest = NoFrame
    /\ f \notin OldFrames /\ frames[f] = "absent"
    /\ \E text \in {"empty", "current"} : frames' = [frames EXCEPT ![f] = text]
    /\ ingest' = f
    /\ UNCHANGED <<jobs, emb, vis, poolVars, kernelVars, level, events>>

\* ... then its embed_text job
CaptureEnqueues ==
    /\ ingest # NoFrame
    /\ EnqueueJob("embed_text", ingest, 0)
    /\ ingest' = NoFrame
    /\ UNCHANGED <<frames, emb, vis, poolVars, kernelVars, level, events>>

\* enqueue_vision(Frame): always tags again
EnqueueVision(f) ==
    /\ Event
    /\ EnqueueJob("vision_tag", f, 10)
    /\ UNCHANGED <<frames, emb, vis, poolVars, kernelVars, level, ingest>>

CancelVision ==
    /\ RowsDeleted
    /\ Event
    /\ CancelPendingVision
    /\ UNCHANGED <<frames, emb, vis, poolVars, kernelVars, level, ingest>>

\* purge_self_captures deletes the own-window captures of earlier versions.
PurgeFrame(f) ==
    /\ RowsDeleted
    /\ f \in OldFrames
    /\ DeleteFrame(f)
    /\ UNCHANGED <<poolVars, kernelVars, envVars>>

FilterBackfill(f) ==
    /\ BackfillFrame(f)
    /\ UNCHANGED <<poolVars, kernelVars, envVars>>

\* The governor publishes a level.  Stepping up is an environment event.
GovernorSets(l) ==
    /\ l # level
    /\ level' = l
    /\ IF l > level THEN Event ELSE UNCHANGED events
    /\ UNCHANGED <<storeVars, poolVars, kernelVars, ingest>>

\* Time passes: a tick stands for a second or more, so only at a slow point may
\* it fall into one of the windows.
Tick ==
    /\ \A p \in Pools : sweeper[p] \notin WindowPoints \ SlowPoints
    /\ \A w \in Workers : pc[w] \notin WindowPoints \ SlowPoints
    /\ \E id \in JobIds : TickRow(jobs[id]) # jobs[id]
    /\ StoreTick
    /\ UNCHANGED <<poolVars, kernelVars, envVars>>

\* The process ends and is started again: only the database is left.
NewProcess ==
    /\ pc' = [w \in Workers |-> "off"]
    /\ work' = [w \in Workers |-> NoWork]
    /\ active' = [p \in Pools |-> {}]
    /\ sweeper' = [p \in Pools |-> "off"]
    /\ stop' = [p \in Pools |-> FALSE]
    /\ slot' = None
    /\ lock' = None
    /\ ctl' = [c \in Controllers |-> IdleCtl]
    /\ embedder' = FALSE
    /\ vision' = FALSE
    /\ level' = 0
    /\ ingest' = NoFrame
    /\ UNCHANGED storeVars

Crash == Event /\ NewProcess

\* graceful_shutdown is done; the user launches the application again.
ExitAndRelaunch(c) ==
    /\ ctl[c].pc = "exit"
    /\ NewProcess
    /\ UNCHANGED events

CtlStep(c) ==
    \/ StopTakesPool(c)
    \/ StopJoins(c)
    \/ StartReturns(c)
    \/ StartSweeps(c)
    \/ StartSpawns(c)
    \/ ExitAndRelaunch(c)

-----------------------------------------------------------------------------
Init ==
    /\ StoreInit
    /\ pc = [w \in Workers |-> "off"]
    /\ work = [w \in Workers |-> NoWork]
    /\ active = [p \in Pools |-> {}]
    /\ sweeper = [p \in Pools |-> "off"]
    /\ stop = [p \in Pools |-> FALSE]
    /\ slot = None
    /\ lock = None
    /\ ctl = [c \in Controllers |-> IdleCtl]
    /\ embedder = FALSE
    /\ vision = FALSE
    /\ level = 0
    /\ ingest = NoFrame
    /\ events = 0

Next ==
    \/ \E w \in Workers : WorkerStep(w) \/ WorkerClaimFails(w) \/ WorkerFinalizeFails(w)
    \/ \E p \in Pools : SweepChecks(p) \/ SweepResets(p) \/ SweepFails(p) \/ SweepStops(p)
    \/ \E c \in Controllers : CtlStep(c) \/ StartSweepFails(c) \/ \E op \in Ops : Call(c, op)
    \/ \E f \in Frames : CaptureInserts(f) \/ EnqueueVision(f) \/ PurgeFrame(f) \/ FilterBackfill(f)
    \/ CaptureEnqueues
    \/ CancelVision
    \/ \E l \in Levels : GovernorSets(l)
    \/ Tick
    \/ Crash

Spec == Init /\ [][Next]_vars

\* tokio runs every task that is ready; the wall clock advances; both provider
\* loads end.
Fairness ==
    /\ \A w \in Workers : WF_vars(WorkerStep(w))
    /\ \A p \in Pools : WF_vars(SweepChecks(p)) /\ WF_vars(SweepResets(p)) /\ WF_vars(SweepStops(p))
    /\ \A c \in Controllers : WF_vars(CtlStep(c))
    /\ SF_vars(Tick)
    /\ WF_vars(GovernorSets(0))
    /\ WF_vars(\E c \in Controllers : Call(c, "attach_embedder"))
    /\ WF_vars(\E c \in Controllers : Call(c, "attach_inference"))

FairSpec == Spec /\ Fairness

-----------------------------------------------------------------------------
(* Properties *)

\* Types of every variable.
TypeOK ==
    /\ StoreTypeOK
    /\ pc \in [Workers -> Labels]
    /\ work \in [Workers -> Work]
    /\ active \in [Pools -> SUBSET JobIds]
    /\ sweeper \in [Pools -> {"off", "sleep", "checked"}]
    /\ stop \in [Pools -> BOOLEAN]
    /\ slot \in Pools \cup {None}
    /\ lock \in Controllers \cup {None}
    /\ ctl \in [Controllers -> Controller]
    /\ embedder \in BOOLEAN /\ vision \in BOOLEAN
    /\ level \in Levels
    /\ ingest \in Frames \cup {NoFrame}
    /\ events \in 0..MaxEvents

\* jobs.rs: "no job is handed to two workers".  No two workers are between
\* claiming and finalizing the same job, whatever sweeps, restarts and
\* reconfigurations happen while they run.
ExclusiveClaim ==
    \A v, w \in Workers :
        pc[v] \in Busy /\ pc[w] \in Busy /\ work[v].id = work[w].id => v = w

\* The refinement mapping to LeasedQueue: a worker holds its job from the claim
\* to the end of complete_job / fail_job.
LQ == INSTANCE LeasedQueue WITH
    Ids <- JobIds, MaxTries <- MaxAttempts, Nothing <- 0,
    st <- [id \in JobIds |-> jobs[id].state],
    tries <- [id \in JobIds |-> jobs[id].attempts],
    hold <- [w \in Workers |-> IF pc[w] \in Busy THEN work[w].id ELSE 0]

\* Without a lease column, claims behave as leases: only abandoned rows are ever
\* requeued, only the holder finishes a job, a finished job never runs again,
\* and a crash costs no attempt.
ImplementsLeasedQueue == LQ!LQSpec

\* worker_pool.rs: the active set guards a long provider call against being
\* requeued "out from under" itself.  A worker that holds its guard has its job
\* in the set the sweep looks at.
GuardCoversHolder ==
    \A w \in Workers : pc[w] \in Guarded => work[w].id \in active[PoolOf[w]]

\* jobs.rs: a job is "never silently dropped".  A job marked done has left the
\* data it was for, or had nothing to do, or a later job still owes that data.
NoSilentDrop ==
    \A id \in JobIds : jobs[id].state = "done" =>
        LET f == jobs[id].frame IN
        CASE jobs[id].kind = "vision_tag" -> f \in vis
          [] jobs[id].kind = "embed_text" ->
                \/ frames[f] = "empty"
                \/ emb[f] # "absent"
                \/ \E k \in JobIds : /\ jobs[k].frame = f
                                     /\ jobs[k].kind = "embed_text"
                                     /\ jobs[k].state \in Live \cup {"dead"}

ReembedOwed(f) ==
    \E k \in JobIds : /\ jobs[k].frame = f
                      /\ jobs[k].kind = "embed_text"
                      /\ jobs[k].state \in Live \cup {"dead"}

\* records.rs: the backfill invalidates a stale vector so that dropped terms
\* cannot keep surfacing the frame "indefinitely".  A stored vector computed from
\* text the frame no longer has, whether it has another or none, is owed a
\* re-embed by some job of the frame.
StaleVectorIsOwed ==
    \A f \in Frames : emb[f] = "old" /\ frames[f] # "old" => ReembedOwed(f)

\* The same of the frames the filter leaves some text: a worker that read the old
\* text stores its vector before the re-embed is done.  A frame left without text
\* is not among them: its re-embed finds nothing to do and leaves that vector.
TextVectorIsOwed ==
    \A f \in Frames : emb[f] = "old" /\ frames[f] = "current" => ReembedOwed(f)

\* Every job is eventually done, dead-lettered or deleted: none stays pending or
\* stranded in running for ever, whatever a crash, a failed finalize or a pool
\* restart did to it.
JobsSettle ==
    \A id \in JobIds : jobs[id].state \in Live ~> jobs[id].state \in Settled
=============================================================================
