# ScreenSearch v2c: TLA+ models and proofs

ScreenSearch records the screen of a Windows machine, reads the text of every
changed frame, and enriches it in the background with embeddings and with tags
from a local vision model. All of it runs in one process (Rust, tokio, SQLite)
plus one child process, `llama-server`. Most of what can go wrong lies between
tasks of that process: a job table without leases shared by a pool of workers, a
sidecar process shared by requests for different models, lifecycle commands that
the user interface, the tray and a settings save may issue at the same time, and
a process that may end between any two store calls.

This directory holds TLA+ modules for those parts, the TLC runs that check them
on small instances, and TLAPS proofs of the main results for every value of the
constants. `PROJECT.json` maps each definition to the lines it models.

## 1. Inventory

Paths are below `src/`; "S" state, "O" operations, "H" what is hard, "P" what
makes it correct.

**Job queue**, `crates/store/src/jobs.rs`, `schema.rs`. S: the `jobs` table (kind,
frame, state, attempts, max_attempts, priority, not_before, updated_at); ids are
rowids without AUTOINCREMENT. O: enqueue, claim (one UPDATE ... RETURNING),
complete, fail with retry or dead letter, reset of stale running rows, cancel of
pending vision jobs, cascade on frame deletion. H: a claim leaves no owner in the
row, so nothing in the database tells a live claim from an abandoned one; rowids
are reused. P: one worker per job; no job lost; attempts bounded.

**Enrichment worker pool**, `crates/kernel/src/worker_pool.rs`. S: tasks, a stop
flag, the in-memory set `active_jobs`, the count of running embeddings. O: the
worker loop (poll, claim, guard, run, finalize, emit) and the sweep loop. H: a
provider call longer than the visibility time-out, a sweep that reads the active
set and updates the table in two steps, failed finalization, stop and crash in
the middle of a job. P: as for the queue; every job settles.

**Pool lifecycle**, `crates/kernel/src/lib.rs` (`attach_embedder`,
`attach_inference`, `start_workers`, `stop_workers`, `reconfigure_enrichment`) and
`src-tauri/src/lib.rs` (`set_settings`, graceful shutdown). S: the slot with the
current pool and the provider slots. H: `stop_workers` empties the slot before
the old pool has ended, and callers are not serialised. P: a job is never
requeued while a worker of an old pool has it.

**Frame records and vectors**, `crates/store/src/records.rs`, `embeddings.rs`. The
text of a frame, its vector, its vision row, and the filter-version backfill that
rewrites text, deletes the vector and enqueues a re-embed. H: a worker in between
holds text that has been replaced. P: an outdated vector of a frame that has text is
always owed a job.

**Vision scheduler**, `crates/kernel/src/vision_scheduler.rs`, and the on-demand
requests of the Kernel. S: two loops, a gate, the keep-warm hint. O: timer wake,
idle wake with a watermark, list and enqueue under the gate, stop; `tag_frame`,
`tag_range`, `cancel_vision`. H: both loops and a request list frames and enqueue
them in separate store calls; the hint keeps a model in VRAM. P: no frame queued
twice, the backlog drains, the hint ends.

**Model supervisor**, `crates/inference/src/supervisor.rs`, `process.rs`. S: the
resident process behind a mutex, a FIFO gate of permits, in-flight count, pin,
backfill flag, pidfile, last status. O: acquire (recycle, switch, enter, recover),
preload, unload, evictor, shutdown, spawn with retries, kill, reap of a stray
process. H: two locks taken in various orders and held across awaits, decisions
made before waiting, processes that hang, crash or survive a kill. P: a leased
process is not replaced, one process at a time, panel and pidfile tell the truth,
calls end, memory is freed.

**Capture controller and loop**, `crates/kernel/src/lib.rs` 838–1090,
`capture_loop.rs`. S: slot with the session handle, readiness, pending demand. O:
start, stop, reload, source shutdown, `capture_now`. H: stop releases the lock
before it records, joins and reports; a demanded frame may arrive after its
caller has given up. P: readiness and observations describe the session that is
running; a mark gets its own frame.

**Capture observations**, `crates/kernel/src/capture_observations.rs`. S: a bounded
log of transitions, an availability boundary, an unknown gap. H: clock steps
back, overflow. P: a window that is not marked truncated is the full truth.

**Throttle governor**, `crates/kernel/src/throttle.rs`, `Kernel::reconfigure_throttle`.
S: level and two dwell timers, the governor task, the shared level. H: saves that
overlap, a last tick after the stop. P: one step per full dwell, no flapping,
level 0 when it is off.

**Capture triggers**, `crates/capture/src/trigger.rs`. S: a pending foreground event,
the last capture, the idle flag. H: a rate ceiling that idle captures and events
share. P: the ceiling delays a capture and drops none.

**Accessibility reader**, `crates/uia` and `UiaWithOcrFallback` in
`src-tauri/src/lib.rs`. S: the client slot, a thread per client, the settings, a
circuit breaker per app. O: recognize with lazy spawn, settings save, teardown,
time-out. H: a spawn that awaits between check and store, a thread that panics or
answers late. P: one client, with the settings in force; a slow app is left alone.

**Model downloads**, `crates/inference/src/download.rs`. S: part file, chunk bitmap,
final file. H: crash between data and mark, a bitmap that outlives its part. P: a
published file has no hole.

**Memory reports and Telegram deliveries**, `src-tauri/src/memory.rs`,
`crates/store/src/memory.rs`. S: report runs, deliveries. O: claim, send, recover,
retry, redirect, resolve. H: a crash while a message is being sent, a destination
changed meanwhile, two store calls that belong together. P: a message is not sent
twice without the user's decision and never to a deselected chat.

**Sessions**, `crates/kernel/src/sessions_scheduler.rs`, `crates/store/src/sessions.rs`,
`crates/sessions`. S: sessions, frame ownership, backfill cursor. H: several store
calls per pass, crash before the cursor is saved. P: frozen sessions do not
change, no frame is skipped or owned twice.

**Paged readers**, `crates/store/src/history.rs`, `history_pages.rs`, `report_pages.rs`,
`crates/api/src/export.rs`. S: the history's identity, the frame id high water, cursors
that clients keep. H: rows inserted, deleted and changed between two pages, ids of
deleted rows, a replaced database. P: a walk repeats, reorders and invents nothing and
returns what was there throughout.

**Local API**, `src-tauri/src/local_api.rs`, `crates/api/src/lib.rs`, `auth.rs`. S: saved
configuration, live token, server slot, `config_lock`. O: enable, disable, move, token
rotation, autostart, quit. H: overlapping commands that await a drain and a bind, bind and
store failures, connections of a server that is to stop. P: what listens is what is saved;
a stopped server serves nobody.

**Also there**: MCP server, search, OCR, the user interface, evaluation tools. Section 7
says what becomes of them.

How they interact: the capture loop writes frames and jobs through the store; the
vision scheduler and the user add vision jobs; the workers claim them, call the
embedder or, through the supervisor, the sidecar, and write results; the governor
publishes a level that decides what workers may claim; the scheduler's keep-warm
hint is the supervisor's backfill flag; `set_settings` reconfigures pool, capture
and scheduler.

## 2. Modules

| module | models |
|---|---|
| `JobQueue` | the store: table rows, frame text, vectors, vision rows; every store call as an operator |
| `EnrichmentWorkers` | worker and sweep loops, pool lifecycle, producers, crash; EXTENDS `JobQueue` |
| `LeasedQueue` | abstract: a queue with leases, the promise `EnrichmentWorkers` implements |
| `JobQueueProofs`, `EnrichmentProofs` | lemmas on rows; types, exclusive claims, guards, the refinement of `LeasedQueue`, no job dropped, outdated vectors owed |
| `ModelSupervisor`, `SupervisorProofs` | the sidecar supervisor; types, leases, one process, pidfile and panel |
| `VisionScheduler`, `VisionProofs` | the two lanes, requests, one worker, over `JobQueue`; types, no double queueing, cold stop |
| `CaptureController`, `CaptureProofs` | start, stop, reload, demands, the loop and its source; no orphaned session, truth at rest, one frame for one mark |
| `CaptureLog` | the bounded observation log beside the complete history |
| `UiaClient` | recognize calls, client threads, settings, the breaker |
| `TriggerMachine` | the event trigger machine and its polling |
| `ThrottleGovernor` | hysteresis machine, governor loop, reconfiguration by concurrent saves |
| `ReportDelivery` | report runs, Telegram receipts, the user's commands, crash recovery |
| `ModelDownload` | part file, bitmap, resume, publish, power loss |
| `SessionScheduler`, `SessionProofs` | segmenter (focus tracks), incremental pass, freeze, backfill over the session table; types, frozen sessions apart, no frame lost |
| `HistoryPages` | walks through frames, reports and exports while the table changes |
| `ApiServer` | configuration commands, credentials, the serve task and its connections |
| `SensorProofs` | proofs for `UiaClient`, `TriggerMachine`, `ThrottleGovernor`, `ModelDownload` |
| `ServiceProofs` | proofs for `ApiServer`, `ReportDelivery`, `CaptureLog`, `HistoryPages`, and for the composition `MCServices` |
| `MCServices` | the nine modules from `CaptureLog` to `ApiServer` side by side |
| `MCEnrichment`, `MCSupervisor`, `MCSessions` | instances for TLC |

**Granularity.** A step ends where the code awaits, so that between the steps any
other task may run: one store call, one lock acquisition, one provider call. A
store call is atomic (one SQLite statement or transaction on one connection).
Loops' sleeps are not steps: a sleeping task may wake at any time.

**Data.** A frame's text is `absent`, `empty`, `old` or `current` (before and after
the filter backfill, which may leave no text at all); a vector carries the text it was
computed from. Time is
relative: a row has an age since `updated_at` and a wait until `not_before`, and
`Tick` moves all of them, so there is no absolute clock to bound. Priorities are
the two that occur. Models are told apart only by `needs_restart`.

### JobQueue and EnrichmentWorkers

`jobs` is the table, indexed by id; a row that does not exist has state `absent`,
and `IsNextRowid` gives a new row the id after the largest one in use, which is
how SQLite assigns rowids here. `IsNextClaim` is the `WHERE ... ORDER BY ... LIMIT`
of `claim_jobs`.

A worker is at one of the points named at the head of the module (`top`, `polled`,
`claimed`, `reading`, `writing`, `final`, `emit`), one per await of
`worker_loop` and `process_job_with_providers`. `ClaimKinds` is decided before the
claim executes, as in the code, with the level and the embed floor of that moment.
A sweep reads the active set in one step (`SweepChecks`) and updates the table in
the next. Each store call of a worker, the sweep and `start_workers` may fail.
Controllers are callers of the lifecycle operations; `StopTakesPool` and
`StopJoins` are the two halves of `stop_workers`, `StartSweeps` and `StartSpawns`
those of `start_workers` under its lock. `Crash` keeps only the database.
`CaptureInserts`/`CaptureEnqueues` are the separate store calls of the capture
loop; `FilterBackfill` handles one frame per step, and leaves it new text or none
(`textfilter/src/lib.rs:347`); the re-embed it enqueues finds blank text and completes without
touching the vector (`worker_pool.rs:434`). `enrich.embed_text` is on.

Three constants choose the environment. `Controllers`: how many lifecycle calls may
overlap. `RowsDeleted`: whether `cancel_vision` and purges delete rows (and so free
rowids). `SlowPoints`: in which windows a task may be held up for as long as a
tick. A tick stands for seconds, the visibility time-out for minutes; without slow
points no task is suspended that long between a claim and its guard, a sweep's
look and its update, or a finalization and the drop of the guard. That is an
assumption about the scheduler of a desktop machine (it excludes, say, a suspend
at exactly that point), and all runs and the exclusion theorem make it.

### LeasedQueue

What a reader expects of the queue: a worker holds at most one job, a job has at
most one holder, only the holder finishes it, requeueing takes only jobs nobody
holds, a settled job is never run again, a crash does not cost an attempt. The
refinement mapping reads `hold` off the workers' program counters.

### ModelSupervisor

The gate is a queue of waiters served in order, as tokio's semaphore does; a
request takes one permit, whoever replaces the process takes all. Each entry of
`acquire`'s loop is a route (`recycle`, `switch`, `enter`, `recover`), with the
unlocked looks (`ceiling`, `probe`) and the locked ones (`check`, `recheck`) as
steps of their own, because what they saw may be stale at the next step. The mutex
stays held through kill, spawn and health polling. `os` says what each process
really is; `stuck` is one that outlived its kill. `Lease::drop` and the release of
the permit are two steps, in the order of the fields. `Relaunch` is the end and new
start of the application, with the pidfile reap. The idle clock is the flag
`expired`; the recycle ceiling is the set `fat` of processes that have grown
beyond it.

### VisionScheduler

Lanes and requests walk through `sleep, count, gate, list, enqueue`; the list read
at `list` is enqueued one store call at a time. A user's range request lists and
enqueues without the gate, as in the code, so it may double a lane's job: the
property is about the background lanes only, which is what the gate is for. One
worker claims, finishes, retries or dead-letters jobs. `enrich.embed_text` is off:
vision rows are the only rows, which keeps the table small; the two lanes never
look at other rows.

### CaptureController

A session is one run of the loop, named by its generation; a caller is one command
inside the kernel, at one point per await of `start_capture`, `stop_capture`,
`reload_capture` or `capture_now`. Only `start_capture` keeps the slot lock across an
await, so only it has a lock variable; the other critical sections are one step.
A demand travels through the bounded channel, the source (which acknowledges it
once its frame is queued), the source's queue and `process_frame`, which answers
whoever has registered a sender. Two history variables mark what the code does not
promise: `tangled` (the running session was started while another caller's stop was
between its take and its end; that stop's late `CaptureStopped` and `Disabled`
then describe a running capture) and `clean` (a demand made while nothing of an
earlier one is in flight; the frame of a demand that timed out answers the next).

### CaptureLog

`transitions`, `unavailable_before` and the unknown gap, next to `history`, every
observation ever made. An answer for a window is computed as `snapshot` does and
compared with the history for each instant.

### UiaClient

Two recognize calls (a session and the one that replaces it) and one native app. A
client is spawned outside the slot's lock, under `respawn_gate`; its thread takes
one request at a time and ends with its last reference. `raced`: a save came
between a call's settings snapshot or its spawn and the slot; the code then leaves a
client with the old settings, or one although UIA is off, until the next save or stop.
`badAt` is history: when the breaker heard of each slow walk. `SlowAppIsLeftAlone` bounds how
many of them fall into one cooldown. Calls overlap and are heard late: those under way when the
breaker opens add to the burst, and so do those left over from the opening before. A first
version of the bound left the latter out, which a threshold of 1 hides; the proof brought it out.

### TriggerMachine, ThrottleGovernor

Both have a clock of ticks and look at one poll or sample per tick. A sample is
hot, inside the band, or cool; the thresholds are numbers the properties do not
need.

The idle threshold is chosen at the start from `IdleThresholds`, and may be shorter than the
rate interval: the settings clamp the two independently (`settings.rs:586`). If it is longer, one
idle capture at most gets before a settled event. If it is not, each input that ends a quiet
period lets another one take the next opening, and the event waits as long as the input goes on;
`Undisturbed` is the instant from which the bound on its wait counts, the last input in that case.

A call of `reconfigure_throttle` (a save, or the `Startup` that has attached the probe) reads the
setting before it takes the lock. `overlapped`: the latest call began while another was under way,
and the older value may then be applied last. `misread`: the latest read of an enabled setting
failed, so that its default, off, was applied. Without a `probe` an enabled throttle stays off.
`stop_throttle`, which only a quitting application calls, is left out.

### ReportDelivery

The report worker is one task at a point of its loop; the user's commands (settings,
retry, regenerate, resolve) are atomic, since they hold the control lock that the
worker takes to claim and to dispatch. A digest has `NumChunks` chunks; a receipt has
its chunk, chat, state and predecessor. `accepted` counts what Telegram really took.
`lost`: receipts whose confirmation could not be saved (they stay `Sending`, and a
later pass sends them again). `halfway`: a redirection that failed between two
receipts, after which a later chunk may go first, until a retry finds every receipt
settled. It counts as left half way too when a receipt is still `Sending` while its
digest is redirected (a store call before it failed, `memory.rs:1611`): `memory.rs:495`
does not redirect that one, so its chunk goes to the old chat and the next one to the
new. Five events are needed for that, more than the run has; the inductive invariant of
`DigestsArriveInOrder` brought it out, and TLC then found the trace. `Faulty` switches store errors and
crashes off for the run about redirection.

### ModelDownload

The bytes of a range are the hub's version they came from, 0 for those never
received; a part has what the operating system holds and what a power loss leaves.
Ranges are fetched `Connections` at a time and go through asked, written, synced,
marked. Without ranges, hf-hub fetches the file into the `blob` of its own cache (`SingleStream`),
and `PlaceCached` copies a blob aside and renames the copy into place. Nothing syncs either, so a
power loss may take ranges of a blob and of a file that came from it (`copy = "hit"`), and
`DownloadIsWhole` leaves those out. The comment at `download.rs:349` promises that no partial file is
left at `dest` when a copy is interrupted, which the rename ensures; that the machine may lose
power later it does not mention. Renames are taken to be durable in order. An abort (stall watchdog, error) lets any of the operations under way take
effect or not. `regrown`: `open_preallocated` grows a part to its full length before
the stale bitmap is reset; a run that ends in between leaves a part of zeros whose
marks the next run trusts. With an advertised hash the file is refused at the end;
without one it would be published. A resumed part may also mix two uploads of the
same size unless the hub gives a hash; the property is about holes only.

### SessionScheduler

One frame per instant at most, of one of two apps: focus tracks with their merge
gap, minimum length and dominant app. `plan` is the set of store calls a pass
has computed from what it read and has still to make; `Before` is the order in which it
makes them (`Turn` by kind of call, then by row or time). Each call is a step, may fail (the
pass ends) and the process may die between any two. Each draft of a backfill chunk takes up to five
after its insert: `Meta` looks up the frames its row has, `Own` assigns those it has not, `Seal` freezes,
`Confirm` looks whether the row is frozen, and `Undo` deletes the row of a draft whose frames could
not all be assigned (those that could have moved to it by then, and lose their owner with it) or that
did not freeze. The next call of a draft is in `plan` only once the one before has been made. `match_drafts_to_existing` goes through the
drafts in order and gives each the best row still free; `Matchings` states the result, a function
from drafts to rows of which each value is best among the rows no earlier draft has. There is
exactly one (the order of the rows has no ties), and stated so it can be reasoned about without
induction. Row ids are those SQLite gives
(`INTEGER PRIMARY KEY`, reused), which has a consequence the model shows: when the
dominant app of a stretch changes, its row is dropped, and the new row may take the
same number; `owned_by_existing` then makes the pass skip the frames of the old row,
which stay unassigned until the next pass. `neglected`: frames an incremental call
that failed was to assign to a row that the freeze pass then froze. `Captured` is a bound
on what the screen may show at each instant.

`run_scheduler_pass` goes on to the next part when one fails, so a row that the failed part
had yet to narrow, or to freeze, may be frozen beside one that overlaps it (`torn`, section 3,
`sessions_overlap`). `FrozenDisjoint` is what remains true: rows frozen in passes of which
nothing had failed before do not overlap.

### HistoryPages

A row is a timestamp, an id and whether the walk's filter takes it, so the two seek
branches of `FRAME_PAGE_SQL` and of the report query, `LIMIT n + 1` and the export's
query by id can be stated on pairs. `walk` is what the client has: the frozen window and
snapshot, the cursor and all items so far. Frame ids come from the allocator; a report's
id is a UUID and sorts anywhere. A page is a prefix of `Listing`, the sequence of a finite set
of positions in the order of the query (it exists because no two positions are equal).
`atStart` and `steady` are history: the positions at
the first page, and those that have matched ever since.

### ApiServer

A command is at one point per await of `apply_api_config_locked`, `rotate_legacy_token`
or `change_read_token` and holds `config_lock` all the while; `Quit` does not take it. A
server goes from listening over signalled (its accept loop may take one more socket) and
draining to gone. A launch finds nothing saved, or an enabled API with both credentials.
Two things the code does are in the model and no property: a port that cannot be read is
persisted as the default one, and a bearer token that cannot be read when the API first
starts is replaced by a new one (`ApplyToken`), although `read_read_token` says that no
credential may be generated after a failed read; that sentence is about the read
credential, which the code does treat so.

## 3. Runs

| run | module / cfg | checks | result |
|---|---|---|---|
| `enrichment` | MCEnrichment / MCEnrichment.cfg | ExclusiveClaim, NoSilentDrop, GuardCoversHolder, ImplementsLeasedQueue | holds, 1,093,730 states |
| `enrichment_live` | MCEnrichmentLive.cfg | TextVectorIsOwed, JobsSettle | holds, 331,897 |
| `enrichment_overlap` | MCEnrichmentOverlap.cfg | ExclusiveClaim | violated |
| `enrichment_guard` | MCEnrichmentGuard.cfg | GuardCoversHolder | violated |
| `enrichment_stale` | MCEnrichmentStale.cfg | StaleVectorIsOwed | violated |
| `supervisor` | MCSupervisor.cfg | LeaseKeepsItsModel, OneProcess, PidfileNamesResident, PanelTruthful, CallsEnd, IdleModelIsEvicted | holds, 184,866 |
| `supervisor_pin` | MCSupervisorPin.cfg | PinIsForLoadedModel | violated |
| `vision_scheduler` | VisionScheduler / VisionScheduler.cfg | NoDoubleQueue, StoppedIsCold, WarmEnds, BacklogDrains | holds, 168,832 |
| `capture` | CaptureController / CaptureController.cfg | TypeOK, NoOrphanSession, ClientReleased, SettledTruth, DemandGetsItsFrame, OneFrameOneMark, CallsReturn | holds, 155,170 |
| `services` | MCServices / MCServices.cfg | ServicesTypeOK and, per service, LogTruthful; OneClient, ClientHasLiveSettings, SlowAppIsLeftAlone; EventServed; ThrottleOffMeansZero, DwellBeforeStep; AcceptedOnce, DigestInOrder, FamilyDeliversOnce; DownloadIsWhole; FrozenDisjoint, BackfillLosesNothing; WalkIsExact; ServerIsAsSaved, DisabledServesNobody | holds, 1,351,920 |
| `sessions_overlap` | MCSessions / MCSessions.cfg | TracksDisjoint | violated |
| `reports_redirect` | ReportDelivery / ReportRedirect.cfg | ConfirmedNotRepeated | violated |

The type invariants of `EnrichmentWorkers`, `ModelSupervisor` and `VisionScheduler` are
proved (section 5) and not repeated in their runs.

What they show:

* `enrichment`: the row state, the active set and the order in which the pool is
  stopped and started together do the work of a lease, through two restarts,
  errors or settings saves. Bounds (an enqueue waits while no id is left): two workers (any clash needs two), two job ids
  and one frame (embed, re-embed or tag), two attempts (one retry, then dead
  letter), the time constants 1 (only their order matters), levels 0 and 2 (level 1
  differs from 0 only in vision jobs, which level 2 refuses too).
* `enrichment_live`: with rows deleted and one disturbance, every job ends done,
  dead or deleted; with one worker an outdated vector of a frame that has text never
  outlives the jobs that owe its replacement.
* `enrichment_overlap`: two callers, one in `reconfigure_enrichment` awaiting the old
  pool, the other starting a new one. The start's unconditional reset requeues the
  job the old pool is running, and the new pool claims it.
* `enrichment_guard`: a worker has finalized a vision job for retry and is in
  `emit_progress`; `cancel_vision` deletes the row, a new job gets its rowid, another
  worker claims and registers it, and the first worker's guard removes the id. The
  set no longer covers the second worker.
* `enrichment_stale`: a worker holds the text from before the backfill and writes its vector
  after it, and no job is left that would replace it. In the shortest trace the backfill leaves
  the frame no text; the re-embed then completes without a write, and one worker is enough. Over
  new text it takes two workers, the one with the old text writing last.
* `supervisor`: a request, a Load, an Unload, the evictor, shutdown, two models, two
  calls and two faults (a crash, hang, leak, no free port, failed spawn or kill, or a
  relaunch). No call hangs in the loop of `acquire` or between gate and mutex, and an
  unused model does not stay resident. Two calls are enough for a lease and one who
  would replace its process, beside the evictor and shutdown; three were checked
  before the four invariants were proved for any number (section 5). Four process ids
  suffice for two attempts of two spawns. When `free_port` fails nothing is reported
  and the panel keeps its last status: `shown.told` remembers it.
* `supervisor_pin`: Unload clears the pin before it waits; a Load holding its lease
  sets it again; the next model inherits it.
* `vision_scheduler`: batch 1 with two frames makes both LIMIT and the watermark's
  floor of 1 matter; the sixth id is never used in the run, so no enqueue is
  refused for want of one; the one event is a capture, deletion, request, cancel or
  store error.

* `capture`: two callers, four calls, two sessions, two demands, one fault. Two
  sessions are what a stale task and its successor need; a channel of one makes it
  full with the second demand.
* `services`: the nine services share no state, so each behaviour is one of one of
  them and the states add up. Log: three retained transitions, four observations,
  three clock readings, so that overflow and a step back occur, in either order.
  Accessibility: two calls, two clients, a save, a panic, three walks, threshold 1.
  Trigger: minimum interval 2, so that an idle capture can get in the way of an
  event, and idle thresholds 2 and 3, so that the quiet period is the longer one or is not.
  Throttle: two callers, dwells of 2, seven ticks (both levels up and down), with and without a
  probe, and settings that cannot be read.
  Reports: two runs, two chunks, two chats, four receipts, two events (commands,
  crashes or errors). Downloads: one file of two ranges on two connections, two
  callers, two uploads, two mishaps. Sessions: two apps, gap 2, lookback 3, backfill
  chunks of 2 over seven instants, two more instants of capture, one upset (failed
  call, death or deletion). The head trim of the backfill needs a frozen session
  inside its chunk, which takes four instants after the first pass; that is too long for this
  run. It occurs in the third of the instances on which the inductive invariants of the session
  proofs were checked: the frames of `sessions_overlap` with two upsets (374,101 states), over
  thirteen instants with three (3,550,310), and one app with frames free at the instants 2 to 8,
  over twelve instants with one (1,254,600). Both session properties hold in all three.
  Pages: two timestamps (ties occur), three ids, two databases, limits
  1 and 2. API: two callers, two commands after the autostart, two servers, two sockets
  against a limit of one, one fault or restart.
* `reports_redirect`: a chunk is confirmed in B; the user selects A and retries, the
  redirected receipt ends unknown, the user has it resent and retries once more.
  The original then has no live direct successor, gets a second one, and A is sent
  the chunk again after it confirmed the resend.

* `sessions_overlap`: two applications, one after the other, two upsets. The incremental
  part writes a session over both, `freeze_sessions` fails, a frame in the middle is
  deleted, and the backfill inserts the first half, which it trims against frozen rows
  only; its own `freeze_sessions` freezes the two, and they overlap for good. An
  incremental part that fails between the insert of one half and the update of the
  other, followed by the freeze part of the same pass, ends the same way.

  A related path that no run states, seen while exploring the same module (one app,
  frames free at the instants 2 to 8, one upset): the backfill freezes a row of one
  frame that lies exactly at the cursor, what its trim left before another frozen row,
  and the save of the checkpoint then fails. `sessions_in_range` asks for rows that
  end strictly after the cursor (`store/src/sessions.rs:271`), so each later chunk
  misses that row, inserts a second one, finds the frame owned by a frozen row,
  deletes the new row and bails (`sessions_scheduler.rs:629`): the cursor then stays
  until that frame is deleted. Nothing frozen changes, so the safety theorems hold.

The six violations are the entries of `findings`, each against a sentence of the
code's own comments or, for sessions, of its specification (`specs/03_MASTER_PRODUCTION_SPEC.md:806`).

`CHECK_DEADLOCK FALSE` in the supervisor and scheduler runs: with all calls or events spent
and the scheduler stopped or no model resident, nothing is left to happen, which
is how these systems rest. In the enrichment runs deadlock is checked.

Every property has a mutant in `PROJECT.json`: a small bug in a mapped definition
(a guard not taken, a lock released early, an inequality made strict, a clean-up
left out) under which TLC reports it violated.

## 4. Fairness

* Enrichment: weak fairness for each worker, sweep and lifecycle call, because tokio
  runs ready tasks and provider calls end (client time-outs); strong fairness for
  `Tick`, because time passes also between the short windows that disable it; the
  governor returns to level 0 some time; both provider loads end. Store errors,
  crashes, cancels and saves are not fair, they are bounded events.
* Supervisor: weak fairness for each called task (the gate's order is part of the
  model, so this is enough), for the evictor's tick, for shutdown, and for the idle
  time-out. A lease is dropped in the end: the calls made under it have time-outs.
  Nobody has to call, and nothing has to fail.
* Capture: weak fairness for every call inside the controller (its time-outs included)
  and every loop; strong fairness for the source taking a demand, because its select
  races a timer and picks among ready arms at random. The properties of `services` are
  safety properties and need none.
* Scheduler: weak fairness for the loops (their sleeps are bounded; the timer's wake
  is not assumed, it may be disabled), strong fairness for taking the gate (tokio's
  Mutex is first come, first served), weak fairness for requests, the worker, `stop`
  and time.

## 5. Proofs

Checked by TLAPS with Z3, Zenon and LS4, for every value of the constants that
satisfies the named assumptions; about 21,600 obligations. Each inductive invariant was
checked by TLC on the instance of its run before it was proved.

**EnrichmentProofs.** `TypeCorrectness`: `Spec => []TypeOK`, by `TInv`, which adds
that a live row has a frame and attempts left, and that a worker with a job has its
frame. `ClaimsAreExclusive`, `GuardsCoverHolders`, `ClaimsAreLeases` and
`NothingIsDropped` assume `Calm`: one lifecycle caller at a time, no rows deleted, no
slow points; the runs `enrichment_overlap` and `enrichment_guard` show that the first
two are needed for the former pair. `ExclusiveClaim` is not inductive: that a
row is not claimed twice depends on it staying `running`, which depends on nobody
resetting it. `EInv` therefore says of each holder that its row is running, of age 0
until the guard is taken, and not claimable while the guard is still to be dropped
(`HoldersOK`; a retry must wait at least a tick, which is where the backoff matters);
that holders, including those still emitting, have distinct jobs; that a guarded
job is in the active set; that after the sweep's look no held row is stale
(`SweepSpares`); and that a pool with tasks is in the slot or awaited by the caller
that took it out (`PoolsAwaited`), which is what makes the unconditional reset of
`start_workers` harmless with one caller.

`ClaimsAreLeases` is the refinement: `Spec => LQ!LQSpec` under `Calm`. A step maps to
one of `LeasedQueue` through `hold`, or to a stutter; that a crash, sweep or reset maps
to a requeue of jobs nobody holds is where `EInv` is used.

`NothingIsDropped` is about data: a row marked done whose vector is missing needs
another row that will write it. `OInv` adds that rows and workers agree on frame and
kind (`WorkFits`), that an unwritten frame with an embed row has one that is `Owing`:
live or dead, and not about to be marked done by a worker that has already answered
(`EmbedOwed`). It uses `EInv` for the row of a worker in the middle of its job.

`TextVectorsAreOwed` needs no `Calm` but `OneWorker`: two workers, the default of
`enrich_worker_concurrency`, break it over new text as section 3 describes. It is about
frames that have text; for one the filter has blanked the run `enrichment_stale` shows that
nothing is owed, even with one worker. `VInv` says what each row and worker may still refer to
when ids are reused (`HeldFits`), that a worker about to write old text leaves another
row owing (`LateWriteOwed`), and that the owing row is not the one being marked done.

**SupervisorProofs.** `LeasesAreKept`: for any number of requests, loads, unloads,
models and permits, the process behind a lease stays resident with its model until
shutdown. `SupervisorExclusion`: whoever is between taking and dropping the mutex
is its holder, and nobody has a permit while one task has all. `SInv` ties the two
locks together: what a task may hold follows from its point and route
(`EnteredThroughGate`), nothing is resident while a process is being replaced
(`MutexContents`), and a leased request has a permit and is counted, which stops
the gate's exclusive users and the evictor respectively. `SupervisorTypes`.
`OneProcessAtATime`, `ResidentIsRecorded` and `PanelTellsTheTruth` add `PInv`: what runs
and is not stuck is the resident process or the one the mutex holder is killing or
starting (`RunningIsKnown`), the two never exist together (`ChildIsHeld`), and pidfile and
status are written before the mutex is let go (`Recorded`, `Shown`). When
`free_port` fails nothing is reported, so the panel may be late by that much (`told`).

**VisionProofs.** `LanesNeverDoubleQueue`: for every batch size and number of frames.
`NoDoubleQueue` needs that a lane at `list` or `enqueue` has the gate and that no
frame it still has to enqueue has a background job (`ListedFresh`): it had none when
it was read, and only the holder of the gate makes new ones. `StopLeavesItCold`: when
`stop` has returned both loops are over and the hint is off, since the idle loop
goes off only with the hint cleared. `SchedulerTypes`.

**CaptureProofs.** For any number of callers, sessions, demands and faults:
`NoSessionIsOrphaned` (`[]NoOrphanSession`), `RestIsTruthful` (`[]SettledTruth`) and
`ClientIsReleased` (`[]ClientReleased`). The last two speak of states at rest, which is
not inductive: `CInv` says what a call under way still owes. Over an empty slot a
published `Ready`, a logged `Started` and a connected client each wait for a caller at
the matching point of `stop_capture` (`StopOwes`); a session that is not tangled is
published and no stop is still to report over it (`RunningIsPublished`); and a caller
building a source holds the lock over an empty slot, so the new session takes nobody's
place (`BuilderHasLock`). That the client may be connected by a loop already taken out
of the slot is covered by `NoOrphanSession` itself: its stop has not joined it yet.

`CaptureTypesOK`, `OneFrameForOneMark` and `CleanDemandGetsItsFrame` follow a demand from
the channel through the source's queue and the loop to an answer (`DInv`): a demand is
in one place at a time, over all sessions (`OnePlace`); it is nowhere when it is about
to be sent (`SentIsFresh`), because only the holder of the gate sends and numbers are
given out once; a session that ended holds nothing; and while a clean demand is
registered no session works for another one (`CleanIsAlone`). That the demands suffice
for the callers inside `capture_now` (`DemandsFit`) is a cardinality argument.

**SensorProofs.** Accessibility (`UInv`): a recognize call that spawns holds the gate over
an empty slot, so the client it brings takes nobody's place (`OneClientOnly`); unless
`raced`, what a call between its checks and the slot believes of the settings is still
so (`SettingsHotApply`). The circuit breaker (`BInv`, `SlowAppsRest`): a burst of bad walks, those
heard before a cooldown has passed since its first, is bounded by what the threshold lets through
and the calls under way. Once one of them has opened the breaker the burst is settled: only calls
that were under way then can still add to it (`ComingAfter`); before, its length is the breaker's own
count and that of the calls the last opening left behind (`StaleWalks`). Triggers (`TInv`): `TriggersServed` is the bound on how long an
event waits, for every idle threshold; the invariant says that when an event is overdue, counted
from where it is undisturbed, only the rate ceiling is in its way (`CeilingAlone`), and that the
idle capture that raised the ceiling has used up its quiet period (`QuietPeriodUsed`), so there is
not a second one before the next input. Throttle (`GInv`): a saver at its
lock or join agrees with the setting, or could not read it, and a governor that is off has
published 0 (`ThrottleResets`); each dwell timer began after the last sample of the other side and
the last step (`DwellsFresh`), which gives `LevelStepsTakeADwell`. Downloads (`DInv`):
`DownloadsAreWhole` is `DownloadSpec => []DownloadIsWhole` for any numbers of callers, files,
ranges, connections, uploads and mishaps. It is about holes: no range of a file in place is zeros
of the preallocation or was lost, apart from the two exceptions of section 2. The property says nothing of the part, so `DInv` adds
what resuming relies on: over a part of the bitmap's length every marked range is there, in the
cache and synced (`MarksBacked`); what a running task believes of a range follows from its state
(`TaskKnows`); a file being fetched is not yet in place; and a blob of the cache is whole until a power loss hits
it (`Whole`). The order of sync and mark is what
makes `MarksBacked` survive a power loss, and the check of the length what makes it survive a
reclaimed part. `DownloadTypesOK` includes that one caller at most has the lane, and has it as
long as its task runs (`LaneHeld`).

**SessionProofs.** `FrozenSafety`: `SessionSpec => []FrozenDisjoint`, for all gaps, lookbacks,
chunk lengths, rows and upsets and whatever is captured, deleted, failed or cut off. The segmenter
comes first: `Linked` is an equivalence on frames, tracks do not interleave, and a track is cut
only where a merge gap is free. `TypeInv` relates rows, frames and calls. `DisjointInv` is about
rows that are sealed (frozen, and not `torn`): they are pairwise apart, and one after which its
track goes on was cut short by another frozen row and has kept its last frame (`SealedInv`,
`Covered`, `KeptOrGone`). What an incremental part is about to put, and the rows it is already done with,
are apart from each other and from every sealed row (`TailInv`): `PassBegins` establishes it by
`TrimTail`, and it makes `freeze_sessions` at the end of a whole pass harmless, which leaves no due
row behind. What a backfill chunk puts is apart likewise, or starts in a frozen row's frame, and
then not all its frames can be assigned, and the chunk is given up before its row is frozen
(`ChunkInv`: `ClearOK` for the drafts, `StageOK` for how far the calls of each have come, so that a
row about to be frozen is clear of every sealed one and has the last frame of its draft); it was
trimmed against the rows there, and its cut does not split a track (`CutIsSafe`). A row that is old
enough to be frozen belongs to a call still to come, its undoing included, and what a crash or a
failed call leaves of it is matched, narrowed or dropped by the next incremental part, or frozen as
torn when that fails too. `Steady` is what every step leaves
alone: frozen rows, their frames, and the past.

`NothingLost`: `SessionSpec => []BackfillLosesNothing`. `LossInv` has seven parts. The cursor, and
the cut of a chunk, lie in a gap that no later frame can fill (`GapInv`); rows and drafts
that have ended lie a merge gap back and have ended for good (`ClosedInv`); drafts have all the
frames of their span, as long as no part of the pass has failed (`FullCalls`); the rows a chunk
refers to will be frozen with it, the frames it was told a row has are still that row's, and before
the freeze each frame of a draft is the row's or frozen elsewhere (`PlanInv`);
the rows a whole incremental part is done with own the frames of their bounds (`TailFull`), and
so does every sealed row, unless another frozen row has the frame or it was `neglected`
(`FullInv`); and every frame behind the cursor is owned, in a chunk's call still to come, or in a
stretch too short to be a session, unless the chunk is being undone, which gives it up before the
cursor is saved (`BehindInv`). The step that matters is
`BackfillOpens`: each frame of the chunk is in a call's draft, in a frozen row or in a stretch too
short (`OpensCatches`), which takes following the rows that cut a draft short from one to the next. That a short stretch stays short when frames around it go is `TrackShrinks`.
TLC checked every part of both invariants on the three instances of section 3.

**ServiceProofs.** API (`AInv`): one command at a time over `config_lock`; what has been saved
and not yet taken, served or installed follows from the point the command is at, so
that at rest nothing is owed (`ServesWhatWasSaved`); every connection has a server that is
in the slot or awaited by its command (`NobodyIsLeftConnected`). Reports (`RInv`): a receipt
that is `Sending` is the worker's own or lost (`NotSentAgain`); the receipts of a digest
are whole, replacements point backwards, and the earlier chunks of one still to be sent are
addressed to the same chat or are the user's to decide about (`DigestsArriveInOrder`); a
family with a confirmed or unknown digest has no other run claimed (`OneDigestOfAFamily`).
A message is attempted once, once more for each automatic retry, and once more for each event
that asked for it, the user's retry or a failing store call (`ReportTypesOK`). The type bounds
the attempts by that sum; by itself this is not inductive, since a failed call is counted when it
happens and the attempt it causes comes later, so `AttemptsPaid` says that whatever may still be
sent without a further event is one below the bound.
Capture log (`LInv`): the retained transitions are in order (a clock that steps back is
clamped), each follows the truth of the complete history in every instant from
`unavailable_before` on, and the gap ends where they begin (`AnswersAreTruthful`).
Pages (`WInv`, `WalksAreExact`): a client that follows the cursors to the end gets each row that
was there at the first page and matched throughout exactly once, in order, and nothing younger
than its snapshot, however rows come, go and change meanwhile. The items lie in order before the
cursor; what is still owed is an item or lies behind the cursor and below the snapshot
(`WalkOK`), and no row can enter there, because frame ids only grow within one history
(`SnapshotHolds`, `RowsAreNumbered`). A page is cut from `Listing`, whose existence for a finite
set is shown by ranking each position by the number of those before it, a bijection.
Largest and smallest elements of finite sets of numbers are obtained by minimal
counterexample (`LeastNatural`, `GreatestNatural`, `NthOf`), since the induction theorems
cannot be instantiated.

The composition: `ServicesAreApart` says that a behaviour of `MCServices` is one of each of the
nine services' own specifications, so every theorem above is about the run `services` too;
`ServicesTypes` (`[]ServicesTypeOK`) follows from it and the nine type theorems.

**Assumptions.** Those of the modules, evaluated by TLC in the runs: constants are
positive numbers, sets of tasks are disjoint, the markers for "nobody" belong to no set of
tasks, and the recognize calls are finite in number; the rate interval is positive (`settings.rs:586` sees to it), and nothing is
assumed of the idle threshold. `BackoffAssumption` states for the
chosen constants that the exponential backoff lies between one tick and the cap
(`2^n` is beyond the SMT back end).

## 6. Model-checked only

* Liveness (`JobsSettle`, `CallsReturn`, `CallsEnd`, `IdleModelIsEvicted`, `WarmEnds`,
  `BacklogDrains`): the prover does not handle fairness and ENABLED.
* The assumed halves: that the exclusion theorems need `Calm`, and that of
  outdated vectors only those of frames with text are owed a job, is shown by the violated runs.

Every invariant, every action property and the refinement that a passing run checks are the
conclusion of a theorem, some under `Calm` or `OneWorker`.

## 7. Not modelled, and limits

In the modelled parts: process ids recycled by the operating system to foreign
processes, errors in writing the pidfile, cancellation of a task that is inside a
supervisor call, the launch arguments and memory arithmetic, logging and events to the user
interface. `job_stats` only reads. The capture loop's image encoding is data.

Left out for good: search ranking (numeric, read-only), OCR, embedding and
text filtering (library calls or pure classification), the MCP bridge (stateless),
the user interface, tray, overlay and updater, the harness and doctor tools.

In the newer modules: a `send` into a full demand channel has no time-out in the code
and is left by the source's progress or end; `process_frame` is one step that stores or drops; AI and
meeting tracks of the segmenter, exchanges and titles; vault and index files, the
report schedule, source-identity reset and pruning; HTTP, redirects and progress of
downloads, and an orphaned blocking write is assumed to end before the next run opens
the part, renames are durable in the order they were made, and what a power loss does to a file
copied from hf-hub's cache is modelled but excluded from the property; `stop_throttle`, called on
the way out only; the accessibility tree walk and the pixel diff.

Of the paged readers the byte layout of cursors and the coverage counts, of the local API
the routes (wrappers of a store call), the permissions per route and `last_error` are left
out. A serve task that `stop` has to abort is taken to end its connections with it: they
run no further than the poll they are in.

## 8. Plan

1. Done: `JobQueue`, `EnrichmentWorkers`, `LeasedQueue`, `ModelSupervisor`,
   `VisionScheduler` and proofs of their main safety invariants; `CaptureController`,
   `CaptureLog`, `UiaClient`, `TriggerMachine`, `ThrottleGovernor`, `ReportDelivery`,
   `ModelDownload`, `SessionScheduler`, `HistoryPages`, `ApiServer`, and proofs for two
   of them.
2. Done: the refinement under `Calm`, and proofs of every safety property the passing runs
   check, under `Calm` or `OneWorker` where a violated run shows that these are needed.
3. Models: file deliveries of reports, the retention sweep and the self-capture purge, the
   composition of the governor's level with the worker pool.
