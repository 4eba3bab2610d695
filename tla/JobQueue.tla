------------------------------ MODULE JobQueue ------------------------------
(***************************************************************************)
(* The durable job queue of crates/store (table `jobs`), the two kinds of  *)
(* enrichment data its jobs produce, and the frames they hang off.         *)
(*                                                                         *)
(* Every operator below that mentions a primed variable is one store call: *)
(* `with_conn` runs its SQL under the connection mutex, so a call is one   *)
(* atomic step.  They are composed with their callers in EnrichmentWorkers *)
(* and VisionScheduler.                                                    *)
(*                                                                         *)
(* Time is relative: `wait` is not_before - now (0 once due) and `age` is  *)
(* now - updated_at, saturated at the visibility timeout.  `age` is read   *)
(* by one query only, the periodic sweep over running rows, so rows in     *)
(* other states keep age 0.                                                *)
(***************************************************************************)
EXTENDS Naturals, FiniteSets

CONSTANTS
    Frames,             \* frame ids, a set of naturals >= 1
    OldFrames,          \* frames captured before the filter-version bump
    MaxJobId,           \* bound: rowids 1..MaxJobId
    MaxAttempts,        \* jobs.max_attempts, written as 3 by every producer
    BackoffBase,        \* BACKOFF_BASE_MS, in ticks
    BackoffCap,         \* BACKOFF_CAP_MS, in ticks
    VisibilityTimeout   \* VISIBILITY_TIMEOUT_MS, in ticks

ASSUME FramesAssumption == Frames \subseteq Nat \ {0} /\ OldFrames \subseteq Frames
ASSUME JobIdAssumption == MaxJobId \in Nat \ {0}
ASSUME AttemptsAssumption == MaxAttempts \in Nat \ {0}
ASSUME TimeAssumption ==
    /\ BackoffBase \in Nat
    /\ BackoffCap \in Nat
    /\ VisibilityTimeout \in Nat \ {0}

VARIABLES
    jobs,     \* the jobs table: rowid -> row, `absent` where there is no row
    frames,   \* frames + frame_text.content_text, by what the embedder would read
    emb,      \* embeddings: the text each frame's stored vector was computed from
    vis       \* frames with a vision_analysis row

storeVars == <<jobs, frames, emb, vis>>

JobIds == 1..MaxJobId
NoFrame == 0

Kinds == {"embed_text", "vision_tag"}

States == {"pending", "running", "done", "dead"}

Live == {"pending", "running"}

Settled == {"done", "dead", "absent"}

\* content_text of a frame: no row, blank, or non-blank text of the previous or
\* the current filter version.
Contents == {"absent", "empty", "old", "current"}

\* Enough priorities to tell background work (0) from on-demand work
\* (VISION_ONDEMAND_PRIORITY).
Priorities == {0, 10}

Row == [kind : Kinds, frame : Frames \cup {NoFrame}, state : States \cup {"absent"},
        priority : Priorities, attempts : 0..MaxAttempts,
        wait : 0..BackoffCap, age : 0..VisibilityTimeout]

NoRow == [kind |-> "embed_text", frame |-> NoFrame, state |-> "absent",
          priority |-> 0, attempts |-> 0, wait |-> 0, age |-> 0]

\* The columns an INSERT leaves to their DEFAULTs.
FreshRow(kind, frame, priority) ==
    [kind |-> kind, frame |-> frame, state |-> "pending", priority |-> priority,
     attempts |-> 0, wait |-> 0, age |-> 0]

-----------------------------------------------------------------------------
(* Reads *)

\* `id INTEGER PRIMARY KEY` without AUTOINCREMENT: a new row takes the largest
\* rowid in the table plus one, so the id of a deleted last row is used again.
IsNextRowid(id) ==
    /\ \A k \in JobIds : k >= id => jobs[k].state = "absent"
    /\ id > 1 => jobs[id - 1].state # "absent"

\* WHERE state = 'pending' AND not_before <= now AND kind IN (kinds)
Claimable(id, kinds) ==
    /\ jobs[id].state = "pending"
    /\ jobs[id].wait = 0
    /\ jobs[id].kind \in kinds

\* ORDER BY priority DESC, id
ClaimsBefore(i, k) ==
    \/ jobs[i].priority > jobs[k].priority
    \/ jobs[i].priority = jobs[k].priority /\ i <= k

\* LIMIT 1, the only limit the pool passes
IsNextClaim(id, kinds) ==
    /\ Claimable(id, kinds)
    /\ \A k \in JobIds : Claimable(k, kinds) => ClaimsBefore(id, k)

\* Frames with no vision_analysis row and no vision_tag job in flight or dead.
Untagged ==
    {f \in Frames :
        /\ frames[f] # "absent"
        /\ f \notin vis
        /\ ~ \E id \in JobIds :
              /\ jobs[id].frame = f
              /\ jobs[id].kind = "vision_tag"
              /\ jobs[id].state \in Live \cup {"dead"}}

\* COUNT(*) of in-flight vision_tag jobs
PendingVisionJobCount ==
    Cardinality({id \in JobIds : jobs[id].kind = "vision_tag" /\ jobs[id].state \in Live})

\* Exponential backoff: base * 2^clamp(attempts, 0, 16), capped.
BackoffTicks(attempts) ==
    LET shift == IF attempts > 16 THEN 16 ELSE attempts
        ticks == BackoffBase * 2^shift
    IN IF ticks < BackoffCap THEN ticks ELSE BackoffCap

\* The base and the cap are positive: a retry is never due at once.
ASSUME BackoffAssumption == \A a \in 0..MaxAttempts : BackoffTicks(a) \in 1..BackoffCap

-----------------------------------------------------------------------------
(* Writes to the jobs table, by what they make of a row *)

Claimed(row) == [row EXCEPT !.state = "running", !.age = 0]

Completed(row) == [row EXCEPT !.state = "done", !.age = 0]

\* `retry` says whether retry_at is Some; `wait` is how far away it is.
Failed(row, retry, wait) ==
    IF retry /\ row.attempts + 1 < MaxAttempts
    THEN [row EXCEPT !.attempts = row.attempts + 1, !.state = "pending", !.wait = wait, !.age = 0]
    ELSE [row EXCEPT !.attempts = row.attempts + 1, !.state = "dead", !.age = 0]

Requeued(row) == [row EXCEPT !.state = "pending", !.age = 0]

\* enqueue_job.  The frame reference is a foreign key, so the frame must exist.
EnqueueJob(kind, frame, priority) ==
    /\ frames[frame] # "absent"
    /\ \E id \in JobIds :
          /\ IsNextRowid(id)
          /\ jobs' = [jobs EXCEPT ![id] = FreshRow(kind, frame, priority)]

\* claim_jobs, the row it hands out
ClaimJob(id, kinds) ==
    /\ IsNextClaim(id, kinds)
    /\ jobs' = [jobs EXCEPT ![id] = Claimed(jobs[id])]

\* complete_job, when its UPDATE matches a row
CompleteJob(id) ==
    /\ jobs[id].state = "running"
    /\ jobs' = [jobs EXCEPT ![id] = Completed(jobs[id])]

\* fail_job, when its UPDATE matches a row
FailJob(id, retry, wait) ==
    /\ jobs[id].state = "running"
    /\ jobs' = [jobs EXCEPT ![id] = Failed(jobs[id], retry, wait)]

\* reset_stale_running_jobs(0): every running row
ResetAllRunning ==
    jobs' = [id \in JobIds |->
                IF jobs[id].state = "running" THEN Requeued(jobs[id]) ELSE jobs[id]]

\* Mutant of ResetStaleRunning: a strict comparison that no saturated age meets.
ResetStrictlyOlder ==
    jobs' = [id \in JobIds |->
                IF jobs[id].state = "running" /\ jobs[id].age > VisibilityTimeout
                THEN Requeued(jobs[id]) ELSE jobs[id]]

\* reset_stale_running_jobs(VISIBILITY_TIMEOUT_MS): running rows at least that old
ResetStaleRunning ==
    jobs' = [id \in JobIds |->
                IF jobs[id].state = "running" /\ jobs[id].age = VisibilityTimeout
                THEN Requeued(jobs[id]) ELSE jobs[id]]

\* cancel_pending_vision_jobs
CancelPendingVision ==
    jobs' = [id \in JobIds |->
                IF jobs[id].kind = "vision_tag" /\ jobs[id].state = "pending"
                THEN NoRow ELSE jobs[id]]

-----------------------------------------------------------------------------
(* Writes to the frames and to the data the jobs produce *)

\* delete_frame: ON DELETE CASCADE takes the frame's jobs, vector and analysis.
DeleteFrame(f) ==
    /\ frames[f] # "absent"
    /\ frames' = [frames EXCEPT ![f] = "absent"]
    /\ jobs' = [id \in JobIds |-> IF jobs[id].frame = f THEN NoRow ELSE jobs[id]]
    /\ emb' = [emb EXCEPT ![f] = "absent"]
    /\ vis' = vis \ {f}

\* upsert_text_embedding: overwrites whatever vector the frame had.  The frame
\* reference is a foreign key.
UpsertTextEmbedding(f, text) ==
    /\ frames[f] # "absent"
    /\ emb' = [emb EXCEPT ![f] = text]

\* insert_vision
InsertVision(f) ==
    /\ frames[f] # "absent"
    /\ vis' = vis \cup {f}

\* Mutant of BackfillFrame: the re-embed is not enqueued.
BackfillWithoutReembed(f) ==
    /\ frames[f] = "old"
    /\ \E text \in {"empty", "current"} : frames' = [frames EXCEPT ![f] = text]
    /\ emb' = [emb EXCEPT ![f] = "absent"]
    /\ UNCHANGED <<jobs, vis>>

\* One frame of backfill_filter_version whose content_text changes: the text is
\* rewritten, the stale vector deleted and the re-embed enqueued in one
\* transaction.  The filter may leave no text at all; the re-embed is enqueued all
\* the same.  A frame whose text does not change only advances a version number
\* nothing else reads.
BackfillFrame(f) ==
    /\ frames[f] = "old"
    /\ \E text \in {"empty", "current"} : frames' = [frames EXCEPT ![f] = text]
    /\ emb' = [emb EXCEPT ![f] = "absent"]
    /\ EnqueueJob("embed_text", f, 0)
    /\ UNCHANGED vis

\* One tick of the wall clock, as the relative times see it.
TickRow(row) ==
    [row EXCEPT
        !.wait = IF row.wait > 0 THEN row.wait - 1 ELSE 0,
        !.age = IF row.state = "running" /\ row.age < VisibilityTimeout
                THEN row.age + 1 ELSE row.age]

StoreTick ==
    /\ jobs' = [id \in JobIds |-> TickRow(jobs[id])]
    /\ UNCHANGED <<frames, emb, vis>>

-----------------------------------------------------------------------------
\* A database left by an earlier run: every frame captured then has one
\* embed_text job: pending, left running by a crash before or after its vector
\* was written, or done.
StoreInit ==
    /\ frames = [f \in Frames |-> IF f \in OldFrames THEN "old" ELSE "absent"]
    /\ vis = {}
    /\ \E s \in [OldFrames -> {"pending", "running", "done"}], written \in SUBSET OldFrames :
          /\ \A f \in OldFrames : /\ s[f] = "done" => f \in written
                                  /\ s[f] = "pending" => f \notin written
          /\ jobs = [id \in JobIds |->
                       IF id \in OldFrames
                       THEN [FreshRow("embed_text", id, 0) EXCEPT !.state = s[id]]
                       ELSE NoRow]
          /\ emb = [f \in Frames |-> IF f \in written THEN "old" ELSE "absent"]

StoreTypeOK ==
    /\ jobs \in [JobIds -> Row]
    /\ frames \in [Frames -> Contents]
    /\ emb \in [Frames -> {"absent", "old", "current"}]
    /\ vis \subseteq Frames
=============================================================================
