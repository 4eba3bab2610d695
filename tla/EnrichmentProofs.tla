-------------------------- MODULE EnrichmentProofs --------------------------
(***************************************************************************)
(* Theorems about EnrichmentWorkers, for every set of frames, pools and    *)
(* workers and every bound.                                                *)
(***************************************************************************)
EXTENDS EnrichmentWorkers, JobQueueProofs

-----------------------------------------------------------------------------
(* Types.  Beside TypeOK, two facts the actions rely on: a row that is there *)
(* has a frame and, while it is live, attempts left; a worker that has a job *)
(* has that job's frame, and text to embed once it has read it.              *)

WorkersOK ==
    \A w \in Workers :
        /\ pc[w] \in Busy => work[w].frame \in Frames
        /\ pc[w] = "writing" /\ work[w].kind = "embed_text" => work[w].text \in {"old", "current"}

CtlOK == \A c \in Controllers : ctl[c].pc = "join" => ctl[c].pool \in Pools

TInv == TypeOK /\ RowsOK /\ WorkersOK /\ CtlOK

\* A worker's last store call (complete, retry or dead letter) keeps the rows
\* well-formed.
LEMMA FinalizeRows ==
    ASSUME RowsOK, NEW job \in Work, Finalize(job)
    PROVE  RowsOK'
<1>1. job.id \in JobIds /\ job.attempts \in 0..MaxAttempts
  BY DEF Work
<1>2. BackoffTicks(job.attempts) \in 0..BackoffCap
  BY <1>1, BackoffAssumption, TimeAssumption
<1>3. CASE CompleteJob(job.id)
  BY <1>1, <1>3, CompletedOK, OneRowReplaced DEF CompleteJob, RowsOK
<1>4. ASSUME NEW retry \in BOOLEAN, NEW wait \in 0..BackoffCap, FailJob(job.id, retry, wait)
      PROVE  RowsOK'
  BY <1>1, <1>4, FailedOK, OneRowReplaced DEF FailJob, RowsOK
<1> QED BY <1>2, <1>3, <1>4, Zero DEF Finalize

\* What the worker's locals may become
LEMMA NoWorkOK == NoWork \in Work /\ \A K \in SUBSET Kinds : [NoWork EXCEPT !.kinds = K] \in Work
BY Zero, JobIdAssumption DEF NoWork, Work, JobIds, Kinds, Contents, Outcomes

\* A job in hand gets its text and its outcome,
LEMMA WorkUpdateOK ==
    ASSUME NEW r \in Work, NEW text \in Contents, NEW out \in Outcomes
    PROVE  /\ [r EXCEPT !.text = text] \in Work
           /\ [r EXCEPT !.outcome = out] \in Work
BY Zenon DEF Work

\* and stays that job.
LEMMA WorkUpdateKeeps ==
    ASSUME NEW r \in Work, NEW text, NEW out
    PROVE  /\ [r EXCEPT !.text = text].frame = r.frame
           /\ [r EXCEPT !.text = text].kind = r.kind
           /\ [r EXCEPT !.text = text].id = r.id
           /\ [r EXCEPT !.text = text].text = text
           /\ [r EXCEPT !.outcome = out].frame = r.frame
           /\ [r EXCEPT !.outcome = out].kind = r.kind
           /\ [r EXCEPT !.outcome = out].id = r.id
BY DEF Work

\* TInv by the part of the system it speaks of.
DataOK ==
    /\ frames \in [Frames -> Contents]
    /\ emb \in [Frames -> {"absent", "old", "current"}]
    /\ vis \subseteq Frames

WorkOK ==
    /\ pc \in [Workers -> Labels]
    /\ work \in [Workers -> Work]
    /\ WorkersOK

PoolsOK ==
    /\ active \in [Pools -> SUBSET JobIds]
    /\ sweeper \in [Pools -> {"off", "sleep", "checked"}]
    /\ stop \in [Pools -> BOOLEAN]

KernelOK ==
    /\ slot \in Pools \cup {None}
    /\ lock \in Controllers \cup {None}
    /\ ctl \in [Controllers -> Controller]
    /\ embedder \in BOOLEAN /\ vision \in BOOLEAN
    /\ CtlOK

EnvOK ==
    /\ level \in Levels
    /\ ingest \in Frames \cup {NoFrame}
    /\ events \in 0..MaxEvents

\* The type invariant is its parts,
LEMMA TInvParts == TInv => RowsOK /\ DataOK /\ WorkOK /\ PoolsOK /\ KernelOK /\ EnvOK
BY DEF TInv, TypeOK, StoreTypeOK, RowsOK, DataOK, WorkOK, PoolsOK, KernelOK, EnvOK

\* before a step
LEMMA TInvWhole == RowsOK /\ DataOK /\ WorkOK /\ PoolsOK /\ KernelOK /\ EnvOK => TInv
BY DEF TInv, TypeOK, StoreTypeOK, RowsOK, DataOK, WorkOK, PoolsOK, KernelOK, EnvOK

\* and after.
LEMMA TInvWholeNext ==
    RowsOK' /\ DataOK' /\ WorkOK' /\ PoolsOK' /\ KernelOK' /\ EnvOK' => TInv'
BY DEF TInv, TypeOK, StoreTypeOK, RowsOK, DataOK, WorkOK, PoolsOK, KernelOK, EnvOK

\* A part of the system that a step leaves alone keeps its types.
LEMMA DataKept == ASSUME DataOK, UNCHANGED <<frames, emb, vis>> PROVE DataOK'
BY DEF DataOK

\* Each part is kept by what leaves its variables alone: the workers,
LEMMA WorkKept == ASSUME WorkOK, UNCHANGED workerVars PROVE WorkOK'
BY DEF WorkOK, WorkersOK, workerVars

\* the pools,
LEMMA PoolsKept == ASSUME PoolsOK, UNCHANGED <<active, sweeper, stop>> PROVE PoolsOK'
BY DEF PoolsOK

\* the Kernel,
LEMMA KernelKept == ASSUME KernelOK, UNCHANGED kernelVars PROVE KernelOK'
BY DEF KernelOK, CtlOK, kernelVars

\* the environment,
LEMMA EnvKept == ASSUME EnvOK, UNCHANGED envVars PROVE EnvOK'
BY DEF EnvOK, envVars

\* also when it has one more event,
LEMMA EventEnv == ASSUME EnvOK, Event, UNCHANGED <<level, ingest>> PROVE EnvOK'
BY EventsAssumption DEF EnvOK, Event

\* and the store.
LEMMA StoreKept == ASSUME RowsOK, DataOK, UNCHANGED storeVars PROVE RowsOK' /\ DataOK'
BY RowsKept, DataKept DEF storeVars

\* A worker moves, with its locals or without.
LEMMA WorkMoves ==
    ASSUME WorkOK, NEW w \in Workers, NEW l \in Labels, NEW r \in Work,
           l \in Busy => r.frame \in Frames,
           l = "writing" /\ r.kind = "embed_text" => r.text \in {"old", "current"},
           GoTo(w, l), SetWork(w, r)
    PROVE  WorkOK'
BY DEF WorkOK, WorkersOK, GoTo, SetWork

\* A worker that goes on keeps its types, if it does not begin a job or a write.
LEMMA LabelMoves ==
    ASSUME WorkOK, NEW w \in Workers, NEW l \in Labels, l # "writing",
           l \in Busy => pc[w] \in Busy,
           GoTo(w, l), UNCHANGED work
    PROVE  WorkOK'
BY DEF WorkOK, WorkersOK, GoTo

\* The points of a worker, and those at which it has a job.
LEMMA LabelsOK ==
    /\ {"off", "top", "polled", "emit", "claimed", "reading", "writing", "final"} \subseteq Labels
    /\ \A l \in {"off", "top", "polled", "emit"} : l \notin Busy
    /\ \A l \in {"claimed", "reading", "writing", "final"} : l \in Busy
BY DEF Labels, Busy

\* The types hold at the start,
LEMMA TypeInit == Init => TInv
<1> SUFFICES ASSUME Init PROVE TInv
  OBVIOUS
<1>1. RowsOK /\ DataOK
  <2>1. PICK st \in [OldFrames -> {"pending", "running", "done"}], written \in SUBSET OldFrames :
          /\ jobs = [id \in JobIds |->
                       IF id \in OldFrames
                       THEN [FreshRow("embed_text", id, 0) EXCEPT !.state = st[id]]
                       ELSE NoRow]
          /\ emb = [f \in Frames |-> IF f \in written THEN "old" ELSE "absent"]
    BY DEF Init, StoreInit
  <2>2. ASSUME NEW f \in OldFrames PROVE RowOK([FreshRow("embed_text", f, 0) EXCEPT !.state = st[f]])
    BY FramesAssumption, AttemptsAssumption, Zero DEF RowOK, FreshRow, Row, States, Live, Kinds, Priorities
  <2>3. RowsOK
    BY <2>1, <2>2, NoRowOK DEF RowsOK, RowOK
  <2>4. DataOK
    BY <2>1 DEF Init, StoreInit, DataOK, Contents
  <2> QED BY <2>3, <2>4
<1>2. WorkOK
  BY NoWorkOK DEF Init, WorkOK, WorkersOK, Labels, Busy
<1>3. PoolsOK
  BY DEF Init, PoolsOK
<1>4. KernelOK
  BY DEF Init, KernelOK, CtlOK, IdleCtl, Controller
<1>5. EnvOK
  BY LevelsAssumption, EventsAssumption DEF Init, EnvOK
<1> QED BY <1>1, <1>2, <1>3, <1>4, <1>5, TInvWhole

\* through the steps of the workers,
LEMMA WorkerTypeStep ==
    ASSUME TInv, NEW w \in Workers, WorkerStep(w) \/ WorkerClaimFails(w) \/ WorkerFinalizeFails(w)
    PROVE  TInv'
<1>0. RowsOK /\ DataOK /\ WorkOK /\ PoolsOK /\ KernelOK /\ EnvOK /\ work[w] \in Work
  BY TInvParts DEF WorkOK
<1> DEFINE Rest == UNCHANGED <<storeVars, active, sweeper, stop, kernelVars, envVars>>
<1>kept. ASSUME Rest, WorkOK' PROVE TInv'
  <2>1. RowsOK' /\ DataOK' /\ PoolsOK' /\ KernelOK' /\ EnvOK'
    BY <1>0, <1>kept, StoreKept, PoolsKept, KernelKept, EnvKept
  <2> QED BY <2>1, <1>kept, TInvWholeNext
<1>1. ASSUME WorkerStops(w) PROVE TInv'
  BY <1>0, <1>1, <1>kept, LabelMoves, LabelsOK DEF WorkerStops
<1>2. ASSUME WorkerPolls(w) PROVE TInv'
  <2>1. ClaimKinds(PoolOf[w]) \in SUBSET Kinds
    BY DEF ClaimKinds
  <2>2. [NoWork EXCEPT !.kinds = ClaimKinds(PoolOf[w])] \in Work
    BY <2>1, NoWorkOK
  <2>3. WorkOK'
    BY <1>0, <1>2, <2>2, WorkMoves, LabelsOK DEF WorkerPolls
  <2> QED BY <1>2, <2>3, <1>kept DEF WorkerPolls
<1>3. ASSUME WorkerClaims(w) PROVE TInv'
  <2>1. PICK id \in JobIds :
          /\ ClaimJob(id, work[w].kinds)
          /\ SetWork(w, [NoWork EXCEPT !.id = id, !.kind = jobs[id].kind,
                            !.frame = jobs[id].frame, !.attempts = jobs[id].attempts])
    BY <1>3 DEF WorkerClaims
  <2>2. jobs[id].state = "pending" /\ RowOK(jobs[id]) /\ jobs[id].frame \in Frames
    BY <1>0, <2>1 DEF ClaimJob, IsNextClaim, Claimable, RowsOK, RowOK
  <2>3. RowsOK'
    BY <1>0, <2>1, <2>2, ClaimedOK, OneRowReplaced DEF ClaimJob
  <2> DEFINE r == [NoWork EXCEPT !.id = id, !.kind = jobs[id].kind,
                      !.frame = jobs[id].frame, !.attempts = jobs[id].attempts]
  <2>row. /\ jobs[id].kind \in Kinds /\ jobs[id].frame \in Frames \cup {NoFrame}
          /\ jobs[id].attempts \in 0..MaxAttempts
    BY <2>2, RowFields DEF RowOK
  <2>r. r \in Work /\ r.frame = jobs[id].frame
    BY <2>row DEF NoWork, Work, Contents, Outcomes
  <2>4. SetWork(w, r)
    BY <2>1
  <2> HIDE DEF r
  <2>5. WorkOK'
    BY <1>0, <1>3, <2>2, <2>r, <2>4, WorkMoves, LabelsOK DEF WorkerClaims
  <2>6. DataOK' /\ PoolsOK' /\ KernelOK' /\ EnvOK'
    BY <1>0, <1>3, DataKept, PoolsKept, KernelKept, EnvKept DEF WorkerClaims
  <2> QED BY <2>3, <2>5, <2>6, TInvWholeNext
<1>4. ASSUME WorkerClaimsNothing(w) PROVE TInv'
  <2>1. WorkOK'
    BY <1>0, <1>4, NoWorkOK, WorkMoves, LabelsOK DEF WorkerClaimsNothing
  <2> QED BY <1>4, <2>1, <1>kept DEF WorkerClaimsNothing
<1>claim. ASSUME WorkerClaimFails(w) PROVE TInv'
  <2>1. WorkOK'
    BY <1>0, <1>claim, NoWorkOK, WorkMoves, LabelsOK DEF WorkerClaimFails
  <2>2. RowsOK' /\ DataOK' /\ PoolsOK' /\ KernelOK' /\ EnvOK'
    BY <1>0, <1>claim, StoreKept, PoolsKept, KernelKept, EventEnv DEF WorkerClaimFails
  <2> QED BY <2>1, <2>2, TInvWholeNext
<1>5. ASSUME WorkerBegins(w) PROVE TInv'
  <2>1. WorkOK'
    BY <1>0, <1>5, LabelMoves, LabelsOK DEF WorkerBegins
  <2>2. work[w].id \in JobIds
    BY <1>0 DEF Work
  <2>3. PoolsOK'
    BY <1>0, <1>5, <2>2, PoolOfAssumption DEF WorkerBegins, PoolsOK
  <2>4. RowsOK' /\ DataOK' /\ KernelOK' /\ EnvOK'
    BY <1>0, <1>5, StoreKept, KernelKept, EnvKept DEF WorkerBegins
  <2> QED BY <2>1, <2>3, <2>4, TInvWholeNext
<1>6. ASSUME WorkerReturnsEarly(w) PROVE TInv'
  <2>1. PICK out \in Outcomes : SetWork(w, [work[w] EXCEPT !.outcome = out])
    BY <1>6 DEF WorkerReturnsEarly, EarlyOutcomes, Outcomes
  <2>2. work[w].frame \in Frames
    BY <1>0, <1>6, LabelsOK DEF WorkerReturnsEarly, WorkOK, WorkersOK
  <2>3. WorkOK'
    BY ZenonT(40), <1>0, <1>6, <2>1, <2>2, WorkUpdateOK, WorkUpdateKeeps, WorkMoves, LabelsOK
      DEF WorkerReturnsEarly, Contents
  <2> QED BY <1>6, <2>3, <1>kept DEF WorkerReturnsEarly
<1>7. ASSUME WorkerReads(w) PROVE TInv'
  <2> DEFINE text == frames[work[w].frame]
  <2>1. work[w].frame \in Frames
    BY <1>0, <1>7, LabelsOK DEF WorkerReads, WorkOK, WorkersOK
  <2>2. text \in Contents /\ (work[w].kind = "embed_text" => text \in {"old", "current"})
    BY <1>0, <1>7, <2>1 DEF WorkerReads, DataOK, Contents, NothingToDo
  <2> DEFINE r == [work[w] EXCEPT !.text = text]
  <2>r. r \in Work /\ r.frame = work[w].frame /\ r.kind = work[w].kind /\ r.text = text
    BY <1>0, <2>2, WorkUpdateOK, WorkUpdateKeeps DEF Outcomes
  <2>m. GoTo(w, "writing") /\ SetWork(w, r)
    BY <1>7 DEF WorkerReads
  <2> HIDE DEF r, text
  <2>3. WorkOK'
    BY <1>0, <2>1, <2>2, <2>r, <2>m, WorkMoves, LabelsOK
  <2> QED BY <1>7, <2>3, <1>kept DEF WorkerReads
<1>8. ASSUME WorkerWrites(w) PROVE TInv'
  <2>1. work[w].frame \in Frames
    BY <1>0, <1>8, LabelsOK DEF WorkerWrites, WorkOK, WorkersOK
  <2>2. WorkOK'
    BY <1>0, <1>8, <2>1, WorkUpdateOK, WorkUpdateKeeps, WorkMoves, LabelsOK
      DEF WorkerWrites, Outcomes, Contents
  <2>3. DataOK'
    BY <1>0, <1>8, <2>1 DEF WorkerWrites, UpsertTextEmbedding, InsertVision, WorkOK, WorkersOK, DataOK
  <2>4. RowsOK' /\ PoolsOK' /\ KernelOK' /\ EnvOK'
    BY <1>0, <1>8, RowsKept, PoolsKept, KernelKept, EnvKept DEF WorkerWrites
  <2> QED BY <2>2, <2>3, <2>4, TInvWholeNext
<1>9. ASSUME WorkerRetries(w) PROVE TInv'
  <2>1. work[w].frame \in Frames
    BY <1>0, <1>9, LabelsOK DEF WorkerRetries, WorkOK, WorkersOK
  <2>2. WorkOK'
    BY <1>0, <1>9, <2>1, WorkUpdateOK, WorkUpdateKeeps, WorkMoves, LabelsOK
      DEF WorkerRetries, Outcomes, Contents
  <2> QED BY <1>9, <2>2, <1>kept DEF WorkerRetries
<1>10. ASSUME WorkerFinalizes(w) PROVE TInv'
  <2>1. RowsOK'
    BY <1>0, <1>10, FinalizeRows DEF WorkerFinalizes
  <2>2. WorkOK'
    BY <1>0, <1>10, LabelMoves, LabelsOK DEF WorkerFinalizes
  <2>3. DataOK' /\ PoolsOK' /\ KernelOK' /\ EnvOK'
    BY <1>0, <1>10, DataKept, PoolsKept, KernelKept, EnvKept DEF WorkerFinalizes
  <2> QED BY <2>1, <2>2, <2>3, TInvWholeNext
<1>11. ASSUME WorkerFinalizesNothing(w) PROVE TInv'
  BY <1>0, <1>11, <1>kept, LabelMoves, LabelsOK DEF WorkerFinalizesNothing
<1>12. ASSUME WorkerFinalizeFails(w) PROVE TInv'
  <2>1. WorkOK'
    BY <1>0, <1>12, LabelMoves, LabelsOK DEF WorkerFinalizeFails
  <2>2. RowsOK' /\ DataOK' /\ PoolsOK' /\ KernelOK' /\ EnvOK'
    BY <1>0, <1>12, StoreKept, PoolsKept, KernelKept, EventEnv DEF WorkerFinalizeFails
  <2> QED BY <2>1, <2>2, TInvWholeNext
<1>13. ASSUME WorkerEmits(w) PROVE TInv'
  <2>1. WorkOK'
    BY <1>0, <1>13, NoWorkOK, WorkMoves, LabelsOK DEF WorkerEmits
  <2>2. PoolsOK'
    BY <1>0, <1>13, PoolOfAssumption DEF WorkerEmits, PoolsOK
  <2>3. RowsOK' /\ DataOK' /\ KernelOK' /\ EnvOK'
    BY <1>0, <1>13, StoreKept, KernelKept, EnvKept DEF WorkerEmits
  <2> QED BY <2>1, <2>2, <2>3, TInvWholeNext
<1> QED
  BY <1>1, <1>2, <1>3, <1>4, <1>claim, <1>5, <1>6, <1>7, <1>8, <1>9, <1>10, <1>11, <1>12, <1>13 DEF WorkerStep

\* of the sweeps,
LEMMA SweepTypeStep ==
    ASSUME TInv, NEW p \in Pools, SweepChecks(p) \/ SweepResets(p) \/ SweepFails(p) \/ SweepStops(p)
    PROVE  TInv'
<1>0. RowsOK /\ DataOK /\ WorkOK /\ PoolsOK /\ KernelOK /\ EnvOK
  BY TInvParts
<1>1. WorkOK' /\ KernelOK' /\ EnvOK'
  BY <1>0, WorkKept, KernelKept, EnvKept, EventEnv DEF SweepChecks, SweepResets, SweepFails, SweepStops
<1>2. DataOK'
  BY <1>0, DataKept DEF SweepChecks, SweepResets, SweepFails, SweepStops, storeVars
<1>3. RowsOK'
  BY <1>0, RowsKept, ResetStaleRows DEF SweepChecks, SweepResets, SweepFails, SweepStops, storeVars
<1>4. PoolsOK'
  BY <1>0 DEF SweepChecks, SweepResets, SweepFails, SweepStops, PoolsOK
<1> QED BY <1>1, <1>2, <1>3, <1>4, TInvWholeNext

\* One caller moves on; a caller that waits for a pool waits for one there is.
LEMMA CtlMoves ==
    ASSUME KernelOK, NEW c \in Controllers, NEW v \in Controller,
           v.pc = "join" => v.pool \in Pools,
           ctl' = [ctl EXCEPT ![c] = v],
           slot' \in Pools \cup {None}, lock' \in Controllers \cup {None},
           embedder' \in BOOLEAN, vision' \in BOOLEAN
    PROVE  KernelOK'
BY DEF KernelOK, CtlOK

\* when the process begins anew,
LEMMA NewProcessTypes ==
    ASSUME RowsOK, DataOK, NewProcess, events' \in 0..MaxEvents
    PROVE  TInv'
<1>1. RowsOK' /\ DataOK'
  BY StoreKept DEF NewProcess
<1>2. WorkOK'
  BY NoWorkOK DEF NewProcess, WorkOK, WorkersOK, Labels, Busy
<1>3. PoolsOK'
  BY DEF NewProcess, PoolsOK
<1>4. KernelOK'
  BY DEF NewProcess, KernelOK, CtlOK, IdleCtl, Controller
<1>5. EnvOK'
  BY LevelsAssumption DEF NewProcess, EnvOK
<1> QED BY <1>1, <1>2, <1>3, <1>4, <1>5, TInvWholeNext

\* through those of the lifecycle calls,
LEMMA CtlTypeStep ==
    ASSUME TInv, NEW c \in Controllers,
           CtlStep(c) \/ StartSweepFails(c) \/ (\E op \in Ops : Call(c, op))
    PROVE  TInv'
<1>0. RowsOK /\ DataOK /\ WorkOK /\ PoolsOK /\ KernelOK /\ EnvOK /\ ctl[c] \in Controller
  BY TInvParts DEF KernelOK
<1>pools. ASSUME UNCHANGED poolVars PROVE WorkOK' /\ PoolsOK'
  BY <1>0, <1>pools, WorkKept, PoolsKept DEF poolVars
<1>after. AfterStop(c) \in Controller /\ AfterStop(c).pc # "join"
  BY <1>0 DEF AfterStop, IdleCtl, Controller
<1>idle. IdleCtl \in Controller /\ IdleCtl.pc = "idle"
  BY DEF IdleCtl, Controller
<1>1. ASSUME NEW op \in Ops, Call(c, op) PROVE TInv'
  <2>1. RowsOK' /\ DataOK' /\ WorkOK' /\ PoolsOK'
    BY <1>0, <1>1, <1>pools, StoreKept DEF Call
  <2>2. EnvOK'
    BY <1>0, <1>1, EventEnv DEF Call, EnvOK
  <2>3. PICK v \in Controller : v.pc # "join" /\ ctl' = [ctl EXCEPT ![c] = v]
    BY <1>0, <1>1 DEF Call, IdleCtl, Controller
  <2>4. KernelOK'
    BY <1>0, <1>1, <2>3, CtlMoves DEF Call, KernelOK
  <2> QED BY <2>1, <2>2, <2>4, TInvWholeNext
<1>2. ASSUME StopTakesPool(c) PROVE TInv'
  <2>1. RowsOK' /\ DataOK' /\ WorkOK' /\ EnvOK'
    BY <1>0, <1>2, StoreKept, WorkKept, EnvKept DEF StopTakesPool
  <2>2. PoolsOK'
    BY <1>0, <1>2 DEF StopTakesPool, PoolsOK, KernelOK
  <2>3. PICK v \in Controller : (v.pc = "join" => v.pool \in Pools) /\ ctl' = [ctl EXCEPT ![c] = v]
    <3>1. CASE slot = None
      BY <1>2, <3>1, <1>after DEF StopTakesPool
    <3>2. CASE slot # None
      <4>1. slot \in Pools
        BY <1>0, <3>2 DEF KernelOK
      <4> DEFINE v == [ctl[c] EXCEPT !.pc = "join", !.pool = slot]
      <4>2. v \in Controller /\ v.pool = slot
        BY <1>0, <4>1 DEF Controller
      <4>3. ctl' = [ctl EXCEPT ![c] = v]
        BY <1>2, <3>2 DEF StopTakesPool
      <4> HIDE DEF v
      <4> QED BY <4>1, <4>2, <4>3
    <3> QED BY <3>1, <3>2
  <2>4. KernelOK'
    BY <1>0, <1>2, <2>3, CtlMoves DEF StopTakesPool, KernelOK
  <2> QED BY <2>1, <2>2, <2>4, TInvWholeNext
<1>3. ASSUME StopJoins(c) \/ StartReturns(c) PROVE TInv'
  <2>1. RowsOK' /\ DataOK' /\ WorkOK' /\ PoolsOK' /\ EnvOK'
    BY <1>0, <1>3, <1>pools, StoreKept, EnvKept DEF StopJoins, StartReturns
  <2>2. KernelOK'
    BY <1>0, <1>3, <1>after, <1>idle, CtlMoves DEF StopJoins, StartReturns, KernelOK
  <2> QED BY <2>1, <2>2, TInvWholeNext
<1>4. ASSUME StartSweeps(c) PROVE TInv'
  <2>1. DataOK' /\ WorkOK' /\ PoolsOK' /\ EnvOK'
    BY <1>0, <1>4, <1>pools, DataKept, EnvKept DEF StartSweeps
  <2>2. RowsOK'
    BY <1>0, <1>4, ResetAllRows DEF StartSweeps
  <2>3. [IdleCtl EXCEPT !.pc = "spawn"] \in Controller /\ [IdleCtl EXCEPT !.pc = "spawn"].pc # "join"
    BY DEF IdleCtl, Controller
  <2>4. KernelOK'
    BY <1>0, <1>4, <2>3, CtlMoves DEF StartSweeps, KernelOK
  <2> QED BY <2>1, <2>2, <2>4, TInvWholeNext
<1>5. ASSUME StartSpawns(c) PROVE TInv'
  <2>1. RowsOK' /\ DataOK' /\ EnvOK'
    BY <1>0, <1>5, StoreKept, EnvKept DEF StartSpawns
  <2>2. PICK p \in Pools :
          /\ pc' = [w \in Workers |-> IF PoolOf[w] = p THEN "top" ELSE pc[w]]
          /\ work' = [w \in Workers |-> IF PoolOf[w] = p THEN NoWork ELSE work[w]]
          /\ active' = [active EXCEPT ![p] = {}]
          /\ sweeper' = [sweeper EXCEPT ![p] = "sleep"]
          /\ stop' = [stop EXCEPT ![p] = FALSE]
          /\ slot' = p
    BY <1>5 DEF StartSpawns
  <2>3. WorkOK'
    BY <1>0, <2>2, NoWorkOK, LabelsOK DEF WorkOK, WorkersOK
  <2>4. PoolsOK'
    BY <1>0, <2>2 DEF PoolsOK
  <2>5. KernelOK'
    BY <1>0, <1>5, <2>2, <1>idle, CtlMoves DEF StartSpawns, KernelOK
  <2> QED BY <2>1, <2>3, <2>4, <2>5, TInvWholeNext
<1>fails. ASSUME StartSweepFails(c) PROVE TInv'
  <2>1. RowsOK' /\ DataOK' /\ WorkOK' /\ PoolsOK' /\ EnvOK'
    BY <1>0, <1>fails, <1>pools, StoreKept, EventEnv DEF StartSweepFails
  <2>2. [IdleCtl EXCEPT !.pc = "spawn"] \in Controller /\ [IdleCtl EXCEPT !.pc = "spawn"].pc # "join"
    BY DEF IdleCtl, Controller
  <2>3. KernelOK'
    BY <1>0, <1>fails, <2>2, CtlMoves DEF StartSweepFails, KernelOK
  <2> QED BY <2>1, <2>3, TInvWholeNext
<1>6. ASSUME ExitAndRelaunch(c) PROVE TInv'
  BY <1>0, <1>6, NewProcessTypes DEF ExitAndRelaunch, EnvOK
<1> QED BY <1>1, <1>2, <1>3, <1>4, <1>5, <1>fails, <1>6 DEF CtlStep

\* and of everybody else;
LEMMA EnvironmentTypeStep ==
    ASSUME TInv,
           \/ \E f \in Frames : CaptureInserts(f) \/ EnqueueVision(f) \/ PurgeFrame(f) \/ FilterBackfill(f)
           \/ CaptureEnqueues
           \/ CancelVision
           \/ \E l \in Levels : GovernorSets(l)
           \/ Tick
           \/ Crash
    PROVE  TInv'
<1>0. RowsOK /\ DataOK /\ WorkOK /\ PoolsOK /\ KernelOK /\ EnvOK
  BY TInvParts
<1> DEFINE Rest == UNCHANGED <<poolVars, kernelVars>>
<1>kept. ASSUME Rest, RowsOK', DataOK', EnvOK' PROVE TInv'
  <2>1. WorkOK' /\ PoolsOK' /\ KernelOK'
    BY <1>0, <1>kept, WorkKept, PoolsKept, KernelKept DEF poolVars
  <2> QED BY <2>1, <1>kept, TInvWholeNext
<1>in. "embed_text" \in Kinds /\ "vision_tag" \in Kinds /\ 0 \in Priorities /\ 10 \in Priorities
  BY DEF Kinds, Priorities
<1>1. ASSUME NEW f \in Frames, CaptureInserts(f) PROVE TInv'
  <2>1. RowsOK'
    BY <1>0, <1>1, RowsKept DEF CaptureInserts
  <2>2. DataOK' /\ EnvOK'
    BY <1>0, <1>1 DEF CaptureInserts, DataOK, EnvOK, Contents
  <2> QED BY <1>1, <2>1, <2>2, <1>kept DEF CaptureInserts
<1>2. ASSUME NEW f \in Frames, EnqueueVision(f) PROVE TInv'
  <2>1. RowsOK' /\ DataOK' /\ EnvOK'
    BY <1>0, <1>2, <1>in, EnqueueRows, DataKept, EventEnv DEF EnqueueVision
  <2> QED BY <1>2, <2>1, <1>kept DEF EnqueueVision
<1>3. ASSUME NEW f \in Frames, PurgeFrame(f) PROVE TInv'
  <2>1. RowsOK' /\ EnvOK'
    BY <1>0, <1>3, DeleteRows, EnvKept DEF PurgeFrame
  <2>2. DataOK'
    BY <1>0, <1>3 DEF PurgeFrame, DeleteFrame, DataOK, Contents
  <2> QED BY <1>3, <2>1, <2>2, <1>kept DEF PurgeFrame
<1>4. ASSUME NEW f \in Frames, FilterBackfill(f) PROVE TInv'
  <2>1. RowsOK' /\ EnvOK'
    BY <1>0, <1>4, <1>in, EnqueueRows, EnvKept DEF FilterBackfill, BackfillFrame
  <2>2. DataOK'
    BY <1>0, <1>4 DEF FilterBackfill, BackfillFrame, DataOK, Contents
  <2> QED BY <1>4, <2>1, <2>2, <1>kept DEF FilterBackfill
<1>5. ASSUME CaptureEnqueues PROVE TInv'
  <2>1. ingest \in Frames
    BY <1>0, <1>5 DEF CaptureEnqueues, EnvOK
  <2>2. RowsOK' /\ DataOK'
    BY <1>0, <1>5, <2>1, <1>in, EnqueueRows, DataKept DEF CaptureEnqueues
  <2>3. EnvOK'
    BY <1>0, <1>5 DEF CaptureEnqueues, EnvOK
  <2> QED BY <1>5, <2>2, <2>3, <1>kept DEF CaptureEnqueues
<1>6. ASSUME CancelVision PROVE TInv'
  <2>1. RowsOK' /\ DataOK' /\ EnvOK'
    BY <1>0, <1>6, CancelRows, DataKept, EventEnv DEF CancelVision
  <2> QED BY <1>6, <2>1, <1>kept DEF CancelVision
<1>7. ASSUME NEW l \in Levels, GovernorSets(l) PROVE TInv'
  <2>1. RowsOK' /\ DataOK'
    BY <1>0, <1>7, StoreKept DEF GovernorSets
  <2>2. EnvOK'
    BY <1>0, <1>7, EventsAssumption DEF GovernorSets, Event, EnvOK
  <2> QED BY <1>7, <2>1, <2>2, <1>kept DEF GovernorSets
<1>8. ASSUME Tick PROVE TInv'
  <2>1. RowsOK' /\ DataOK' /\ EnvOK'
    BY <1>0, <1>8, TickRows, DataKept, EnvKept DEF Tick, StoreTick
  <2> QED BY <1>8, <2>1, <1>kept DEF Tick
<1>9. ASSUME Crash PROVE TInv'
  BY <1>0, <1>9, NewProcessTypes, EventsAssumption DEF Crash, Event, EnvOK
<1> QED BY <1>1, <1>2, <1>3, <1>4, <1>5, <1>6, <1>7, <1>8, <1>9

\* together, through every step.
LEMMA TypeStep == TInv /\ [Next]_vars => TInv'
<1> SUFFICES ASSUME TInv, [Next]_vars PROVE TInv'
  OBVIOUS
<1>1. CASE UNCHANGED vars
  <2>1. RowsOK /\ DataOK /\ WorkOK /\ PoolsOK /\ KernelOK /\ EnvOK
    BY TInvParts
  <2>2. RowsOK' /\ DataOK' /\ WorkOK' /\ PoolsOK' /\ KernelOK' /\ EnvOK'
    BY <1>1, <2>1, StoreKept, WorkKept, PoolsKept, KernelKept, EnvKept DEF vars, poolVars
  <2> QED BY <2>2, TInvWholeNext
<1>2. CASE Next
  BY <1>2, WorkerTypeStep, SweepTypeStep, CtlTypeStep, EnvironmentTypeStep DEF Next
<1> QED BY <1>1, <1>2

\* Every reachable state is well typed, whatever the pools, callers and bounds:
\* in particular no row's attempts pass max_attempts and a live row always has
\* attempts left (jobs.rs, fail_job).
THEOREM TypeCorrectness == Spec => []TypeOK
<1>1. TInv => TypeOK
  BY DEF TInv
<1> QED BY <1>1, TypeInit, TypeStep, PTL DEF Spec

-----------------------------------------------------------------------------
(* Exclusive claims.  With one caller at a time, no job row deleted and no   *)
(* task stalled for a tick inside one of its windows, the row state and the  *)
(* active set do the work of a lease.                                        *)

OneCaller == \A c, d \in Controllers : c = d

Calm == OneCaller /\ ~ RowsDeleted /\ SlowPoints = {}

Holding == Busy \cup {"emit"}

\* The row of a worker that has a job: running until it is finalized, of age 0
\* while no guard protects it, and not claimable again while the worker still
\* has to drop its guard.
HolderOK(w) ==
    LET row == jobs[work[w].id] IN
    /\ pc[w] \in Busy => row.state = "running"
    /\ pc[w] = "claimed" => row.age = 0
    /\ pc[w] = "emit" => \/ row.state \in {"done", "dead", "running"}
                         \/ row.state = "pending" /\ row.wait > 0

HoldersOK == \A w \in Workers : HolderOK(w)

\* Emitting workers included, or a dropped guard would uncover another worker.
DistinctHolders ==
    \A v, w \in Workers :
        pc[v] \in Holding /\ pc[w] \in Holding /\ work[v].id = work[w].id => v = w

\* Between the sweep's look at the active set and its UPDATE no held row is stale.
SweepSpares ==
    \A p \in Pools, w \in Workers :
        sweeper[p] = "checked" /\ pc[w] \in Holding => jobs[work[w].id].age = 0

\* A pool with tasks is in the slot, or the caller that took it out awaits it.
PoolsAwaited ==
    /\ \A p \in Pools : ~ PoolOff(p) =>
          slot = p \/ \E c \in Controllers : ctl[c].pc = "join" /\ ctl[c].pool = p
    /\ \A c \in Controllers : ctl[c].pc \in {"join", "spawn"} => slot = None

EInv == HoldersOK /\ DistinctHolders /\ GuardCoversHolder /\ SweepSpares /\ PoolsAwaited


\* At the start nobody has a job.
LEMMA ExclusiveInit == Init => EInv
BY DEF Init, EInv, HoldersOK, HolderOK, DistinctHolders, GuardCoversHolder, SweepSpares,
       PoolsAwaited, PoolOff, IdleCtl, Holding, Busy, Guarded

\* At most one pool has tasks.
LEMMA OnePoolRuns ==
    ASSUME OneCaller, TInv, PoolsAwaited, NEW p \in Pools, NEW q \in Pools,
           ~ PoolOff(p), ~ PoolOff(q)
    PROVE  p = q
BY NoneAssumption DEF OneCaller, PoolsAwaited, None

\* While the caller is in start_workers with an empty slot, no task is left.
LEMMA StartFindsNoTask ==
    ASSUME OneCaller, TInv, PoolsAwaited, NEW c \in Controllers,
           ctl[c].pc # "join", slot = None
    PROVE  /\ \A p \in Pools : PoolOff(p)
           /\ \A w \in Workers : pc[w] = "off"
<1>1. \A p \in Pools : PoolOff(p)
  BY NoneAssumption DEF OneCaller, PoolsAwaited, None
<1>2. \A w \in Workers : PoolOf[w] \in Pools
  BY PoolOfAssumption
<1> QED BY <1>1, <1>2 DEF PoolOff

\* The row a worker with a job has is in the table.
LEMMA HeldRowIsThere ==
    ASSUME HoldersOK, NEW w \in Workers, pc[w] \in Holding
    PROVE  jobs[work[w].id].state # "absent"
BY DEF HoldersOK, HolderOK, Holding

\* A step that touches no held row and moves no worker keeps the row facts.
LEMMA HoldersKept ==
    ASSUME TInv, EInv, UNCHANGED workerVars,
           \A w \in Workers : pc[w] \in Holding => jobs'[work[w].id] = jobs[work[w].id]
    PROVE  HoldersOK' /\ DistinctHolders'
BY DEF EInv, HoldersOK, HolderOK, DistinctHolders, Holding, Busy, workerVars

\* No row held is stale to a sweep that has looked, as long as those rows stay;
LEMMA SparesKept ==
    ASSUME TInv, EInv, UNCHANGED <<workerVars, sweeper>>,
           \A w \in Workers : pc[w] \in Holding => jobs'[work[w].id] = jobs[work[w].id]
    PROVE  SweepSpares'
BY DEF EInv, SweepSpares, Holding, Busy, workerVars

\* guards cover their holders, as long as workers and active set stay;
LEMMA GuardKept ==
    ASSUME EInv, UNCHANGED <<workerVars, active>> PROVE GuardCoversHolder'
BY DEF EInv, GuardCoversHolder, workerVars

\* and a pool out of the slot is awaited, as long as slot and callers stay.
LEMMA AwaitedKept ==
    ASSUME EInv, UNCHANGED <<slot, ctl>>, \A p \in Pools : PoolOff(p) => PoolOff(p)'
    PROVE  PoolsAwaited'
BY DEF EInv, PoolsAwaited

\* An enqueue takes a row nobody holds.
LEMMA EnqueueSpares ==
    ASSUME TInv, EInv, NEW kind, NEW f, NEW prio, EnqueueJob(kind, f, prio),
           NEW w \in Workers, pc[w] \in Holding
    PROVE  jobs'[work[w].id] = jobs[work[w].id]
<1>1. PICK id \in JobIds : IsNextRowid(id) /\ jobs' = [jobs EXCEPT ![id] = FreshRow(kind, f, prio)]
  BY DEF EnqueueJob
<1>2. jobs[id].state = "absent"
  BY <1>1 DEF IsNextRowid, JobIds
<1>3. jobs[work[w].id].state # "absent" /\ work[w].id \in JobIds
  BY HeldRowIsThere, TInvParts DEF EInv, WorkOK, Work
<1> QED BY <1>1, <1>2, <1>3, TInvParts DEF RowsOK

\* Steps of the producers and the environment other than time and restarts.
LEMMA QuietStep ==
    ASSUME TInv, EInv, UNCHANGED <<poolVars, slot, ctl>>,
           \A w \in Workers : pc[w] \in Holding => jobs'[work[w].id] = jobs[work[w].id]
    PROVE  EInv'
<1>1. HoldersOK' /\ DistinctHolders' /\ GuardCoversHolder' /\ SweepSpares'
  BY HoldersKept, SparesKept, GuardKept DEF poolVars
<1>2. PoolsAwaited'
  BY AwaitedKept DEF poolVars, workerVars, PoolOff
<1> QED BY <1>1, <1>2 DEF EInv


\* A worker between two points of its loop, the job and its row untouched.
LEMMA WorkerPasses ==
    ASSUME TInv, EInv, NEW w \in Workers, NEW l \in Labels,
           pc[w] # "off", l # "claimed",
           l \in Busy => pc[w] \in Busy,
           l \in Guarded => pc[w] \in Guarded,
           l = "emit" => jobs[work[w].id].state = "running",
           l \in Holding => work'[w].id = work[w].id,
           GoTo(w, l),
           \A v \in Workers : v # w => work'[v] = work[v],
           UNCHANGED <<jobs, active, sweeper, slot, ctl>>
    PROVE  EInv'
<1>1. \A v \in Workers : pc'[v] = IF v = w THEN l ELSE pc[v]
  BY TInvParts DEF WorkOK, GoTo
<1>2. "emit" \notin Busy /\ (l = "emit" => pc[w] \in Holding)
  BY DEF Busy, Guarded, Holding
<1>3. HoldersOK'
  BY <1>1, <1>2 DEF EInv, HoldersOK, HolderOK, Holding
<1>4. DistinctHolders'
  BY <1>1, <1>2 DEF EInv, DistinctHolders, Holding
<1>5. GuardCoversHolder'
  <2> SUFFICES ASSUME NEW v \in Workers, pc'[v] \in Guarded
               PROVE  work'[v].id \in active[PoolOf[v]]
    BY DEF GuardCoversHolder
  <2>1. pc[v] \in Guarded /\ work'[v].id = work[v].id
    BY <1>1, <1>2 DEF Guarded, Holding, Busy
  <2> QED BY <2>1 DEF EInv, GuardCoversHolder
<1>6. SweepSpares'
  BY <1>1, <1>2 DEF EInv, SweepSpares, Holding
<1>7. PoolsAwaited'
  BY <1>1, AwaitedKept DEF PoolOff
<1> QED BY <1>3, <1>4, <1>5, <1>6, <1>7 DEF EInv

\* EInv through the steps of the workers,
LEMMA WorkerExclusive ==
    ASSUME Calm, TInv, EInv, NEW w \in Workers, WorkerStep(w) \/ WorkerClaimFails(w) \/ WorkerFinalizeFails(w)
    PROVE  EInv'
<1>0. /\ jobs \in [JobIds -> Row] /\ pc \in [Workers -> Labels] /\ work \in [Workers -> Work]
      /\ active \in [Pools -> SUBSET JobIds]
      /\ \A v \in Workers : work[v].id \in JobIds /\ PoolOf[v] \in Pools
  BY TInvParts, PoolOfAssumption DEF RowsOK, WorkOK, PoolsOK, Work
<1>k. ASSUME NEW r, SetWork(w, r) PROVE \A v \in Workers : work'[v] = IF v = w THEN r ELSE work[v]
  BY <1>0, <1>k DEF SetWork
<1>g. ASSUME NEW l, GoTo(w, l) PROVE \A v \in Workers : pc'[v] = IF v = w THEN l ELSE pc[v]
  BY <1>0, <1>g DEF GoTo
<1>run. pc[w] \in Busy => jobs[work[w].id].state = "running"
  BY DEF EInv, HoldersOK, HolderOK
<1>1. ASSUME WorkerStops(w) PROVE EInv'
  BY <1>1, <1>0, WorkerPasses, LabelsOK DEF WorkerStops, Guarded, Holding, storeVars, kernelVars
<1>2. ASSUME WorkerPolls(w) PROVE EInv'
  BY <1>2, <1>0, <1>k, WorkerPasses, LabelsOK DEF WorkerPolls, Guarded, Holding, storeVars, kernelVars
<1>3. ASSUME WorkerClaims(w) PROVE EInv'
  <2>1. PICK id \in JobIds :
          /\ ClaimJob(id, work[w].kinds)
          /\ SetWork(w, [NoWork EXCEPT !.id = id, !.kind = jobs[id].kind,
                            !.frame = jobs[id].frame, !.attempts = jobs[id].attempts])
    BY <1>3 DEF WorkerClaims
  <2>2. /\ jobs[id].state = "pending" /\ jobs[id].wait = 0 /\ jobs[id] \in Row
        /\ jobs' = [jobs EXCEPT ![id] = Claimed(jobs[id])]
    BY <1>0, <2>1 DEF ClaimJob, IsNextClaim, Claimable
  <2>3. jobs'[id].state = "running" /\ jobs'[id].age = 0
    BY <1>0, <2>2 DEF Claimed, Row
  <2> DEFINE r == [NoWork EXCEPT !.id = id, !.kind = jobs[id].kind,
                      !.frame = jobs[id].frame, !.attempts = jobs[id].attempts]
  <2>r. r.id = id
    BY DEF NoWork
  <2> HIDE DEF r
  <2>4. work'[w].id = id /\ \A v \in Workers : v # w => work'[v] = work[v]
    BY <2>1, <2>r, <1>k DEF r
  <2>5. \A v \in Workers : pc'[v] = IF v = w THEN "claimed" ELSE pc[v]
    BY <1>3, <1>g DEF WorkerClaims
  <2>6. \A v \in Workers : pc[v] \in Holding => work[v].id # id
    BY <2>2 DEF EInv, HoldersOK, HolderOK, Holding
  <2>7. \A v \in Workers : v # w /\ pc[v] \in Holding => jobs'[work[v].id] = jobs[work[v].id]
    BY <1>0, <2>2, <2>6
  <2>8. HoldersOK'
    BY <2>3, <2>4, <2>5, <2>7, LabelsOK DEF EInv, HoldersOK, HolderOK, Holding
  <2>9. DistinctHolders'
    BY <2>4, <2>5, <2>6 DEF EInv, DistinctHolders
  <2>10. GuardCoversHolder'
    BY <1>3, <2>4, <2>5 DEF WorkerClaims, EInv, GuardCoversHolder, Guarded
  <2>11. SweepSpares'
    BY <1>3, <2>3, <2>4, <2>5, <2>7 DEF WorkerClaims, EInv, SweepSpares
  <2>12. PoolsAwaited'
    BY <1>3, <2>5, AwaitedKept DEF WorkerClaims, PoolOff, kernelVars
  <2> QED BY <2>8, <2>9, <2>10, <2>11, <2>12 DEF EInv
<1>4. ASSUME WorkerClaimsNothing(w) PROVE EInv'
  BY <1>4, <1>0, <1>k, WorkerPasses, LabelsOK DEF WorkerClaimsNothing, Guarded, Holding, storeVars, kernelVars
<1>claim. ASSUME WorkerClaimFails(w) PROVE EInv'
  BY <1>claim, <1>0, <1>k, WorkerPasses, LabelsOK DEF WorkerClaimFails, Guarded, Holding, storeVars, kernelVars
<1>5. ASSUME WorkerBegins(w) PROVE EInv'
  <2>1. \A v \in Workers : pc'[v] = IF v = w THEN "reading" ELSE pc[v]
    BY <1>5, <1>g DEF WorkerBegins
  <2>2. UNCHANGED <<jobs, work, sweeper, slot, ctl>> /\ pc[w] = "claimed"
    BY <1>5 DEF WorkerBegins, storeVars, kernelVars
  <2>3. HoldersOK' /\ DistinctHolders' /\ SweepSpares'
    BY <2>1, <2>2, LabelsOK DEF EInv, HoldersOK, HolderOK, DistinctHolders, SweepSpares, Holding
  <2>4. GuardCoversHolder'
    <3>1. \A p \in Pools : active[p] \subseteq active'[p]
      BY <1>0, <1>5 DEF WorkerBegins
    <3>2. work[w].id \in active'[PoolOf[w]]
      BY <1>0, <1>5 DEF WorkerBegins
    <3> QED BY <1>0, <2>1, <2>2, <3>1, <3>2 DEF EInv, GuardCoversHolder
  <2>5. PoolsAwaited'
    BY <2>1, <2>2, AwaitedKept DEF PoolOff
  <2> QED BY <2>3, <2>4, <2>5 DEF EInv
<1>6. ASSUME WorkerReturnsEarly(w) PROVE EInv'
  <2>1. PICK out : SetWork(w, [work[w] EXCEPT !.outcome = out])
    BY <1>6 DEF WorkerReturnsEarly
  <2>2. [work[w] EXCEPT !.outcome = out].id = work[w].id
    BY <1>0 DEF Work
  <2>3. work'[w].id = work[w].id /\ \A v \in Workers : v # w => work'[v] = work[v]
    BY <2>1, <2>2, <1>k
  <2> QED BY <1>6, <2>3, WorkerPasses, LabelsOK DEF WorkerReturnsEarly, Guarded, storeVars, kernelVars
<1>7. ASSUME WorkerReads(w) PROVE EInv'
  <2>1. [work[w] EXCEPT !.text = frames[work[w].frame]].id = work[w].id
    BY <1>0 DEF Work
  <2>2. work'[w].id = work[w].id /\ \A v \in Workers : v # w => work'[v] = work[v]
    BY <1>7, <2>1, <1>k DEF WorkerReads
  <2> QED BY <1>7, <2>2, WorkerPasses, LabelsOK DEF WorkerReads, Guarded, storeVars, kernelVars
<1>8. ASSUME WorkerWrites(w) \/ WorkerRetries(w) PROVE EInv'
  <2>1. PICK out : SetWork(w, [work[w] EXCEPT !.outcome = out])
    BY <1>8 DEF WorkerWrites, WorkerRetries
  <2>2. [work[w] EXCEPT !.outcome = out].id = work[w].id
    BY <1>0 DEF Work
  <2>3. work'[w].id = work[w].id /\ \A v \in Workers : v # w => work'[v] = work[v]
    BY <2>1, <2>2, <1>k
  <2> QED BY <1>8, <2>3, WorkerPasses, LabelsOK DEF WorkerWrites, WorkerRetries, Guarded, storeVars, kernelVars
<1>10. ASSUME WorkerFinalizes(w) PROVE EInv'
  <2> DEFINE id == work[w].id
  <2>1. \A v \in Workers : pc'[v] = IF v = w THEN "emit" ELSE pc[v]
    BY <1>10, <1>g DEF WorkerFinalizes
  <2>2. UNCHANGED <<work, active, sweeper, slot, ctl>> /\ pc[w] = "final"
    BY <1>10 DEF WorkerFinalizes, storeVars, kernelVars
  <2>3. PICK row \in Row :
          /\ jobs' = [jobs EXCEPT ![id] = row]
          /\ row.age = 0
          /\ row.state \in {"done", "dead"} \/ (row.state = "pending" /\ row.wait > 0)
    <3>1. jobs[id] \in Row /\ RowOK(jobs[id]) /\ jobs[id].state = "running"
      BY <1>0, <1>run, <2>2, TInvParts, LabelsOK DEF RowsOK
    <3>2. work[w].attempts \in 0..MaxAttempts
      BY <1>0 DEF Work
    <3>3. BackoffTicks(work[w].attempts) \in 1..BackoffCap
      BY <3>2, BackoffAssumption
    <3>4. CASE CompleteJob(id)
      <4>1. Completed(jobs[id]).age = 0 /\ Completed(jobs[id]).state = "done"
        BY <3>1 DEF Completed, Row
      <4>2. Completed(jobs[id]) \in Row
        BY <3>1, CompletedOK DEF RowOK
      <4>3. jobs' = [jobs EXCEPT ![id] = Completed(jobs[id])]
        BY <3>4 DEF CompleteJob
      <4> QED BY <4>1, <4>2, <4>3
    <3>5. ASSUME NEW retry \in BOOLEAN, NEW wait \in 0..BackoffCap, retry => wait > 0,
                 FailJob(id, retry, wait)
          PROVE  \E row \in Row :
                    /\ jobs' = [jobs EXCEPT ![id] = row]
                    /\ row.age = 0
                    /\ row.state \in {"done", "dead"} \/ (row.state = "pending" /\ row.wait > 0)
      <4> DEFINE row == Failed(jobs[id], retry, wait)
      <4>1. row \in Row
        BY <3>1, FailedOK DEF RowOK
      <4>2. row.age = 0 /\ (row.state = "dead" \/ (row.state = "pending" /\ row.wait = wait /\ retry))
        <5> DEFINE more == jobs[id].attempts + 1
        <5>1. CASE retry /\ more < MaxAttempts
          <6>1. row = [jobs[id] EXCEPT !.attempts = more, !.state = "pending", !.wait = wait, !.age = 0]
            BY <5>1 DEF Failed
          <6> HIDE DEF row, more
          <6>2. row.age = 0 /\ row.state = "pending" /\ row.wait = wait
            BY <3>1, <6>1 DEF Row
          <6> QED BY <5>1, <6>2, Zenon
        <5>2. CASE ~ (retry /\ more < MaxAttempts)
          <6>1. row = [jobs[id] EXCEPT !.attempts = more, !.state = "dead", !.age = 0]
            BY <5>2 DEF Failed
          <6> HIDE DEF row, more
          <6> QED BY <3>1, <6>1 DEF Row
        <5> QED BY <5>1, <5>2
      <4>3. jobs' = [jobs EXCEPT ![id] = row]
        BY <3>5 DEF FailJob
      <4> HIDE DEF row
      <4> QED BY <3>5, <4>1, <4>2, <4>3
    <3>6. BackoffTicks(work[w].attempts) \in 0..BackoffCap /\ BackoffTicks(work[w].attempts) > 0
      BY <3>3, TimeAssumption
    <3> QED BY <1>10, <3>4, <3>5, <3>6, Zero DEF WorkerFinalizes, Finalize
  <2>4. \A v \in Workers : v # w /\ pc[v] \in Holding => work[v].id # id
    BY <2>2, LabelsOK DEF EInv, DistinctHolders, Holding
  <2>5. /\ jobs'[id] = row
        /\ \A v \in Workers : v # w /\ pc[v] \in Holding => jobs'[work[v].id] = jobs[work[v].id]
    BY <1>0, <2>3, <2>4
  <2> HIDE DEF id
  <2>6. HoldersOK'
    BY <2>1, <2>2, <2>3, <2>5, LabelsOK DEF EInv, HoldersOK, HolderOK, Holding, id
  <2>7. DistinctHolders'
    BY <2>1, <2>2, LabelsOK DEF EInv, DistinctHolders, Holding
  <2>8. GuardCoversHolder'
    BY <2>1, <2>2 DEF EInv, GuardCoversHolder, Guarded
  <2>9. SweepSpares'
    BY <2>1, <2>2, <2>3, <2>5 DEF EInv, SweepSpares, id
  <2>10. PoolsAwaited'
    BY <2>1, <2>2, AwaitedKept DEF PoolOff
  <2> QED BY <2>6, <2>7, <2>8, <2>9, <2>10 DEF EInv
<1>11. ASSUME WorkerFinalizesNothing(w) \/ WorkerFinalizeFails(w) PROVE EInv'
  BY <1>11, <1>run, WorkerPasses, LabelsOK
    DEF WorkerFinalizesNothing, WorkerFinalizeFails, Guarded, storeVars, kernelVars
<1>13. ASSUME WorkerEmits(w) PROVE EInv'
  <2>1. \A v \in Workers : pc'[v] = IF v = w THEN "top" ELSE pc[v]
    BY <1>13, <1>g DEF WorkerEmits
  <2>2. \A v \in Workers : v # w => work'[v] = work[v]
    BY <1>13, <1>k DEF WorkerEmits
  <2>3. UNCHANGED <<jobs, sweeper, slot, ctl>> /\ pc[w] = "emit"
    BY <1>13 DEF WorkerEmits, storeVars, kernelVars
  <2>4. HoldersOK' /\ DistinctHolders' /\ SweepSpares'
    BY <2>1, <2>2, <2>3, LabelsOK DEF EInv, HoldersOK, HolderOK, DistinctHolders, SweepSpares, Holding
  <2>5. GuardCoversHolder'
    <3> SUFFICES ASSUME NEW v \in Workers, pc'[v] \in Guarded
                 PROVE  work'[v].id \in active'[PoolOf[v]]
      BY DEF GuardCoversHolder
    <3>1. v # w /\ pc[v] \in Guarded /\ work'[v] = work[v]
      BY <2>1, <2>2 DEF Guarded
    <3>2. work[v].id # work[w].id
      BY <3>1, <2>3 DEF EInv, DistinctHolders, Holding, Guarded, Busy
    <3>3. work[v].id \in active[PoolOf[v]]
      BY <3>1 DEF EInv, GuardCoversHolder
    <3> QED BY <1>0, <1>13, <3>1, <3>2, <3>3 DEF WorkerEmits
  <2>6. PoolsAwaited'
    BY <2>1, <2>3, AwaitedKept DEF PoolOff
  <2> QED BY <2>4, <2>5, <2>6 DEF EInv
<1> QED
  BY <1>1, <1>2, <1>3, <1>4, <1>claim, <1>5, <1>6, <1>7, <1>8, <1>10, <1>11, <1>13 DEF WorkerStep

\* of the sweeps, which spare what is held,
LEMMA SweepExclusive ==
    ASSUME Calm, TInv, EInv, NEW p \in Pools, SweepChecks(p) \/ SweepResets(p) \/ SweepFails(p) \/ SweepStops(p)
    PROVE  EInv'
<1>0. /\ jobs \in [JobIds -> Row] /\ sweeper \in [Pools -> {"off", "sleep", "checked"}]
      /\ \A w \in Workers : work[w].id \in JobIds /\ PoolOf[w] \in Pools
  BY TInvParts, PoolOfAssumption DEF RowsOK, WorkOK, PoolsOK, Work
<1>1. UNCHANGED <<workerVars, active, slot, ctl>>
  BY DEF SweepChecks, SweepResets, SweepFails, SweepStops, kernelVars
<1>2. sweeper[p] # "off"
  BY DEF SweepChecks, SweepResets, SweepFails, SweepStops
<1>3. PoolsAwaited'
  BY <1>0, <1>1, <1>2, AwaitedKept DEF PoolOff, workerVars, SweepChecks, SweepResets, SweepFails, SweepStops
<1>4. GuardCoversHolder'
  BY <1>1, GuardKept
<1>5. ASSUME NEW w \in Workers, pc[w] \in Holding
      PROVE  jobs'[work[w].id] = jobs[work[w].id]
  <2>1. CASE SweepResets(p)
    <3>1. jobs[work[w].id].age = 0
      BY <1>5, <2>1 DEF SweepResets, EInv, SweepSpares
    <3> QED BY <1>0, <2>1, <3>1, TimeAssumption DEF SweepResets, ResetStaleRunning
  <2>2. CASE SweepChecks(p) \/ SweepFails(p) \/ SweepStops(p)
    BY <2>2 DEF SweepChecks, SweepFails, SweepStops, storeVars
  <2> QED BY <2>1, <2>2
<1>6. HoldersOK' /\ DistinctHolders'
  BY <1>1, <1>5, HoldersKept
<1>7. SweepSpares'
  <2>1. CASE SweepChecks(p)
    <3> SUFFICES ASSUME NEW w \in Workers, pc[w] \in Holding
                 PROVE  jobs[work[w].id].age = 0
      BY <1>1, <2>1 DEF SweepSpares, SweepChecks, storeVars, workerVars
    <3>1. ~ PoolOff(p) /\ ~ PoolOff(PoolOf[w])
      BY <1>0, <1>2, LabelsOK DEF PoolOff, Holding
    <3>2. PoolOf[w] = p
      BY <1>0, <3>1, OnePoolRuns DEF Calm, EInv
    <3>3. pc[w] = "claimed"
      BY <2>1, <3>2 DEF SweepChecks, EInv, GuardCoversHolder, Guarded, Holding, Busy
    <3> QED BY <3>3 DEF EInv, HoldersOK, HolderOK
  <2>2. CASE SweepResets(p) \/ SweepFails(p) \/ SweepStops(p)
    <3>1. \A q \in Pools : sweeper'[q] = "checked" => sweeper[q] = "checked"
      BY <1>0, <2>2 DEF SweepResets, SweepFails, SweepStops
    <3> QED BY <1>1, <1>5, <3>1 DEF EInv, SweepSpares, workerVars
  <2> QED BY <2>1, <2>2
<1> QED BY <1>3, <1>4, <1>6, <1>7 DEF EInv

\* and of the one lifecycle caller, which resets only when no old pool is left.
LEMMA CtlExclusive ==
    ASSUME Calm, TInv, EInv, NEW c \in Controllers,
           CtlStep(c) \/ StartSweepFails(c) \/ (\E op \in Ops : Call(c, op))
    PROVE  EInv'
<1>0. /\ OneCaller /\ PoolsAwaited /\ ctl \in [Controllers -> Controller] /\ slot \in Pools \cup {None}
      /\ \A w \in Workers : work[w].id \in JobIds /\ PoolOf[w] \in Pools
  BY TInvParts, PoolOfAssumption DEF KernelOK, WorkOK, Work, Calm, EInv
<1>rest. ASSUME UNCHANGED <<jobs, workerVars, active, sweeper>>, PoolsAwaited' PROVE EInv'
  BY <1>rest, HoldersKept, SparesKept, GuardKept DEF EInv
<1>same. ASSUME UNCHANGED <<pc, sweeper>> PROVE \A p \in Pools : PoolOff(p)' <=> PoolOff(p)
  BY <1>same DEF PoolOff
<1>after. AfterStop(c).pc \notin {"join", "spawn"}
  BY <1>0 DEF AfterStop, IdleCtl, Controller
<1>1. ASSUME NEW op \in Ops, Call(c, op) PROVE EInv'
  <2>1. UNCHANGED <<jobs, workerVars, active, sweeper, slot>> /\ ctl[c].pc = "idle"
    BY <1>1 DEF Call, storeVars, poolVars, IdleCtl
  <2>2. ctl' = [ctl EXCEPT ![c] = ctl'[c]] /\ ctl'[c].pc \notin {"join", "spawn"}
    BY <1>0, <1>1 DEF Call, IdleCtl
  <2>3. PoolsAwaited'
    BY <1>0, <1>same, <2>1, <2>2 DEF PoolsAwaited, OneCaller, workerVars
  <2> QED BY <1>rest, <2>1, <2>3
<1>2. ASSUME StopTakesPool(c) PROVE EInv'
  <2>1. UNCHANGED <<jobs, workerVars, active, sweeper>> /\ ctl[c].pc = "take" /\ slot' = None
    BY <1>2 DEF StopTakesPool, storeVars
  <2>2. PoolsAwaited'
    <3>1. CASE slot = None
      BY <1>0, <1>2, <1>same, <2>1, <3>1, StartFindsNoTask DEF PoolsAwaited, workerVars
    <3>2. CASE slot # None
      <4>1. ctl'[c].pc = "join" /\ ctl'[c].pool = slot
        BY ZenonT(40), <1>0, <1>2, <3>2 DEF StopTakesPool, Controller
      <4> QED BY <1>0, <1>same, <2>1, <4>1 DEF PoolsAwaited, OneCaller, workerVars
    <3> QED BY <3>1, <3>2
  <2> QED BY <1>rest, <2>1, <2>2
<1>3. ASSUME StopJoins(c) PROVE EInv'
  <2>1. UNCHANGED <<jobs, workerVars, active, sweeper, slot>> /\ PoolOff(ctl[c].pool)
    BY <1>3 DEF StopJoins, storeVars, poolVars
  <2>2. ctl'[c].pc \notin {"join", "spawn"}
    BY <1>0, <1>3, <1>after DEF StopJoins
  <2>3. PoolsAwaited'
    BY <1>0, <1>same, <2>1, <2>2 DEF PoolsAwaited, OneCaller, workerVars
  <2> QED BY <1>rest, <2>1, <2>3
<1>4. ASSUME StartReturns(c) PROVE EInv'
  <2>1. UNCHANGED <<jobs, workerVars, active, sweeper, slot>> /\ ctl[c].pc = "start"
    BY <1>4 DEF StartReturns, storeVars, poolVars
  <2>2. ctl'[c].pc = "idle"
    BY <1>0, <1>4 DEF StartReturns, IdleCtl
  <2>3. PoolsAwaited'
    BY <1>0, <1>same, <2>1, <2>2 DEF PoolsAwaited, OneCaller, workerVars
  <2> QED BY <1>rest, <2>1, <2>3
<1>5. ASSUME StartSweeps(c) \/ StartSweepFails(c) PROVE EInv'
  <2>1. UNCHANGED <<workerVars, active, sweeper, slot>> /\ ctl[c].pc = "start" /\ slot = None
    BY <1>5 DEF StartSweeps, StartSweepFails, poolVars
  <2>2. \A w \in Workers : pc[w] \notin Holding
    BY <1>0, <2>1, StartFindsNoTask, LabelsOK DEF Holding
  <2>3. HoldersOK' /\ DistinctHolders' /\ SweepSpares' /\ GuardCoversHolder'
    BY <2>1, <2>2, HoldersKept, SparesKept, GuardKept
  <2>4. PoolsAwaited'
    BY <1>0, <1>same, <2>1, StartFindsNoTask DEF PoolsAwaited, workerVars
  <2> QED BY <2>3, <2>4 DEF EInv
<1>6. ASSUME StartSpawns(c) PROVE EInv'
  <2>1. PICK p \in Pools :
          /\ pc' = [w \in Workers |-> IF PoolOf[w] = p THEN "top" ELSE pc[w]]
          /\ work' = [w \in Workers |-> IF PoolOf[w] = p THEN NoWork ELSE work[w]]
          /\ sweeper' = [sweeper EXCEPT ![p] = "sleep"]
          /\ slot' = p
    BY <1>6 DEF StartSpawns
  <2>2. ctl[c].pc = "spawn" /\ slot = None
    BY <1>0, <1>6 DEF StartSpawns, PoolsAwaited
  <2>3. \A w \in Workers : pc'[w] \in {"off", "top"}
    BY <1>0, <2>1, <2>2, StartFindsNoTask
  <2>4. HoldersOK' /\ DistinctHolders' /\ SweepSpares' /\ GuardCoversHolder'
    BY <2>3 DEF HoldersOK, HolderOK, DistinctHolders, SweepSpares, GuardCoversHolder, Holding, Busy, Guarded
  <2>5. \A q \in Pools : q # p => PoolOff(q)'
    BY <1>0, <2>1, <2>2, StartFindsNoTask, TInvParts DEF PoolOff, PoolsOK
  <2>6. ctl'[c].pc = "idle"
    BY <1>0, <1>6 DEF StartSpawns, IdleCtl
  <2>7. PoolsAwaited'
    BY <1>0, <2>1, <2>5, <2>6 DEF PoolsAwaited, OneCaller
  <2> QED BY <2>4, <2>7 DEF EInv
<1>7. ASSUME ExitAndRelaunch(c) PROVE EInv'
  BY <1>7 DEF ExitAndRelaunch, NewProcess, EInv, HoldersOK, HolderOK, DistinctHolders,
       GuardCoversHolder, SweepSpares, PoolsAwaited, PoolOff, IdleCtl, Holding, Busy, Guarded
<1> QED BY <1>1, <1>2, <1>3, <1>4, <1>5, <1>6, <1>7 DEF CtlStep

\* Time passes outside the windows only.
LEMMA TickExclusive == ASSUME Calm, TInv, EInv, Tick PROVE EInv'
<1>0. /\ jobs \in [JobIds -> Row] /\ \A w \in Workers : work[w].id \in JobIds
      /\ UNCHANGED <<workerVars, active, sweeper, slot, ctl>>
  BY TInvParts DEF RowsOK, WorkOK, Work, Tick, poolVars, kernelVars
<1>1. /\ \A p \in Pools : sweeper[p] # "checked"
      /\ \A w \in Workers : pc[w] # "claimed" /\ pc[w] # "emit"
  BY DEF Tick, Calm, WindowPoints
<1>2. \A id \in JobIds : jobs'[id].state = jobs[id].state
  <2> SUFFICES ASSUME NEW id \in JobIds PROVE jobs'[id].state = jobs[id].state
    OBVIOUS
  <2>1. jobs'[id] = TickRow(jobs[id]) /\ jobs[id] \in Row
    BY <1>0 DEF Tick, StoreTick
  <2> QED BY <2>1 DEF TickRow, Row
<1>3. HoldersOK' /\ DistinctHolders'
  BY <1>0, <1>1, <1>2 DEF EInv, HoldersOK, HolderOK, DistinctHolders, Holding, workerVars
<1>4. GuardCoversHolder' /\ SweepSpares'
  BY <1>0, <1>1, GuardKept DEF SweepSpares
<1>5. PoolsAwaited'
  BY <1>0, AwaitedKept DEF PoolOff, workerVars
<1> QED BY <1>3, <1>4, <1>5 DEF EInv

\* EInv is inductive when all is calm.
LEMMA ExclusiveStep == ASSUME Calm PROVE TInv /\ EInv /\ [Next]_vars => EInv'
<1> SUFFICES ASSUME TInv, EInv, [Next]_vars PROVE EInv'
  OBVIOUS
<1>1. CASE UNCHANGED vars
  BY <1>1, QuietStep DEF vars, storeVars, kernelVars
<1>2. CASE \E w \in Workers : WorkerStep(w) \/ WorkerClaimFails(w) \/ WorkerFinalizeFails(w)
  BY <1>2, WorkerExclusive
<1>3. CASE \E p \in Pools : SweepChecks(p) \/ SweepResets(p) \/ SweepFails(p) \/ SweepStops(p)
  BY <1>3, SweepExclusive
<1>4. CASE \E c \in Controllers : CtlStep(c) \/ StartSweepFails(c) \/ \E op \in Ops : Call(c, op)
  BY <1>4, CtlExclusive
<1>5. CASE \E f \in Frames : CaptureInserts(f) \/ EnqueueVision(f) \/ PurgeFrame(f) \/ FilterBackfill(f)
  <2>1. PICK f \in Frames : CaptureInserts(f) \/ EnqueueVision(f) \/ PurgeFrame(f) \/ FilterBackfill(f)
    BY <1>5
  <2>2. UNCHANGED <<poolVars, slot, ctl>>
    BY <2>1 DEF CaptureInserts, EnqueueVision, PurgeFrame, FilterBackfill, kernelVars
  <2>3. UNCHANGED jobs \/ EnqueueJob("vision_tag", f, 10) \/ EnqueueJob("embed_text", f, 0)
    BY <2>1 DEF CaptureInserts, EnqueueVision, PurgeFrame, FilterBackfill, BackfillFrame, Calm
  <2> QED BY <2>2, <2>3, EnqueueSpares, QuietStep
<1>6. CASE CaptureEnqueues
  BY <1>6, EnqueueSpares, QuietStep DEF CaptureEnqueues, kernelVars
<1>7. CASE CancelVision
  BY <1>7 DEF CancelVision, Calm
<1>8. CASE \E l \in Levels : GovernorSets(l)
  BY <1>8, QuietStep DEF GovernorSets, storeVars, kernelVars
<1>9. CASE Tick
  BY <1>9, TickExclusive
<1>10. CASE Crash
  BY <1>10 DEF Crash, NewProcess, EInv, HoldersOK, HolderOK, DistinctHolders,
       GuardCoversHolder, SweepSpares, PoolsAwaited, PoolOff, IdleCtl, Holding, Busy, Guarded
<1> QED BY <1>1, <1>2, <1>3, <1>4, <1>5, <1>6, <1>7, <1>8, <1>9, <1>10 DEF Next

\* jobs.rs: "no job is handed to two workers".  With one caller of start and stop
\* at a time, no deleted rows and no stall inside a window, this holds for any
\* number of pools, workers, jobs and restarts, although the queue has no lease.
THEOREM ClaimsAreExclusive == ASSUME Calm PROVE Spec => []ExclusiveClaim
<1>1. Init => TInv /\ EInv
  BY TypeInit, ExclusiveInit
<1>2. TInv /\ EInv /\ [Next]_vars => TInv' /\ EInv'
  BY TypeStep, ExclusiveStep
<1>3. EInv => ExclusiveClaim
  BY DEF EInv, DistinctHolders, ExclusiveClaim, Holding
<1> QED BY <1>1, <1>2, <1>3, PTL DEF Spec

\* worker_pool.rs, ActiveJobGuard: under the same conditions the set the sweep
\* looks at holds the job of every worker that has taken its guard.
THEOREM GuardsCoverHolders == ASSUME Calm PROVE Spec => []GuardCoversHolder
<1>1. Init => TInv /\ EInv
  BY TypeInit, ExclusiveInit
<1>2. TInv /\ EInv /\ [Next]_vars => TInv' /\ EInv'
  BY TypeStep, ExclusiveStep
<1>3. EInv => GuardCoversHolder
  BY DEF EInv
<1> QED BY <1>1, <1>2, <1>3, PTL DEF Spec

-----------------------------------------------------------------------------
(* The refinement.  Under LQ's mapping a worker's lease is the job it is     *)
(* between claiming and finalizing; EInv says what each step needs: a lease  *)
(* is on a running row, and no sweep takes a leased row.                     *)

Lease(w) == IF pc[w] \in Busy THEN work[w].id ELSE 0

\* The rows' states and attempts, and the leases, are all LeasedQueue sees.
LEMMA LeaseStutter ==
    ASSUME \A id \in JobIds : jobs'[id].state = jobs[id].state /\ jobs'[id].attempts = jobs[id].attempts,
           \A w \in Workers : Lease(w)' = Lease(w)
    PROVE  UNCHANGED LQ!lqVars
BY DEF LQ!lqVars, Lease

\* Who holds which job follows from the workers' variables.
LEMMA LeasesKept ==
    ASSUME UNCHANGED workerVars PROVE \A w \in Workers : Lease(w)' = Lease(w)
BY DEF Lease, workerVars

\* A row is leased while its holder works on it, so it runs.
LEMMA LeasedRuns ==
    ASSUME TInv, EInv, NEW w \in Workers, NEW id \in JobIds, Lease(w) = id
    PROVE  pc[w] \in Busy /\ work[w].id = id /\ jobs[id].state = "running"
<1>1. 0 \notin JobIds
  BY DEF JobIds
<1> QED BY <1>1 DEF Lease, EInv, HoldersOK, HolderOK

\* An insert is a submission.
LEMMA EnqueueSubmits ==
    ASSUME TInv, NEW kind, NEW f, NEW prio, EnqueueJob(kind, f, prio),
           \A w \in Workers : Lease(w)' = Lease(w)
    PROVE  LQ!LQNext
<1>1. PICK id \in JobIds : IsNextRowid(id) /\ jobs' = [jobs EXCEPT ![id] = FreshRow(kind, f, prio)]
  BY DEF EnqueueJob
<1>2. jobs \in [JobIds -> Row] /\ jobs[id].state = "absent"
  BY <1>1, TInvParts DEF RowsOK, IsNextRowid, JobIds
<1>3. FreshRow(kind, f, prio).state = "pending" /\ FreshRow(kind, f, prio).attempts = 0
  BY DEF FreshRow
<1>4. \A k \in JobIds : jobs'[k] = IF k = id THEN FreshRow(kind, f, prio) ELSE jobs[k]
  BY <1>1, <1>2
<1>5. LQ!Submit(id)
  BY <1>2, <1>3, <1>4 DEF LQ!Submit, Lease
<1> QED BY <1>5 DEF LQ!LQNext

\* A sweep that spares the leased rows is a requeue.
LEMMA SweepRequeues ==
    ASSUME TInv, EInv, NEW S \in SUBSET JobIds,
           \A id \in S : jobs[id].state = "running" /\ \A w \in Workers : Lease(w) # id,
           jobs' = [id \in JobIds |-> IF id \in S THEN Requeued(jobs[id]) ELSE jobs[id]],
           \A w \in Workers : Lease(w)' = Lease(w)
    PROVE  LQ!LQNext
<1>1. \A id \in JobIds : /\ jobs'[id].state = IF id \in S THEN "pending" ELSE jobs[id].state
                         /\ jobs'[id].attempts = jobs[id].attempts
  BY TInvParts DEF RowsOK, Requeued, Row
<1>2. LQ!Requeue(S)
  BY <1>1 DEF LQ!Requeue, LQ!Held, Lease
<1> QED BY <1>2 DEF LQ!LQNext

\* A worker that changes neither the table nor its lease.
LEMMA WorkerStutters ==
    ASSUME TInv, NEW w \in Workers, NEW l \in Labels, GoTo(w, l), UNCHANGED jobs,
           \A v \in Workers : v # w => work'[v] = work[v],
           l \in Busy <=> pc[w] \in Busy,
           l \in Busy => work'[w].id = work[w].id
    PROVE  UNCHANGED LQ!lqVars
<1>1. \A v \in Workers : pc'[v] = IF v = w THEN l ELSE pc[v]
  BY TInvParts DEF WorkOK, GoTo
<1>2. \A v \in Workers : Lease(v)' = Lease(v)
  BY <1>1 DEF Lease
<1> QED BY <1>2, LeaseStutter

\* The leases after a worker has gone to a point outside Busy.
LEMMA WorkerReleases ==
    ASSUME TInv, NEW w \in Workers, NEW l \in Labels, l \notin Busy, GoTo(w, l), UNCHANGED work
    PROVE  \A v \in Workers : Lease(v)' = IF v = w THEN 0 ELSE Lease(v)
<1>1. \A v \in Workers : pc'[v] = IF v = w THEN l ELSE pc[v]
  BY TInvParts DEF WorkOK, GoTo
<1> QED BY <1>1 DEF Lease

\* Leases that end while the table stays as it is are abandoned.
LEMMA LeasesEnd ==
    ASSUME NEW W \in SUBSET Workers, UNCHANGED jobs,
           \A v \in Workers : Lease(v)' = IF v \in W THEN 0 ELSE Lease(v)
    PROVE  LQ!LQNext
<1>1. LQ!Abandon(W)
  BY DEF LQ!Abandon, Lease
<1> QED BY <1>1 DEF LQ!LQNext

\* claim_jobs hands out a pending row, which nobody leases.
LEMMA ClaimLeases ==
    ASSUME TInv, EInv, NEW w \in Workers, WorkerClaims(w)
    PROVE  LQ!LQNext
<1>0. /\ jobs \in [JobIds -> Row] /\ pc \in [Workers -> Labels] /\ work \in [Workers -> Work]
  BY TInvParts DEF RowsOK, WorkOK
<1>1. PICK id \in JobIds :
        /\ ClaimJob(id, work[w].kinds)
        /\ SetWork(w, [NoWork EXCEPT !.id = id, !.kind = jobs[id].kind,
                          !.frame = jobs[id].frame, !.attempts = jobs[id].attempts])
  BY DEF WorkerClaims
<1>2. jobs[id].state = "pending" /\ jobs' = [jobs EXCEPT ![id] = Claimed(jobs[id])]
  BY <1>1 DEF ClaimJob, IsNextClaim, Claimable
<1>3. \A k \in JobIds : /\ jobs'[k].state = IF k = id THEN "running" ELSE jobs[k].state
                        /\ jobs'[k].attempts = jobs[k].attempts
  BY <1>0, <1>2 DEF Claimed, Row
<1>4. work'[w].id = id /\ \A v \in Workers : v # w => work'[v] = work[v]
  BY <1>0, <1>1 DEF SetWork, NoWork
<1>5. \A v \in Workers : pc'[v] = IF v = w THEN "claimed" ELSE pc[v]
  BY <1>0 DEF WorkerClaims, GoTo
<1>6. Lease(w) = 0 /\ \A v \in Workers : Lease(v) # id
  BY <1>2, LeasedRuns DEF WorkerClaims, Lease, Busy
<1>7. \A v \in Workers : Lease(v)' = IF v = w THEN id ELSE Lease(v)
  BY <1>4, <1>5, LabelsOK DEF Lease
<1>8. LQ!Claim(w, id)
  BY <1>2, <1>3, <1>6, <1>7 DEF LQ!Claim, LQ!Held, Lease
<1> QED BY <1>8 DEF LQ!LQNext

\* complete_job and fail_job are called by the holder, of a running row.
LEMMA FinalizeFinishes ==
    ASSUME TInv, EInv, NEW w \in Workers, WorkerFinalizes(w)
    PROVE  LQ!LQNext
<1>0. jobs \in [JobIds -> Row] /\ work[w] \in Work
  BY TInvParts DEF RowsOK, WorkOK
<1>id. PICK id \in JobIds : work[w].id = id
  BY <1>0 DEF Work
<1>1. Lease(w) = id /\ pc[w] = "final"
  BY <1>id, LabelsOK DEF WorkerFinalizes, Lease
<1>2. \A v \in Workers : Lease(v)' = IF v = w THEN 0 ELSE Lease(v)
  BY WorkerReleases, LabelsOK DEF WorkerFinalizes
<1>3. jobs[id].state = "running" /\ jobs[id].attempts \in Nat
  BY <1>0, <1>1, LeasedRuns DEF Row
<1> DEFINE Becomes(row) == jobs' = [jobs EXCEPT ![id] = row]
           Ends(row) ==
             \/ row.state = "done" /\ row.attempts = jobs[id].attempts
             \/ /\ jobs[id].attempts + 1 < MaxAttempts
                /\ row.state = "pending" /\ row.attempts = jobs[id].attempts + 1
             \/ row.state = "dead" /\ row.attempts = jobs[id].attempts + 1
<1>4. \E row : Becomes(row) /\ Ends(row)
  <2>1. CASE CompleteJob(id)
    <3>1. Ends(Completed(jobs[id]))
      BY <1>0 DEF Completed, Row
    <3> QED BY <2>1, <3>1 DEF CompleteJob
  <2>2. ASSUME NEW retry, NEW wait, FailJob(id, retry, wait) PROVE \E row : Becomes(row) /\ Ends(row)
    <3>1. Ends(Failed(jobs[id], retry, wait))
      BY <1>0, <1>3 DEF Failed, Row
    <3> QED BY <2>2, <3>1 DEF FailJob
  <2> QED BY <1>id, <2>1, <2>2 DEF WorkerFinalizes, Finalize
<1>5. PICK row : Becomes(row) /\ Ends(row)
  BY <1>4
<1>6. \A k \in JobIds : jobs'[k] = IF k = id THEN row ELSE jobs[k]
  BY <1>0, <1>5
<1>7. LQ!Finish(w, id)
  BY <1>0, <1>1, <1>2, <1>3, <1>5, <1>6 DEF LQ!Finish, Lease
<1> QED BY <1>7 DEF LQ!LQNext

\* A step of LeasedQueue or a stutter: the workers',
LEMMA WorkerRefines ==
    ASSUME TInv, EInv, NEW w \in Workers, WorkerStep(w) \/ WorkerClaimFails(w) \/ WorkerFinalizeFails(w)
    PROVE  [LQ!LQNext]_LQ!lqVars
<1>0. pc \in [Workers -> Labels] /\ work \in [Workers -> Work]
  BY TInvParts DEF WorkOK
<1>k. ASSUME NEW r, SetWork(w, r) PROVE work'[w] = r /\ \A v \in Workers : v # w => work'[v] = work[v]
  BY <1>0, <1>k DEF SetWork
<1>id. ASSUME NEW x PROVE [work[w] EXCEPT !.text = x].id = work[w].id /\ [work[w] EXCEPT !.outcome = x].id = work[w].id
  BY <1>0 DEF Work
<1>1. ASSUME WorkerStops(w) \/ WorkerPolls(w) \/ WorkerClaimsNothing(w) \/ WorkerClaimFails(w)
             \/ WorkerBegins(w) \/ WorkerEmits(w)
      PROVE  UNCHANGED LQ!lqVars
  BY <1>1, <1>k, WorkerStutters, LabelsOK
    DEF WorkerStops, WorkerPolls, WorkerClaimsNothing, WorkerClaimFails, WorkerBegins, WorkerEmits, storeVars
<1>2. ASSUME WorkerReturnsEarly(w) \/ WorkerReads(w) \/ WorkerWrites(w) \/ WorkerRetries(w)
      PROVE  UNCHANGED LQ!lqVars
  <2>1. PICK x : SetWork(w, [work[w] EXCEPT !.text = x]) \/ SetWork(w, [work[w] EXCEPT !.outcome = x])
    BY <1>2 DEF WorkerReturnsEarly, WorkerReads, WorkerWrites, WorkerRetries
  <2>2. work'[w].id = work[w].id /\ \A v \in Workers : v # w => work'[v] = work[v]
    BY ZenonT(40), <2>1, <1>k, <1>id
  <2> QED BY <1>2, <2>2, WorkerStutters, LabelsOK
      DEF WorkerReturnsEarly, WorkerReads, WorkerWrites, WorkerRetries, storeVars
<1>3. ASSUME WorkerClaims(w) PROVE LQ!LQNext
  BY <1>3, ClaimLeases
<1>4. ASSUME WorkerFinalizes(w) PROVE LQ!LQNext
  BY <1>4, FinalizeFinishes
<1>5. ASSUME WorkerFinalizesNothing(w) \/ WorkerFinalizeFails(w) PROVE LQ!LQNext
  <2>1. \A v \in Workers : Lease(v)' = IF v \in {w} THEN 0 ELSE Lease(v)
    BY <1>5, WorkerReleases, LabelsOK DEF WorkerFinalizesNothing, WorkerFinalizeFails
  <2> QED BY <1>5, <2>1, LeasesEnd DEF WorkerFinalizesNothing, WorkerFinalizeFails, storeVars
<1> QED BY <1>1, <1>2, <1>3, <1>4, <1>5 DEF WorkerStep

\* the sweeps',
LEMMA SweepRefines ==
    ASSUME TInv, EInv, NEW p \in Pools, SweepChecks(p) \/ SweepResets(p) \/ SweepFails(p) \/ SweepStops(p)
    PROVE  [LQ!LQNext]_LQ!lqVars
<1>1. \A w \in Workers : Lease(w)' = Lease(w)
  BY LeasesKept DEF SweepChecks, SweepResets, SweepFails, SweepStops
<1>2. ASSUME SweepChecks(p) \/ SweepFails(p) \/ SweepStops(p) PROVE UNCHANGED LQ!lqVars
  BY <1>1, <1>2, LeaseStutter DEF SweepChecks, SweepFails, SweepStops, storeVars
<1>3. ASSUME SweepResets(p) PROVE LQ!LQNext
  <2> DEFINE S == {id \in JobIds : jobs[id].state = "running" /\ jobs[id].age = VisibilityTimeout}
  <2>1. jobs' = [id \in JobIds |-> IF id \in S THEN Requeued(jobs[id]) ELSE jobs[id]]
    BY <1>3 DEF SweepResets, ResetStaleRunning
  <2>2. ASSUME NEW id \in S, NEW w \in Workers, Lease(w) = id PROVE FALSE
    <3>1. pc[w] \in Holding /\ work[w].id = id
      BY <2>2, LeasedRuns DEF Holding
    <3> QED BY <1>3, <2>2, <3>1, TimeAssumption DEF SweepResets, EInv, SweepSpares
  <2> HIDE DEF S
  <2> QED BY <1>1, <2>1, <2>2, SweepRequeues DEF S
<1> QED BY <1>2, <1>3

\* A restart ends every lease and touches no row.
LEMMA RestartAbandons == ASSUME NewProcess PROVE LQ!LQNext
<1>1. \A w \in Workers : Lease(w)' = IF w \in Workers THEN 0 ELSE Lease(w)
  BY LabelsOK DEF NewProcess, Lease
<1> QED BY <1>1, LeasesEnd DEF NewProcess, storeVars

\* the lifecycle's;
LEMMA CtlRefines ==
    ASSUME Calm, TInv, EInv, NEW c \in Controllers,
           CtlStep(c) \/ StartSweepFails(c) \/ (\E op \in Ops : Call(c, op))
    PROVE  [LQ!LQNext]_LQ!lqVars
<1>1. ASSUME UNCHANGED <<jobs, workerVars>> PROVE UNCHANGED LQ!lqVars
  BY <1>1, LeasesKept, LeaseStutter
<1>2. CASE StopTakesPool(c) \/ StopJoins(c) \/ StartReturns(c) \/ StartSweepFails(c)
           \/ \E op \in Ops : Call(c, op)
  BY <1>1, <1>2 DEF StopTakesPool, StopJoins, StartReturns, StartSweepFails, Call, storeVars, poolVars
<1>3. ASSUME StartSweeps(c) PROVE LQ!LQNext
  <2> DEFINE S == {id \in JobIds : jobs[id].state = "running"}
  <2>1. jobs' = [id \in JobIds |-> IF id \in S THEN Requeued(jobs[id]) ELSE jobs[id]]
    BY <1>3 DEF StartSweeps, ResetAllRunning
  <2>2. \A w \in Workers : pc[w] = "off"
    BY <1>3, StartFindsNoTask DEF StartSweeps, Calm, EInv
  <2>3. \A id \in S : \A w \in Workers : Lease(w) # id
    BY <2>2, LeasedRuns, LabelsOK
  <2>4. \A w \in Workers : Lease(w)' = Lease(w)
    BY <1>3, LeasesKept DEF StartSweeps, poolVars
  <2> HIDE DEF S
  <2> QED BY <2>1, <2>3, <2>4, SweepRequeues DEF S
<1>4. ASSUME StartSpawns(c) PROVE UNCHANGED LQ!lqVars
  <2>1. PICK p \in Pools :
          /\ PoolOff(p)
          /\ pc' = [w \in Workers |-> IF PoolOf[w] = p THEN "top" ELSE pc[w]]
          /\ work' = [w \in Workers |-> IF PoolOf[w] = p THEN NoWork ELSE work[w]]
    BY <1>4 DEF StartSpawns
  <2>2. \A w \in Workers : Lease(w)' = Lease(w)
    BY <2>1, LabelsOK DEF PoolOff, Lease, Busy
  <2> QED BY <1>4, <2>2, LeaseStutter DEF StartSpawns, storeVars
<1>5. ASSUME ExitAndRelaunch(c) PROVE LQ!LQNext
  BY <1>5, RestartAbandons DEF ExitAndRelaunch
<1> QED BY <1>2, <1>3, <1>4, <1>5 DEF CtlStep

\* every step,
LEMMA StepRefines == ASSUME Calm PROVE TInv /\ EInv /\ [Next]_vars => [LQ!LQNext]_LQ!lqVars
<1> SUFFICES ASSUME TInv, EInv, [Next]_vars PROVE [LQ!LQNext]_LQ!lqVars
  OBVIOUS
<1>same. ASSUME UNCHANGED <<jobs, workerVars>> PROVE UNCHANGED LQ!lqVars
  BY <1>same, LeasesKept, LeaseStutter
<1>1. CASE UNCHANGED vars
  BY <1>1, <1>same DEF vars, storeVars, poolVars
<1>2. CASE \E w \in Workers : WorkerStep(w) \/ WorkerClaimFails(w) \/ WorkerFinalizeFails(w)
  BY <1>2, WorkerRefines
<1>3. CASE \E p \in Pools : SweepChecks(p) \/ SweepResets(p) \/ SweepFails(p) \/ SweepStops(p)
  BY <1>3, SweepRefines
<1>4. CASE \E c \in Controllers : CtlStep(c) \/ StartSweepFails(c) \/ \E op \in Ops : Call(c, op)
  BY <1>4, CtlRefines
<1>5. CASE \E f \in Frames : CaptureInserts(f) \/ EnqueueVision(f) \/ PurgeFrame(f) \/ FilterBackfill(f)
  <2>1. PICK f \in Frames : CaptureInserts(f) \/ EnqueueVision(f) \/ PurgeFrame(f) \/ FilterBackfill(f)
    BY <1>5
  <2>2. UNCHANGED workerVars
    BY <2>1 DEF CaptureInserts, EnqueueVision, PurgeFrame, FilterBackfill, poolVars
  <2>3. UNCHANGED jobs \/ EnqueueJob("vision_tag", f, 10) \/ EnqueueJob("embed_text", f, 0)
    BY <2>1 DEF CaptureInserts, EnqueueVision, PurgeFrame, FilterBackfill, BackfillFrame, Calm
  <2> QED BY <2>2, <2>3, <1>same, LeasesKept, EnqueueSubmits
<1>6. CASE CaptureEnqueues
  BY <1>6, LeasesKept, EnqueueSubmits DEF CaptureEnqueues, poolVars
<1>7. CASE CancelVision
  BY <1>7 DEF CancelVision, Calm
<1>8. CASE \E l \in Levels : GovernorSets(l)
  BY <1>8, <1>same DEF GovernorSets, storeVars, poolVars
<1>9. CASE Tick
  <2>1. \A id \in JobIds : jobs'[id].state = jobs[id].state /\ jobs'[id].attempts = jobs[id].attempts
    <3> SUFFICES ASSUME NEW id \in JobIds
                 PROVE  jobs'[id].state = jobs[id].state /\ jobs'[id].attempts = jobs[id].attempts
      OBVIOUS
    <3>1. jobs'[id] = TickRow(jobs[id]) /\ jobs[id] \in Row
      BY <1>9, TInvParts DEF Tick, StoreTick, RowsOK
    <3> QED BY <3>1 DEF TickRow, Row
  <2> QED BY <1>9, <2>1, LeasesKept, LeaseStutter DEF Tick, poolVars
<1>10. CASE Crash
  BY <1>10, RestartAbandons DEF Crash
<1> QED BY <1>1, <1>2, <1>3, <1>4, <1>5, <1>6, <1>7, <1>8, <1>9, <1>10 DEF Next

\* and the start.
LEMMA InitRefines == Init => LQ!LQInit
<1> SUFFICES ASSUME Init PROVE LQ!LQInit
  OBVIOUS
<1>1. PICK s \in [OldFrames -> {"pending", "running", "done"}] :
        jobs = [id \in JobIds |-> IF id \in OldFrames
                                  THEN [FreshRow("embed_text", id, 0) EXCEPT !.state = s[id]]
                                  ELSE NoRow]
  BY DEF Init, StoreInit
<1>2. \A id \in JobIds : /\ jobs[id].state \in {"absent", "pending", "running", "done"}
                         /\ jobs[id].attempts = 0
  BY <1>1 DEF FreshRow, NoRow
<1>3. \A w \in Workers : Lease(w) = 0
  BY LabelsOK DEF Init, Lease
<1> QED BY <1>2, <1>3 DEF LQ!LQInit, Lease

\* The queue has no lease column (jobs.rs): a claim only writes state = 'running'.
\* Under the same conditions the row states, the active sets, the startup sweep
\* and the joins of stop_workers together behave as the leased queue does, for any
\* number of pools, workers, jobs, restarts and store errors: a claim is exclusive,
\* only the holder finishes a job, only rows nobody holds are requeued, a finished
\* job stays finished and a crash costs no attempt.
THEOREM ClaimsAreLeases == ASSUME Calm PROVE Spec => ImplementsLeasedQueue
<1>1. Init => TInv /\ EInv
  BY TypeInit, ExclusiveInit
<1>2. TInv /\ EInv /\ [Next]_vars => TInv' /\ EInv'
  BY TypeStep, ExclusiveStep
<1>3. Init => LQ!LQInit
  BY InitRefines
<1>4. TInv /\ EInv /\ [Next]_vars => [LQ!LQNext]_LQ!lqVars
  BY StepRefines
<1> QED BY <1>1, <1>2, <1>3, <1>4, PTL DEF Spec, ImplementsLeasedQueue, LQ!LQSpec

-----------------------------------------------------------------------------
(* Nothing is dropped.  A row has its frame as long as it is there, a worker *)
(* works on what its row says, and a frame without a vector that was ever to *)
(* be embedded is owed one by a row whose worker has not answered yet: that  *)
(* last part is what a finalization, which retires the row, relies on.       *)

RowsHaveFrames ==
    \A id \in JobIds : jobs[id].state # "absent" => frames[jobs[id].frame] # "absent"

WorkFits ==
    \A w \in Workers : pc[w] \in Busy =>
        /\ jobs[work[w].id].kind = work[w].kind
        /\ jobs[work[w].id].frame = work[w].frame

\* The worker is about to mark its job done.
Answered(w) == pc[w] = "final" /\ work[w].outcome = "complete"

VisionAnswered ==
    \A w \in Workers : Answered(w) /\ work[w].kind = "vision_tag" => work[w].frame \in vis

VisionDone ==
    \A id \in JobIds :
        jobs[id].state = "done" /\ jobs[id].kind = "vision_tag" => jobs[id].frame \in vis

Owing(k) ==
    /\ jobs[k].kind = "embed_text"
    /\ jobs[k].state \in Live \cup {"dead"}
    /\ \A w \in Workers : Answered(w) => work[w].id # k

Unwritten(f) == frames[f] # "empty" /\ emb[f] = "absent"

EmbedOwed ==
    \A id \in JobIds :
        /\ jobs[id].state # "absent" /\ jobs[id].kind = "embed_text"
        /\ Unwritten(jobs[id].frame)
        => \E k \in JobIds : jobs[k].frame = jobs[id].frame /\ Owing(k)

OInv == RowsHaveFrames /\ WorkFits /\ VisionAnswered /\ VisionDone /\ EmbedOwed

\* A step that keeps the frames and what every row is for, loses no vector and
\* no analysis, and leaves an owing row owing as long as its frame is unwritten.
LEMMA OwedKept ==
    ASSUME OInv, UNCHANGED frames, vis \subseteq vis',
           \A id \in JobIds : jobs[id].state # "absent" => jobs[id].frame \in Frames,
           \A f \in Frames : emb'[f] = "absent" => emb[f] = "absent",
           \A id \in JobIds : /\ jobs'[id].kind = jobs[id].kind /\ jobs'[id].frame = jobs[id].frame
                              /\ jobs'[id].state = "absent" <=> jobs[id].state = "absent",
           \A k \in JobIds : Owing(k) /\ Unwritten(jobs[k].frame)' => Owing(k)',
           WorkFits', VisionAnswered', VisionDone'
    PROVE  OInv'
<1>1. RowsHaveFrames'
  BY DEF OInv, RowsHaveFrames
<1>2. EmbedOwed'
  <2> SUFFICES ASSUME NEW id \in JobIds, jobs'[id].state # "absent", jobs'[id].kind = "embed_text",
                      Unwritten(jobs[id].frame)'
               PROVE  \E k \in JobIds : jobs'[k].frame = jobs[id].frame /\ Owing(k)'
    BY DEF EmbedOwed
  <2>1. Unwritten(jobs[id].frame)
    BY DEF Unwritten
  <2>2. PICK k \in JobIds : jobs[k].frame = jobs[id].frame /\ Owing(k)
    BY <2>1 DEF OInv, EmbedOwed
  <2> QED BY <2>2
<1> QED BY <1>1, <1>2 DEF OInv

\* A row that exists has a frame.
LEMMA RowFrameOK ==
    ASSUME TInv
    PROVE  /\ jobs \in [JobIds -> Row]
           /\ \A id \in JobIds : jobs[id].state # "absent" => jobs[id].frame \in Frames
BY TInvParts DEF RowsOK, RowOK

\* The table untouched, and no worker newly about to mark a job done.
LEMMA NothingAnswered ==
    ASSUME TInv, OInv, UNCHANGED storeVars,
           \A w \in Workers : pc'[w] \in Busy =>
               /\ pc[w] \in Busy /\ work'[w].id = work[w].id /\ work'[w].kind = work[w].kind
               /\ work'[w].frame = work[w].frame,
           \A w \in Workers : Answered(w)' =>
               Answered(w) \/ (work[w].kind = "embed_text" /\ ~Unwritten(work[w].frame))
    PROVE  OInv'
<1>1. \A w \in Workers : Answered(w)' => pc'[w] \in Busy
  BY DEF Answered, Busy
<1>2. WorkFits'
  BY DEF OInv, WorkFits, storeVars
<1>3. VisionAnswered' /\ VisionDone'
  BY <1>1 DEF OInv, VisionAnswered, VisionDone, storeVars
<1>4. ASSUME NEW k \in JobIds, Owing(k), Unwritten(jobs[k].frame) PROVE Owing(k)'
  <2>1. \A w \in Workers : Answered(w)' => work'[w].id # k
    BY <1>1, <1>4 DEF Owing, OInv, WorkFits
  <2> QED BY <1>4, <2>1 DEF Owing, storeVars
<1> QED BY <1>2, <1>3, <1>4, OwedKept, RowFrameOK DEF storeVars, Unwritten

\* What is missing stays owed through the steps of the workers,
LEMMA WorkerOwed ==
    ASSUME Calm, TInv, EInv, OInv, NEW w \in Workers,
           WorkerStep(w) \/ WorkerClaimFails(w) \/ WorkerFinalizeFails(w)
    PROVE  OInv'
<1>0. /\ pc \in [Workers -> Labels] /\ work \in [Workers -> Work] /\ jobs \in [JobIds -> Row]
      /\ \A v \in Workers : work[v].id \in JobIds
  BY TInvParts DEF WorkOK, RowsOK, Work
<1>k. ASSUME NEW r, SetWork(w, r) PROVE work'[w] = r /\ \A v \in Workers : v # w => work'[v] = work[v]
  BY <1>0, <1>k DEF SetWork
<1>g. ASSUME NEW l, GoTo(w, l) PROVE \A v \in Workers : pc'[v] = IF v = w THEN l ELSE pc[v]
  BY <1>0, <1>g DEF GoTo
<1>u. \A x : /\ [work[w] EXCEPT !.text = x].id = work[w].id
             /\ [work[w] EXCEPT !.text = x].kind = work[w].kind
             /\ [work[w] EXCEPT !.text = x].frame = work[w].frame
             /\ [work[w] EXCEPT !.outcome = x].id = work[w].id
             /\ [work[w] EXCEPT !.outcome = x].kind = work[w].kind
             /\ [work[w] EXCEPT !.outcome = x].frame = work[w].frame
             /\ [work[w] EXCEPT !.outcome = x].outcome = x
  BY <1>0 DEF Work
<1>fit. pc[w] \in Busy =>
          /\ jobs[work[w].id].kind = work[w].kind /\ jobs[work[w].id].frame = work[w].frame
          /\ jobs[work[w].id].state = "running" /\ frames[work[w].frame] # "absent"
          /\ work[w].frame \in Frames
  BY <1>0, RowFrameOK DEF OInv, WorkFits, RowsHaveFrames, EInv, HoldersOK, HolderOK
<1>1. ASSUME WorkerStops(w) \/ WorkerPolls(w) \/ WorkerClaimsNothing(w) \/ WorkerClaimFails(w)
             \/ WorkerBegins(w) \/ WorkerEmits(w) \/ WorkerFinalizesNothing(w) \/ WorkerFinalizeFails(w)
      PROVE  OInv'
  <2>1. PICK l \in {"off", "top", "polled", "emit", "reading"} :
          GoTo(w, l) /\ (l = "reading" => pc[w] = "claimed" /\ UNCHANGED work)
    BY <1>1 DEF WorkerStops, WorkerPolls, WorkerClaimsNothing, WorkerClaimFails, WorkerBegins,
         WorkerEmits, WorkerFinalizesNothing, WorkerFinalizeFails
  <2>2. \A v \in Workers : v # w => work'[v] = work[v]
    BY <1>1, <1>k DEF WorkerStops, WorkerPolls, WorkerClaimsNothing, WorkerClaimFails, WorkerBegins,
         WorkerEmits, WorkerFinalizesNothing, WorkerFinalizeFails
  <2>3. UNCHANGED storeVars
    BY <1>1 DEF WorkerStops, WorkerPolls, WorkerClaimsNothing, WorkerClaimFails, WorkerBegins,
         WorkerEmits, WorkerFinalizesNothing, WorkerFinalizeFails
  <2>4. \A v \in Workers : pc'[v] \in Busy =>
            /\ pc[v] \in Busy /\ work'[v].id = work[v].id /\ work'[v].kind = work[v].kind
            /\ work'[v].frame = work[v].frame
    BY <1>g, <2>1, <2>2, LabelsOK
  <2>5. \A v \in Workers : Answered(v)' => Answered(v)
    BY <1>g, <2>1, <2>2 DEF Answered
  <2> QED BY <2>3, <2>4, <2>5, NothingAnswered
<1>2. ASSUME WorkerReads(w) \/ WorkerRetries(w) \/ WorkerReturnsEarly(w) PROVE OInv'
  <2> DEFINE Same(r) == r.id = work[w].id /\ r.kind = work[w].kind /\ r.frame = work[w].frame
  <2>0. \E l \in {"writing", "final"} : \E r :
          /\ GoTo(w, l) /\ SetWork(w, r) /\ Same(r)
          /\ l = "final" /\ r.outcome = "complete" => frames[work[w].frame] \in NothingToDo(work[w].kind)
    <3> DEFINE reads(x) == [work[w] EXCEPT !.text = x]
               ends(x) == [work[w] EXCEPT !.outcome = x]
    <3>0. \A x : /\ reads(x).id = work[w].id /\ reads(x).kind = work[w].kind
                 /\ reads(x).frame = work[w].frame
                 /\ ends(x).id = work[w].id /\ ends(x).kind = work[w].kind
                 /\ ends(x).frame = work[w].frame /\ ends(x).outcome = x
      BY <1>u
    <3>1. CASE WorkerReads(w)
      <4>1. GoTo(w, "writing") /\ SetWork(w, reads(frames[work[w].frame]))
        BY <3>1 DEF WorkerReads
      <4> HIDE DEF reads, ends
      <4> QED BY <3>0, <4>1
    <3>2. CASE WorkerRetries(w)
      <4>1. GoTo(w, "final") /\ SetWork(w, ends("retry"))
        BY <3>2 DEF WorkerRetries
      <4> HIDE DEF reads, ends
      <4> QED BY <3>0, <4>1
    <3>3. CASE WorkerReturnsEarly(w)
      <4>1. PICK out \in EarlyOutcomes(work[w]) : SetWork(w, ends(out))
        BY <3>3 DEF WorkerReturnsEarly
      <4>2. out = "complete" => frames[work[w].frame] \in NothingToDo(work[w].kind)
        BY <4>1 DEF EarlyOutcomes
      <4>3. GoTo(w, "final")
        BY <3>3 DEF WorkerReturnsEarly
      <4> HIDE DEF reads, ends
      <4> QED BY <3>0, <4>1, <4>2, <4>3
    <3> QED BY <1>2, <3>1, <3>2, <3>3
  <2>1. PICK l \in {"writing", "final"}, r \in {work'[w]} :
          /\ GoTo(w, l) /\ SetWork(w, r) /\ Same(r)
          /\ l = "final" /\ r.outcome = "complete" => frames[work[w].frame] \in NothingToDo(work[w].kind)
    BY <1>k, <2>0
  <2>2. UNCHANGED storeVars /\ pc[w] \in Busy
    BY <1>2, LabelsOK DEF WorkerReads, WorkerRetries, WorkerReturnsEarly
  <2>r. work'[w] = r /\ \A v \in Workers : v # w => work'[v] = work[v]
    BY <1>k, <2>1
  <2>l. \A v \in Workers : pc'[v] = IF v = w THEN l ELSE pc[v]
    BY <1>g, <2>1
  <2>3. \A v \in Workers : pc'[v] \in Busy =>
            /\ pc[v] \in Busy /\ work'[v].id = work[v].id /\ work'[v].kind = work[v].kind
            /\ work'[v].frame = work[v].frame
    BY <2>1, <2>2, <2>r, <2>l
  <2>4. \A v \in Workers :
            Answered(v)' => Answered(v) \/ (work[v].kind = "embed_text" /\ ~Unwritten(work[v].frame))
    <3>1. \A v \in Workers : v # w => (Answered(v)' <=> Answered(v))
      BY <2>r, <2>l DEF Answered
    <3>2. Answered(w)' => frames[work[w].frame] \in NothingToDo(work[w].kind)
      BY <2>1, <2>r, <2>l DEF Answered
    <3>3. work[w].kind \in Kinds
      BY <1>0 DEF Work
    <3> QED BY <1>fit, <2>2, <3>1, <3>2, <3>3 DEF NothingToDo, Unwritten, Kinds
  <2> QED BY <2>2, <2>3, <2>4, NothingAnswered
<1>3. ASSUME WorkerClaims(w) PROVE OInv'
  <2>1. PICK id \in JobIds :
          /\ ClaimJob(id, work[w].kinds)
          /\ SetWork(w, [NoWork EXCEPT !.id = id, !.kind = jobs[id].kind,
                            !.frame = jobs[id].frame, !.attempts = jobs[id].attempts])
    BY <1>3 DEF WorkerClaims
  <2>2. jobs[id].state = "pending" /\ jobs' = [jobs EXCEPT ![id] = Claimed(jobs[id])]
    BY <2>1 DEF ClaimJob, IsNextClaim, Claimable
  <2>3. \A k \in JobIds : /\ jobs'[k].kind = jobs[k].kind /\ jobs'[k].frame = jobs[k].frame
                          /\ jobs'[k].state = IF k = id THEN "running" ELSE jobs[k].state
    BY <1>0, <2>2 DEF Claimed, Row
  <2>4. /\ work'[w].id = id /\ work'[w].kind = jobs[id].kind /\ work'[w].frame = jobs[id].frame
        /\ \A v \in Workers : v # w => work'[v] = work[v]
    BY <1>0, <2>1 DEF SetWork, NoWork
  <2>5. \A v \in Workers : pc'[v] = IF v = w THEN "claimed" ELSE pc[v]
    BY <1>3, <1>g DEF WorkerClaims
  <2>6. UNCHANGED <<frames, emb, vis>>
    BY <1>3 DEF WorkerClaims
  <2>7. WorkFits'
    BY <1>0, <2>3, <2>4, <2>5 DEF OInv, WorkFits
  <2>8. \A v \in Workers : Answered(v)' => Answered(v) /\ v # w
    BY <2>4, <2>5 DEF Answered
  <2>9. VisionAnswered' /\ VisionDone'
    BY <2>3, <2>4, <2>6, <2>8 DEF OInv, VisionAnswered, VisionDone
  <2>10. \A k \in JobIds : Owing(k) => Owing(k)'
    BY <2>3, <2>4, <2>8 DEF Owing, Live
  <2> QED BY <2>2, <2>3, <2>6, <2>7, <2>9, <2>10, OwedKept, RowFrameOK
<1>4. ASSUME WorkerWrites(w) PROVE OInv'
  <2>1. /\ SetWork(w, [work[w] EXCEPT !.outcome = "complete"]) /\ GoTo(w, "final")
        /\ UNCHANGED <<jobs, frames>> /\ pc[w] = "writing" /\ pc[w] \in Busy
    BY <1>4, LabelsOK DEF WorkerWrites
  <2>2. \A v \in Workers : /\ work'[v].id = work[v].id /\ work'[v].kind = work[v].kind
                           /\ work'[v].frame = work[v].frame
    <3> DEFINE r == [work[w] EXCEPT !.outcome = "complete"]
    <3>1. work'[w] = r /\ \A v \in Workers : v # w => work'[v] = work[v]
      BY <1>k, <2>1
    <3>2. r.id = work[w].id /\ r.kind = work[w].kind /\ r.frame = work[w].frame
      BY <1>u
    <3> HIDE DEF r
    <3> QED BY <3>1, <3>2
  <2>3. \A v \in Workers : pc'[v] = IF v = w THEN "final" ELSE pc[v]
    BY <1>g, <2>1
  <2>4. \A v \in Workers : v # w => (Answered(v)' <=> Answered(v))
    BY <1>k, <2>1, <2>3 DEF Answered
  <2>5. /\ work[w].kind = "vision_tag" => work[w].frame \in vis'
        /\ vis \subseteq vis'
        /\ \A f \in Frames : emb'[f] = "absent" => emb[f] = "absent" /\ (work[w].kind = "embed_text" => f # work[w].frame)
    <3>1. work[w].text \in {"old", "current"} \/ work[w].kind # "embed_text"
      BY <2>1, TInvParts DEF WorkOK, WorkersOK
    <3>2. emb \in [Frames -> {"absent", "old", "current"}]
      BY TInvParts DEF DataOK
    <3> QED BY <1>4, <1>fit, <2>1, <3>1, <3>2 DEF WorkerWrites, UpsertTextEmbedding, InsertVision
  <2>6. WorkFits'
    BY <2>1, <2>2, <2>3 DEF OInv, WorkFits
  <2>7. VisionAnswered' /\ VisionDone'
    BY <2>1, <2>2, <2>4, <2>5 DEF OInv, VisionAnswered, VisionDone
  <2>8. ASSUME NEW k \in JobIds, Owing(k), Unwritten(jobs[k].frame)' PROVE Owing(k)'
    <3>1. work[w].id # k
      BY <1>fit, <2>1, <2>5, <2>8 DEF Owing, Unwritten
    <3> QED BY <2>1, <2>2, <2>4, <2>8, <3>1 DEF Owing
  <2> QED BY <2>1, <2>5, <2>6, <2>7, <2>8, OwedKept, RowFrameOK
<1>5. ASSUME WorkerFinalizes(w) PROVE OInv'
  <2> DEFINE id == work[w].id
  <2>1. \A v \in Workers : pc'[v] = IF v = w THEN "emit" ELSE pc[v]
    BY <1>5, <1>g DEF WorkerFinalizes
  <2>2. UNCHANGED <<frames, emb, vis, work>> /\ pc[w] = "final" /\ pc[w] \in Busy
    BY <1>5, LabelsOK DEF WorkerFinalizes
  <2>3. /\ \A k \in JobIds : /\ jobs'[k].kind = jobs[k].kind /\ jobs'[k].frame = jobs[k].frame
                             /\ k # id => jobs'[k] = jobs[k]
        /\ jobs'[id].state \in IF Answered(w) THEN {"done"} ELSE {"pending", "dead"}
    <3>1. CASE work[w].outcome = "complete"
      <4>1. jobs' = [jobs EXCEPT ![id] = Completed(jobs[id])]
        BY <1>5, <3>1 DEF WorkerFinalizes, Finalize, CompleteJob
      <4> QED BY <1>0, <2>2, <3>1, <4>1 DEF Completed, Row, Answered
    <3>2. CASE work[w].outcome # "complete"
      <4>1. PICK retry, wait : FailJob(id, retry, wait)
        BY <1>5, <3>2 DEF WorkerFinalizes, Finalize
      <4>2. jobs' = [jobs EXCEPT ![id] = Failed(jobs[id], retry, wait)]
        BY <4>1 DEF FailJob
      <4> QED BY <1>0, <3>2, <4>2 DEF Failed, Row, Answered
    <3> QED BY <3>1, <3>2
  <2>4. \A v \in Workers : Answered(v)' <=> Answered(v) /\ v # w
    BY <2>1, <2>2 DEF Answered
  <2>5. WorkFits'
    BY <1>0, <2>1, <2>2, <2>3, LabelsOK DEF OInv, WorkFits
  <2>6. VisionAnswered'
    BY <2>2, <2>4 DEF OInv, VisionAnswered
  <2>7. VisionDone'
    <3> SUFFICES ASSUME NEW k \in JobIds, jobs'[k].state = "done", jobs'[k].kind = "vision_tag"
                 PROVE  jobs'[k].frame \in vis
      BY <2>2 DEF VisionDone
    <3>1. CASE k = id
      BY <1>fit, <2>2, <2>3, <3>1 DEF OInv, VisionAnswered
    <3> QED BY <2>3, <3>1 DEF OInv, VisionDone
  <2>8. \A k \in JobIds : Owing(k) => Owing(k)'
    BY <2>2, <2>3, <2>4 DEF Owing, Live
  <2>9. \A k \in JobIds : jobs'[k].state = "absent" <=> jobs[k].state = "absent"
    BY <1>fit, <2>2, <2>3
  <2> HIDE DEF id
  <2> QED BY <2>2, <2>3, <2>5, <2>6, <2>7, <2>8, <2>9, OwedKept, RowFrameOK
<1> QED BY <1>1, <1>2, <1>3, <1>4, <1>5 DEF WorkerStep

\* The frames, the data and the workers untouched; rows are requeued at most.
LEMMA RowsRequeued ==
    ASSUME TInv, EInv, OInv, UNCHANGED <<frames, emb, vis, workerVars>>,
           \A id \in JobIds : \/ jobs'[id] = jobs[id]
                              \/ jobs[id].state = "running" /\ jobs'[id] = Requeued(jobs[id])
    PROVE  OInv'
<1>1. \A id \in JobIds :
        /\ jobs'[id].kind = jobs[id].kind /\ jobs'[id].frame = jobs[id].frame
        /\ jobs'[id].state = jobs[id].state \/ (jobs[id].state = "running" /\ jobs'[id].state = "pending")
  BY ZenonT(40), RowFrameOK DEF Requeued, Row
<1>2. \A w \in Workers : Answered(w)' <=> Answered(w)
  BY DEF Answered, workerVars
<1>3. WorkFits'
  BY <1>1, TInvParts DEF OInv, WorkFits, workerVars, WorkOK, Work
<1>4. VisionAnswered' /\ VisionDone'
  BY <1>1, <1>2 DEF OInv, VisionAnswered, VisionDone, workerVars
<1>5. \A k \in JobIds : Owing(k) => Owing(k)'
  BY <1>1, <1>2 DEF Owing, Live, workerVars
<1> QED BY <1>1, <1>3, <1>4, <1>5, OwedKept, RowFrameOK

\* Workers that start or end have answered nothing.
LEMMA WorkersLeave ==
    ASSUME TInv, OInv, UNCHANGED storeVars,
           \A w \in Workers : pc'[w] \in {"off", "top"} \/ (pc'[w] = pc[w] /\ work'[w] = work[w])
    PROVE  OInv'
<1>1. \A w \in Workers : pc'[w] \in Busy => pc'[w] = pc[w] /\ work'[w] = work[w]
  BY LabelsOK
<1>2. \A w \in Workers : Answered(w)' => Answered(w)
  BY DEF Answered
<1> QED BY <1>1, <1>2, NothingAnswered

\* A new row owes its vector; the table's other rows are as they were.
LEMMA EnqueueOwed ==
    ASSUME TInv, EInv, OInv, NEW kind \in Kinds, NEW f \in Frames, NEW prio, EnqueueJob(kind, f, prio),
           UNCHANGED <<vis, workerVars>>,
           \A g \in Frames : /\ frames'[g] = "absent" <=> frames[g] = "absent"
                             /\ Unwritten(g)' => Unwritten(g) \/ (g = f /\ kind = "embed_text")
    PROVE  OInv'
<1>1. PICK id \in JobIds : IsNextRowid(id) /\ jobs' = [jobs EXCEPT ![id] = FreshRow(kind, f, prio)]
  BY DEF EnqueueJob
<1>2. /\ jobs[id].state = "absent" /\ frames[f] # "absent"
      /\ \A k \in JobIds : jobs'[k] = IF k = id THEN FreshRow(kind, f, prio) ELSE jobs[k]
  BY <1>1, RowFrameOK DEF IsNextRowid, JobIds, EnqueueJob
<1>3. /\ FreshRow(kind, f, prio).kind = kind /\ FreshRow(kind, f, prio).frame = f
      /\ FreshRow(kind, f, prio).state = "pending"
  BY DEF FreshRow
<1>4. \A w \in Workers : pc[w] \in Busy => work[w].id \in JobIds /\ work[w].id # id
  BY <1>2, TInvParts DEF EInv, HoldersOK, HolderOK, WorkOK, Work
<1>5. \A w \in Workers : (Answered(w)' <=> Answered(w)) /\ (Answered(w) => pc[w] \in Busy)
  BY DEF Answered, Busy, workerVars
<1>6. RowsHaveFrames'
  BY <1>2, <1>3, RowFrameOK DEF OInv, RowsHaveFrames
<1>7. WorkFits' /\ VisionAnswered' /\ VisionDone'
  BY <1>2, <1>3, <1>4, <1>5 DEF OInv, WorkFits, VisionAnswered, VisionDone, workerVars
<1>8. \A k \in JobIds : Owing(k) => Owing(k)' /\ jobs'[k].frame = jobs[k].frame
  BY <1>2, <1>5 DEF Owing, Live, workerVars
<1>9. kind = "embed_text" => jobs'[id].frame = f /\ Owing(id)'
  BY <1>2, <1>3, <1>4, <1>5 DEF Owing, Live, workerVars
<1>10. EmbedOwed'
  <2> SUFFICES ASSUME NEW j \in JobIds, jobs'[j].state # "absent", jobs'[j].kind = "embed_text",
                      Unwritten(jobs[j].frame)'
               PROVE  \E k \in JobIds : jobs'[k].frame = jobs'[j].frame /\ Owing(k)'
    BY DEF EmbedOwed
  <2>1. CASE jobs'[j].frame = f /\ kind = "embed_text"
    BY <1>9, <2>1
  <2>2. CASE ~ (jobs'[j].frame = f /\ kind = "embed_text")
    <3>1. j # id /\ jobs'[j] = jobs[j]
      BY <1>2, <1>3, <2>2
    <3>2. Unwritten(jobs[j].frame)
      BY <2>2, <3>1, RowFrameOK
    <3>3. PICK k \in JobIds : jobs[k].frame = jobs[j].frame /\ Owing(k)
      BY <3>1, <3>2 DEF OInv, EmbedOwed
    <3> QED BY <1>8, <3>1, <3>3
  <2> QED BY <2>1, <2>2
<1> QED BY <1>6, <1>7, <1>10 DEF OInv

\* ingest_frame's frame had no row, so none that owes it anything.
LEMMA InsertOwed == ASSUME TInv, OInv, NEW f \in Frames, CaptureInserts(f) PROVE OInv'
<1>1. /\ frames[f] = "absent" /\ UNCHANGED <<jobs, emb, vis, workerVars>>
      /\ \A g \in Frames : g # f => frames'[g] = frames[g]
      /\ frames'[f] # "absent"
  BY TInvParts DEF CaptureInserts, poolVars, DataOK
<1>2. \A id \in JobIds : jobs[id].state # "absent" =>
        jobs[id].frame # f /\ frames'[jobs[id].frame] = frames[jobs[id].frame]
  BY <1>1, RowFrameOK DEF OInv, RowsHaveFrames
<1>3. RowsHaveFrames' /\ WorkFits' /\ VisionAnswered' /\ VisionDone'
  BY <1>1, <1>2 DEF OInv, RowsHaveFrames, WorkFits, VisionAnswered, VisionDone, Answered, workerVars
<1>4. \A k \in JobIds : Owing(k)' <=> Owing(k)
  BY <1>1 DEF Owing, Answered, workerVars
<1>5. EmbedOwed'
  BY <1>1, <1>2, <1>4 DEF OInv, EmbedOwed, Unwritten
<1> QED BY <1>3, <1>5 DEF OInv

\* and of the lifecycle calls.
LEMMA CtlOwed ==
    ASSUME Calm, TInv, EInv, OInv, NEW c \in Controllers,
           CtlStep(c) \/ StartSweepFails(c) \/ (\E op \in Ops : Call(c, op))
    PROVE  OInv'
<1>1. CASE StopTakesPool(c) \/ StopJoins(c) \/ StartReturns(c) \/ StartSweepFails(c)
           \/ \E op \in Ops : Call(c, op)
  BY <1>1, RowsRequeued
    DEF StopTakesPool, StopJoins, StartReturns, StartSweepFails, Call, storeVars, poolVars
<1>2. CASE StartSweeps(c)
  BY <1>2, RowsRequeued DEF StartSweeps, ResetAllRunning, poolVars
<1>3. CASE StartSpawns(c)
  <2>1. \A w \in Workers : pc'[w] = "top" \/ (pc'[w] = pc[w] /\ work'[w] = work[w])
    BY <1>3 DEF StartSpawns
  <2> QED BY <1>3, <2>1, WorkersLeave DEF StartSpawns
<1>4. CASE ExitAndRelaunch(c)
  BY <1>4, WorkersLeave DEF ExitAndRelaunch, NewProcess
<1> QED BY <1>1, <1>2, <1>3, <1>4 DEF CtlStep

\* OInv is inductive, given types and exclusion,
LEMMA OwedStep == ASSUME Calm PROVE TInv /\ EInv /\ OInv /\ [Next]_vars => OInv'
<1> SUFFICES ASSUME TInv, EInv, OInv, [Next]_vars PROVE OInv'
  OBVIOUS
<1>1. CASE UNCHANGED vars
  BY <1>1, RowsRequeued DEF vars, storeVars, poolVars
<1>2. CASE \E w \in Workers : WorkerStep(w) \/ WorkerClaimFails(w) \/ WorkerFinalizeFails(w)
  BY <1>2, WorkerOwed
<1>3. CASE \E p \in Pools : SweepChecks(p) \/ SweepResets(p) \/ SweepFails(p) \/ SweepStops(p)
  BY <1>3, RowsRequeued DEF SweepChecks, SweepResets, SweepFails, SweepStops, ResetStaleRunning, storeVars
<1>4. CASE \E c \in Controllers : CtlStep(c) \/ StartSweepFails(c) \/ \E op \in Ops : Call(c, op)
  BY <1>4, CtlOwed
<1>5. CASE \E f \in Frames : CaptureInserts(f) \/ EnqueueVision(f) \/ PurgeFrame(f) \/ FilterBackfill(f)
  <2>1. PICK f \in Frames : CaptureInserts(f) \/ EnqueueVision(f) \/ PurgeFrame(f) \/ FilterBackfill(f)
    BY <1>5
  <2>2. CASE CaptureInserts(f)
    BY <2>2, InsertOwed
  <2>3. CASE EnqueueVision(f)
    BY <2>3, EnqueueOwed DEF EnqueueVision, poolVars, Kinds, Unwritten
  <2>4. CASE PurgeFrame(f)
    BY <2>4 DEF PurgeFrame, Calm
  <2>5. CASE FilterBackfill(f)
    <3>1. /\ EnqueueJob("embed_text", f, 0) /\ UNCHANGED <<vis, workerVars>>
          /\ frames[f] = "old"
          /\ \E text \in {"empty", "current"} : frames' = [frames EXCEPT ![f] = text]
          /\ emb' = [emb EXCEPT ![f] = "absent"]
      BY <2>5 DEF FilterBackfill, BackfillFrame, poolVars
    <3>2. \A g \in Frames : /\ frames'[g] = "absent" <=> frames[g] = "absent"
                            /\ Unwritten(g)' => Unwritten(g) \/ g = f
      BY <3>1, TInvParts DEF DataOK, Unwritten
    <3> QED BY <3>1, <3>2, EnqueueOwed DEF Kinds
  <2> QED BY <2>1, <2>2, <2>3, <2>4, <2>5
<1>6. CASE CaptureEnqueues
  <2>1. ingest \in Frames
    BY <1>6, TInvParts DEF CaptureEnqueues, EnvOK
  <2> QED BY <1>6, <2>1, EnqueueOwed DEF CaptureEnqueues, poolVars, Kinds, Unwritten
<1>7. CASE CancelVision
  BY <1>7 DEF CancelVision, Calm
<1>8. CASE \E l \in Levels : GovernorSets(l)
  BY <1>8, RowsRequeued DEF GovernorSets, storeVars, poolVars
<1>9. CASE Tick
  <2>1. \A id \in JobIds : /\ jobs'[id].kind = jobs[id].kind /\ jobs'[id].frame = jobs[id].frame
                           /\ jobs'[id].state = jobs[id].state
    <3> SUFFICES ASSUME NEW id \in JobIds
                 PROVE  /\ jobs'[id].kind = jobs[id].kind /\ jobs'[id].frame = jobs[id].frame
                        /\ jobs'[id].state = jobs[id].state
      OBVIOUS
    <3>1. jobs'[id] = TickRow(jobs[id]) /\ jobs[id] \in Row
      BY <1>9, RowFrameOK DEF Tick, StoreTick
    <3> QED BY <3>1 DEF TickRow, Row
  <2>2. UNCHANGED <<frames, emb, vis, workerVars>>
    BY <1>9 DEF Tick, StoreTick, poolVars
  <2>3. WorkFits' /\ VisionAnswered' /\ VisionDone'
    BY <2>1, <2>2, TInvParts
      DEF OInv, WorkFits, VisionAnswered, VisionDone, Answered, workerVars, WorkOK, Work
  <2>4. \A k \in JobIds : Owing(k) => Owing(k)'
    BY <2>1, <2>2 DEF Owing, Answered, workerVars
  <2> QED BY <2>1, <2>2, <2>3, <2>4, OwedKept, RowFrameOK
<1>10. CASE Crash
  BY <1>10, WorkersLeave DEF Crash, NewProcess
<1> QED BY <1>1, <1>2, <1>3, <1>4, <1>5, <1>6, <1>7, <1>8, <1>9, <1>10 DEF Next

\* and holds at the start.
LEMMA OwedInit == Init => OInv
<1> SUFFICES ASSUME Init PROVE OInv
  OBVIOUS
<1>1. PICK s \in [OldFrames -> {"pending", "running", "done"}], written \in SUBSET OldFrames :
        /\ \A f \in OldFrames : s[f] = "done" => f \in written
        /\ jobs = [id \in JobIds |-> IF id \in OldFrames
                                     THEN [FreshRow("embed_text", id, 0) EXCEPT !.state = s[id]]
                                     ELSE NoRow]
        /\ emb = [f \in Frames |-> IF f \in written THEN "old" ELSE "absent"]
  BY DEF Init, StoreInit
<1>2. \A id \in JobIds :
        /\ id \in OldFrames => /\ jobs[id].kind = "embed_text" /\ jobs[id].frame = id
                               /\ jobs[id].state = s[id]
                               /\ s[id] \in {"pending", "running", "done"}
        /\ id \notin OldFrames => jobs[id].state = "absent"
  BY <1>1 DEF FreshRow, NoRow
<1>3. \A w \in Workers : pc[w] = "off" /\ ~ Answered(w)
  BY DEF Init, Answered
<1>4. RowsHaveFrames
  BY <1>2, FramesAssumption DEF Init, StoreInit, RowsHaveFrames
<1>5. WorkFits /\ VisionAnswered /\ VisionDone
  BY <1>2, <1>3, LabelsOK DEF WorkFits, VisionAnswered, VisionDone
<1>6. EmbedOwed
  <2> SUFFICES ASSUME NEW id \in JobIds, jobs[id].state # "absent", emb[jobs[id].frame] = "absent"
               PROVE  \E k \in JobIds : jobs[k].frame = jobs[id].frame /\ Owing(k)
    BY DEF EmbedOwed, Unwritten
  <2>1. id \in OldFrames /\ jobs[id].state # "done"
    BY <1>1, <1>2, FramesAssumption
  <2>2. Owing(id)
    BY <1>2, <1>3, <2>1 DEF Owing, Live
  <2> QED BY <2>2
<1> QED BY <1>4, <1>5, <1>6 DEF OInv

\* jobs.rs: a job is "never silently dropped".  Under the same conditions a job
\* marked done has left its vector or its analysis, or had nothing to embed, or
\* another row still owes the vector: in every interleaving of the workers with
\* the filter backfill, crashes, sweeps and failed store calls.
THEOREM NothingIsDropped == ASSUME Calm PROVE Spec => []NoSilentDrop
<1>1. Init => TInv /\ EInv /\ OInv
  BY TypeInit, ExclusiveInit, OwedInit
<1>2. TInv /\ EInv /\ OInv /\ [Next]_vars => TInv' /\ EInv' /\ OInv'
  BY TypeStep, ExclusiveStep, OwedStep
<1>3. TInv /\ OInv => NoSilentDrop
  <2> SUFFICES ASSUME TInv, OInv, NEW id \in JobIds, jobs[id].state = "done"
               PROVE  LET f == jobs[id].frame IN
                      /\ jobs[id].kind = "vision_tag" => f \in vis
                      /\ jobs[id].kind = "embed_text" =>
                            \/ frames[f] = "empty"
                            \/ emb[f] # "absent"
                            \/ \E k \in JobIds : /\ jobs[k].frame = f
                                                 /\ jobs[k].kind = "embed_text"
                                                 /\ jobs[k].state \in Live \cup {"dead"}
    BY RowFrameOK DEF NoSilentDrop, Row, Kinds
  <2> QED BY DEF OInv, VisionDone, EmbedOwed, Owing, Unwritten
<1> QED BY <1>1, <1>2, <1>3, PTL DEF Spec

-----------------------------------------------------------------------------
(* Stale vectors.  With one worker the backfill's re-embed cannot be         *)
(* overtaken by another worker that is still writing the old text, whatever  *)
(* rows are deleted and whoever starts and stops the pool: the worker's own  *)
(* late write comes before its next claim.                                   *)

OneWorker == \A v, w \in Workers : v = w

VectorsHaveFrames == \A f \in Frames : frames[f] = "absent" => emb[f] = "absent"

\* Only frames of the earlier version are deleted, and none comes back.
HeldFrames ==
    \A w \in Workers : pc[w] \in Busy => work[w].frame \in OldFrames \/ frames[work[w].frame] # "absent"

\* The row of a worker's id may have been deleted and its id used again; a row
\* that runs is the worker's own, and so is that of a frame still there.
HeldFits ==
    \A w \in Workers : pc[w] \in Busy =>
        /\ jobs[work[w].id].state = "running" \/ (/\ work[w].kind = "embed_text"
                                                  /\ frames[work[w].frame] # "absent")
           => jobs[work[w].id].kind = work[w].kind /\ jobs[work[w].id].frame = work[w].frame
        /\ work[w].kind = "embed_text" /\ frames[work[w].frame] # "absent"
           => jobs[work[w].id].state # "absent"

Owes(k, f) ==
    /\ jobs[k].frame = f /\ jobs[k].kind = "embed_text" /\ jobs[k].state \in Live \cup {"dead"}

LateWriteOwed ==
    \A w \in Workers :
        /\ pc[w] = "writing" /\ work[w].kind = "embed_text" /\ work[w].text = "old"
        /\ frames[work[w].frame] = "current"
        => \E k \in JobIds : k # work[w].id /\ Owes(k, work[w].frame)

\* The row that owes the re-embed is not one about to be marked done.
StaleOwed ==
    \A f \in Frames :
        emb[f] = "old" /\ frames[f] = "current" =>
            \E k \in JobIds :
                /\ Owes(k, f)
                /\ jobs[k].state = "running" => \A w \in Workers : Answered(w) => work[w].id # k

VInv == RowsHaveFrames /\ VectorsHaveFrames /\ HeldFrames /\ HeldFits /\ LateWriteOwed /\ StaleOwed

\* The rows keep what they are for and run no more than before.
LEMMA StaleRowsKept ==
    ASSUME TInv, VInv, UNCHANGED <<frames, emb, workerVars>>,
           \A id \in JobIds :
              /\ jobs'[id].kind = jobs[id].kind /\ jobs'[id].frame = jobs[id].frame
              /\ jobs'[id].state = jobs[id].state
                 \/ (jobs[id].state = "running" /\ jobs'[id].state = "pending")
    PROVE  VInv'
<1>1. \A w \in Workers : work[w].id \in JobIds
  BY TInvParts DEF WorkOK, Work
<1>2. RowsHaveFrames' /\ VectorsHaveFrames' /\ HeldFrames'
  BY DEF VInv, RowsHaveFrames, VectorsHaveFrames, HeldFrames, workerVars
<1>3. HeldFits'
  BY <1>1 DEF VInv, HeldFits, workerVars
<1>4. \A k \in JobIds, f \in Frames : Owes(k, f) => Owes(k, f)'
  BY DEF Owes, Live
<1>5. LateWriteOwed'
  <2> SUFFICES ASSUME NEW w \in Workers,
                      pc[w] = "writing" /\ work[w].kind = "embed_text" /\ work[w].text = "old"
                      /\ frames[work[w].frame] = "current"
               PROVE  \E k \in JobIds : k # work[w].id /\ Owes(k, work[w].frame)'
    BY DEF LateWriteOwed, workerVars
  <2>1. PICK k \in JobIds : k # work[w].id /\ Owes(k, work[w].frame)
    BY DEF VInv, LateWriteOwed
  <2>2. Owes(k, work[w].frame)'
    BY <2>1 DEF Owes, Live, workerVars
  <2> QED BY <2>1, <2>2
<1>6. StaleOwed'
  <2>1. \A w \in Workers : Answered(w)' <=> Answered(w)
    BY DEF Answered, workerVars
  <2> SUFFICES ASSUME NEW f \in Frames, emb[f] = "old", frames[f] = "current"
               PROVE  \E k \in JobIds :
                        /\ Owes(k, f)'
                        /\ jobs'[k].state = "running" => \A w \in Workers : Answered(w) => work[w].id # k
    BY <2>1 DEF StaleOwed, workerVars
  <2> QED BY <1>4 DEF VInv, StaleOwed
<1> QED BY <1>2, <1>3, <1>5, <1>6 DEF VInv

\* A worker that touches no data: what it goes on to write is what the frame
\* says now, and it answers without a write only where there is nothing to do.
LEMMA StaleWorkerKept ==
    ASSUME TInv, VInv, UNCHANGED storeVars,
           \A w \in Workers : pc'[w] \in Busy =>
               /\ pc[w] \in Busy /\ work'[w].id = work[w].id /\ work'[w].kind = work[w].kind
               /\ work'[w].frame = work[w].frame,
           \A w \in Workers : pc'[w] = "writing" =>
               \/ pc[w] = "writing" /\ work'[w].text = work[w].text
               \/ work'[w].text = frames[work[w].frame],
           \A w \in Workers : Answered(w)' =>
               Answered(w) \/ frames[work[w].frame] \in NothingToDo(work[w].kind)
    PROVE  VInv'
<1>1. RowsHaveFrames' /\ VectorsHaveFrames' /\ HeldFrames' /\ HeldFits'
  BY DEF VInv, RowsHaveFrames, VectorsHaveFrames, HeldFrames, HeldFits, storeVars
<1>2. \A k \in JobIds, f \in Frames : Owes(k, f)' <=> Owes(k, f)
  BY DEF Owes, storeVars
<1>3. LateWriteOwed'
  <2> SUFFICES ASSUME NEW w \in Workers, pc'[w] = "writing", work'[w].kind = "embed_text",
                      work'[w].text = "old", frames[work'[w].frame] = "current"
               PROVE  \E k \in JobIds : k # work'[w].id /\ Owes(k, work[w].frame)'
    <3>1. \A w \in Workers : pc'[w] = "writing" => work'[w].frame = work[w].frame
      BY LabelsOK
    <3> QED BY <3>1 DEF LateWriteOwed, storeVars, Owes
  <2>1. work'[w].id = work[w].id /\ work'[w].kind = work[w].kind /\ work'[w].frame = work[w].frame
        /\ pc[w] \in Busy
    BY LabelsOK
  <2>2. pc[w] = "writing" /\ work[w].text = "old"
    BY <2>1
  <2>3. PICK k \in JobIds : k # work[w].id /\ Owes(k, work[w].frame)
    BY <2>1, <2>2 DEF VInv, LateWriteOwed
  <2>4. work[w].frame \in Frames
    BY <2>1, TInvParts DEF WorkOK, WorkersOK
  <2> QED BY <1>2, <2>1, <2>3, <2>4
<1>4. StaleOwed'
  <2> SUFFICES ASSUME NEW f \in Frames, emb[f] = "old", frames[f] = "current"
               PROVE  \E k \in JobIds :
                        /\ Owes(k, f)'
                        /\ jobs[k].state = "running" => \A w \in Workers : Answered(w)' => work'[w].id # k
    BY DEF StaleOwed, storeVars
  <2>1. PICK k \in JobIds :
          /\ Owes(k, f)
          /\ jobs[k].state = "running" => \A w \in Workers : Answered(w) => work[w].id # k
    BY DEF VInv, StaleOwed
  <2>2. ASSUME NEW w \in Workers, Answered(w)', jobs[k].state = "running" PROVE work'[w].id # k
    <3>1. pc[w] \in Busy /\ work'[w].id = work[w].id
      BY <2>2, LabelsOK DEF Answered
    <3>2. CASE Answered(w)
      BY <2>1, <2>2, <3>1, <3>2
    <3>3. CASE frames[work[w].frame] \in NothingToDo(work[w].kind)
      <4> SUFFICES ASSUME work[w].id = k PROVE FALSE
        BY <3>1
      <4>1. work[w].kind = "embed_text" /\ work[w].frame = f
        BY <2>1, <2>2, <3>1 DEF VInv, HeldFits, Owes
      <4> QED BY <3>3, <4>1 DEF NothingToDo
    <3> QED BY <2>2, <3>2, <3>3
  <2> QED BY <1>2, <2>1, <2>2
<1> QED BY <1>1, <1>3, <1>4 DEF VInv

\* An outdated vector stays owed through the steps of the one worker.
LEMMA WorkerStale ==
    ASSUME OneWorker, TInv, VInv, NEW w \in Workers,
           WorkerStep(w) \/ WorkerClaimFails(w) \/ WorkerFinalizeFails(w)
    PROVE  VInv'
<1>0. /\ pc \in [Workers -> Labels] /\ work \in [Workers -> Work] /\ jobs \in [JobIds -> Row]
      /\ \A v \in Workers : v = w /\ work[v].id \in JobIds /\ work[v].kind \in Kinds
  BY TInvParts DEF WorkOK, RowsOK, Work, OneWorker
<1>k. ASSUME NEW r, SetWork(w, r) PROVE work'[w] = r
  BY <1>0, <1>k DEF SetWork
<1>g. ASSUME NEW l, GoTo(w, l) PROVE pc'[w] = l
  BY <1>0, <1>g DEF GoTo
<1>1. ASSUME WorkerStops(w) \/ WorkerPolls(w) \/ WorkerClaimsNothing(w) \/ WorkerClaimFails(w)
             \/ WorkerBegins(w) \/ WorkerEmits(w) \/ WorkerFinalizesNothing(w) \/ WorkerFinalizeFails(w)
      PROVE  VInv'
  <2>1. PICK l \in {"off", "top", "polled", "emit", "reading"} :
          GoTo(w, l) /\ (l = "reading" => pc[w] = "claimed" /\ UNCHANGED work)
    BY <1>1 DEF WorkerStops, WorkerPolls, WorkerClaimsNothing, WorkerClaimFails, WorkerBegins,
         WorkerEmits, WorkerFinalizesNothing, WorkerFinalizeFails
  <2>2. UNCHANGED storeVars
    BY <1>1 DEF WorkerStops, WorkerPolls, WorkerClaimsNothing, WorkerClaimFails, WorkerBegins,
         WorkerEmits, WorkerFinalizesNothing, WorkerFinalizeFails
  <2>3. \A v \in Workers : pc'[v] \in Busy =>
            /\ pc[v] \in Busy /\ work'[v].id = work[v].id /\ work'[v].kind = work[v].kind
            /\ work'[v].frame = work[v].frame
    BY <1>0, <1>g, <2>1, LabelsOK
  <2>4. \A v \in Workers : pc'[v] # "writing" /\ ~ Answered(v)'
    BY <1>0, <1>g, <2>1 DEF Answered
  <2> QED BY <2>2, <2>3, <2>4, StaleWorkerKept
<1>2. ASSUME WorkerReads(w) PROVE VInv'
  <2> DEFINE r == [work[w] EXCEPT !.text = frames[work[w].frame]]
  <2>1. work'[w] = r
    BY <1>2, <1>k DEF WorkerReads
  <2>2. /\ r.id = work[w].id /\ r.kind = work[w].kind /\ r.frame = work[w].frame
        /\ r.text = frames[work[w].frame]
    BY <1>0 DEF Work
  <2>3. pc'[w] = "writing" /\ pc[w] \in Busy /\ UNCHANGED storeVars
    BY <1>2, <1>g, LabelsOK DEF WorkerReads
  <2>4. \A v \in Workers : ~ Answered(v)'
    BY <1>0, <2>3 DEF Answered
  <2> HIDE DEF r
  <2> QED BY <1>0, <2>1, <2>2, <2>3, <2>4, StaleWorkerKept
<1>3. ASSUME WorkerReturnsEarly(w) \/ WorkerRetries(w) PROVE VInv'
  <2>1. PICK out \in {"retry"} \cup EarlyOutcomes(work[w]) :
          SetWork(w, [work[w] EXCEPT !.outcome = out])
    BY <1>3 DEF WorkerReturnsEarly, WorkerRetries
  <2> DEFINE r == [work[w] EXCEPT !.outcome = out]
  <2>2. work'[w] = r
    BY <1>k, <2>1
  <2>3. r.id = work[w].id /\ r.kind = work[w].kind /\ r.frame = work[w].frame /\ r.outcome = out
    BY <1>0 DEF Work
  <2>4. out = "complete" => frames[work[w].frame] \in NothingToDo(work[w].kind)
    BY <2>1 DEF EarlyOutcomes
  <2>5. pc'[w] = "final" /\ pc[w] \in Busy /\ UNCHANGED storeVars
    BY <1>3, <1>g, LabelsOK DEF WorkerReturnsEarly, WorkerRetries
  <2> HIDE DEF r
  <2>6. \A v \in Workers : Answered(v)' => frames[work[v].frame] \in NothingToDo(work[v].kind)
    BY <1>0, <2>2, <2>3, <2>4 DEF Answered
  <2> QED BY <1>0, <2>2, <2>3, <2>5, <2>6, StaleWorkerKept
<1>4. ASSUME WorkerClaims(w) PROVE VInv'
  <2>1. PICK id \in JobIds :
          /\ ClaimJob(id, work[w].kinds)
          /\ SetWork(w, [NoWork EXCEPT !.id = id, !.kind = jobs[id].kind,
                            !.frame = jobs[id].frame, !.attempts = jobs[id].attempts])
    BY <1>4 DEF WorkerClaims
  <2>2. jobs[id].state = "pending" /\ jobs' = [jobs EXCEPT ![id] = Claimed(jobs[id])]
    BY <2>1 DEF ClaimJob, IsNextClaim, Claimable
  <2>3. \A k \in JobIds : /\ jobs'[k].kind = jobs[k].kind /\ jobs'[k].frame = jobs[k].frame
                          /\ jobs'[k].state = IF k = id THEN "running" ELSE jobs[k].state
    BY <1>0, <2>2 DEF Claimed, Row
  <2>4. work'[w].id = id /\ work'[w].kind = jobs[id].kind /\ work'[w].frame = jobs[id].frame
    BY <1>k, <2>1 DEF NoWork
  <2>5. pc'[w] = "claimed" /\ UNCHANGED <<frames, emb, vis>>
    BY <1>4, <1>g DEF WorkerClaims
  <2>6. RowsHaveFrames' /\ VectorsHaveFrames'
    BY <2>2, <2>3, <2>5 DEF VInv, RowsHaveFrames, VectorsHaveFrames
  <2>7. HeldFrames' /\ HeldFits'
    BY <1>0, <2>2, <2>3, <2>4, <2>5 DEF VInv, HeldFrames, HeldFits, RowsHaveFrames
  <2>8. LateWriteOwed'
    BY <1>0, <2>5 DEF LateWriteOwed
  <2>9. \A k \in JobIds, f \in Frames : Owes(k, f) => Owes(k, f)'
    BY <2>2, <2>3 DEF Owes, Live
  <2>10. \A v \in Workers : ~ Answered(v)'
    BY <1>0, <2>5 DEF Answered
  <2>11. StaleOwed'
    BY <2>5, <2>9, <2>10 DEF VInv, StaleOwed
  <2> QED BY <2>6, <2>7, <2>8, <2>11 DEF VInv
<1>5. ASSUME WorkerWrites(w) PROVE VInv'
  <2> DEFINE r == [work[w] EXCEPT !.outcome = "complete"]
  <2>1. work'[w] = r /\ pc'[w] = "final" /\ pc[w] = "writing" /\ UNCHANGED <<jobs, frames>>
    BY <1>5, <1>g, <1>k DEF WorkerWrites
  <2>2. r.id = work[w].id /\ r.kind = work[w].kind /\ r.frame = work[w].frame
    BY <1>0 DEF Work
  <2> HIDE DEF r
  <2>3. /\ pc[w] \in Busy /\ work[w].frame \in Frames
        /\ emb \in [Frames -> {"absent", "old", "current"}]
        /\ frames[work[w].frame] # "absent"
        /\ \/ work[w].kind = "embed_text" /\ emb' = [emb EXCEPT ![work[w].frame] = work[w].text]
           \/ work[w].kind = "vision_tag" /\ emb' = emb
    BY <1>5, <2>1, LabelsOK, TInvParts
      DEF WorkerWrites, UpsertTextEmbedding, InsertVision, WorkOK, WorkersOK, DataOK
  <2>4. RowsHaveFrames' /\ VectorsHaveFrames'
    BY <2>1, <2>3 DEF VInv, RowsHaveFrames, VectorsHaveFrames
  <2>5. HeldFrames' /\ HeldFits'
    BY <1>0, <2>1, <2>2, <2>3 DEF VInv, HeldFrames, HeldFits
  <2>6. LateWriteOwed'
    BY <1>0, <2>1 DEF LateWriteOwed
  <2>7. ASSUME NEW f \in Frames, emb'[f] = "old", frames[f] = "current"
        PROVE  \E k \in JobIds : Owes(k, f) /\ (jobs[k].state = "running" => work[w].id # k)
    <3>1. CASE work[w].kind = "embed_text" /\ f = work[w].frame
      BY <2>1, <2>3, <2>7, <3>1 DEF VInv, LateWriteOwed
    <3>2. CASE ~ (work[w].kind = "embed_text" /\ f = work[w].frame)
      <4>1. PICK k \in JobIds : Owes(k, f)
        BY <2>3, <2>7, <3>2 DEF VInv, StaleOwed
      <4>2. jobs[k].state = "running" => work[w].id # k
        BY <2>3, <3>2, <4>1 DEF VInv, HeldFits, Owes
      <4> QED BY <4>1, <4>2
    <3> QED BY <3>1, <3>2
  <2>8. \A k \in JobIds, f \in Frames : Owes(k, f)' <=> Owes(k, f)
    BY <2>1 DEF Owes
  <2>9. StaleOwed'
    BY <1>0, <2>1, <2>2, <2>7, <2>8 DEF StaleOwed
  <2> QED BY <2>4, <2>5, <2>6, <2>9 DEF VInv
<1>6. ASSUME WorkerFinalizes(w) PROVE VInv'
  <2> DEFINE id == work[w].id
  <2>1. pc'[w] = "emit" /\ pc'[w] \notin Busy /\ UNCHANGED <<frames, emb, vis, work>> /\ pc[w] = "final"
    BY <1>6, <1>g, LabelsOK DEF WorkerFinalizes
  <2>2. /\ \A k \in JobIds : /\ jobs'[k].kind = jobs[k].kind /\ jobs'[k].frame = jobs[k].frame
                             /\ k # id => jobs'[k] = jobs[k]
        /\ jobs[id].state = "running"
        /\ jobs'[id].state \in IF Answered(w) THEN {"done"} ELSE {"pending", "dead"}
    <3>1. CASE work[w].outcome = "complete"
      <4>1. jobs[id].state = "running" /\ jobs' = [jobs EXCEPT ![id] = Completed(jobs[id])]
        BY <1>6, <3>1 DEF WorkerFinalizes, Finalize, CompleteJob
      <4> QED BY <1>0, <2>1, <3>1, <4>1 DEF Completed, Row, Answered
    <3>2. CASE work[w].outcome # "complete"
      <4>1. PICK retry, wait : FailJob(id, retry, wait)
        BY <1>6, <3>2 DEF WorkerFinalizes, Finalize
      <4>2. jobs[id].state = "running" /\ jobs' = [jobs EXCEPT ![id] = Failed(jobs[id], retry, wait)]
        BY <4>1 DEF FailJob
      <4> QED BY <1>0, <3>2, <4>2 DEF Failed, Row, Answered
    <3> QED BY <3>1, <3>2
  <2>3. RowsHaveFrames' /\ VectorsHaveFrames'
    BY <2>1, <2>2 DEF VInv, RowsHaveFrames, VectorsHaveFrames
  <2>4. HeldFrames' /\ HeldFits'
    BY <1>0, <2>1 DEF HeldFrames, HeldFits
  <2>5. LateWriteOwed' /\ \A v \in Workers : ~ Answered(v)'
    BY <1>0, <2>1 DEF LateWriteOwed, Answered
  <2>6. ASSUME NEW k \in JobIds, NEW f \in Frames, Owes(k, f),
               jobs[k].state = "running" /\ Answered(w) => id # k
        PROVE  Owes(k, f)'
    BY <2>2, <2>6 DEF Owes, Live
  <2>7. StaleOwed'
    BY <2>1, <2>2, <2>5, <2>6 DEF VInv, StaleOwed
  <2> QED BY <2>3, <2>4, <2>5, <2>7 DEF VInv
<1> QED BY <1>1, <1>2, <1>3, <1>4, <1>5, <1>6 DEF WorkerStep

\* A new row takes an id no worker on an existing frame holds; a frame whose text
\* is rewritten loses its vector in the same transaction.
LEMMA EnqueueStale ==
    ASSUME TInv, VInv, NEW kind, NEW f \in Frames, NEW prio, EnqueueJob(kind, f, prio),
           UNCHANGED workerVars,
           \A g \in Frames : /\ frames'[g] = "absent" <=> frames[g] = "absent"
                             /\ \/ frames'[g] = frames[g] /\ emb'[g] = emb[g]
                                \/ g = f /\ kind = "embed_text" /\ emb'[g] = "absent"
    PROVE  VInv'
<1>0. /\ jobs \in [JobIds -> Row] /\ \A v \in Workers : work[v].id \in JobIds
      /\ \A v \in Workers : pc[v] \in Busy => work[v].frame \in Frames
  BY TInvParts DEF WorkOK, RowsOK, Work, WorkersOK
<1>1. PICK id \in JobIds : IsNextRowid(id) /\ jobs' = [jobs EXCEPT ![id] = FreshRow(kind, f, prio)]
  BY DEF EnqueueJob
<1> DEFINE r == FreshRow(kind, f, prio)
<1>2. /\ jobs[id].state = "absent" /\ frames[f] # "absent"
      /\ \A k \in JobIds : jobs'[k] = IF k = id THEN r ELSE jobs[k]
      /\ r.kind = kind /\ r.frame = f /\ r.state = "pending"
  BY <1>0, <1>1 DEF IsNextRowid, JobIds, EnqueueJob, FreshRow
<1> HIDE DEF r
<1>3. RowsHaveFrames' /\ VectorsHaveFrames' /\ HeldFrames'
  BY <1>0, <1>2, RowFrameOK
    DEF VInv, RowsHaveFrames, VectorsHaveFrames, HeldFrames, workerVars
<1>4. \A w \in Workers : pc[w] \in Busy /\ work[w].kind = "embed_text" /\ frames[work[w].frame] # "absent"
                         => work[w].id # id
  BY <1>2 DEF VInv, HeldFits
<1>5. HeldFits'
  BY <1>0, <1>2, <1>4 DEF VInv, HeldFits, workerVars
<1>6. \A k \in JobIds, g \in Frames : Owes(k, g) => Owes(k, g)' /\ k # id
  BY <1>2 DEF Owes, Live
<1>7. LateWriteOwed'
  <2> SUFFICES ASSUME NEW w \in Workers, pc[w] = "writing", work[w].kind = "embed_text",
                      work[w].text = "old", frames'[work[w].frame] = "current"
               PROVE  \E k \in JobIds :
                        /\ k # work[w].id /\ jobs'[k].frame = work[w].frame
                        /\ jobs'[k].kind = "embed_text" /\ jobs'[k].state \in Live \cup {"dead"}
    BY DEF LateWriteOwed, workerVars, Owes
  <2>1. work[w].frame \in Frames /\ pc[w] \in Busy
    BY <1>0, LabelsOK
  <2>2. CASE frames'[work[w].frame] = frames[work[w].frame]
    <3>1. PICK k \in JobIds : k # work[w].id /\ Owes(k, work[w].frame)
      BY <2>2 DEF VInv, LateWriteOwed
    <3> QED BY <1>2, <2>1, <3>1 DEF Owes, Live
  <2>3. CASE work[w].frame = f /\ kind = "embed_text"
    <3>1. id # work[w].id
      BY <1>2, <1>4, <2>1, <2>3
    <3> QED BY <1>2, <2>3, <3>1 DEF Live
  <2> QED BY <2>1, <2>2, <2>3
<1>8. StaleOwed'
  <2> SUFFICES ASSUME NEW g \in Frames, emb'[g] = "old", frames'[g] = "current"
               PROVE  \E k \in JobIds :
                        /\ Owes(k, g)'
                        /\ jobs'[k].state = "running" => \A w \in Workers : Answered(w) => work[w].id # k
    BY DEF StaleOwed, workerVars, Answered
  <2>1. emb[g] = "old" /\ frames[g] = "current"
    OBVIOUS
  <2> QED BY <1>2, <1>6, <2>1 DEF VInv, StaleOwed
<1> QED BY <1>3, <1>5, <1>7, <1>8 DEF VInv

\* Rows are deleted, and with a frame of the earlier version all that is its own;
\* an embed row goes only with its frame.
LEMMA DeletionStale ==
    ASSUME TInv, VInv, UNCHANGED workerVars,
           \A id \in JobIds :
              /\ \/ jobs'[id] = jobs[id]
                 \/ /\ jobs'[id] = NoRow
                    /\ jobs[id].kind = "embed_text" => frames'[jobs[id].frame] = "absent"
              /\ jobs'[id].state # "absent" => frames'[jobs'[id].frame] # "absent",
           \A g \in Frames : \/ frames'[g] = frames[g] /\ emb'[g] = emb[g]
                             \/ g \in OldFrames /\ frames'[g] = "absent" /\ emb'[g] = "absent"
    PROVE  VInv'
<1>0. /\ \A v \in Workers : work[v].id \in JobIds
      /\ \A v \in Workers : pc[v] \in Busy => work[v].frame \in Frames
      /\ NoRow.state = "absent"
  BY TInvParts DEF WorkOK, Work, WorkersOK, NoRow
<1>1. RowsHaveFrames' /\ VectorsHaveFrames'
  BY DEF VInv, RowsHaveFrames, VectorsHaveFrames
<1>2. HeldFrames'
  BY <1>0 DEF VInv, HeldFrames, workerVars
<1>3. \A k \in JobIds, g \in Frames : Owes(k, g) /\ frames'[g] # "absent" => Owes(k, g)' /\ jobs'[k] = jobs[k]
  BY DEF Owes
<1>4. HeldFits'
  BY <1>0 DEF VInv, HeldFits, workerVars
<1>5. LateWriteOwed'
  <2> SUFFICES ASSUME NEW w \in Workers, pc[w] = "writing", work[w].kind = "embed_text",
                      work[w].text = "old", frames'[work[w].frame] = "current"
               PROVE  \E k \in JobIds :
                        /\ k # work[w].id /\ jobs'[k].frame = work[w].frame
                        /\ jobs'[k].kind = "embed_text" /\ jobs'[k].state \in Live \cup {"dead"}
    BY DEF LateWriteOwed, workerVars, Owes
  <2>1. work[w].frame \in Frames /\ frames[work[w].frame] = "current"
    BY <1>0, LabelsOK
  <2>2. PICK k \in JobIds : k # work[w].id /\ Owes(k, work[w].frame)
    BY <2>1 DEF VInv, LateWriteOwed
  <2> QED BY <1>3, <2>1, <2>2 DEF Owes
<1>6. StaleOwed'
  <2> SUFFICES ASSUME NEW g \in Frames, emb'[g] = "old", frames'[g] = "current"
               PROVE  \E k \in JobIds :
                        /\ Owes(k, g)'
                        /\ jobs'[k].state = "running" => \A w \in Workers : Answered(w) => work[w].id # k
    BY DEF StaleOwed, workerVars, Answered
  <2>1. emb[g] = "old" /\ frames[g] = "current"
    OBVIOUS
  <2> QED BY <1>3, <2>1 DEF VInv, StaleOwed
<1> QED BY <1>1, <1>2, <1>4, <1>5, <1>6 DEF VInv

\* A captured frame is a new one: no row, vector or worker is about it.
LEMMA InsertStale == ASSUME TInv, VInv, NEW f \in Frames, CaptureInserts(f) PROVE VInv'
<1>1. /\ frames[f] = "absent" /\ f \notin OldFrames /\ UNCHANGED <<jobs, emb, workerVars>>
      /\ \A g \in Frames : g # f => frames'[g] = frames[g]
      /\ frames'[f] # "absent"
  BY TInvParts DEF CaptureInserts, poolVars, DataOK
<1>2. \A id \in JobIds : jobs[id].state # "absent" =>
        jobs[id].frame # f /\ frames'[jobs[id].frame] = frames[jobs[id].frame]
  BY <1>1, RowFrameOK DEF VInv, RowsHaveFrames
<1>3. \A w \in Workers : pc[w] \in Busy =>
        work[w].frame # f /\ frames'[work[w].frame] = frames[work[w].frame]
  BY <1>1, TInvParts DEF VInv, HeldFrames, WorkOK, WorkersOK
<1>4. RowsHaveFrames' /\ VectorsHaveFrames' /\ HeldFrames' /\ HeldFits'
  BY <1>1, <1>2, <1>3
    DEF VInv, RowsHaveFrames, VectorsHaveFrames, HeldFrames, HeldFits, workerVars
<1>5. LateWriteOwed'
  <2> SUFFICES ASSUME NEW w \in Workers, pc[w] = "writing", work[w].kind = "embed_text",
                      work[w].text = "old", frames'[work[w].frame] = "current"
               PROVE  \E k \in JobIds : k # work[w].id /\ Owes(k, work[w].frame)
    BY <1>1 DEF LateWriteOwed, workerVars, Owes
  <2> QED BY <1>3, LabelsOK DEF VInv, LateWriteOwed
<1>6. StaleOwed'
  <2> SUFFICES ASSUME NEW g \in Frames, emb[g] = "old", frames'[g] = "current"
               PROVE  \E k \in JobIds :
                        /\ Owes(k, g)
                        /\ jobs[k].state = "running" => \A w \in Workers : Answered(w) => work[w].id # k
    BY <1>1 DEF StaleOwed, workerVars, Answered, Owes
  <2>1. frames[g] = "current"
    BY <1>1 DEF VInv, VectorsHaveFrames
  <2> QED BY <2>1 DEF VInv, StaleOwed
<1> QED BY <1>4, <1>5, <1>6 DEF VInv

\* VInv is inductive with one worker,
LEMMA StaleStep == ASSUME OneWorker PROVE TInv /\ VInv /\ [Next]_vars => VInv'
<1> SUFFICES ASSUME TInv, VInv, [Next]_vars PROVE VInv'
  OBVIOUS
<1>same. ASSUME UNCHANGED <<storeVars, workerVars>> PROVE VInv'
  BY <1>same, StaleRowsKept DEF storeVars
<1>leave. ASSUME UNCHANGED storeVars,
                 \A w \in Workers : pc'[w] \in {"off", "top"} \/ (pc'[w] = pc[w] /\ work'[w] = work[w])
          PROVE  VInv'
  <2>1. \A w \in Workers : pc'[w] \in Busy \cup {"writing"} => pc'[w] = pc[w] /\ work'[w] = work[w]
    BY <1>leave, LabelsOK
  <2>2. \A w \in Workers : Answered(w)' => Answered(w)
    BY <1>leave DEF Answered
  <2> QED BY <1>leave, <2>1, <2>2, StaleWorkerKept
<1>requeue. ASSUME UNCHANGED <<frames, emb, workerVars>>,
                   \A id \in JobIds : \/ jobs'[id] = jobs[id]
                                      \/ jobs[id].state = "running" /\ jobs'[id] = Requeued(jobs[id])
            PROVE  VInv'
  <2>1. \A id \in JobIds :
          /\ jobs'[id].kind = jobs[id].kind /\ jobs'[id].frame = jobs[id].frame
          /\ jobs'[id].state = jobs[id].state
             \/ (jobs[id].state = "running" /\ jobs'[id].state = "pending")
    BY ZenonT(40), <1>requeue, RowFrameOK DEF Requeued, Row
  <2> QED BY <1>requeue, <2>1, StaleRowsKept
<1>1. CASE UNCHANGED vars
  BY <1>1, <1>same DEF vars, poolVars
<1>2. CASE \E w \in Workers : WorkerStep(w) \/ WorkerClaimFails(w) \/ WorkerFinalizeFails(w)
  BY <1>2, WorkerStale
<1>3. CASE \E p \in Pools : SweepChecks(p) \/ SweepResets(p) \/ SweepFails(p) \/ SweepStops(p)
  BY <1>3, <1>same, <1>requeue DEF SweepChecks, SweepResets, SweepFails, SweepStops, ResetStaleRunning
<1>4. CASE \E c \in Controllers : CtlStep(c) \/ StartSweepFails(c) \/ \E op \in Ops : Call(c, op)
  <2>1. PICK c \in Controllers : CtlStep(c) \/ StartSweepFails(c) \/ \E op \in Ops : Call(c, op)
    BY <1>4
  <2>2. CASE StopTakesPool(c) \/ StopJoins(c) \/ StartReturns(c) \/ StartSweepFails(c)
             \/ \E op \in Ops : Call(c, op)
    BY <2>2, <1>same DEF StopTakesPool, StopJoins, StartReturns, StartSweepFails, Call, poolVars
  <2>3. CASE StartSweeps(c)
    BY <2>3, <1>requeue DEF StartSweeps, ResetAllRunning, poolVars
  <2>4. CASE StartSpawns(c)
    <3>1. \A w \in Workers : pc'[w] = "top" \/ (pc'[w] = pc[w] /\ work'[w] = work[w])
      BY <2>4 DEF StartSpawns
    <3> QED BY <2>4, <3>1, <1>leave DEF StartSpawns
  <2>5. CASE ExitAndRelaunch(c)
    BY <2>5, <1>leave DEF ExitAndRelaunch, NewProcess
  <2> QED BY <2>1, <2>2, <2>3, <2>4, <2>5 DEF CtlStep
<1>5. CASE \E f \in Frames : CaptureInserts(f) \/ EnqueueVision(f) \/ PurgeFrame(f) \/ FilterBackfill(f)
  <2>1. PICK f \in Frames : CaptureInserts(f) \/ EnqueueVision(f) \/ PurgeFrame(f) \/ FilterBackfill(f)
    BY <1>5
  <2>2. CASE CaptureInserts(f)
    BY <2>2, InsertStale
  <2>3. CASE EnqueueVision(f)
    BY <2>3, EnqueueStale DEF EnqueueVision, poolVars
  <2>4. CASE PurgeFrame(f)
    <3>1. /\ f \in OldFrames /\ frames' = [frames EXCEPT ![f] = "absent"]
          /\ jobs' = [id \in JobIds |-> IF jobs[id].frame = f THEN NoRow ELSE jobs[id]]
          /\ emb' = [emb EXCEPT ![f] = "absent"] /\ UNCHANGED workerVars
      BY <2>4 DEF PurgeFrame, DeleteFrame, poolVars
    <3>2. \A g \in Frames : IF g = f THEN frames'[g] = "absent" /\ emb'[g] = "absent"
                                     ELSE frames'[g] = frames[g] /\ emb'[g] = emb[g]
      BY <3>1, TInvParts DEF DataOK
    <3>3. \A id \in JobIds : jobs'[id].state # "absent" =>
            jobs'[id] = jobs[id] /\ frames'[jobs[id].frame] # "absent"
      BY <3>1, <3>2, RowFrameOK DEF VInv, RowsHaveFrames, NoRow
    <3> QED BY <3>1, <3>2, <3>3, DeletionStale
  <2>5. CASE FilterBackfill(f)
    <3>1. /\ EnqueueJob("embed_text", f, 0) /\ UNCHANGED workerVars
          /\ frames[f] = "old"
          /\ \E text \in {"empty", "current"} : frames' = [frames EXCEPT ![f] = text]
          /\ emb' = [emb EXCEPT ![f] = "absent"]
      BY <2>5 DEF FilterBackfill, BackfillFrame, poolVars
    <3>2. \A g \in Frames : /\ frames'[g] = "absent" <=> frames[g] = "absent"
                            /\ (frames'[g] = frames[g] /\ emb'[g] = emb[g]) \/ (g = f /\ emb'[g] = "absent")
      BY <3>1, TInvParts DEF DataOK
    <3> QED BY <3>1, <3>2, EnqueueStale
  <2> QED BY <2>1, <2>2, <2>3, <2>4, <2>5
<1>6. CASE CaptureEnqueues
  <2>1. ingest \in Frames
    BY <1>6, TInvParts DEF CaptureEnqueues, EnvOK
  <2> QED BY <1>6, <2>1, EnqueueStale DEF CaptureEnqueues, poolVars
<1>7. CASE CancelVision
  <2>1. /\ \A id \in JobIds : \/ jobs'[id] = jobs[id]
                              \/ jobs'[id] = NoRow /\ jobs[id].kind = "vision_tag"
        /\ UNCHANGED <<frames, emb, workerVars>>
    BY <1>7 DEF CancelVision, CancelPendingVision, poolVars
  <2> QED BY <2>1, DeletionStale DEF VInv, RowsHaveFrames, NoRow
<1>8. CASE \E l \in Levels : GovernorSets(l)
  BY <1>8, <1>same DEF GovernorSets, poolVars
<1>9. CASE Tick
  <2>1. \A id \in JobIds : /\ jobs'[id].kind = jobs[id].kind /\ jobs'[id].frame = jobs[id].frame
                           /\ jobs'[id].state = jobs[id].state
    <3> SUFFICES ASSUME NEW id \in JobIds
                 PROVE  /\ jobs'[id].kind = jobs[id].kind /\ jobs'[id].frame = jobs[id].frame
                        /\ jobs'[id].state = jobs[id].state
      OBVIOUS
    <3>1. jobs'[id] = TickRow(jobs[id]) /\ jobs[id] \in Row
      BY <1>9, RowFrameOK DEF Tick, StoreTick
    <3> QED BY <3>1 DEF TickRow, Row
  <2> QED BY <1>9, <2>1, StaleRowsKept DEF Tick, StoreTick, poolVars
<1>10. CASE Crash
  BY <1>10, <1>leave DEF Crash, NewProcess
<1> QED BY <1>1, <1>2, <1>3, <1>4, <1>5, <1>6, <1>7, <1>8, <1>9, <1>10 DEF Next

\* and holds at the start.
LEMMA StaleInit == Init => VInv
<1> SUFFICES ASSUME Init PROVE VInv
  OBVIOUS
<1>1. PICK s \in [OldFrames -> {"pending", "running", "done"}], written \in SUBSET OldFrames :
        /\ jobs = [id \in JobIds |-> IF id \in OldFrames
                                     THEN [FreshRow("embed_text", id, 0) EXCEPT !.state = s[id]]
                                     ELSE NoRow]
        /\ emb = [f \in Frames |-> IF f \in written THEN "old" ELSE "absent"]
  BY DEF Init, StoreInit
<1>2. frames = [f \in Frames |-> IF f \in OldFrames THEN "old" ELSE "absent"]
  BY DEF Init, StoreInit
<1>3. \A id \in JobIds : jobs[id].state # "absent" => id \in OldFrames /\ jobs[id].frame = id
  BY <1>1 DEF FreshRow, NoRow
<1>4. \A w \in Workers : pc[w] = "off"
  BY DEF Init
<1>5. RowsHaveFrames /\ VectorsHaveFrames
  BY <1>1, <1>2, <1>3, FramesAssumption DEF RowsHaveFrames, VectorsHaveFrames
<1>6. HeldFrames /\ HeldFits /\ LateWriteOwed /\ StaleOwed
  BY <1>2, <1>4, LabelsOK DEF HeldFrames, HeldFits, LateWriteOwed, StaleOwed
<1> QED BY <1>5, <1>6 DEF VInv

\* records.rs, backfill_filter_version: a vector computed from the text a frame had
\* before the filter gave it another is owed a re-embed by some job of the frame.
\* With a single worker task (enrich_worker_concurrency = 1, pools that do not
\* overlap) this holds whatever rows are deleted, whichever callers stop and start
\* the pool and wherever it crashes.  Neither condition can be dropped, as run
\* enrichment_stale shows: with the default of two, a worker still holding the old
\* text stores it after the other has finished the re-embed; and of a frame left
\* without text the re-embed stores nothing, so that one worker is enough.
THEOREM TextVectorsAreOwed == ASSUME OneWorker PROVE Spec => []TextVectorIsOwed
<1>1. Init => TInv /\ VInv
  BY TypeInit, StaleInit
<1>2. TInv /\ VInv /\ [Next]_vars => TInv' /\ VInv'
  BY TypeStep, StaleStep
<1>3. VInv => TextVectorIsOwed
  BY DEF VInv, StaleOwed, Owes, TextVectorIsOwed, ReembedOwed
<1> QED BY <1>1, <1>2, <1>3, PTL DEF Spec
=============================================================================
