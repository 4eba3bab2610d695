-------------------------- MODULE ModelSupervisor --------------------------
(***************************************************************************)
(* The supervisor of the llama-server sidecar                              *)
(* (crates/inference/src/supervisor.rs): acquire, preload, unload, the     *)
(* idle evictor, shutdown and the startup reap of a stray process.         *)
(*                                                                         *)
(* Two locks order everything.  The request gate is a FIFO semaphore: a    *)
(* request holds one permit for the life of its lease, whoever replaces    *)
(* the process first takes all of them.  The state mutex guards the        *)
(* resident process and stays held across the awaits of a health probe, a  *)
(* confirmed kill and a spawn; the evictor and shutdown take only it.      *)
(*                                                                         *)
(* A task is at                                                            *)
(*   idle      not called                                                  *)
(*   ceiling, probe   the two unlocked looks at the head of acquire's loop *)
(*   ask, wait about to queue for the gate, queued                         *)
(*   lock      about to take the state mutex, for what its route says      *)
(*   check, recheck   holding the mutex, asking /health                    *)
(*   kill, spawn, health   holding the mutex, in kill_and_confirm,         *)
(*             spawn_for before and after the process was launched         *)
(*   leased    holding a lease (a Load has not pinned the model yet)       *)
(*   release   Lease::drop has run, the permit field is not dropped yet    *)
(***************************************************************************)
EXTENDS Naturals, Sequences, FiniteSets

CONSTANTS
    Requests,       \* tasks that call acquire and use the lease
    Loads,          \* tasks that call preload ("Load model")
    Unloads,        \* tasks that call unload
    Evictor,        \* the background idle-evictor
    Quitter,        \* the task that calls shutdown
    Models,         \* model specs, told apart by needs_restart
    Capacity,       \* REQUEST_GATE_PERMITS
    Attempts,       \* SPAWN_ATTEMPTS
    Recycling,      \* config.recycle_ceiling_bytes # 0
    MaxPid,         \* bound: process ids 1..MaxPid, reused once unreferenced
    MaxCalls,       \* bound: calls of acquire, preload and unload, in total
    MaxFaults       \* bound: crashes, hangs, failed spawns and kills, leaks
                    \* and relaunches of the app, in total

Callers == Requests \cup Loads
Tasks == Callers \cup Unloads \cup {Evictor, Quitter}
Pids == 1..MaxPid

ASSUME TasksAssumption ==
    /\ Evictor \notin Callers \cup Unloads /\ Quitter \notin Callers \cup Unloads
    /\ Callers \cap Unloads = {} /\ Evictor # Quitter
    /\ "none" \notin Tasks \cup Models
ASSUME BoundsAssumption ==
    /\ Capacity \in Nat \ {0} /\ Attempts \in Nat \ {0} /\ MaxPid \in Nat
    /\ MaxCalls \in Nat /\ MaxFaults \in Nat /\ Recycling \in BOOLEAN

NoModel == "none"
Nobody == [pid |-> 0, spec |-> NoModel]
Processes == [pid : Pids, spec : Models]
Routes == {"recycle", "switch", "enter", "recover", "unload", "evict", "quit"}
Points == {"idle", "ceiling", "probe", "ask", "wait", "lock", "check",
           "recheck", "kill", "spawn", "health", "leased", "release"}
Locked == {"check", "recheck", "kill", "spawn", "health"}
Statuses == {"stopped", "starting", "ready", "evicted", "crashed", "recycled"}

VARIABLES
    pc,        \* Tasks -> where the task is, see above
    route,     \* Tasks -> what it takes the gate and the mutex for
    want,      \* Callers -> the spec passed to acquire
    bound,     \* Callers -> the process the lease's client talks to, or 0
    permits,   \* Tasks -> permits held: "none" | "one" | "all"
    gateQ,     \* the gate's waiters, in order
    mutex,     \* the task holding the state mutex, or "none"
    resident,  \* the Option<SidecarProcess> in the mutex
    child,     \* the process the mutex holder is killing or starting
    tries,     \* spawn attempts the mutex holder has used
    inFlight,  \* the requests counted by in_flight
    expired,   \* idle_ttl has passed since last_activity
    pinned, backfill, shutdown,
    pinSpec,   \* history: the model whose Load last set the pin
    shown,     \* the last SidecarStatus broadcast; told: nothing has been kept back since
    os,        \* Pids -> "gone" | "loading" | "up" | "sick" | "stuck"
    fat,       \* processes whose committed bytes reach the ceiling
    pidfile,   \* the pid recorded on disk, or 0
    calls, faults   \* spent so far

taskVars == <<pc, route, want, bound>>
gateVars == <<permits, gateQ>>
stateVars == <<mutex, resident, child, tries>>
flagVars == <<inFlight, expired, pinned, pinSpec, backfill, shutdown>>
osVars == <<os, fat, pidfile>>
vars == <<taskVars, gateVars, stateVars, flagVars, shown, osVars, calls, faults>>

Alive(p) == p # 0 /\ os[p] # "gone"
NeedsRestart(t) == resident # Nobody /\ resident.spec # want[t]
OverCeiling(t) == /\ Recycling
                  /\ resident # Nobody /\ resident.spec = want[t]
                  /\ resident.pid \in fat

Status(state, spec) == [state |-> state, model |-> spec, told |-> TRUE]
Broadcasts == [state : Statuses, model : Models \cup {NoModel}, told : BOOLEAN]
Goes(t, point) == pc' = [pc EXCEPT ![t] = point]
GoesFor(t, point, why) == Goes(t, point) /\ route' = [route EXCEPT ![t] = why]
Holds(t, n) == permits' = [permits EXCEPT ![t] = n]
Fault == faults < MaxFaults /\ faults' = faults + 1

\* A process id the system may hand out: no live process has it, and nothing in
\* the supervisor refers to it.
FreePid(p) == /\ os[p] = "gone"
              /\ p \notin {resident.pid, child.pid} \cup {bound[t] : t \in Callers}
NextPid(p) == FreePid(p) /\ \A q \in 1..(p - 1) : ~FreePid(q)

Init ==
    /\ pc = [t \in Tasks |-> "idle"]
    /\ route = [t \in Tasks |-> "enter"]
    /\ want = [t \in Callers |-> NoModel]
    /\ bound = [t \in Callers |-> 0]
    /\ permits = [t \in Tasks |-> "none"]
    /\ gateQ = <<>>
    /\ mutex = "none" /\ resident = Nobody /\ child = Nobody /\ tries = 0
    /\ inFlight = {} /\ expired = FALSE
    /\ pinned = FALSE /\ pinSpec = NoModel /\ backfill = FALSE /\ shutdown = FALSE
    /\ shown = Status("stopped", NoModel)
    /\ os = [p \in Pids |-> "gone"] /\ fat = {} /\ pidfile = 0
    /\ calls = 0 /\ faults = 0

----------------------------------------------------------------------------
(* The request gate. *)

\* enter and enter_for_model_switch: the task joins the semaphore's queue.
Asks(t) ==
    /\ pc[t] = "ask"
    /\ Goes(t, "wait")
    /\ gateQ' = Append(gateQ, t)
    /\ UNCHANGED <<route, want, bound, permits, stateVars, flagVars, shown,
                   osVars, calls, faults>>

EnoughFor(t) ==
    IF route[t] = "enter"
    THEN /\ \A u \in Tasks : permits[u] # "all"
         /\ Cardinality({u \in Tasks : permits[u] = "one"}) < Capacity
    ELSE \A u \in Tasks : permits[u] = "none"

\* The semaphore serves its queue in order, so a switch that is waiting for
\* every permit is not overtaken by later requests.
GateGrants(t) ==
    /\ pc[t] = "wait" /\ gateQ # <<>> /\ Head(gateQ) = t
    /\ EnoughFor(t)
    /\ gateQ' = Tail(gateQ)
    /\ Holds(t, IF route[t] = "enter" THEN "one" ELSE "all")
    /\ Goes(t, "lock")
    /\ UNCHANGED <<route, want, bound, stateVars, flagVars, shown, osVars,
                   calls, faults>>

----------------------------------------------------------------------------
(* acquire. *)

\* A caller asks for a model: a request, or a manual Load.
Call(t, m) ==
    /\ pc[t] = "idle" /\ t \in Callers
    /\ calls < MaxCalls /\ calls' = calls + 1
    /\ want' = [want EXCEPT ![t] = m]
    /\ Goes(t, "ceiling")
    /\ UNCHANGED <<route, bound, gateVars, stateVars, flagVars, shown, osVars,
                   faults>>

\* over_recycle_ceiling: a look at the process under a mutex released at once.
ProbesCeiling(t) ==
    /\ pc[t] = "ceiling"
    /\ ~Recycling \/ mutex = "none"
    /\ IF OverCeiling(t) THEN GoesFor(t, "ask", "recycle")
                         ELSE Goes(t, "probe") /\ UNCHANGED route
    /\ UNCHANGED <<want, bound, gateVars, stateVars, flagVars, shown, osVars,
                   calls, faults>>

\* needs_exclusive_switch: likewise.
ProbesSwitch(t) ==
    /\ pc[t] = "probe" /\ mutex = "none"
    /\ GoesFor(t, "ask", IF NeedsRestart(t) THEN "switch" ELSE "enter")
    /\ UNCHANGED <<want, bound, gateVars, stateVars, flagVars, shown, osVars,
                   calls, faults>>

\* `continue`: the mutex and the permits are dropped, the loop starts over.
Restarts(t) ==
    /\ Goes(t, "ceiling") /\ Holds(t, "none") /\ mutex' = "none"
    /\ UNCHANGED <<route, want, bound, gateQ, resident, child, tries, flagVars,
                   shown, osVars, calls, faults>>

\* guard.take() and stop_child: the process leaves the mutex to be killed.
Evacuates(t) ==
    /\ Goes(t, "kill") /\ mutex' = t
    /\ child' = resident /\ resident' = Nobody
    /\ UNCHANGED <<route, want, bound, gateVars, tries, inFlight, expired,
                   pinSpec, backfill, shutdown, osVars, calls, faults>>

\* Under every permit and the mutex, the probe is repeated; the process is
\* recycled only if it still is the one that outgrew the ceiling.
LocksToRecycle(t) ==
    /\ pc[t] = "lock" /\ route[t] = "recycle" /\ mutex = "none"
    /\ IF OverCeiling(t)
       THEN /\ Evacuates(t) /\ shown' = Status("recycled", resident.spec)
            /\ UNCHANGED pinned
       ELSE Restarts(t)

\* Likewise for a switch, which also drops the pin.
LocksToSwitch(t) ==
    /\ pc[t] = "lock" /\ route[t] = "switch" /\ mutex = "none"
    /\ IF NeedsRestart(t)
       THEN Evacuates(t) /\ pinned' = FALSE /\ UNCHANGED shown
       ELSE Restarts(t)

\* With one permit: use the process, start the first one, or start over.
LocksToEnter(t) ==
    /\ pc[t] = "lock" /\ route[t] = "enter" /\ mutex = "none"
    /\ IF NeedsRestart(t) THEN Restarts(t)
       ELSE /\ Goes(t, IF resident = Nobody THEN "spawn" ELSE "check")
            /\ mutex' = t
            /\ UNCHANGED <<route, want, bound, gateVars, resident, child, tries,
                           flagVars, shown, osVars, calls, faults>>

\* lease_from_state: counted in flight before the mutex is released; an
\* exclusive permit shrinks to a single one (into_single).
Leases(t, p) ==
    /\ Goes(t, "leased") /\ mutex' = "none" /\ Holds(t, "one")
    /\ bound' = [bound EXCEPT ![t] = p]
    /\ inFlight' = inFlight \cup {t} /\ expired' = FALSE
    /\ UNCHANGED <<route, want, gateQ, pinned, pinSpec, backfill, shutdown,
                   calls, faults>>

\* running_sidecar_healthy said yes.
FindsHealthy(t) ==
    /\ pc[t] = "check" /\ os[resident.pid] = "up"
    /\ Leases(t, resident.pid)
    /\ UNCHANGED <<resident, child, tries, shown, osVars>>

\* It said no: mutex and permit are dropped to come back with all permits.
FindsSick(t) ==
    /\ pc[t] = "check" /\ os[resident.pid] # "up"
    /\ GoesFor(t, "ask", "recover") /\ Holds(t, "none") /\ mutex' = "none"
    /\ UNCHANGED <<want, bound, gateQ, resident, child, tries, flagVars, shown,
                   osVars, calls, faults>>

\* Back with all permits: somebody may have removed or replaced the process.
\* Another model that came meanwhile is replaced like a crashed one, without a
\* look at its health.
LocksToRecover(t) ==
    /\ pc[t] = "lock" /\ route[t] = "recover" /\ mutex = "none"
    /\ \/ resident = Nobody /\ Restarts(t)
       \/ /\ resident # Nobody /\ ~NeedsRestart(t)
          /\ Goes(t, "recheck") /\ mutex' = t
          /\ UNCHANGED <<route, want, bound, gateVars, resident, child, tries,
                         flagVars, shown, osVars, calls, faults>>
       \/ /\ NeedsRestart(t)
          /\ Evacuates(t) /\ shown' = Status("crashed", want[t])
          /\ UNCHANGED pinned

Rechecks(t) ==
    /\ pc[t] = "recheck"
    /\ IF os[resident.pid] = "up" THEN Restarts(t)
       ELSE /\ Evacuates(t) /\ shown' = Status("crashed", want[t])
            /\ UNCHANGED pinned

----------------------------------------------------------------------------
(* Killing and starting a process. *)

\* Mutant: an eviction or a shutdown is not reported.
AfterKillSilently(t) ==
    IF route[t] \in {"recycle", "switch", "recover"}
    THEN Goes(t, "spawn") /\ UNCHANGED <<mutex, permits, shown>>
    ELSE /\ Goes(t, "idle") /\ mutex' = "none" /\ Holds(t, "none")
         /\ UNCHANGED shown

\* What follows a kill, by the path it belongs to: acquire goes on to spawn,
\* unload and the evictor report Evicted, shutdown reports Stopped.
AfterKill(t) ==
    IF route[t] \in {"recycle", "switch", "recover"}
    THEN Goes(t, "spawn") /\ UNCHANGED <<mutex, permits, shown>>
    ELSE /\ Goes(t, "idle") /\ mutex' = "none" /\ Holds(t, "none")
         /\ shown' = IF route[t] = "quit" THEN Status("stopped", NoModel)
                                          ELSE Status("evicted", child.spec)

\* kill_and_confirm: the process ends within the wait and its record is removed,
\* or it outlives the kill and the record stays.
Kills(t) ==
    /\ pc[t] = "kill"
    /\ \/ /\ os' = [os EXCEPT ![child.pid] = "gone"]
          /\ pidfile' = 0 /\ UNCHANGED faults
       \/ /\ Alive(child.pid) /\ Fault
          /\ os' = [os EXCEPT ![child.pid] = "stuck"] /\ UNCHANGED pidfile
    /\ AfterKill(t)
    /\ child' = Nobody
    /\ UNCHANGED <<route, want, bound, gateQ, resident, tries, flagVars, fat, calls>>

\* One attempt of spawn_with_retries is lost.  After the last one the error
\* leaves acquire, dropping mutex and permit with nothing resident.
SpawnFails(t) ==
    IF tries + 1 < Attempts
    THEN /\ Goes(t, "spawn") /\ tries' = tries + 1
         /\ UNCHANGED <<mutex, permits>>
    ELSE /\ Goes(t, "idle") /\ tries' = 0 /\ mutex' = "none" /\ Holds(t, "none")

\* Mutant: the record is written only when there is none.
LaunchesKeepRecord(t) ==
    /\ pc[t] = "spawn"
    /\ \E p \in Pids :
        /\ NextPid(p)
        /\ os' = [os EXCEPT ![p] = "loading"] /\ fat' = fat \ {p}
        /\ pidfile' = IF pidfile = 0 THEN p ELSE pidfile
        /\ child' = [pid |-> p, spec |-> want[t]]
    /\ Goes(t, "health")
    /\ shown' = Status("starting", want[t])
    /\ UNCHANGED <<route, want, bound, gateVars, mutex, resident, tries,
                   flagVars, calls, faults>>

\* spawn_for up to the pidfile: the child is bound to the job before it runs.
Launches(t) ==
    /\ pc[t] = "spawn"
    /\ \E p \in Pids :
        /\ NextPid(p)
        /\ os' = [os EXCEPT ![p] = "loading"] /\ fat' = fat \ {p}
        /\ pidfile' = p
        /\ child' = [pid |-> p, spec |-> want[t]]
    /\ Goes(t, "health")
    /\ shown' = Status("starting", want[t])
    /\ UNCHANGED <<route, want, bound, gateVars, mutex, resident, tries,
                   flagVars, calls, faults>>

\* There is no free port (and no event yet); or the binary cannot be spawned; or
\* the child is killed, unconfirmed, because it could not be assigned to the job
\* or resumed.  No record is written, and no event follows Starting.
LaunchFails(t) ==
    /\ pc[t] = "spawn" /\ Fault
    /\ \/ shown' = [shown EXCEPT !.told = FALSE] /\ UNCHANGED os
       \/ /\ shown' = Status("starting", want[t])
          /\ \/ UNCHANGED os
             \/ \E p \in Pids : NextPid(p) /\ os' = [os EXCEPT ![p] = "stuck"]
    /\ SpawnFails(t)
    /\ UNCHANGED <<route, want, bound, gateQ, resident, child, flagVars, fat,
                   pidfile, calls>>

\* /health answers: Ready, the process becomes the resident one, and the caller
\* leaves acquire with a lease.
BecomesHealthy(t) ==
    /\ pc[t] = "health" /\ os[child.pid] = "loading"
    /\ os' = [os EXCEPT ![child.pid] = "up"]
    /\ shown' = Status("ready", child.spec)
    /\ resident' = child /\ child' = Nobody /\ tries' = 0
    /\ Leases(t, child.pid)
    /\ UNCHANGED <<fat, pidfile>>

\* Mutant: a process that misses its health deadline is not killed.
StartupFailsAlive(t) ==
    /\ pc[t] = "health"
    /\ \/ os[child.pid] = "gone" /\ UNCHANGED faults
       \/ os[child.pid] # "gone" /\ Fault
    /\ SpawnFails(t)
    /\ child' = Nobody
    /\ shown' = Status("crashed", child.spec)
    /\ UNCHANGED <<route, want, bound, gateQ, resident, flagVars, osVars, calls>>

\* The process exits during startup, or health_timeout passes and it is killed
\* without waiting for its end.
StartupFails(t) ==
    /\ pc[t] = "health"
    /\ \/ os[child.pid] = "gone" /\ UNCHANGED <<os, faults>>
       \/ /\ os[child.pid] # "gone" /\ Fault
          /\ os' \in {[os EXCEPT ![child.pid] = s] : s \in {"gone", "stuck"}}
    /\ SpawnFails(t)
    /\ child' = Nobody
    /\ shown' = Status("crashed", child.spec)
    /\ UNCHANGED <<route, want, bound, gateQ, resident, flagVars, fat, pidfile,
                   calls>>

----------------------------------------------------------------------------
(* The end of a lease. *)

\* preload pins the model while it still holds its lease.  Lease::drop: the
\* count goes down and the idle clock restarts.
DropsLease(t) ==
    /\ pc[t] = "leased"
    /\ Goes(t, "release")
    /\ pinned' = (pinned \/ t \in Loads)
    /\ pinSpec' = IF t \in Loads THEN want[t] ELSE pinSpec
    /\ inFlight' = inFlight \ {t} /\ expired' = FALSE
    /\ bound' = [bound EXCEPT ![t] = 0]
    /\ UNCHANGED <<route, want, gateVars, stateVars, backfill, shutdown, shown,
                   osVars, calls, faults>>

\* Then the permit field is dropped.
DropsPermit(t) ==
    /\ pc[t] = "release"
    /\ Goes(t, "idle") /\ Holds(t, "none")
    /\ UNCHANGED <<route, want, bound, gateQ, stateVars, flagVars, shown, osVars,
                   calls, faults>>

----------------------------------------------------------------------------
(* unload, the evictor, shutdown. *)

\* The pin is cleared first, before the gate is drained.
UnloadCall(t) ==
    /\ pc[t] = "idle" /\ t \in Unloads
    /\ calls < MaxCalls /\ calls' = calls + 1
    /\ pinned' = FALSE
    /\ GoesFor(t, "ask", "unload")
    /\ UNCHANGED <<want, bound, gateVars, stateVars, inFlight, expired, pinSpec,
                   backfill, shutdown, shown, osVars, faults>>

\* Mutant: with nothing resident, unload keeps every permit.
LocksToUnloadLeaking(t) ==
    /\ pc[t] = "lock" /\ route[t] = "unload" /\ mutex = "none"
    /\ IF resident # Nobody THEN Evacuates(t) /\ UNCHANGED <<pinned, shown>>
       ELSE /\ Goes(t, "idle")
            /\ UNCHANGED <<route, want, bound, gateVars, stateVars, flagVars,
                           shown, osVars, calls, faults>>

\* All permits, then the mutex: the process is killed, or there is none.
LocksToUnload(t) ==
    /\ pc[t] = "lock" /\ route[t] = "unload" /\ mutex = "none"
    /\ IF resident # Nobody THEN Evacuates(t) /\ UNCHANGED <<pinned, shown>>
       ELSE /\ Goes(t, "idle") /\ Holds(t, "none")
            /\ UNCHANGED <<route, want, bound, gateQ, stateVars, flagVars, shown,
                           osVars, calls, faults>>

KeptWarm == backfill \/ pinned

\* A tick of the evictor: should_evict, without the mutex.
EvictorTicks ==
    /\ pc[Evictor] = "idle" /\ ~shutdown
    /\ inFlight = {} /\ expired /\ ~KeptWarm
    /\ GoesFor(Evictor, "lock", "evict")
    /\ UNCHANGED <<want, bound, gateVars, stateVars, flagVars, shown, osVars,
                   calls, faults>>

\* Mutant: the request count is not read again under the mutex.
LocksToEvictBlindly ==
    /\ pc[Evictor] = "lock" /\ mutex = "none"
    /\ IF ~KeptWarm /\ resident # Nobody
       THEN Evacuates(Evictor) /\ UNCHANGED <<pinned, shown>>
       ELSE /\ Goes(Evictor, "idle")
            /\ UNCHANGED <<route, want, bound, gateVars, stateVars, flagVars,
                           shown, osVars, calls, faults>>

\* Mutant: a check that fails under the mutex ends the evictor's loop.
LocksToEvictOnce ==
    /\ pc[Evictor] = "lock" /\ mutex = "none"
    /\ IF inFlight = {} /\ ~KeptWarm /\ resident # Nobody
       THEN Evacuates(Evictor) /\ UNCHANGED <<pinned, shown>>
       ELSE /\ Goes(Evictor, "wait")
            /\ UNCHANGED <<route, want, bound, gateVars, stateVars, flagVars,
                           shown, osVars, calls, faults>>

\* maybe_evict repeats the check under the mutex, except for the idle time.
LocksToEvict ==
    /\ pc[Evictor] = "lock" /\ mutex = "none"
    /\ IF inFlight = {} /\ ~KeptWarm /\ resident # Nobody
       THEN Evacuates(Evictor) /\ UNCHANGED <<pinned, shown>>
       ELSE /\ Goes(Evictor, "idle")
            /\ UNCHANGED <<route, want, bound, gateVars, stateVars, flagVars,
                           shown, osVars, calls, faults>>

\* graceful_shutdown: it does not drain the gate.
ShutdownCall ==
    /\ pc[Quitter] = "idle" /\ ~shutdown /\ Fault
    /\ shutdown' = TRUE
    /\ GoesFor(Quitter, "lock", "quit")
    /\ UNCHANGED <<want, bound, gateVars, stateVars, inFlight, expired, pinned,
                   pinSpec, backfill, shown, osVars, calls>>

LocksToQuit ==
    /\ pc[Quitter] = "lock" /\ mutex = "none"
    /\ IF resident # Nobody THEN Evacuates(Quitter) /\ UNCHANGED <<pinned, shown>>
       ELSE /\ Goes(Quitter, "idle") /\ shown' = Status("stopped", NoModel)
            /\ UNCHANGED <<route, want, bound, gateVars, stateVars, flagVars,
                           osVars, calls, faults>>

----------------------------------------------------------------------------
(* The environment. *)

\* A process crashes, or stops answering /health (and may answer again).
ProcessFails(p) ==
    /\ Fault
    /\ \/ os[p] \in {"loading", "up", "sick"} /\ os' = [os EXCEPT ![p] = "gone"]
       \/ os[p] = "up" /\ os' = [os EXCEPT ![p] = "sick"]
       \/ os[p] = "sick" /\ os' = [os EXCEPT ![p] = "up"]
    /\ UNCHANGED <<taskVars, gateVars, stateVars, flagVars, shown, fat, pidfile,
                   calls>>

\* The committed memory of a process reaches the recycle ceiling.
Grows(p) ==
    /\ Recycling /\ os[p] \in {"up", "sick"} /\ p \notin fat /\ Fault
    /\ fat' = fat \cup {p}
    /\ UNCHANGED <<taskVars, gateVars, stateVars, flagVars, shown, os, pidfile,
                   calls>>

\* idle_ttl has passed since the last activity.
IdleTimeout ==
    /\ ~expired
    /\ expired' = TRUE
    /\ UNCHANGED <<taskVars, gateVars, stateVars, inFlight, pinned, pinSpec,
                   backfill, shutdown, shown, osVars, calls, faults>>

\* The vision scheduler asks for the model to be kept warm, or no longer does.
SetBackfillActive(b) ==
    /\ backfill # b /\ (b => Fault) /\ (~b => UNCHANGED faults)
    /\ backfill' = b
    /\ UNCHANGED <<taskVars, gateVars, stateVars, inFlight, expired, pinned,
                   pinSpec, shutdown, shown, osVars, calls>>

\* reap_stray_any: a live process the pidfile names is terminated, the record
\* removed in any case.
Reaped(left) == IF pidfile # 0 THEN [left EXCEPT ![pidfile] = "gone"] ELSE left

\* The app ends, cleanly or not.  Closing the job kills its processes, except
\* one that outlives a kill.  The next launch reaps and starts afresh.
Relaunch ==
    /\ shutdown \/ faults < MaxFaults
    /\ faults' = IF shutdown THEN faults ELSE faults + 1
    /\ os' = Reaped([p \in Pids |-> IF os[p] = "stuck" THEN "stuck" ELSE "gone"])
    /\ pidfile' = 0 /\ fat' = {}
    /\ pc' = [t \in Tasks |-> "idle"] /\ route' = [t \in Tasks |-> "enter"]
    /\ want' = [t \in Callers |-> NoModel] /\ bound' = [t \in Callers |-> 0]
    /\ permits' = [t \in Tasks |-> "none"] /\ gateQ' = <<>>
    /\ mutex' = "none" /\ resident' = Nobody /\ child' = Nobody /\ tries' = 0
    /\ inFlight' = {} /\ expired' = FALSE
    /\ pinned' = FALSE /\ pinSpec' = NoModel /\ backfill' = FALSE
    /\ shutdown' = FALSE
    /\ shown' = Status("stopped", NoModel)
    /\ UNCHANGED calls

----------------------------------------------------------------------------
Steps(t) ==
    \/ Asks(t) \/ GateGrants(t)
    \/ ProbesCeiling(t) \/ ProbesSwitch(t)
    \/ LocksToRecycle(t) \/ LocksToSwitch(t) \/ LocksToEnter(t)
    \/ FindsHealthy(t) \/ FindsSick(t)
    \/ LocksToRecover(t) \/ Rechecks(t)
    \/ Kills(t) \/ Launches(t) \/ LaunchFails(t)
    \/ BecomesHealthy(t) \/ StartupFails(t)
    \/ DropsLease(t) \/ DropsPermit(t)
    \/ LocksToUnload(t)

Next ==
    \/ \E t \in Tasks : Steps(t)
    \/ \E t \in Callers, m \in Models : Call(t, m)
    \/ \E t \in Unloads : UnloadCall(t)
    \/ EvictorTicks \/ LocksToEvict
    \/ ShutdownCall \/ LocksToQuit
    \/ \E p \in Pids : ProcessFails(p) \/ Grows(p)
    \/ IdleTimeout
    \/ \E b \in BOOLEAN : SetBackfillActive(b)
    \/ Relaunch

\* Every task that has started goes on (tokio's runtime; the gate serves its
\* queue in order), a lease is dropped at its request's end, time passes, and
\* the evictor keeps ticking.  Nobody has to call, fail or relaunch.
Fairness ==
    /\ \A t \in Callers \cup Unloads : WF_vars(Steps(t))
    /\ WF_vars(EvictorTicks \/ LocksToEvict \/ Kills(Evictor))
    /\ WF_vars(LocksToQuit \/ Kills(Quitter))
    /\ WF_vars(IdleTimeout)

Spec == Init /\ [][Next]_vars /\ Fairness

----------------------------------------------------------------------------
(* Properties. *)

\* Types of every variable: no more spawn attempts than SPAWN_ATTEMPTS, a
\* status and a route the code knows.
TypeOK ==
    /\ pc \in [Tasks -> Points]
    /\ route \in [Tasks -> Routes]
    /\ want \in [Callers -> Models \cup {NoModel}]
    /\ bound \in [Callers -> Pids \cup {0}]
    /\ permits \in [Tasks -> {"none", "one", "all"}]
    /\ gateQ \in Seq(Tasks)
    /\ mutex \in Tasks \cup {"none"}
    /\ resident \in Processes \cup {Nobody} /\ child \in Processes \cup {Nobody}
    /\ tries \in 0..(Attempts - 1)
    /\ inFlight \subseteq Callers
    /\ expired \in BOOLEAN /\ pinned \in BOOLEAN
    /\ pinSpec \in Models \cup {NoModel}
    /\ backfill \in BOOLEAN /\ shutdown \in BOOLEAN
    /\ shown \in Broadcasts
    /\ os \in [Pids -> {"gone", "loading", "up", "sick", "stuck"}]
    /\ fat \subseteq Pids /\ pidfile \in Pids \cup {0}
    /\ calls \in 0..MaxCalls /\ faults \in 0..MaxFaults

\* "A model switch cannot terminate a process while another request is still
\* streaming through it", and "the idle-evictor never pulls the model out from
\* under a live request".  Until shutdown, the process behind a live lease stays
\* the resident one and serves the model the request asked for, whatever other
\* requests, unload, the evictor, a recycle or a crash recovery do.
LeaseKeepsItsModel ==
    \A t \in Callers : pc[t] = "leased" /\ ~shutdown =>
        resident = [pid |-> bound[t], spec |-> want[t]]

\* "One process at a time": a process is started only after the one before it
\* has ended or outlived its kill.
OneProcess ==
    Cardinality({p \in Pids : os[p] \in {"loading", "up", "sick"}}) <= 1

\* The reap of the next launch can find the process: whenever no operation is in
\* the middle of replacing it, the pidfile names the resident process.
PidfileNamesResident ==
    mutex = "none" /\ resident # Nobody => pidfile = resident.pid

\* The readiness panel: between operations the last status broadcast is Ready,
\* and names the model, exactly while a process is resident; but after a switch
\* or a recovery that found no free port it may still say so, since free_port
\* fails before anything is reported.
PanelTruthful ==
    mutex = "none" =>
        /\ resident # Nobody => shown = Status("ready", resident.spec)
        /\ shown.state = "ready" /\ shown.told => resident # Nobody

\* Every acquire and every unload ends, with a lease or an error: neither the
\* retries of the loop, nor the gate against the mutex, hold a caller for ever.
CallsEnd ==
    \A t \in Callers \cup Unloads :
        pc[t] \notin {"idle", "leased"} ~> pc[t] \in {"idle", "leased"}

\* The idle evictor frees the memory: a process nobody uses or keeps warm does
\* not stay resident for ever.
IdleModelIsEvicted ==
    ~<>[](resident # Nobody /\ inFlight = {} /\ ~KeptWarm /\ ~shutdown)

\* The pin "belonged to the model being replaced", and Unload clears it: while a
\* model is resident and pinned, it is the one whose Load set the pin.
PinIsForLoadedModel ==
    pinned /\ resident # Nobody /\ ~shutdown => resident.spec = pinSpec
=============================================================================
