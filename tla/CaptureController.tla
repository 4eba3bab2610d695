------------------------- MODULE CaptureController -------------------------
(***************************************************************************)
(* The capture controller of the kernel (crates/kernel/src/lib.rs:         *)
(* start_capture, stop_capture, reload_capture, capture_now), the capture  *)
(* loop (capture_loop.rs) and the demand side of the capture source        *)
(* (crates/capture/src/lib.rs).                                            *)
(*                                                                         *)
(* A session is one run of the loop, named by its capture_generation.  It  *)
(* is                                                                      *)
(*   none        not started yet                                           *)
(*   waiting     in capture.next_frame, or between two frames              *)
(*   processing  in process_frame, which the stop signal cannot interrupt  *)
(*   exiting     its source shut down; it waits for the slot lock          *)
(*   ended       its task has returned                                     *)
(*   panicked    its task has died                                         *)
(* Callers are the concurrent commands of the shell and its tray.  Only    *)
(* start_capture keeps the slot lock across an await; every other critical *)
(* section of the lock is one step here.                                   *)
(***************************************************************************)
EXTENDS Naturals, Sequences, FiniteSets

CONSTANTS
    Callers,      \* concurrent callers of the controller
    ChanCap,      \* capacity of a session's demand channel (4)
    MaxSessions,  \* bound: sessions started
    MaxDemands,   \* bound: capture_now calls that reach a session
    MaxCalls,     \* bound: calls of start, stop, reload and capture_now
    MaxFaults     \* bound: failures of the source, of OCR, of the store

ASSUME CaptureAssumption ==
    /\ ChanCap \in Nat \ {0}
    /\ "free" \notin Callers
    /\ MaxSessions \in Nat /\ MaxDemands \in Nat /\ MaxCalls \in Nat /\ MaxFaults \in Nat

VARIABLES
    slot,       \* Kernel::capture: the session of the handle, or None
    lock,       \* the caller holding the slot lock across an await, or Free
    ocrUsable,  \* Kernel::ocr_unavailable is None
    readiness,  \* the published readiness of capture
    observed,   \* the last observation of the capture log
    session,    \* Sessions -> the state of its task
    stopSent,   \* sessions whose stop signal was sent
    queue,      \* Sessions -> frames the source holds, oldest first
    channel,    \* Sessions -> demands in its channel, oldest first
    frame,      \* Sessions -> the frame in process_frame
    pending,    \* Kernel::pending_demand: the demand whose sender it holds, or 0
    gate,       \* the caller holding capture_now_gate, or Free
    ack,        \* Demands -> the source's answer to it
    answer,     \* Demands -> the frame whose id was sent back, or NoFrame
    call,       \* Callers -> the call in progress
    client,     \* the OCR provider's accessibility client is connected
    demands,    \* demands made so far
    calls,      \* calls made so far
    faults,     \* faults so far
    tangled,    \* history: the last start completed during another call's stop
    clean       \* history: demands made while no other was in flight

None == 0
Free == "free"
Sessions == 1..MaxSessions
Demands == 1..MaxDemands

controlVars == <<slot, lock, readiness, observed>>
loopVars == <<session, queue, frame>>
demandVars == <<pending, gate, ack, answer, demands, clean>>
countVars == <<calls, faults>>
vars == <<controlVars, ocrUsable, loopVars, stopSent, channel, demandVars, call,
          client, countVars, tangled>>

\* A frame: the demand whose capture produced it (0 for a timer or an event),
\* and CapturedFrame::demanded.
Frame == [of : 0..MaxDemands, demanded : BOOLEAN]
NoFrame == [of |-> 0, demanded |-> FALSE]

Idle == [op |-> "idle", pc |-> "idle", on |-> 0, demand |-> 0]

Live == {s \in Sessions : session[s] \in {"waiting", "processing"}}

-----------------------------------------------------------------------------
(* What the steps share *)

Fault == faults < MaxFaults /\ faults' = faults + 1

Goto(c, pc) == call' = [call EXCEPT ![c].pc = pc]
Return(c) == call' = [call EXCEPT ![c] = Idle]

\* Dropping the source closes its channel: every request still in it loses its
\* ack sender.
DropSource(s) ==
    /\ channel' = [channel EXCEPT ![s] = <<>>]
    /\ ack' = [d \in Demands |->
                 IF \E i \in 1..Len(channel[s]) : channel[s][i] = d THEN "dropped" ELSE ack[d]]
    /\ queue' = [queue EXCEPT ![s] = <<>>]
    /\ frame' = [frame EXCEPT ![s] = NoFrame]

Closed(s) == s \notin Live

\* Another call is between capture.take() and the end of its stop_capture.
StopUnderWay(c) == \E b \in Callers \ {c} : call[b].pc \in {"signal", "join", "disable"}

-----------------------------------------------------------------------------
(* The callers *)

\* The bounds leave room for every call in progress to run to its end.
Room(op) ==
    LET under(ops) == Cardinality({b \in Callers : call[b].op \in ops})
    IN /\ calls < MaxCalls
       /\ op \in {"start", "reload"} =>
            under({"start", "reload"}) < Cardinality({s \in Sessions : session[s] = "none"})
       /\ op = "mark" => under({"mark"}) < MaxDemands - demands

\* A command of the shell enters the kernel.
Call(c, op) ==
    /\ call[c] = Idle
    /\ Room(op)
    /\ calls' = calls + 1
    /\ call' = [call EXCEPT ![c] = [op |-> op, on |-> 0, demand |-> 0,
                                    pc |-> CASE op = "start" -> "start"
                                             [] op = "stop" -> "take"
                                             [] op = "reload" -> "check"
                                             [] op = "mark" -> "gate"]]
    /\ UNCHANGED <<controlVars, ocrUsable, loopVars, stopSent, channel, demandVars,
                   client, faults, tangled>>

\* start_capture up to its first await: take the lock; a running session, or
\* no OCR, ends the call.
StartLock(c) ==
    /\ call[c].pc = "start"
    /\ lock = Free
    /\ \/ /\ slot # None
          /\ Return(c)
          /\ UNCHANGED <<lock, readiness>>
       \/ /\ slot = None /\ ~ocrUsable
          /\ readiness' = "Unavailable"
          /\ Return(c)
          /\ UNCHANGED lock
       \/ /\ slot = None /\ ocrUsable
          /\ readiness' = "Initializing"
          /\ lock' = c
          /\ Goto(c, "build")
    /\ UNCHANGED <<slot, observed, ocrUsable, loopVars, stopSent, channel, demandVars,
                   client, countVars, tangled>>

\* The rest of start_capture, its settings loaded: the source is built, the
\* loop spawned, the handle stored, and the lock released.
StartSession(c) ==
    /\ call[c].pc = "build"
    /\ \E s \in Sessions :
         /\ session[s] = "none"
         /\ \A r \in Sessions : r < s => session[r] # "none"
         /\ session' = [session EXCEPT ![s] = "waiting"]
         /\ slot' = s
    /\ observed' = "Started"
    /\ readiness' = "Ready"
    /\ lock' = Free
    /\ tangled' = StopUnderWay(c)
    /\ Return(c)
    /\ UNCHANGED <<ocrUsable, queue, frame, stopSent, channel, demandVars, client, countVars>>

\* capture_factory fails.
StartFails(c) ==
    /\ call[c].pc = "build"
    /\ Fault
    /\ readiness' = "Unavailable"
    /\ observed' = "WorkerError"
    /\ lock' = Free
    /\ Return(c)
    /\ UNCHANGED <<slot, ocrUsable, loopVars, stopSent, channel, demandVars, client, calls,
                   tangled>>

\* stop_capture takes the handle out of the slot and releases the lock.
StopTake(c) ==
    /\ call[c].pc = "take"
    /\ lock = Free
    /\ slot' = None
    /\ call' = [call EXCEPT ![c].pc = IF slot = None THEN "disable" ELSE "signal",
                            ![c].on = IF slot = None THEN 0 ELSE slot]
    /\ tangled' = (tangled /\ (slot = None \/ StopUnderWay(c)))
    /\ UNCHANGED <<lock, readiness, observed, ocrUsable, loopVars, stopSent, channel,
                   demandVars, client, countVars>>

\* It records CaptureStopped and signals the loop.
StopSignal(c) ==
    /\ call[c].pc = "signal"
    /\ observed' = "CaptureStopped"
    /\ stopSent' = stopSent \cup {call[c].on}
    /\ Goto(c, "join")
    /\ UNCHANGED <<slot, lock, readiness, ocrUsable, loopVars, channel, demandVars,
                   client, countVars, tangled>>

\* It joins the task and lets the OCR provider release its client.
StopJoin(c) ==
    /\ call[c].pc = "join"
    /\ session[call[c].on] \in {"ended", "panicked"}
    /\ observed' = IF session[call[c].on] = "panicked" THEN "WorkerError" ELSE observed
    /\ client' = FALSE
    /\ Goto(c, "disable")
    /\ UNCHANGED <<slot, lock, readiness, ocrUsable, loopVars, stopSent, channel,
                   demandVars, countVars, tangled>>

\* Whether or not there was a handle, capture is published Disabled; a reload
\* goes on with its start_capture.
StopDone(c) ==
    /\ call[c].pc = "disable"
    /\ readiness' = "Disabled"
    /\ IF call[c].op = "reload"
         THEN call' = [call EXCEPT ![c].pc = "start", ![c].on = 0]
         ELSE Return(c)
    /\ UNCHANGED <<slot, lock, observed, ocrUsable, loopVars, stopSent, channel,
                   demandVars, client, countVars, tangled>>

\* reload_capture: nothing to do unless capture is running.
ReloadCheck(c) ==
    /\ call[c].pc = "check"
    /\ lock = Free
    /\ IF slot = None THEN Return(c) ELSE Goto(c, "take")
    /\ UNCHANGED <<controlVars, ocrUsable, loopVars, stopSent, channel, demandVars,
                   client, countVars, tangled>>

-----------------------------------------------------------------------------
(* capture_now *)

\* Every return of capture_now clears pending_demand (ClearPendingDemand) and
\* releases the gate.
DemandEnds(c) ==
    /\ pending' = 0
    /\ gate' = Free
    /\ Return(c)

DemandGate(c) ==
    /\ call[c].pc = "gate"
    /\ gate = Free
    /\ gate' = c
    /\ Goto(c, "sender")
    /\ UNCHANGED <<controlVars, ocrUsable, loopVars, stopSent, channel, pending, ack,
                   answer, demands, clean, client, countVars, tangled>>

\* A request, or a frame, that an earlier demand has left behind.
LeftBehind ==
    \E s \in Live :
        \/ channel[s] # <<>>
        \/ frame[s].demanded
        \/ \E i \in 1..Len(queue[s]) : queue[s][i].demanded

\* The session's sender is cloned and the frame-id slot registered, or capture
\* is off.
DemandRegister(c) ==
    /\ call[c].pc = "sender"
    /\ lock = Free
    /\ \/ /\ slot = None
          /\ gate' = Free
          /\ Return(c)
          /\ UNCHANGED <<pending, demands, clean>>
       \/ /\ slot # None
          /\ demands' = demands + 1
          /\ pending' = demands'
          /\ clean' = IF LeftBehind THEN clean ELSE clean \cup {demands'}
          /\ call' = [call EXCEPT ![c].pc = "send", ![c].on = slot, ![c].demand = demands']
          /\ UNCHANGED gate
    /\ UNCHANGED <<controlVars, ocrUsable, loopVars, stopSent, channel, ack, answer,
                   client, countVars, tangled>>

\* Mutant of DemandSend: the channel is unbounded.
DemandSendUnbounded(c) ==
    /\ call[c].pc = "send"
    /\ channel' = [channel EXCEPT ![call[c].on] = Append(@, call[c].demand)]
    /\ Goto(c, "ack")
    /\ UNCHANGED <<controlVars, ocrUsable, loopVars, stopSent, demandVars, client, countVars,
                   tangled>>

\* sender.send: it waits, without a timeout, while the channel is full; it
\* fails when the session is gone.
DemandSend(c) ==
    /\ call[c].pc = "send"
    /\ \/ /\ Closed(call[c].on)
          /\ DemandEnds(c)
          /\ UNCHANGED channel
       \/ /\ ~Closed(call[c].on)
          /\ Len(channel[call[c].on]) < ChanCap
          /\ channel' = [channel EXCEPT ![call[c].on] = Append(@, call[c].demand)]
          /\ Goto(c, "ack")
          /\ UNCHANGED <<pending, gate>>
    /\ UNCHANGED <<controlVars, ocrUsable, loopVars, stopSent, ack, answer, demands,
                   clean, client, countVars, tangled>>

\* The worker queued the frame, denied the demand, or is gone.
DemandAcked(c) ==
    /\ call[c].pc = "ack"
    /\ ack[call[c].demand] # "none"
    /\ IF ack[call[c].demand] = "ok"
         THEN Goto(c, "frame") /\ UNCHANGED <<pending, gate>>
         ELSE DemandEnds(c)
    /\ UNCHANGED <<controlVars, ocrUsable, loopVars, stopSent, channel, ack, answer,
                   demands, clean, client, countVars, tangled>>

\* The loop sent a frame id: add_mark inserts the mark.
DemandAnswered(c) ==
    /\ call[c].pc = "frame"
    /\ answer[call[c].demand] # NoFrame
    /\ DemandEnds(c)
    /\ UNCHANGED <<controlVars, ocrUsable, loopVars, stopSent, channel, ack, answer,
                   demands, clean, client, countVars, tangled>>

\* Mutant of DemandTimesOut: only the wait for the ack is bounded.
DemandTimesOutOnAck(c) ==
    /\ call[c].pc = "ack" /\ ack[call[c].demand] = "none"
    /\ DemandEnds(c)
    /\ UNCHANGED <<controlVars, ocrUsable, loopVars, stopSent, channel, ack, answer,
                   demands, clean, client, countVars, tangled>>

\* CAPTURE_NOW_TIMEOUT_MS runs out on either wait; an answer that is already
\* there wins.
DemandTimesOut(c) ==
    /\ \/ call[c].pc = "ack" /\ ack[call[c].demand] = "none"
       \/ call[c].pc = "frame" /\ answer[call[c].demand] = NoFrame
    /\ DemandEnds(c)
    /\ UNCHANGED <<controlVars, ocrUsable, loopVars, stopSent, channel, ack, answer,
                   demands, clean, client, countVars, tangled>>

-----------------------------------------------------------------------------
(* The loop of session s, and its source *)

Selecting(s) == session[s] = "waiting" /\ s \notin stopSent

\* The stop arm is polled first.
LoopStops(s) ==
    /\ session[s] = "waiting"
    /\ s \in stopSent
    /\ session' = [session EXCEPT ![s] = "ended"]
    /\ DropSource(s)
    /\ UNCHANGED <<controlVars, ocrUsable, stopSent, pending, gate, answer, demands, clean,
                   call, client, countVars, tangled>>

\* A timer or event cycle captured a frame that changed.  A cycle that captures
\* none leaves no trace.
SourceCaptures(s) ==
    /\ Selecting(s)
    /\ queue[s] = <<>>
    /\ queue' = [queue EXCEPT ![s] = <<NoFrame>>]
    /\ UNCHANGED <<controlVars, ocrUsable, session, frame, stopSent, channel, demandVars,
                   call, client, countVars, tangled>>

\* The frames of a cycle that bypasses the diff gate of the demand's monitor:
\* another monitor's frame may come first.
CycleFor(d) ==
    LET own == [of |-> d, demanded |-> TRUE]
        other == [of |-> d, demanded |-> FALSE]
    IN {<<own>>, <<other, own>>, <<own, other>>, <<other>>, <<>>}

\* A demand wakes the source: a privacy gate denies it, or a cycle runs, and
\* the ack says whether the monitor's frame was queued.
SourceServes(s) ==
    /\ Selecting(s)
    /\ queue[s] = <<>>
    /\ channel[s] # <<>>
    /\ channel' = [channel EXCEPT ![s] = Tail(@)]
    /\ LET d == Head(channel[s])
       IN \/ /\ ack' = [ack EXCEPT ![d] = "denied"]
             /\ UNCHANGED queue
          \/ \E frames \in CycleFor(d) :
                /\ queue' = [queue EXCEPT ![s] = frames]
                /\ ack' = [ack EXCEPT ![d] = IF \E i \in 1..Len(frames) : frames[i].demanded
                                              THEN "ok" ELSE "denied"]
    /\ UNCHANGED <<controlVars, ocrUsable, session, frame, stopSent, pending, gate, answer,
                   demands, clean, call, client, countVars, tangled>>

\* Mutant of LoopTakes: the frame is read and not popped.
LoopTakesFront(s) ==
    /\ Selecting(s)
    /\ queue[s] # <<>>
    /\ frame' = [frame EXCEPT ![s] = Head(queue[s])]
    /\ session' = [session EXCEPT ![s] = "processing"]
    /\ client' \in {client, TRUE}
    /\ UNCHANGED <<controlVars, ocrUsable, queue, stopSent, channel, demandVars, call,
                   countVars, tangled>>

\* next_frame hands the loop the oldest frame; OCR of it may connect the
\* accessibility client.
LoopTakes(s) ==
    /\ Selecting(s)
    /\ queue[s] # <<>>
    /\ queue' = [queue EXCEPT ![s] = Tail(@)]
    /\ frame' = [frame EXCEPT ![s] = Head(queue[s])]
    /\ session' = [session EXCEPT ![s] = "processing"]
    /\ client' \in {client, TRUE}
    /\ UNCHANGED <<controlVars, ocrUsable, stopSent, channel, demandVars, call, countVars,
                   tangled>>

\* Mutant of FrameStored: any frame answers the demand.
FrameStoredUnflagged(s) ==
    /\ session[s] = "processing"
    /\ answer' = IF pending = 0 THEN answer ELSE [answer EXCEPT ![pending] = frame[s]]
    /\ pending' = 0
    /\ session' = [session EXCEPT ![s] = "waiting"]
    /\ frame' = [frame EXCEPT ![s] = NoFrame]
    /\ UNCHANGED <<controlVars, ocrUsable, queue, stopSent, channel, gate, ack, demands,
                   clean, call, client, countVars, tangled>>

\* process_frame inserted the frame: a demanded one answers whoever is
\* registered.  The writes after it may fail.
FrameStored(s) ==
    /\ session[s] = "processing"
    /\ IF frame[s].demanded /\ pending # 0
         THEN /\ answer' = [answer EXCEPT ![pending] = frame[s]]
              /\ pending' = 0
         ELSE UNCHANGED <<answer, pending>>
    /\ session' = [session EXCEPT ![s] = "waiting"]
    /\ frame' = [frame EXCEPT ![s] = NoFrame]
    /\ \/ UNCHANGED <<observed, faults>>
       \/ Fault /\ observed' = "WorkerError"
    /\ UNCHANGED <<slot, lock, readiness, ocrUsable, queue, stopSent, channel, gate, ack,
                   demands, clean, call, client, calls, tangled>>

\* OCR, the encoder or insert_frame failed: the frame is dropped.
FrameDropped(s) ==
    /\ session[s] = "processing"
    /\ Fault
    /\ observed' = "WorkerError"
    /\ session' = [session EXCEPT ![s] = "waiting"]
    /\ frame' = [frame EXCEPT ![s] = NoFrame]
    /\ UNCHANGED <<slot, lock, readiness, ocrUsable, queue, stopSent, channel, demandVars,
                   call, client, calls, tangled>>

\* The task dies in process_frame.
LoopPanics(s) ==
    /\ session[s] = "processing"
    /\ Fault
    /\ session' = [session EXCEPT ![s] = "panicked"]
    /\ DropSource(s)
    /\ UNCHANGED <<controlVars, ocrUsable, stopSent, pending, gate, answer, demands, clean,
                   call, client, calls, tangled>>

\* next_frame returned an error.
SourceFails(s) ==
    /\ Selecting(s)
    /\ Fault
    /\ observed' = "WorkerError"
    /\ UNCHANGED <<slot, lock, readiness, ocrUsable, loopVars, stopSent, channel, demandVars,
                   call, client, calls, tangled>>

\* The capture worker is gone: next_frame returns None and the source is
\* dropped.  A demand that asked for the cycle is denied.
SourceShutsDown(s) ==
    /\ Selecting(s)
    /\ queue[s] = <<>>
    /\ Fault
    /\ session' = [session EXCEPT ![s] = "exiting"]
    /\ DropSource(s)
    /\ UNCHANGED <<controlVars, ocrUsable, stopSent, pending, gate, answer, demands, clean,
                   call, client, calls, tangled>>

\* What a session whose source shut down does with the slot, once it has ended.
SessionEnded(s) ==
    /\ session[s] = "exiting"
    /\ lock = Free
    /\ session' = [session EXCEPT ![s] = "ended"]
    /\ UNCHANGED <<lock, ocrUsable, queue, frame, stopSent, channel, demandVars, call,
                   countVars, tangled>>

\* Mutants of ExitSession: the id is not compared; the readiness is not
\* published; the OCR provider is not told.
ExitAnySession(s) ==
    /\ SessionEnded(s)
    /\ slot' = None /\ observed' = "WorkerError" /\ readiness' = "Error" /\ client' = FALSE
ExitSessionSilently(s) ==
    /\ SessionEnded(s)
    /\ slot' = IF slot = s THEN None ELSE slot
    /\ UNCHANGED <<observed, readiness, client>>
ExitSessionConnected(s) ==
    /\ SessionEnded(s)
    /\ IF slot = s
         THEN slot' = None /\ observed' = "WorkerError" /\ readiness' = "Error"
         ELSE UNCHANGED <<slot, observed, readiness>>
    /\ UNCHANGED client

\* The task after the loop: it retires the slot only if it still holds its own
\* session.
ExitSession(s) ==
    /\ SessionEnded(s)
    /\ IF slot = s
         THEN /\ slot' = None
              /\ observed' = "WorkerError"
              /\ readiness' = "Error"
              /\ client' = FALSE
         ELSE UNCHANGED <<slot, observed, readiness, client>>

-----------------------------------------------------------------------------
Init ==
    /\ slot = None /\ lock = Free
    /\ ocrUsable \in BOOLEAN
    /\ readiness = "Disabled"
    /\ observed = "CaptureStopped"
    /\ session = [s \in Sessions |-> "none"]
    /\ stopSent = {}
    /\ queue = [s \in Sessions |-> <<>>]
    /\ channel = [s \in Sessions |-> <<>>]
    /\ frame = [s \in Sessions |-> NoFrame]
    /\ pending = 0 /\ gate = Free
    /\ ack = [d \in Demands |-> "none"]
    /\ answer = [d \in Demands |-> NoFrame]
    /\ call = [c \in Callers |-> Idle]
    /\ client = FALSE
    /\ demands = 0 /\ calls = 0 /\ faults = 0
    /\ tangled = FALSE
    /\ clean = {}

CallerStep(c) ==
    \/ StartLock(c) \/ StartSession(c) \/ StartFails(c)
    \/ StopTake(c) \/ StopSignal(c) \/ StopJoin(c) \/ StopDone(c) \/ ReloadCheck(c)
    \/ DemandGate(c) \/ DemandRegister(c) \/ DemandSend(c) \/ DemandAcked(c)
    \/ DemandAnswered(c) \/ DemandTimesOut(c)

LoopStep(s) ==
    \/ LoopStops(s) \/ SourceServes(s) \/ LoopTakes(s)
    \/ FrameStored(s) \/ FrameDropped(s) \/ ExitSession(s)

Next ==
    \/ \E c \in Callers : CallerStep(c) \/ \E op \in {"start", "stop", "reload", "mark"} : Call(c, op)
    \/ \E s \in Sessions : LoopStep(s) \/ SourceCaptures(s) \/ LoopPanics(s)
                             \/ SourceFails(s) \/ SourceShutsDown(s)

\* A call and a session's task keep being scheduled, and what they await comes
\* back.  The select! of the source picks among its ready arms at random, so a
\* demand in the channel is not passed over for ever.
Fairness ==
    /\ \A c \in Callers : WF_vars(CallerStep(c))
    /\ \A s \in Sessions : WF_vars(LoopStep(s)) /\ SF_vars(SourceServes(s))

Spec == Init /\ [][Next]_vars /\ Fairness

-----------------------------------------------------------------------------
(* Properties *)

TypeOK ==
    /\ slot \in Sessions \cup {None} /\ lock \in Callers \cup {Free}
    /\ ocrUsable \in BOOLEAN /\ client \in BOOLEAN /\ tangled \in BOOLEAN
    /\ readiness \in {"Disabled", "Unavailable", "Initializing", "Ready", "Error"}
    /\ observed \in {"Started", "CaptureStopped", "WorkerError"}
    /\ session \in [Sessions -> {"none", "waiting", "processing", "exiting", "ended", "panicked"}]
    /\ stopSent \subseteq Sessions
    /\ queue \in [Sessions -> Seq(Frame)] /\ channel \in [Sessions -> Seq(Demands)]
    /\ frame \in [Sessions -> Frame]
    /\ pending \in 0..MaxDemands /\ gate \in Callers \cup {Free}
    /\ ack \in [Demands -> {"none", "ok", "denied", "dropped"}]
    /\ answer \in [Demands -> Frame]
    /\ call \in [Callers -> [op : {"idle", "start", "stop", "reload", "mark"},
                             pc : {"idle", "start", "build", "take", "signal", "join", "disable",
                                   "check", "gate", "sender", "send", "ack", "frame"},
                             on : 0..MaxSessions, demand : 0..MaxDemands]]
    /\ demands \in 0..MaxDemands /\ calls \in 0..MaxCalls /\ faults \in 0..MaxFaults
    /\ clean \subseteq Demands
    /\ \A s \in Sessions : Len(channel[s]) <= ChanCap

\* Nobody is inside the controller and no task waits to retire its slot.
Settled == (\A c \in Callers : call[c] = Idle) /\ \A s \in Sessions : session[s] # "exiting"

\* A session that still captures is the one in the slot, or a stop_capture
\* holds its handle: whatever the order of stops, starts and a source's own
\* shutdown, no loop is left running that nothing can stop (the id check of the
\* exiting task, lib.rs:930).
NoOrphanSession ==
    \A s \in Live : slot = s \/ \E c \in Callers : call[c].on = s /\ call[c].pc \in {"signal", "join"}

\* Once the calls have returned with capture off, the accessibility client is
\* disconnected: each way a session can end (stop, source shutdown, panic)
\* reaches on_capture_stopped after its last recognize.
ClientReleased == Settled /\ slot = None => ~client

\* Once the calls have returned, the published readiness and the last entry of
\* the capture log agree with the slot, unless the running session was started
\* while another caller's stop_capture was between its take and its end
\* (lib.rs:974): that stop's CaptureStopped and Disabled then describe it.
SettledTruth ==
    Settled /\ ~tangled =>
        /\ readiness = "Ready" <=> slot # None
        /\ slot = None => observed # "Started"
        /\ slot # None => observed # "CaptureStopped"

\* A demand made while no earlier one has left a request or a frame behind is
\* marked with the frame captured for it, on the monitor it asked for
\* (lib.rs:1057; a frame left behind by a demand that timed out would answer
\* the next one).
DemandGetsItsFrame ==
    \A c \in Callers :
        LET d == call[c].demand
        IN call[c].pc = "frame" /\ d \in clean /\ answer[d] # NoFrame
             => answer[d] = [of |-> d, demanded |-> TRUE]

\* No frame id is handed to two demands: one demand, one frame, one mark.
OneFrameOneMark ==
    \A d, e \in Demands : answer[d] # NoFrame /\ answer[d] = answer[e] => d = e

\* Every call of the controller returns, whatever the source does: a demand is
\* never stuck behind a full channel, a stop never behind a start.
CallsReturn == \A c \in Callers : call[c] # Idle ~> call[c] = Idle
=============================================================================
