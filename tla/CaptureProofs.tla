----------------------------- MODULE CaptureProofs -----------------------------
(***************************************************************************)
(* For any number of callers, sessions, demands and faults: no session is  *)
(* left running that nothing can stop, what is published at rest is true,  *)
(* a stopped capture has released the accessibility client, and a demand   *)
(* for a frame and its answer stay together.                               *)
(*                                                                         *)
(* The first three are about states at rest, so CInv says how far a call   *)
(* under way still has to go: what is not yet true of an empty slot is     *)
(* owed by a caller inside stop_capture.                                   *)
(***************************************************************************)
EXTENDS CaptureController, FiniteSetTheorems, TLAPS

Pcs == {"idle", "start", "build", "take", "signal", "join", "disable",
        "check", "gate", "sender", "send", "ack", "frame"}
Ops == {"idle", "start", "stop", "reload", "mark"}
CallType == [op : Ops, pc : Pcs, on : Sessions \cup {None}, demand : Nat]

CTypes ==
    /\ slot \in Sessions \cup {None}
    /\ session \in [Sessions -> {"none", "waiting", "processing", "exiting", "ended", "panicked"}]
    /\ call \in [Callers -> CallType]
    /\ demands \in Nat

\* The points of stop_capture after it has emptied the slot.
Stopping == {"signal", "join", "disable"}

\* A caller that builds a source has the lock, over an empty slot.
BuilderHasLock == \A c \in Callers : call[c].pc = "build" => lock = c /\ slot = None

\* A running capture is published as such, and no stop is still to report,
\* unless the session was started during one.
RunningIsPublished ==
    slot # None /\ ~tangled =>
        /\ readiness = "Ready" /\ observed # "CaptureStopped"
        /\ \A c \in Callers : call[c].pc \notin Stopping

\* While the slot is empty, Ready, Started and a connected client each wait for
\* a caller inside stop_capture.
StopOwes ==
    slot = None =>
        /\ readiness = "Ready" => \E c \in Callers : call[c].pc \in Stopping
        /\ observed = "Started" => \E c \in Callers : call[c].pc = "signal"
        /\ client => \E c \in Callers : call[c].pc \in {"signal", "join"}

CInv == CTypes /\ BuilderHasLock /\ NoOrphanSession /\ RunningIsPublished /\ StopOwes

-----------------------------------------------------------------------------
\* Idle is a call.
LEMMA IdleType == Idle \in CallType /\ Idle.pc = "idle"
PROOF BY DEF Idle, CallType, Ops, Pcs, None

\* A caller that moves between points outside start's build and stop's second
\* half disturbs nothing.
LEMMA CallerMoves ==
    ASSUME CInv, NEW c \in Callers, NEW x \in CallType, call' = [call EXCEPT ![c] = x],
           call[c].pc \notin Stopping \cup {"build"}, x.pc \notin Stopping \cup {"build"},
           UNCHANGED <<slot, lock, observed, session, client, tangled>>, demands' \in Nat,
           readiness' = readiness \/ (readiness' # "Ready" /\ slot = None)
    PROVE  CInv'
PROOF
<1>1. CTypes' BY DEF CInv, CTypes
<1>2. call'[c] = x /\ \A b \in Callers : b # c => call'[b] = call[b] BY DEF CInv, CTypes
<1>3. BuilderHasLock' BY <1>2 DEF CInv, BuilderHasLock
<1>4. NoOrphanSession' BY <1>2 DEF CInv, NoOrphanSession, Live, Stopping
<1>5. RunningIsPublished' BY <1>2 DEF CInv, RunningIsPublished
<1>6. StopOwes' BY <1>2 DEF CInv, StopOwes, Stopping
<1> QED BY <1>1, <1>3, <1>4, <1>5, <1>6 DEF CInv

\* The steps of capture_now, and a command entering the kernel.
LEMMA DemandSteps ==
    ASSUME CInv, NEW c \in Callers,
           \/ DemandGate(c) \/ DemandRegister(c) \/ DemandSend(c) \/ DemandAcked(c)
           \/ DemandAnswered(c) \/ DemandTimesOut(c) \/ ReloadCheck(c)
           \/ \E op \in {"start", "stop", "reload", "mark"} : Call(c, op)
    PROVE  CInv'
PROOF
<1>0. call[c] \in CallType /\ call \in [Callers -> CallType] /\ demands \in Nat
      /\ slot \in Sessions \cup {None}
  BY DEF CInv, CTypes
<1> DEFINE Quiet == UNCHANGED <<slot, lock, readiness, observed, session, client, tangled>>
<1>1. ASSUME NEW pc \in {"take", "sender", "ack", "frame"}, Goto(c, pc)
      PROVE  \E x \in CallType : call' = [call EXCEPT ![c] = x] /\ x.pc = pc
  <2>1. [call[c] EXCEPT !.pc = pc] \in CallType /\ [call[c] EXCEPT !.pc = pc].pc = pc
    BY <1>0 DEF CallType, Pcs
  <2> QED BY <1>0, <1>1, <2>1 DEF Goto
<1>2. ASSUME Return(c)
      PROVE  \E x \in CallType : call' = [call EXCEPT ![c] = x] /\ x.pc = "idle"
  BY <1>2, IdleType DEF Return
<1>3. CASE DemandGate(c) \/ DemandSend(c) \/ DemandAcked(c) \/ DemandAnswered(c)
           \/ DemandTimesOut(c) \/ ReloadCheck(c)
  <2>1. Quiet /\ demands' = demands
    BY <1>3 DEF DemandGate, DemandSend, DemandAcked, DemandAnswered, DemandTimesOut, ReloadCheck,
                controlVars, loopVars, demandVars
  <2>2. Return(c) \/ \E pc \in {"take", "sender", "ack", "frame"} : Goto(c, pc)
    BY <1>3 DEF DemandGate, DemandSend, DemandAcked, DemandAnswered, DemandTimesOut, ReloadCheck,
                DemandEnds
  <2>3. call[c].pc \in {"gate", "send", "ack", "frame", "check"}
    BY <1>3 DEF DemandGate, DemandSend, DemandAcked, DemandAnswered, DemandTimesOut, ReloadCheck
  <2>4. \E x \in CallType : call' = [call EXCEPT ![c] = x]
                              /\ x.pc \in {"idle", "take", "sender", "ack", "frame"}
    BY <1>1, <1>2, <2>2
  <2> QED BY <1>0, <2>1, <2>3, <2>4, CallerMoves DEF Stopping
<1>4. CASE DemandRegister(c)
  <2>1. Quiet /\ call[c].pc = "sender" BY <1>4 DEF DemandRegister, controlVars, loopVars
  <2>2. demands' \in Nat BY <1>0, <1>4 DEF DemandRegister
  <2>3. \E x \in CallType : call' = [call EXCEPT ![c] = x] /\ x.pc \in {"idle", "send"}
    <3>1. CASE Return(c) BY <1>2, <3>1
    <3>2. CASE call' = [call EXCEPT ![c].pc = "send", ![c].on = slot, ![c].demand = demands']
      <4> DEFINE x == [call[c] EXCEPT !.pc = "send", !.on = slot, !.demand = demands']
      <4>1. x \in CallType /\ x.pc = "send" BY <1>0, <2>2 DEF CallType, Pcs
      <4>2. call' = [call EXCEPT ![c] = x] BY <1>0, <3>2
      <4> QED BY <4>1, <4>2
    <3> QED BY <1>4, <3>1, <3>2 DEF DemandRegister
  <2> QED BY <2>1, <2>2, <2>3, CallerMoves DEF Stopping
<1>5. ASSUME NEW op \in {"start", "stop", "reload", "mark"}, Call(c, op) PROVE CInv'
  <2>1. Quiet /\ demands' = demands /\ call[c].pc = "idle"
    BY <1>5, IdleType DEF Call, controlVars, loopVars, demandVars
  <2>2. \E x \in CallType : call' = [call EXCEPT ![c] = x]
                              /\ x.pc \in {"start", "take", "check", "gate"}
    <3> DEFINE x == [op |-> op, on |-> 0, demand |-> 0,
                     pc |-> CASE op = "start" -> "start" [] op = "stop" -> "take"
                              [] op = "reload" -> "check" [] op = "mark" -> "gate"]
    <3>1. x \in CallType /\ x.pc \in {"start", "take", "check", "gate"}
      BY DEF CallType, Pcs, Ops, None
    <3>2. call' = [call EXCEPT ![c] = x] BY <1>5 DEF Call
    <3> QED BY <3>1, <3>2
  <2> QED BY <1>0, <2>1, <2>2, CallerMoves DEF Stopping
<1> QED BY <1>3, <1>4, <1>5

-----------------------------------------------------------------------------
(* start_capture *)

\* start_capture's first half, which may leave with the lock.
LEMMA StartLockKeeps == ASSUME CInv, NEW c \in Callers, StartLock(c) PROVE CInv'
PROOF
<1>0. call[c] \in CallType /\ call \in [Callers -> CallType] /\ demands \in Nat
  BY DEF CInv, CTypes
<1>1. UNCHANGED <<slot, observed, session, client, tangled, demands>> /\ call[c].pc = "start"
      /\ lock = Free
  BY DEF StartLock, loopVars, demandVars
<1>2. CASE Return(c) /\ UNCHANGED lock /\ (readiness' = readiness \/ (readiness' # "Ready" /\ slot = None))
  BY <1>0, <1>1, <1>2, IdleType, CallerMoves DEF Return, Stopping
<1>3. CASE slot = None /\ readiness' = "Initializing" /\ lock' = c /\ Goto(c, "build")
  <2> DEFINE x == [call[c] EXCEPT !.pc = "build"]
  <2>1. x \in CallType /\ x.pc = "build" BY <1>0 DEF CallType, Pcs
  <2>2. call' = [call EXCEPT ![c] = x] BY <1>0, <1>3 DEF Goto
  <2>3. call'[c] = x /\ \A b \in Callers : b # c => call'[b] = call[b] BY <1>0, <2>2
  <2>4. \A b \in Callers : call[b].pc # "build"
    BY <1>1, CaptureAssumption DEF CInv, BuilderHasLock, Free
  <2>5. CTypes' BY <1>1, <2>1, <2>2 DEF CInv, CTypes
  <2>6. BuilderHasLock' BY <1>1, <1>3, <2>1, <2>3, <2>4 DEF BuilderHasLock
  <2>7. NoOrphanSession' BY <1>1, <2>1, <2>3 DEF CInv, NoOrphanSession, Live
  <2>8. RunningIsPublished' BY <1>1, <1>3 DEF RunningIsPublished
  <2>9. StopOwes' BY <1>1, <1>3, <2>1, <2>3 DEF CInv, StopOwes
  <2> QED BY <2>5, <2>6, <2>7, <2>8, <2>9 DEF CInv
<1> QED BY <1>2, <1>3 DEF StartLock

\* start_capture's second half: the new session is in the slot, and any stop
\* still under way makes it a tangled one.
LEMMA StartSessionKeeps == ASSUME CInv, NEW c \in Callers, StartSession(c) PROVE CInv'
PROOF
<1>0. call \in [Callers -> CallType] /\ call[c].pc = "build" /\ lock = c /\ slot = None
  BY DEF StartSession, CInv, CTypes, BuilderHasLock
<1>1. PICK s \in Sessions : session[s] = "none" /\ slot' = s
                              /\ session' = [session EXCEPT ![s] = "waiting"]
  BY DEF StartSession
<1>2. /\ observed' = "Started" /\ readiness' = "Ready" /\ tangled' = StopUnderWay(c)
      /\ demands' = demands /\ call' = [call EXCEPT ![c] = Idle]
  BY DEF StartSession, demandVars, Return
<1>3. call'[c] = Idle /\ \A b \in Callers : b # c => call'[b] = call[b] BY <1>0, <1>2
<1>4. slot' # None BY <1>1 DEF None, Sessions
<1>5. CTypes' BY <1>1, <1>2, IdleType DEF CInv, CTypes
<1>6. BuilderHasLock'
  BY <1>0, <1>3, IdleType DEF CInv, BuilderHasLock
<1>7. NoOrphanSession'
  <2> SUFFICES ASSUME NEW r \in Sessions, session'[r] \in {"waiting", "processing"}, r # s
               PROVE  \E b \in Callers : call'[b].on = r /\ call'[b].pc \in {"signal", "join"}
    BY <1>1 DEF NoOrphanSession, Live
  <2>1. r \in Live BY <1>1 DEF Live, CInv, CTypes
  <2>2. r # slot BY <1>0 DEF None, Sessions
  <2>3. PICK b \in Callers : call[b].on = r /\ call[b].pc \in {"signal", "join"}
    BY <2>1, <2>2 DEF CInv, NoOrphanSession
  <2> QED BY <1>0, <1>3, <2>3
<1>8. RunningIsPublished'
  BY <1>2, <1>3, IdleType DEF RunningIsPublished, StopUnderWay, Stopping
<1>9. StopOwes' BY <1>4 DEF StopOwes
<1> QED BY <1>5, <1>6, <1>7, <1>8, <1>9 DEF CInv

\* The settings cannot be loaded: the lock is released over an empty slot.
LEMMA StartFailsKeeps == ASSUME CInv, NEW c \in Callers, StartFails(c) PROVE CInv'
PROOF
<1>0. call \in [Callers -> CallType] /\ call[c].pc = "build" /\ lock = c /\ slot = None
  BY DEF StartFails, CInv, CTypes, BuilderHasLock
<1>1. /\ observed' = "WorkerError" /\ readiness' # "Ready" /\ call' = [call EXCEPT ![c] = Idle]
      /\ UNCHANGED <<slot, session, demands, client, tangled>>
  BY DEF StartFails, loopVars, demandVars, Return
<1>2. call'[c] = Idle /\ \A b \in Callers : b # c => call'[b] = call[b] BY <1>0, <1>1
<1>3. CTypes' BY <1>1, IdleType DEF CInv, CTypes
<1>4. BuilderHasLock' BY <1>0, <1>2, IdleType DEF CInv, BuilderHasLock
<1>5. NoOrphanSession' BY <1>0, <1>1, <1>2 DEF CInv, NoOrphanSession, Live
<1>6. RunningIsPublished' BY <1>0, <1>1 DEF RunningIsPublished
<1>7. StopOwes' BY <1>0, <1>1, <1>2 DEF CInv, StopOwes
<1> QED BY <1>3, <1>4, <1>5, <1>6, <1>7 DEF CInv

-----------------------------------------------------------------------------
(* stop_capture *)

\* The handle leaves the slot and this caller now owes what was published.
LEMMA StopTakeKeeps == ASSUME CInv, NEW c \in Callers, StopTake(c) PROVE CInv'
PROOF
<1>0. call \in [Callers -> CallType] /\ call[c] \in CallType /\ slot \in Sessions \cup {None}
  BY DEF CInv, CTypes
<1>1. /\ call[c].pc = "take" /\ lock = Free /\ slot' = None
      /\ UNCHANGED <<lock, readiness, observed, session, demands, client>>
  BY DEF StopTake, loopVars, demandVars
<1> DEFINE x == [call[c] EXCEPT !.pc = IF slot = None THEN "disable" ELSE "signal",
                                !.on = IF slot = None THEN 0 ELSE slot]
<1>2. /\ x \in CallType
      /\ slot = None => x.pc = "disable"
      /\ slot # None => x.pc = "signal" /\ x.on = slot
  BY <1>0 DEF CallType, Pcs, None
<1>3. call' = [call EXCEPT ![c] = x] BY <1>0 DEF StopTake
<1>4. call'[c] = x /\ \A b \in Callers : b # c => call'[b] = call[b] BY <1>0, <1>3
<1> HIDE DEF x
<1>5. \A b \in Callers : call[b].pc # "build"
  BY <1>1, CaptureAssumption DEF CInv, BuilderHasLock, Free
<1>6. CTypes' BY <1>1, <1>2, <1>3 DEF CInv, CTypes
<1>7. BuilderHasLock' BY <1>2, <1>4, <1>5 DEF BuilderHasLock
<1>8. NoOrphanSession'
  <2> SUFFICES ASSUME NEW s \in Live
               PROVE  \E b \in Callers : call'[b].on = s /\ call'[b].pc \in {"signal", "join"}
    BY <1>1 DEF NoOrphanSession, Live
  <2>1. s # None BY DEF Live, Sessions, None
  <2>2. CASE slot = s BY <1>2, <1>4, <2>1, <2>2
  <2>3. CASE slot # s BY <1>1, <1>4, <2>3 DEF CInv, NoOrphanSession
  <2> QED BY <2>2, <2>3
<1>9. RunningIsPublished' BY <1>1 DEF RunningIsPublished
<1>10. StopOwes'
  <2>1. CASE slot = None BY <1>1, <1>2, <1>4, <2>1 DEF CInv, StopOwes, Stopping
  <2>2. CASE slot # None BY <1>2, <1>4, <2>2 DEF StopOwes, Stopping
  <2> QED BY <2>1, <2>2
<1> QED BY <1>6, <1>7, <1>8, <1>9, <1>10 DEF CInv

\* The second half of stop_capture, step by step.
LEMMA StopRestKeeps ==
    ASSUME CInv, NEW c \in Callers, StopSignal(c) \/ StopJoin(c) \/ StopDone(c)
    PROVE  CInv'
PROOF
<1>0. call \in [Callers -> CallType] /\ call[c] \in CallType /\ CTypes
  BY DEF CInv, CTypes
<1>1. UNCHANGED <<slot, lock, session, demands, tangled>> /\ call[c].pc \in Stopping
  BY DEF StopSignal, StopJoin, StopDone, loopVars, demandVars, Stopping
<1>2. PICK x \in CallType : /\ call' = [call EXCEPT ![c] = x]
                            /\ StopSignal(c) => x.pc = "join" /\ x.on = call[c].on
                            /\ StopJoin(c) => x.pc = "disable"
                            /\ StopDone(c) => x.pc \in {"start", "idle"}
  <2>1. CASE StopSignal(c)
    <3> DEFINE y == [call[c] EXCEPT !.pc = "join"]
    <3>1. y \in CallType /\ y.pc = "join" /\ y.on = call[c].on BY <1>0 DEF CallType, Pcs
    <3>2. call' = [call EXCEPT ![c] = y] BY <1>0, <2>1 DEF StopSignal, Goto
    <3>3. ~StopJoin(c) /\ ~StopDone(c) BY <2>1 DEF StopSignal, StopJoin, StopDone
    <3> QED BY <3>1, <3>2, <3>3
  <2>2. CASE StopJoin(c)
    <3> DEFINE y == [call[c] EXCEPT !.pc = "disable"]
    <3>1. y \in CallType /\ y.pc = "disable" BY <1>0 DEF CallType, Pcs
    <3>2. call' = [call EXCEPT ![c] = y] BY <1>0, <2>2 DEF StopJoin, Goto
    <3>3. ~StopSignal(c) /\ ~StopDone(c) BY <2>2 DEF StopSignal, StopJoin, StopDone
    <3> QED BY <3>1, <3>2, <3>3
  <2>3. CASE StopDone(c)
    <3> DEFINE y == [call[c] EXCEPT !.pc = "start", !.on = 0]
    <3>1. y \in CallType /\ y.pc = "start" BY <1>0 DEF CallType, Pcs, None
    <3>2. call' = [call EXCEPT ![c] = y] \/ call' = [call EXCEPT ![c] = Idle]
      BY <1>0, <2>3 DEF StopDone, Return
    <3>3. ~StopSignal(c) /\ ~StopJoin(c) BY <2>3 DEF StopSignal, StopJoin, StopDone
    <3> QED BY <3>1, <3>2, <3>3, IdleType
  <2> QED BY <2>1, <2>2, <2>3
<1>3. call'[c] = x /\ \A b \in Callers : b # c => call'[b] = call[b] BY <1>0, <1>2
<1>4. x.pc # "build" BY <1>2
<1>5. CTypes' BY <1>1, <1>2 DEF CInv, CTypes
<1>6. BuilderHasLock' BY <1>1, <1>3, <1>4 DEF CInv, BuilderHasLock
<1>7. RunningIsPublished' BY <1>1 DEF CInv, RunningIsPublished
<1>8. CASE StopSignal(c)
  <2>1. observed' = "CaptureStopped" /\ UNCHANGED <<readiness, client>> /\ call[c].pc = "signal"
    BY <1>8 DEF StopSignal
  <2>2. NoOrphanSession' BY <1>1, <1>2, <1>3, <1>8 DEF CInv, NoOrphanSession, Live
  <2>3. StopOwes' BY <1>2, <1>3, <1>8, <2>1 DEF CInv, StopOwes, Stopping
  <2> QED BY <1>5, <1>6, <1>7, <2>2, <2>3 DEF CInv
<1>9. CASE StopJoin(c)
  <2>1. /\ observed' \in {observed, "WorkerError"} /\ client' = FALSE /\ call[c].pc = "join"
        /\ session[call[c].on] \in {"ended", "panicked"}
    BY <1>9 DEF StopJoin
  <2>2. call[c].on \notin Live BY <2>1 DEF Live
  <2>3. NoOrphanSession' BY <1>1, <1>3, <2>2 DEF CInv, NoOrphanSession, Live
  <2>4. StopOwes' BY <1>1, <1>2, <1>3, <1>9, <2>1 DEF CInv, StopOwes, Stopping
  <2> QED BY <1>5, <1>6, <1>7, <2>3, <2>4 DEF CInv
<1>10. CASE StopDone(c)
  <2>1. readiness' = "Disabled" /\ UNCHANGED <<observed, client>> /\ call[c].pc = "disable"
    BY <1>10 DEF StopDone
  <2>2. NoOrphanSession' BY <1>1, <1>3, <2>1 DEF CInv, NoOrphanSession, Live
  <2>3. StopOwes' BY <1>1, <1>3, <2>1 DEF CInv, StopOwes, Stopping
  <2> QED BY <1>5, <1>6, <1>7, <2>2, <2>3 DEF CInv
<1> QED BY <1>8, <1>9, <1>10

-----------------------------------------------------------------------------
(* The loop *)

\* A step of a live session, which may connect the client or log an error.
LEMMA LoopMoves ==
    ASSUME CInv, NEW s \in Live,
           NEW v \in {"waiting", "processing", "exiting", "ended", "panicked"},
           session' = [session EXCEPT ![s] = v],
           UNCHANGED <<slot, lock, readiness, call, tangled, demands>>,
           observed' \in {observed, "WorkerError"}, client' \in {client, TRUE}
    PROVE  CInv'
PROOF
<1>0. s \in Sessions BY DEF Live
<1>1. CTypes' BY <1>0 DEF CInv, CTypes
<1>2. Live' \subseteq Live BY <1>0 DEF Live, CInv, CTypes
<1>3. BuilderHasLock' BY DEF CInv, BuilderHasLock
<1>4. NoOrphanSession' BY <1>2 DEF CInv, NoOrphanSession
<1>5. RunningIsPublished' BY DEF CInv, RunningIsPublished
<1>6. StopOwes'
  <2>1. ASSUME slot = None PROVE \E c \in Callers : call[c].pc \in {"signal", "join"}
    <3>1. slot # s BY <1>0, <2>1 DEF None, Sessions
    <3> QED BY <3>1 DEF CInv, NoOrphanSession
  <2>2. slot' = None => (client' => \E c \in Callers : call'[c].pc \in {"signal", "join"})
    BY <2>1
  <2>3. slot' = None =>
            /\ readiness' = "Ready" => \E c \in Callers : call'[c].pc \in Stopping
            /\ observed' = "Started" => \E c \in Callers : call'[c].pc = "signal"
    BY DEF CInv, StopOwes
  <2> QED BY <2>2, <2>3 DEF StopOwes
<1> QED BY <1>1, <1>3, <1>4, <1>5, <1>6 DEF CInv

\* Every step of the loop and of its source but the last.
LEMMA LoopKeeps ==
    ASSUME CInv, NEW s \in Sessions,
           \/ LoopStops(s) \/ SourceCaptures(s) \/ SourceServes(s) \/ LoopTakes(s)
           \/ FrameStored(s) \/ FrameDropped(s) \/ SourceFails(s) \/ LoopPanics(s)
           \/ SourceShutsDown(s)
    PROVE  CInv'
PROOF
<1>1. s \in Live
  BY DEF Live, LoopStops, SourceCaptures, SourceServes, LoopTakes, FrameStored, FrameDropped,
         SourceFails, LoopPanics, SourceShutsDown, Selecting
<1>2. UNCHANGED <<slot, lock, readiness, call, tangled, demands>>
  BY DEF LoopStops, SourceCaptures, SourceServes, LoopTakes, FrameStored, FrameDropped,
         SourceFails, LoopPanics, SourceShutsDown, controlVars, demandVars
<1>3. observed' \in {observed, "WorkerError"} /\ client' \in {client, TRUE}
  BY DEF LoopStops, SourceCaptures, SourceServes, LoopTakes, FrameStored, FrameDropped,
         SourceFails, LoopPanics, SourceShutsDown, controlVars
<1>4. CASE SourceCaptures(s) \/ SourceServes(s) \/ SourceFails(s)
  <2>1. session' = session /\ session[s] = "waiting"
    BY <1>4 DEF SourceCaptures, SourceServes, SourceFails, Selecting, loopVars
  <2>2. session' = [session EXCEPT ![s] = "waiting"] BY <2>1 DEF CInv, CTypes
  <2> QED BY <1>1, <1>2, <1>3, <2>2, LoopMoves
<1>5. CASE LoopStops(s) \/ LoopTakes(s) \/ FrameStored(s) \/ FrameDropped(s) \/ LoopPanics(s)
           \/ SourceShutsDown(s)
  <2>1. \E v \in {"waiting", "processing", "exiting", "ended", "panicked"} :
            session' = [session EXCEPT ![s] = v]
    BY <1>5 DEF LoopStops, LoopTakes, FrameStored, FrameDropped, LoopPanics, SourceShutsDown
  <2> QED BY <1>1, <1>2, <1>3, <2>1, LoopMoves
<1> QED BY <1>4, <1>5

\* The task of a session whose source shut down retires the slot it still
\* holds, and no other.
LEMMA ExitSessionKeeps == ASSUME CInv, NEW s \in Sessions, ExitSession(s) PROVE CInv'
PROOF
<1>1. /\ session[s] = "exiting" /\ lock = Free /\ session' = [session EXCEPT ![s] = "ended"]
      /\ UNCHANGED <<lock, call, tangled, demands>>
      /\ IF slot = s
           THEN slot' = None /\ observed' = "WorkerError" /\ readiness' = "Error" /\ client' = FALSE
           ELSE UNCHANGED <<slot, observed, readiness, client>>
  BY DEF ExitSession, SessionEnded, demandVars
<1>2. Live' \subseteq Live /\ s \notin Live BY <1>1 DEF Live, CInv, CTypes
<1>3. \A c \in Callers : call[c].pc # "build"
  BY <1>1, CaptureAssumption DEF CInv, BuilderHasLock, Free
<1>4. CTypes' BY <1>1 DEF CInv, CTypes
<1>5. BuilderHasLock' BY <1>1, <1>3 DEF BuilderHasLock
<1>6. NoOrphanSession' BY <1>1, <1>2 DEF CInv, NoOrphanSession
<1>7. RunningIsPublished' BY <1>1 DEF CInv, RunningIsPublished
<1>8. StopOwes' BY <1>1 DEF CInv, StopOwes
<1> QED BY <1>4, <1>5, <1>6, <1>7, <1>8 DEF CInv

-----------------------------------------------------------------------------
(* The theorems *)

\* Init establishes CInv and every step keeps it.
LEMMA CaptureInvariant == Spec => []CInv
PROOF
<1>1. Init => CInv
  <2> SUFFICES ASSUME Init PROVE CInv OBVIOUS
  <2>1. \A c \in Callers : call[c] = Idle BY DEF Init
  <2>2. CTypes BY IdleType DEF Init, CTypes
  <2>3. BuilderHasLock BY <2>1, IdleType DEF BuilderHasLock
  <2>4. NoOrphanSession BY DEF Init, NoOrphanSession, Live
  <2>5. RunningIsPublished /\ StopOwes BY DEF Init, RunningIsPublished, StopOwes
  <2> QED BY <2>2, <2>3, <2>4, <2>5 DEF CInv
<1>2. CInv /\ [Next]_vars => CInv'
  <2> SUFFICES ASSUME CInv, [Next]_vars PROVE CInv' OBVIOUS
  <2>1. ASSUME NEW c \in Callers, CallerStep(c) PROVE CInv'
    BY <2>1, StartLockKeeps, StartSessionKeeps, StartFailsKeeps, StopTakeKeeps, StopRestKeeps,
       DemandSteps DEF CallerStep
  <2>2. ASSUME NEW c \in Callers, NEW op \in {"start", "stop", "reload", "mark"}, Call(c, op)
        PROVE  CInv'
    BY <2>2, DemandSteps
  <2>3. ASSUME NEW s \in Sessions, \/ LoopStep(s) \/ SourceCaptures(s) \/ LoopPanics(s)
                                   \/ SourceFails(s) \/ SourceShutsDown(s)
        PROVE  CInv'
    BY <2>3, LoopKeeps, ExitSessionKeeps DEF LoopStep
  <2>4. CASE UNCHANGED vars
    <3>1. UNCHANGED <<slot, lock, readiness, observed, session, call, client, tangled, demands>>
      BY <2>4 DEF vars, controlVars, loopVars, demandVars
    <3> QED BY <3>1 DEF CInv, CTypes, BuilderHasLock, NoOrphanSession, RunningIsPublished,
                        StopOwes, Live
  <2> QED BY <2>1, <2>2, <2>3, <2>4 DEF Next
<1> QED BY <1>1, <1>2, PTL DEF Spec

\* No session of the capture loop is left running that nothing can stop: it is
\* the one in the slot, or a stop_capture that is not finished holds its handle
\* (start_capture, stop_capture and the exiting task, lib.rs).
THEOREM NoSessionIsOrphaned == Spec => []NoOrphanSession
PROOF BY CaptureInvariant, PTL DEF CInv

\* At rest nobody is inside stop_capture.
LEMMA SettledOwesNothing ==
    ASSUME Settled PROVE \A c \in Callers : call[c].pc \notin Stopping
PROOF BY IdleType DEF Settled, Stopping

\* Once the calls have returned, readiness and the capture log agree with the
\* slot, whatever the callers' order, unless the running session was started
\* during another call's stop_capture (publish and record calls of
\* start_capture, stop_capture and the exiting task, lib.rs).
THEOREM RestIsTruthful == Spec => []SettledTruth
PROOF
<1>1. CInv => SettledTruth
  <2> SUFFICES ASSUME CInv, Settled, ~tangled
               PROVE  /\ readiness = "Ready" <=> slot # None
                      /\ slot = None => observed # "Started"
                      /\ slot # None => observed # "CaptureStopped"
    BY DEF SettledTruth
  <2> QED BY SettledOwesNothing DEF CInv, RunningIsPublished, StopOwes, Stopping
<1> QED BY <1>1, CaptureInvariant, PTL

\* Once the calls have returned with capture off, the accessibility client has
\* been released (on_capture_stopped in stop_capture and in the exiting task).
THEOREM ClientIsReleased == Spec => []ClientReleased
PROOF
<1>1. CInv => ClientReleased
  BY SettledOwesNothing DEF CInv, StopOwes, ClientReleased, Stopping
<1> QED BY <1>1, CaptureInvariant, PTL

-----------------------------------------------------------------------------
(***************************************************************************)
(* The demands.  A demand is at most in one place: a request in a channel, *)
(* a frame in a source's queue, the frame of a loop, or an answer.  DInv   *)
(* follows it through them.                                                *)
(***************************************************************************)

\* The demands whose request, or whose demanded frame, session s holds.
Asked(s) == {channel[s][i] : i \in 1..Len(channel[s])}
Captured(s) == {queue[s][i].of : i \in {j \in 1..Len(queue[s]) : queue[s][j].demanded}}
InHand(s) == IF frame[s].demanded THEN {frame[s].of} ELSE {}
Held(s) == Asked(s) \cup Captured(s) \cup InHand(s)

\* The demands whose frame answered one.
Used == {answer[d].of : d \in {e \in Demands : answer[e] # NoFrame}}

\* The points of capture_now inside its gate, and those after it registered.
Gated == {"sender", "send", "ack", "frame"}
Registered == {"send", "ack", "frame"}

\* The callers of capture_now, and those of them still to register, fit in
\* what is left of the demands.
Marking == {c \in Callers : call[c].op = "mark"}
Unregistered == {c \in Callers : call[c].pc \in {"gate", "sender"}}
DemandsFit ==
    /\ IsFiniteSet(Marking)
    /\ Unregistered \subseteq Marking
    /\ Cardinality(Unregistered) + demands <= MaxDemands

\* capture_now is one call at a time, and the demand registered is its own.
GateIsHeld ==
    /\ \A c \in Callers : call[c].pc \in Gated => gate = c
    /\ \A c \in Callers : call[c].pc \in Registered =>
          call[c].demand \in 1..demands /\ (pending = 0 \/ pending = call[c].demand)
    /\ pending \in 0..demands

\* A stop between take and join, and a demand on its way, know their session.
SessionIsKnown == \A c \in Callers : call[c].pc \in {"signal", "join", "send"} => call[c].on \in Sessions

\* A session that no longer runs holds nothing.
DeadHoldNothing ==
    \A s \in Sessions \ Live : channel[s] = <<>> /\ queue[s] = <<>> /\ frame[s] = NoFrame

\* Work is for demands made, and only demanded frames are answers.
WorkIsKnown ==
    /\ \A s \in Sessions : Held(s) \subseteq 1..demands
    /\ Used \subseteq 1..demands
    /\ \A d \in Demands : answer[d] # NoFrame => answer[d].demanded /\ d <= demands
    /\ clean \subseteq 1..demands

\* One demand, one place.
OnePlace ==
    /\ \A s \in Sessions : \A i, j \in 1..Len(channel[s]) : channel[s][i] = channel[s][j] => i = j
    /\ \A s \in Sessions : \A i, j \in 1..Len(queue[s]) :
          queue[s][i].demanded /\ queue[s][j].demanded => i = j
    /\ \A s \in Sessions : /\ Asked(s) \cap Captured(s) = {}
                           /\ Asked(s) \cap InHand(s) = {}
                           /\ Captured(s) \cap InHand(s) = {}
                           /\ Held(s) \cap Used = {}
    /\ \A s, r \in Sessions : s # r => Held(s) \cap Held(r) = {}

\* A demand about to be sent is nowhere yet.
SentIsFresh ==
    \A c \in Callers : call[c].pc = "send" =>
        /\ call[c].demand \notin Used
        /\ \A s \in Sessions : call[c].demand \notin Held(s)

\* While a clean demand is registered no session works for another one, so its
\* answer is its own frame.
CleanIsAlone ==
    /\ pending \in clean => \A s \in Sessions : Held(s) \subseteq {pending}
    /\ \A d \in clean : answer[d] # NoFrame => answer[d].of = d

DInv ==
    /\ TypeOK /\ DemandsFit /\ GateIsHeld /\ SessionIsKnown /\ DeadHoldNothing /\ WorkIsKnown
    /\ OnePlace /\ OneFrameOneMark /\ SentIsFresh /\ CleanIsAlone

\* TypeOK in three parts: what the controller keeps, the calls, the demands.
CallRange == [op : Ops, pc : Pcs, on : 0..MaxSessions, demand : 0..MaxDemands]
ControlTypes ==
    /\ slot \in Sessions \cup {None} /\ lock \in Callers \cup {Free}
    /\ ocrUsable \in BOOLEAN /\ client \in BOOLEAN /\ tangled \in BOOLEAN
    /\ readiness \in {"Disabled", "Unavailable", "Initializing", "Ready", "Error"}
    /\ observed \in {"Started", "CaptureStopped", "WorkerError"}
    /\ session \in [Sessions -> {"none", "waiting", "processing", "exiting", "ended", "panicked"}]
    /\ stopSent \subseteq Sessions
    /\ calls \in 0..MaxCalls /\ faults \in 0..MaxFaults
DemandTypes ==
    /\ queue \in [Sessions -> Seq(Frame)] /\ channel \in [Sessions -> Seq(Demands)]
    /\ frame \in [Sessions -> Frame]
    /\ pending \in 0..MaxDemands /\ gate \in Callers \cup {Free}
    /\ ack \in [Demands -> {"none", "ok", "denied", "dropped"}]
    /\ answer \in [Demands -> Frame]
    /\ demands \in 0..MaxDemands
    /\ clean \subseteq Demands
    /\ \A s \in Sessions : Len(channel[s]) <= ChanCap

\* The parts are the whole.
LEMMA TypesOf == TypeOK <=> ControlTypes /\ DemandTypes /\ call \in [Callers -> CallRange]
PROOF BY DEF TypeOK, ControlTypes, DemandTypes, CallRange, Ops, Pcs

\* A call that returns or moves on is a call.
LEMMA CallGoesOn ==
    ASSUME call \in [Callers -> CallRange], NEW c \in Callers
    PROVE  /\ Idle \in CallRange /\ Idle.op = "idle" /\ Idle.pc = "idle"
           /\ Return(c) => call' = [call EXCEPT ![c] = Idle]
           /\ \A pc \in Pcs : Goto(c, pc) =>
                 \E x \in CallRange : /\ call' = [call EXCEPT ![c] = x]
                                      /\ x.op = call[c].op /\ x.pc = pc
                                      /\ x.on = call[c].on /\ x.demand = call[c].demand
PROOF
<1>1. Idle \in CallRange /\ Idle.op = "idle" /\ Idle.pc = "idle"
  BY CaptureAssumption DEF Idle, CallRange, Ops, Pcs
<1>2. ASSUME NEW pc \in Pcs, Goto(c, pc)
      PROVE  \E x \in CallRange : /\ call' = [call EXCEPT ![c] = x]
                                  /\ x.op = call[c].op /\ x.pc = pc
                                  /\ x.on = call[c].on /\ x.demand = call[c].demand
  <2> DEFINE x == [call[c] EXCEPT !.pc = pc]
  <2>1. x \in CallRange /\ x.op = call[c].op /\ x.pc = pc /\ x.on = call[c].on /\ x.demand = call[c].demand
    BY DEF CallRange
  <2>2. call' = [call EXCEPT ![c] = x] BY <1>2 DEF Goto
  <2> QED BY <2>1, <2>2
<1> QED BY <1>1, <1>2 DEF Return

\* A caller outside capture_now.
Outside == Pcs \ (Gated \cup {"gate"})

\* A step of start, stop or reload stays outside capture_now and keeps its type.
LEMMA ControlStep ==
    ASSUME DInv, NEW c \in Callers,
           \/ StartLock(c) \/ StartSession(c) \/ StartFails(c) \/ StopTake(c) \/ StopSignal(c)
           \/ StopJoin(c) \/ StopDone(c) \/ ReloadCheck(c)
    PROVE  /\ \E x \in CallRange : /\ call' = [call EXCEPT ![c] = x]
                                   /\ x.op \in {call[c].op, "idle"} /\ x.pc \in Outside
                                   /\ x.pc \in {"signal", "join"} => x.on \in Sessions
           /\ call[c].pc \in Outside
           /\ UNCHANGED <<queue, channel, frame, pending, gate, ack, answer, demands, clean>>
           /\ ControlTypes' /\ Live \subseteq Live'
PROOF
<1>0. ControlTypes /\ call \in [Callers -> CallRange] /\ call[c] \in CallRange
  BY TypesOf DEF DInv
<1>1. UNCHANGED <<queue, channel, frame, pending, gate, ack, answer, demands, clean>>
  BY DEF StartLock, StartSession, StartFails, StopTake, StopSignal, StopJoin, StopDone, ReloadCheck,
         loopVars, demandVars
<1>2. call[c].pc \in Outside
  BY DEF StartLock, StartSession, StartFails, StopTake, StopSignal, StopJoin, StopDone, ReloadCheck,
         Outside, Gated, Pcs
<1>3. {"idle", "start", "build", "take", "signal", "join", "disable"} \subseteq Outside
      /\ {"idle", "start", "build", "take", "signal", "join", "disable"} \subseteq Pcs
  BY DEF Outside, Gated, Pcs
<1>4. ASSUME \/ Return(c)
             \/ \E pc \in {"start", "build", "take", "disable"} : Goto(c, pc)
      PROVE  \E x \in CallRange : /\ call' = [call EXCEPT ![c] = x]
                                  /\ x.op \in {call[c].op, "idle"} /\ x.pc \in Outside
                                  /\ x.pc \in {"signal", "join"} => x.on \in Sessions
  BY <1>0, <1>3, <1>4, CallGoesOn
<1>5. CASE StartLock(c)
  <2>1. Return(c) \/ Goto(c, "build") BY <1>5 DEF StartLock
  <2>2. ControlTypes' /\ Live' = Live
    BY <1>0, <1>5 DEF StartLock, ControlTypes, Live, loopVars, countVars
  <2> QED BY <1>1, <1>2, <1>4, <2>1, <2>2
<1>6. CASE StartSession(c)
  <2>1. Return(c) BY <1>6 DEF StartSession
  <2>2. PICK s \in Sessions : session[s] = "none" /\ slot' = s
                                /\ session' = [session EXCEPT ![s] = "waiting"]
    BY <1>6 DEF StartSession
  <2>3. tangled' \in BOOLEAN BY <1>6 DEF StartSession, StopUnderWay
  <2>4. /\ observed' = "Started" /\ readiness' = "Ready" /\ lock' = Free
        /\ UNCHANGED <<ocrUsable, stopSent, client, calls, faults>>
    BY <1>6 DEF StartSession, countVars
  <2>5. ControlTypes' BY <1>0, <2>2, <2>3, <2>4 DEF ControlTypes
  <2>6. Live \subseteq Live' BY <1>0, <2>2 DEF Live, ControlTypes
  <2> QED BY <1>1, <1>2, <1>4, <2>1, <2>5, <2>6
<1>7. CASE StartFails(c)
  <2>1. Return(c) BY <1>7 DEF StartFails
  <2>2. ControlTypes' /\ Live' = Live
    BY <1>0, <1>7, CaptureAssumption DEF StartFails, ControlTypes, Live, loopVars, Fault
  <2> QED BY <1>1, <1>2, <1>4, <2>1, <2>2
<1>8. CASE StopTake(c)
  <2> DEFINE x == [call[c] EXCEPT !.pc = IF slot = None THEN "disable" ELSE "signal",
                                  !.on = IF slot = None THEN 0 ELSE slot]
  <2>0. 0 \in 0..MaxSessions /\ Sessions \subseteq 0..MaxSessions /\ (slot = None \/ slot \in Sessions)
    BY <1>0, CaptureAssumption DEF Sessions, ControlTypes
  <2>1. x \in CallRange /\ x.op = call[c].op
        /\ (x.pc = "disable" \/ (x.pc = "signal" /\ x.on \in Sessions))
    <3>1. CASE slot = None BY <1>0, <2>0, <3>1 DEF CallRange, Pcs
    <3>2. CASE slot # None BY <1>0, <2>0, <3>2 DEF CallRange, Pcs
    <3> QED BY <3>1, <3>2
  <2>2. call' = [call EXCEPT ![c] = x] BY <1>0, <1>8 DEF StopTake
  <2> HIDE DEF x
  <2>3. tangled' \in BOOLEAN BY <1>8, <1>0 DEF StopTake, StopUnderWay, ControlTypes
  <2>4. slot' = None /\ UNCHANGED <<lock, readiness, observed, ocrUsable, session, stopSent,
                                    client, calls, faults>>
    BY <1>8 DEF StopTake, loopVars, countVars
  <2>5. ControlTypes' /\ Live' = Live BY <1>0, <2>3, <2>4 DEF ControlTypes, Live
  <2> QED BY <1>1, <1>2, <1>3, <2>1, <2>2, <2>5
<1>9. CASE StopSignal(c)
  <2>0. call[c].on \in Sessions BY <1>9 DEF StopSignal, DInv, SessionIsKnown
  <2>1. Goto(c, "join") BY <1>9 DEF StopSignal
  <2>2. ControlTypes' /\ Live' = Live
    BY <1>0, <1>9, <2>0 DEF StopSignal, ControlTypes, Live, loopVars, countVars
  <2>3. \E x \in CallRange : /\ call' = [call EXCEPT ![c] = x]
                            /\ x.op = call[c].op /\ x.pc = "join" /\ x.on = call[c].on
    BY <1>0, <1>3, <2>1, CallGoesOn
  <2> QED BY <1>1, <1>2, <1>3, <2>0, <2>2, <2>3
<1>10. CASE StopJoin(c)
  <2>1. Goto(c, "disable") BY <1>10 DEF StopJoin
  <2>2. ControlTypes' /\ Live' = Live
    BY <1>0, <1>10 DEF StopJoin, ControlTypes, Live, loopVars, countVars
  <2> QED BY <1>1, <1>2, <1>4, <2>1, <2>2
<1>11. CASE StopDone(c)
  <2>1. ControlTypes' /\ Live' = Live
    BY <1>0, <1>11 DEF StopDone, ControlTypes, Live, loopVars, countVars
  <2>2. CASE Return(c) BY <1>1, <1>2, <1>4, <2>1, <2>2
  <2>3. CASE ~Return(c)
    <3> DEFINE x == [call[c] EXCEPT !.pc = "start", !.on = 0]
    <3>1. x \in CallRange /\ x.op = call[c].op /\ x.pc = "start"
      <4>1. 0 \in 0..MaxSessions BY CaptureAssumption
      <4> QED BY <1>0, <4>1 DEF CallRange, Pcs
    <3>2. call' = [call EXCEPT ![c] = x] BY <1>0, <1>11, <2>3 DEF StopDone
    <3> HIDE DEF x
    <3> QED BY <1>1, <1>2, <1>3, <2>1, <3>1, <3>2
  <2> QED BY <2>2, <2>3
<1>12. CASE ReloadCheck(c)
  <2>1. Return(c) \/ Goto(c, "take") BY <1>12 DEF ReloadCheck
  <2>2. ControlTypes' /\ Live' = Live
    BY <1>0, <1>12 DEF ReloadCheck, ControlTypes, Live, controlVars, loopVars, countVars
  <2> QED BY <1>1, <1>2, <1>4, <2>1, <2>2
<1> QED BY <1>5, <1>6, <1>7, <1>8, <1>9, <1>10, <1>11, <1>12

\* The parts are the whole after a step, too.
LEMMA TypesAfter ==
    ASSUME ControlTypes', DemandTypes', call' \in [Callers -> CallRange] PROVE TypeOK'
PROOF BY DEF TypeOK, ControlTypes, DemandTypes, CallRange, Ops, Pcs

\* A step that moves no work and makes no demand leaves the places alone.
LEMMA PlacesStay ==
    ASSUME DInv, UNCHANGED <<queue, channel, frame, answer, demands, clean>>,
           pending' \in {pending, 0}, Live \subseteq Live'
    PROVE  DeadHoldNothing' /\ WorkIsKnown' /\ OnePlace' /\ OneFrameOneMark' /\ CleanIsAlone'
PROOF
<1>1. /\ \A s : Asked(s)' = Asked(s) /\ Captured(s)' = Captured(s) /\ InHand(s)' = InHand(s)
      /\ \A s : Held(s)' = Held(s)
      /\ Used' = Used
  BY DEF Asked, Captured, InHand, Held, Used
<1>2. DeadHoldNothing' BY DEF DInv, DeadHoldNothing
<1>3. WorkIsKnown' BY <1>1 DEF DInv, WorkIsKnown
<1>4. OnePlace' BY <1>1 DEF DInv, OnePlace
<1>5. OneFrameOneMark' BY DEF DInv, OneFrameOneMark
<1>6. 0 \notin clean BY DEF DInv, WorkIsKnown
<1>7. CleanIsAlone' BY <1>1, <1>6 DEF DInv, CleanIsAlone
<1> QED BY <1>2, <1>3, <1>4, <1>5, <1>7

\* A call that is over, or moves on, makes room for others.
LEMMA MarkingShrinks ==
    ASSUME DemandsFit, call \in [Callers -> CallRange], demands \in Nat, NEW c \in Callers, NEW x,
           call' = [call EXCEPT ![c] = x], x.op \in {call[c].op, "idle"},
           x.pc \in {"gate", "sender"} => call[c].pc \in {"gate", "sender"} /\ x.op = call[c].op,
           demands' = demands
    PROVE  DemandsFit'
PROOF
<1>1. call'[c] = x /\ \A b \in Callers : b # c => call'[b] = call[b] OBVIOUS
<1>2. Marking' \subseteq Marking BY <1>1 DEF Marking
<1>3. Unregistered' \subseteq Unregistered BY <1>1 DEF Unregistered
<1>4. Unregistered' \subseteq Marking' BY <1>1 DEF DemandsFit, Unregistered, Marking
<1>5. IsFiniteSet(Unregistered) /\ IsFiniteSet(Marking) /\ IsFiniteSet(Marking')
  BY <1>2, FS_Subset DEF DemandsFit
<1>6. Cardinality(Unregistered') <= Cardinality(Unregistered) BY <1>3, <1>5, FS_Subset
<1>7. Cardinality(Unregistered') \in Nat /\ Cardinality(Unregistered) \in Nat
  BY <1>3, <1>5, FS_Subset, FS_CardinalityType
<1>8. Cardinality(Unregistered') + demands' <= MaxDemands
  BY <1>6, <1>7, CaptureAssumption DEF DemandsFit
<1> QED BY <1>4, <1>5, <1>8 DEF DemandsFit

\* A caller's step that neither registers nor sends a demand.
LEMMA CallerKeeps ==
    ASSUME DInv, NEW c \in Callers, NEW x \in CallRange, call' = [call EXCEPT ![c] = x],
           UNCHANGED <<queue, channel, frame, ack, answer, demands, clean>>,
           pending' \in {pending, 0}, Live \subseteq Live', ControlTypes', DemandsFit',
           x.pc \in Gated => gate' = c,
           x.pc \in Registered => call[c].pc \in Registered /\ x.demand = call[c].demand,
           x.pc \in {"signal", "join"} => x.on \in Sessions, x.pc # "send",
           gate' = gate \/ (gate = Free /\ gate' = c) \/ (gate = c /\ gate' = Free /\ x.pc \notin Gated)
    PROVE  DInv'
PROOF
<1>0. DemandTypes /\ call \in [Callers -> CallRange] BY TypesOf DEF DInv
<1>1. call'[c] = x /\ \A b \in Callers : b # c => call'[b] = call[b] BY <1>0
<1>2. DemandTypes' BY <1>0, CaptureAssumption DEF DemandTypes
<1>3. TypeOK' BY <1>0, <1>2, TypesAfter
<1>4. GateIsHeld'
  <2>0. pending' \in 0..demands'
    <3>1. demands \in Nat BY <1>0, CaptureAssumption DEF DemandTypes
    <3> QED BY <3>1 DEF DInv, GateIsHeld
  <2> SUFFICES ASSUME NEW b \in Callers, call'[b].pc \in Gated
               PROVE  /\ gate' = b
                      /\ call'[b].pc \in Registered =>
                           call'[b].demand \in 1..demands' /\ (pending' = 0 \/ pending' = call'[b].demand)
    BY <1>0, <2>0 DEF GateIsHeld, Gated, Registered
  <2>1. CASE b = c BY <1>1, <2>1 DEF DInv, GateIsHeld
  <2>2. CASE b # c
    <3>1. gate = b BY <1>1, <2>2 DEF DInv, GateIsHeld
    <3>2. gate' = b BY <2>2, <3>1, CaptureAssumption DEF Free
    <3> QED BY <1>1, <2>2, <3>2 DEF DInv, GateIsHeld
  <2> QED BY <2>1, <2>2
<1>5. SessionIsKnown' BY <1>1 DEF DInv, SessionIsKnown
<1>6. DeadHoldNothing' /\ WorkIsKnown' /\ OnePlace' /\ OneFrameOneMark' /\ CleanIsAlone'
  BY PlacesStay
<1>7. SentIsFresh'
  <2>1. Used' = Used /\ \A s : Held(s)' = Held(s)
    BY DEF Used, Held, Asked, Captured, InHand
  <2> QED BY <1>1, <2>1 DEF DInv, SentIsFresh
<1> QED BY <1>3, <1>4, <1>5, <1>6, <1>7 DEF DInv

\* start, stop and reload.
LEMMA ControlKeeps ==
    ASSUME DInv, NEW c \in Callers,
           \/ StartLock(c) \/ StartSession(c) \/ StartFails(c) \/ StopTake(c) \/ StopSignal(c)
           \/ StopJoin(c) \/ StopDone(c) \/ ReloadCheck(c)
    PROVE  DInv'
PROOF
<1>0. DemandTypes /\ call \in [Callers -> CallRange] BY TypesOf DEF DInv
<1>1. PICK x \in CallRange : /\ call' = [call EXCEPT ![c] = x]
                             /\ x.op \in {call[c].op, "idle"} /\ x.pc \in Outside
                             /\ x.pc \in {"signal", "join"} => x.on \in Sessions
  BY ControlStep
<1>2. /\ UNCHANGED <<queue, channel, frame, pending, gate, ack, answer, demands, clean>>
      /\ ControlTypes' /\ Live \subseteq Live'
  BY ControlStep
<1>3. x.pc \notin {"gate", "sender"} /\ x.pc \notin Gated /\ x.pc \notin Registered /\ x.pc # "send"
  BY <1>1 DEF Outside, Gated, Registered
<1>4. demands \in Nat /\ DemandsFit BY <1>0 DEF DemandTypes, DInv
<1>5. DemandsFit' BY <1>0, <1>1, <1>2, <1>3, <1>4, MarkingShrinks
<1> QED BY <1>1, <1>2, <1>3, <1>5, CallerKeeps

\* A command enters the kernel; a capture_now finds a demand left for it.
LEMMA CallEnters ==
    ASSUME DInv, NEW c \in Callers, NEW op \in {"start", "stop", "reload", "mark"}, Call(c, op)
    PROVE  DInv'
PROOF
<1>0. /\ ControlTypes /\ DemandTypes /\ call \in [Callers -> CallRange] /\ demands \in Nat
      /\ DemandsFit /\ call[c].pc = "idle"
  BY TypesOf, CallGoesOn DEF DInv, DemandTypes, Call
<1> DEFINE x == [op |-> op, on |-> 0, demand |-> 0,
                 pc |-> CASE op = "start" -> "start" [] op = "stop" -> "take"
                          [] op = "reload" -> "check" [] op = "mark" -> "gate"]
<1>1. /\ call' = [call EXCEPT ![c] = x]
      /\ UNCHANGED <<slot, lock, readiness, observed, ocrUsable, session, queue, frame, stopSent,
                     channel, pending, gate, ack, answer, demands, clean, client, faults, tangled>>
      /\ calls < MaxCalls /\ calls' = calls + 1
  BY DEF Call, Room, controlVars, loopVars, demandVars
<1>2. 0 \in 0..MaxSessions /\ 0 \in 0..MaxDemands BY CaptureAssumption
<1>3. /\ x \in CallRange /\ x.op = op /\ x.pc \in {"start", "take", "check", "gate"}
      /\ x.pc = "gate" <=> op = "mark"
  BY <1>2 DEF CallRange, Ops, Pcs
<1> HIDE DEF x
<1>4. call'[c] = x /\ \A b \in Callers : b # c => call'[b] = call[b] BY <1>0, <1>1
<1>5. ControlTypes' /\ Live' = Live
  BY <1>0, <1>1, CaptureAssumption DEF ControlTypes, Live
<1>6. DemandsFit'
  <2>1. CASE op # "mark"
    <3>1. Unregistered' = Unregistered /\ Marking' = Marking
      <4>1. call[c].op # "mark"
        BY DEF Call, Idle
      <4> QED BY <1>0, <1>3, <1>4, <2>1, <4>1 DEF Unregistered, Marking
    <3> QED BY <1>0, <1>1, <3>1 DEF DemandsFit
  <2>2. CASE op = "mark"
    <3>1. {b \in Callers : call[b].op \in {"mark"}} = Marking BY DEF Marking
    <3>2. Cardinality(Marking) < MaxDemands - demands
      BY <2>2, <3>1 DEF Call, Room
    <3>3. Marking' = Marking \cup {c} BY <1>3, <1>4, <2>2 DEF Marking
    <3>4. Unregistered' \subseteq Marking'
      BY <1>0, <1>3, <1>4, <2>2, <3>3 DEF DemandsFit, Unregistered
    <3>5. IsFiniteSet(Marking) /\ IsFiniteSet(Marking')
          /\ Cardinality(Marking) \in Nat /\ Cardinality(Marking') \in Nat
      BY <1>0, <3>3, FS_AddElement, FS_CardinalityType DEF DemandsFit
    <3>6. Cardinality(Marking') <= Cardinality(Marking) + 1
      BY <3>3, <3>5, FS_AddElement
    <3>7. IsFiniteSet(Unregistered') /\ Cardinality(Unregistered') <= Cardinality(Marking')
          /\ Cardinality(Unregistered') \in Nat
      BY <3>4, <3>5, FS_Subset, FS_CardinalityType
    <3>8. Cardinality(Unregistered') + demands <= MaxDemands
      BY <1>0, <3>2, <3>5, <3>6, <3>7, CaptureAssumption
    <3> QED BY <1>1, <3>4, <3>5, <3>8 DEF DemandsFit
  <2> QED BY <2>1, <2>2
<1> QED BY <1>1, <1>3, <1>5, <1>6, CallerKeeps DEF Gated, Registered

\* The steps of capture_now that neither register nor send.
LEMMA MarkKeeps ==
    ASSUME DInv, NEW c \in Callers,
           \/ DemandGate(c) \/ DemandAcked(c) \/ DemandAnswered(c) \/ DemandTimesOut(c)
           \/ DemandSend(c) /\ Closed(call[c].on)
           \/ DemandRegister(c) /\ slot = None
    PROVE  DInv'
PROOF
<1>0. /\ ControlTypes /\ DemandTypes /\ call \in [Callers -> CallRange] /\ demands \in Nat
      /\ DemandsFit
  BY TypesOf DEF DInv, DemandTypes
<1>1. /\ UNCHANGED <<slot, lock, readiness, observed, ocrUsable, session, queue, frame, stopSent,
                     channel, ack, answer, demands, clean, client, calls, faults, tangled>>
  BY DEF DemandGate, DemandAcked, DemandAnswered, DemandTimesOut, DemandSend, DemandRegister,
         controlVars, loopVars, countVars
<1>2. ControlTypes' /\ Live' = Live BY <1>0, <1>1 DEF ControlTypes, Live
<1>3. Idle \in CallRange /\ Idle.op = "idle" /\ Idle.pc = "idle" BY <1>0, CallGoesOn
<1>4. ASSUME Return(c), gate' = Free, pending' \in {pending, 0}, call[c].pc \in Gated PROVE DInv'
  <2>1. call' = [call EXCEPT ![c] = Idle] BY <1>4 DEF Return
  <2>2. gate = c BY <1>4 DEF DInv, GateIsHeld
  <2>3. DemandsFit' BY <1>0, <1>1, <1>3, <2>1, MarkingShrinks
  <2> QED BY <1>1, <1>2, <1>3, <1>4, <2>1, <2>2, <2>3, CallerKeeps DEF Gated, Registered
<1>5. CASE DemandGate(c)
  <2>1. gate = Free /\ gate' = c /\ pending' = pending /\ call[c].pc = "gate" /\ Goto(c, "sender")
    BY <1>5 DEF DemandGate
  <2>2. "sender" \in Pcs BY DEF Pcs
  <2>3. PICK x \in CallRange : call' = [call EXCEPT ![c] = x] /\ x.op = call[c].op /\ x.pc = "sender"
    BY <1>0, <2>1, <2>2, CallGoesOn
  <2>4. DemandsFit' BY <1>0, <1>1, <2>1, <2>3, MarkingShrinks
  <2> QED BY <1>1, <1>2, <2>1, <2>3, <2>4, CallerKeeps DEF Registered
<1>6. CASE DemandAcked(c) /\ Goto(c, "frame") /\ UNCHANGED <<pending, gate>>
  <2>1. call[c].pc = "ack" BY <1>6 DEF DemandAcked
  <2>2. "frame" \in Pcs BY DEF Pcs
  <2>3. PICK x \in CallRange : /\ call' = [call EXCEPT ![c] = x] /\ x.op = call[c].op
                               /\ x.pc = "frame" /\ x.demand = call[c].demand
    BY <1>0, <1>6, <2>2, CallGoesOn
  <2>4. DemandsFit' BY <1>0, <1>1, <2>1, <2>3, MarkingShrinks
  <2>5. gate' = c BY <1>6, <2>1 DEF DInv, GateIsHeld, Gated
  <2> QED BY <1>1, <1>2, <1>6, <2>1, <2>3, <2>4, <2>5, CallerKeeps DEF Registered
<1>7. CASE \/ DemandAcked(c) /\ DemandEnds(c)
           \/ DemandAnswered(c) \/ DemandTimesOut(c)
           \/ DemandSend(c) /\ DemandEnds(c)
           \/ DemandRegister(c) /\ slot = None
  <2>1. Return(c) /\ gate' = Free /\ pending' \in {pending, 0} /\ call[c].pc \in Gated
    BY <1>7 DEF DemandAcked, DemandAnswered, DemandTimesOut, DemandSend, DemandRegister, DemandEnds,
                Gated
  <2> QED BY <1>4, <2>1
<1>8. DemandSend(c) /\ Closed(call[c].on) => DemandEnds(c) BY DEF DemandSend
<1>9. DemandAcked(c) => DemandEnds(c) \/ (Goto(c, "frame") /\ UNCHANGED <<pending, gate>>)
  BY DEF DemandAcked
<1> QED BY <1>5, <1>6, <1>7, <1>8, <1>9

\* A session that holds nothing, in its parts.
LEMMA HoldsNothing ==
    ASSUME NEW s \in Sessions, channel[s] = <<>>, ~frame[s].demanded,
           \A i \in 1..Len(queue[s]) : ~queue[s][i].demanded
    PROVE  Held(s) = {}
PROOF BY DEF Held, Asked, Captured, InHand

\* A demand is registered; it is clean if nothing was left behind.
LEMMA RegisterKeeps ==
    ASSUME DInv, NEW c \in Callers, DemandRegister(c), slot # None
    PROVE  DInv'
PROOF
<1>0. /\ ControlTypes /\ DemandTypes /\ call \in [Callers -> CallRange] /\ demands \in 0..MaxDemands
      /\ DemandsFit /\ call[c].pc = "sender" /\ call[c] \in CallRange /\ slot \in Sessions
  BY TypesOf DEF DInv, DemandTypes, DemandRegister, ControlTypes
<1>1. /\ UNCHANGED <<slot, lock, readiness, observed, ocrUsable, session, queue, frame, stopSent,
                     channel, gate, ack, answer, client, calls, faults, tangled>>
      /\ demands' = demands + 1 /\ pending' = demands'
      /\ clean' = IF LeftBehind THEN clean ELSE clean \cup {demands'}
  BY <1>0 DEF DemandRegister, controlVars, loopVars, countVars
<1>2. ControlTypes' /\ Live' = Live BY <1>0, <1>1 DEF ControlTypes, Live
<1>3. DemandsFit /\ c \in Unregistered BY <1>0 DEF Unregistered
<1>4. IsFiniteSet(Unregistered) /\ Cardinality(Unregistered) \in Nat
  BY <1>3, FS_Subset, FS_CardinalityType DEF DemandsFit
<1>5. /\ IsFiniteSet(Unregistered \ {c}) /\ Cardinality(Unregistered \ {c}) \in Nat
      /\ Cardinality(Unregistered \ {c}) = Cardinality(Unregistered) - 1
  BY <1>3, <1>4, FS_RemoveElement, FS_CardinalityType
<1>6. demands' \in 1..MaxDemands /\ Cardinality(Unregistered \ {c}) + demands' <= MaxDemands
  BY <1>0, <1>1, <1>4, <1>5, CaptureAssumption DEF DemandsFit
<1> DEFINE x == [call[c] EXCEPT !.pc = "send", !.on = slot, !.demand = demands']
<1>7. /\ x \in CallRange /\ x.op = call[c].op /\ x.pc = "send" /\ x.on = slot
      /\ x.demand = demands'
  <2>1. slot \in 0..MaxSessions /\ demands' \in 0..MaxDemands BY <1>0, <1>6 DEF Sessions
  <2> QED BY <1>0, <2>1 DEF CallRange, Pcs
<1>8. call' = [call EXCEPT ![c] = x] BY <1>0 DEF DemandRegister
<1> HIDE DEF x
<1>9. call'[c] = x /\ \A b \in Callers : b # c => call'[b] = call[b] BY <1>0, <1>8
<1>10. TypeOK'
  <2>1. clean' \subseteq Demands BY <1>0, <1>1, <1>6 DEF DemandTypes, Demands
  <2>2. DemandTypes' BY <1>0, <1>1, <1>6, <2>1 DEF DemandTypes
  <2>3. call' \in [Callers -> CallRange] BY <1>0, <1>7, <1>8
  <2> QED BY <1>2, <2>2, <2>3, TypesAfter
<1>11. DemandsFit'
  <2>1. Unregistered' = Unregistered \ {c} /\ Marking' = Marking
    BY <1>7, <1>9 DEF Unregistered, Marking
  <2> QED BY <1>3, <1>6, <2>1 DEF DemandsFit, Marking
<1>12. gate = c /\ \A b \in Callers : b # c => call'[b].pc \notin Gated
  BY <1>0, <1>9 DEF DInv, GateIsHeld, Gated
<1>13. GateIsHeld'
  <2>1. pending' \in 0..demands' /\ demands' \in 1..demands' BY <1>1, <1>6
  <2> QED BY <1>0, <1>1, <1>6, <1>7, <1>9, <1>12, <2>1 DEF GateIsHeld, Gated, Registered
<1>14. SessionIsKnown' BY <1>0, <1>7, <1>9 DEF DInv, SessionIsKnown
<1>15. DeadHoldNothing' /\ OneFrameOneMark' BY <1>1, <1>2 DEF DInv, DeadHoldNothing, OneFrameOneMark
<1>16. /\ \A s : Asked(s)' = Asked(s) /\ Captured(s)' = Captured(s) /\ InHand(s)' = InHand(s)
       /\ \A s : Held(s)' = Held(s)
       /\ Used' = Used
  BY <1>1 DEF Asked, Captured, InHand, Held, Used
<1>17. OnePlace' BY <1>1, <1>16 DEF DInv, OnePlace
<1>18. 1..demands \subseteq 1..demands' /\ demands' \notin 1..demands BY <1>0, <1>1
<1>19. WorkIsKnown'
  <2>1. \A s \in Sessions : Held(s)' \subseteq 1..demands' BY <1>16, <1>18 DEF DInv, WorkIsKnown
  <2>2. Used' \subseteq 1..demands' BY <1>16, <1>18 DEF DInv, WorkIsKnown
  <2>3. \A d \in Demands : answer'[d] # NoFrame => answer'[d].demanded /\ d <= demands'
    BY <1>0, <1>1 DEF DInv, WorkIsKnown, Demands
  <2>4. clean' \subseteq 1..demands'
    <3>1. demands' \in 1..demands' BY <1>6
    <3>2. clean \subseteq 1..demands' BY <1>18 DEF DInv, WorkIsKnown
    <3> QED BY <1>1, <3>1, <3>2
  <2> QED BY <2>1, <2>2, <2>3, <2>4 DEF WorkIsKnown
<1>20. SentIsFresh'
  <2>1. demands' \notin Used' /\ \A s \in Sessions : demands' \notin Held(s)'
    BY <1>16, <1>18 DEF DInv, WorkIsKnown
  <2> QED BY <1>7, <1>9, <1>12, <2>1 DEF SentIsFresh, Gated
<1>21. CleanIsAlone'
  <2>1. demands' \notin clean BY <1>18 DEF DInv, WorkIsKnown
  <2>2. ASSUME pending' \in clean', NEW s \in Sessions PROVE Held(s)' = {}
    <3>1. ~LeftBehind BY <1>1, <2>1, <2>2
    <3>2. CASE s \in Live
      <4>1. /\ channel[s] = <<>> /\ ~frame[s].demanded
            /\ \A i \in 1..Len(queue[s]) : ~queue[s][i].demanded
        BY <3>1, <3>2 DEF LeftBehind
      <4> QED BY <1>16, <4>1, HoldsNothing
    <3>3. CASE s \notin Live
      <4>1. channel[s] = <<>> /\ queue[s] = <<>> /\ frame[s] = NoFrame
        BY <3>3 DEF DInv, DeadHoldNothing
      <4> QED BY <1>16, <4>1, HoldsNothing DEF NoFrame
    <3> QED BY <3>2, <3>3
  <2>3. ASSUME NEW d \in clean', answer'[d] # NoFrame PROVE answer'[d].of = d
    <3>1. CASE d \in clean BY <1>1, <2>3, <3>1 DEF DInv, CleanIsAlone
    <3>2. CASE d = demands'
      <4>1. d \in Demands /\ ~(d <= demands) BY <1>0, <1>1, <1>6, <3>2 DEF Demands
      <4> QED BY <1>1, <2>3, <4>1 DEF DInv, WorkIsKnown
    <3> QED BY <1>1, <3>1, <3>2
  <2> QED BY <2>2, <2>3 DEF CleanIsAlone
<1> QED BY <1>10, <1>11, <1>13, <1>14, <1>15, <1>17, <1>19, <1>20, <1>21 DEF DInv

\* The request of the demand that is registered enters its session's channel.
LEMMA SendKeeps ==
    ASSUME DInv, NEW c \in Callers, DemandSend(c), ~Closed(call[c].on)
    PROVE  DInv'
PROOF
<1>0. /\ ControlTypes /\ DemandTypes /\ call \in [Callers -> CallRange] /\ demands \in 0..MaxDemands
      /\ DemandsFit /\ call[c].pc = "send" /\ call[c] \in CallRange
  BY TypesOf DEF DInv, DemandTypes, DemandSend
<1>1. PICK s \in Live : s = call[c].on /\ s \in Sessions BY DEF Closed, Live
<1>2. PICK d \in Demands : /\ d = call[c].demand
                           /\ d \in 1..demands /\ (pending = 0 \/ pending = d) /\ gate = c
  <2>1. call[c].pc \in Gated /\ call[c].pc \in Registered BY <1>0 DEF Gated, Registered
  <2>2. call[c].demand \in 1..demands /\ (pending = 0 \/ pending = call[c].demand) /\ gate = c
    BY <2>1 DEF DInv, GateIsHeld
  <2>3. call[c].demand \in Demands
    <3>1. 1..demands \subseteq 1..MaxDemands BY <1>0, CaptureAssumption
    <3> QED BY <2>2, <3>1 DEF Demands
  <2> QED BY <2>2, <2>3
<1>3. /\ channel' = [channel EXCEPT ![s] = Append(channel[s], d)] /\ Len(channel[s]) < ChanCap
      /\ Goto(c, "ack")
      /\ UNCHANGED <<slot, lock, readiness, observed, ocrUsable, session, queue, frame, stopSent,
                     pending, gate, ack, answer, demands, clean, client, calls, faults, tangled>>
  BY <1>1, <1>2 DEF DemandSend, controlVars, loopVars, countVars, Closed
<1>4. ControlTypes' /\ Live' = Live BY <1>0, <1>3 DEF ControlTypes, Live
<1>5. "ack" \in Pcs BY DEF Pcs
<1>6. PICK x \in CallRange : /\ call' = [call EXCEPT ![c] = x] /\ x.op = call[c].op
                             /\ x.pc = "ack" /\ x.demand = d
  BY <1>0, <1>2, <1>3, <1>5, CallGoesOn
<1>7. call'[c] = x /\ \A b \in Callers : b # c => call'[b] = call[b] BY <1>0, <1>6
<1>8. d \notin Used /\ \A r \in Sessions : d \notin Held(r) BY <1>0, <1>2 DEF DInv, SentIsFresh
<1>9. channel[s] \in Seq(Demands) /\ channel \in [Sessions -> Seq(Demands)]
  BY <1>0, <1>1 DEF DemandTypes
<1>10. /\ channel'[s] \in Seq(Demands) /\ Len(channel'[s]) = Len(channel[s]) + 1
       /\ channel'[s][Len(channel[s]) + 1] = d
       /\ \A i \in 1..Len(channel[s]) : channel'[s][i] = channel[s][i]
       /\ \A r \in Sessions : r # s => channel'[r] = channel[r]
  BY <1>1, <1>2, <1>3, <1>9
<1>11. /\ Asked(s)' = Asked(s) \cup {d}
       /\ \A r \in Sessions : r # s => Asked(r)' = Asked(r)
       /\ \A r \in Sessions : Captured(r)' = Captured(r) /\ InHand(r)' = InHand(r)
       /\ Used' = Used
  <2>1. Asked(s)' = Asked(s) \cup {d}
    <3>1. Len(channel[s]) \in Nat BY <1>9
    <3>2. 1..Len(channel'[s]) = 1..Len(channel[s]) \cup {Len(channel[s]) + 1} BY <1>10, <3>1
    <3> HIDE <1>3
    <3> QED BY <1>10, <3>2 DEF Asked
  <2>2. \A r \in Sessions : r # s => Asked(r)' = Asked(r) BY <1>10 DEF Asked
  <2> QED BY <1>3, <2>1, <2>2 DEF Captured, InHand, Used
<1>12. Held(s)' = Held(s) \cup {d} /\ \A r \in Sessions : r # s => Held(r)' = Held(r)
  BY <1>1, <1>11 DEF Held
<1>13. TypeOK'
  <2>1. channel' \in [Sessions -> Seq(Demands)] BY <1>3, <1>9, <1>10
  <2>2. Len(channel'[s]) <= ChanCap BY <1>3, <1>9, <1>10, CaptureAssumption
  <2>3. \A r \in Sessions : Len(channel'[r]) <= ChanCap
    BY <1>0, <1>10, <2>2 DEF DemandTypes
  <2>4. DemandTypes' BY <1>0, <1>3, <2>1, <2>3 DEF DemandTypes
  <2> QED BY <1>0, <1>4, <1>6, <2>4, TypesAfter
<1>14. DemandsFit'
  <2>1. demands \in Nat BY <1>0, CaptureAssumption
  <2> QED BY <1>0, <1>3, <1>6, <2>1, MarkingShrinks
<1>15. GateIsHeld' BY <1>2, <1>3, <1>6, <1>7 DEF DInv, GateIsHeld, Gated, Registered
<1>16. SessionIsKnown' BY <1>6, <1>7 DEF DInv, SessionIsKnown
<1>17. DeadHoldNothing' BY <1>1, <1>3, <1>4, <1>10 DEF DInv, DeadHoldNothing
<1>18. OneFrameOneMark' BY <1>3 DEF DInv, OneFrameOneMark
<1>19. WorkIsKnown' BY <1>2, <1>3, <1>11, <1>12 DEF DInv, WorkIsKnown
<1>20. OnePlace'
  <2>1. \A i, j \in 1..Len(channel'[s]) : channel'[s][i] = channel'[s][j] => i = j
    <3>1. \A i \in 1..Len(channel[s]) : channel[s][i] # d BY <1>1, <1>8 DEF Held, Asked
    <3>2. \A i, j \in 1..Len(channel[s]) : channel[s][i] = channel[s][j] => i = j
      BY <1>1 DEF DInv, OnePlace
    <3>3. Len(channel[s]) \in Nat BY <1>9
    <3> DEFINE n == Len(channel[s])
    <3>4. \A i \in 1..Len(channel'[s]) : i \in 1..n \/ i = n + 1 BY <1>10, <3>3
    <3>5. \A i \in 1..n : channel'[s][i] # d BY <1>10, <3>1
    <3>6. channel'[s][n + 1] = d BY <1>10
    <3>7. \A i, j \in 1..n : channel'[s][i] = channel'[s][j] => i = j BY <1>10, <3>2
    <3> HIDE DEF n
    <3> QED BY <3>4, <3>5, <3>6, <3>7
  <2>2. \A r \in Sessions : \A i, j \in 1..Len(channel'[r]) : channel'[r][i] = channel'[r][j] => i = j
    BY <1>10, <2>1 DEF DInv, OnePlace
  <2>3. \A r \in Sessions : \A i, j \in 1..Len(queue'[r]) :
            queue'[r][i].demanded /\ queue'[r][j].demanded => i = j
    BY <1>3 DEF DInv, OnePlace
  <2>4. \A r \in Sessions : /\ Asked(r)' \cap Captured(r)' = {}
                            /\ Asked(r)' \cap InHand(r)' = {}
                            /\ Captured(r)' \cap InHand(r)' = {}
                            /\ Held(r)' \cap Used' = {}
    <3>1. \A r \in Sessions : d \notin Captured(r) /\ d \notin InHand(r) BY <1>8 DEF Held
    <3> QED BY <1>8, <1>11, <1>12, <3>1 DEF DInv, OnePlace
  <2>5. \A q, r \in Sessions : q # r => Held(q)' \cap Held(r)' = {}
    BY <1>8, <1>12 DEF DInv, OnePlace
  <2> QED BY <2>2, <2>3, <2>4, <2>5 DEF OnePlace
<1>21. SentIsFresh'
  <2>1. \A b \in Callers : call'[b].pc # "send" BY <1>2, <1>6, <1>7 DEF DInv, GateIsHeld, Gated
  <2> QED BY <2>1 DEF SentIsFresh
<1>22. CleanIsAlone'
  <2>1. pending' \in clean' => pending' = d BY <1>2, <1>3 DEF DInv, WorkIsKnown
  <2> QED BY <1>3, <1>12, <2>1 DEF DInv, CleanIsAlone
<1> QED BY <1>13, <1>14, <1>15, <1>16, <1>17, <1>18, <1>19, <1>20, <1>21, <1>22 DEF DInv

\* A step of session s that moves what it holds forward, or loses it.
LEMMA WorkMoves ==
    ASSUME DInv, NEW s \in Sessions, ControlTypes', DemandTypes',
           UNCHANGED <<call, gate, demands, clean>>, pending' \in {pending, 0},
           \A r \in Sessions : r # s =>
              /\ channel'[r] = channel[r] /\ queue'[r] = queue[r] /\ frame'[r] = frame[r]
              /\ session'[r] = session[r],
           s \notin Live' => channel'[s] = <<>> /\ queue'[s] = <<>> /\ frame'[s] = NoFrame,
           \A i, j \in 1..Len(channel'[s]) : channel'[s][i] = channel'[s][j] => i = j,
           \A i, j \in 1..Len(queue'[s]) : queue'[s][i].demanded /\ queue'[s][j].demanded => i = j,
           Asked(s)' \cap Captured(s)' = {}, Asked(s)' \cap InHand(s)' = {},
           Captured(s)' \cap InHand(s)' = {}, Held(s)' \cap Used' = {},
           Held(s)' \subseteq Held(s), Used' \subseteq Used \cup Held(s),
           \A d \in Demands : answer'[d] # NoFrame => answer'[d].demanded /\ d <= demands,
           \A d \in clean : answer'[d] # NoFrame => answer'[d].of = d,
           OneFrameOneMark'
    PROVE  DInv'
PROOF
<1>1. TypeOK'
  <2>1. call' \in [Callers -> CallRange] BY TypesOf DEF DInv
  <2> QED BY <2>1, TypesAfter
<1>2. DemandsFit' BY DEF DInv, DemandsFit, Marking, Unregistered
<1>3. GateIsHeld'
  <2>1. demands \in Nat BY TypesOf, CaptureAssumption DEF DInv, DemandTypes
  <2> QED BY <2>1 DEF DInv, GateIsHeld
<1>4. SessionIsKnown' BY DEF DInv, SessionIsKnown
<1>5. \A r \in Sessions : r # s =>
         /\ Asked(r)' = Asked(r) /\ Captured(r)' = Captured(r) /\ InHand(r)' = InHand(r)
         /\ Held(r)' = Held(r)
  <2> SUFFICES ASSUME NEW r \in Sessions, r # s
               PROVE  /\ Asked(r)' = Asked(r) /\ Captured(r)' = Captured(r)
                      /\ InHand(r)' = InHand(r) /\ Held(r)' = Held(r)
    OBVIOUS
  <2>1. channel'[r] = channel[r] /\ queue'[r] = queue[r] /\ frame'[r] = frame[r] OBVIOUS
  <2>2. Asked(r)' = Asked(r) BY <2>1 DEF Asked
  <2>3. Captured(r)' = Captured(r) BY <2>1 DEF Captured
  <2>4. InHand(r)' = InHand(r) BY <2>1 DEF InHand
  <2> QED BY <2>2, <2>3, <2>4 DEF Held
<1>6. DeadHoldNothing'
  <2>1. \A r \in Sessions : r # s => (r \in Live' <=> r \in Live) BY DEF Live
  <2> QED BY <2>1 DEF DInv, DeadHoldNothing
<1>7. WorkIsKnown'
  <2>1. \A r \in Sessions : Held(r)' \subseteq 1..demands BY <1>5 DEF DInv, WorkIsKnown
  <2>2. Used' \subseteq 1..demands BY DEF DInv, WorkIsKnown
  <2>3. clean' \subseteq 1..demands BY DEF DInv, WorkIsKnown
  <2> QED BY <2>1, <2>2, <2>3 DEF WorkIsKnown
<1>8. OnePlace'
  <2>1. \A r \in Sessions : \A i, j \in 1..Len(channel'[r]) : channel'[r][i] = channel'[r][j] => i = j
    BY DEF DInv, OnePlace
  <2>2. \A r \in Sessions : \A i, j \in 1..Len(queue'[r]) :
            queue'[r][i].demanded /\ queue'[r][j].demanded => i = j
    BY DEF DInv, OnePlace
  <2>3. ASSUME NEW r \in Sessions
        PROVE  /\ Asked(r)' \cap Captured(r)' = {}
               /\ Asked(r)' \cap InHand(r)' = {}
               /\ Captured(r)' \cap InHand(r)' = {}
               /\ Held(r)' \cap Used' = {}
    <3>1. CASE r = s BY <3>1
    <3>2. CASE r # s
      <4>1. Held(r) \cap Used = {} /\ Held(r) \cap Held(s) = {} BY <3>2 DEF DInv, OnePlace
      <4>2. Held(r)' \cap Used' = {} BY <1>5, <3>2, <4>1
      <4> QED BY <1>5, <3>2, <4>2 DEF DInv, OnePlace
    <3> QED BY <3>1, <3>2
  <2>4. \A q, r \in Sessions : q # r => Held(q)' \cap Held(r)' = {}
    <3>1. \A q, r \in Sessions : q # r => Held(q) \cap Held(r) = {} BY DEF DInv, OnePlace
    <3>2. \A r \in Sessions : Held(r)' \subseteq Held(r) BY <1>5
    <3> QED BY <3>1, <3>2
  <2> QED BY <2>1, <2>2, <2>3, <2>4 DEF OnePlace
<1>9. SentIsFresh'
  <2>1. \A r \in Sessions : Held(r)' \subseteq Held(r) BY <1>5
  <2> QED BY <2>1 DEF DInv, SentIsFresh
<1>10. CleanIsAlone'
  <2>1. \A r \in Sessions : Held(r)' \subseteq Held(r) BY <1>5
  <2>2. 0 \notin clean BY DEF DInv, WorkIsKnown
  <2> QED BY <2>1, <2>2 DEF DInv, CleanIsAlone
<1> QED BY <1>1, <1>2, <1>3, <1>4, <1>6, <1>7, <1>8, <1>9, <1>10 DEF DInv

\* Answers that do not change keep what they had.
LEMMA AnswersStay ==
    ASSUME DInv, UNCHANGED <<answer, demands, clean>>
    PROVE  /\ Used' = Used /\ OneFrameOneMark'
           /\ \A d \in Demands : answer'[d] # NoFrame => answer'[d].demanded /\ d <= demands
           /\ \A d \in clean : answer'[d] # NoFrame => answer'[d].of = d
PROOF BY DEF DInv, Used, OneFrameOneMark, WorkIsKnown, CleanIsAlone

\* A session ends and its source goes with all it held.
LEMMA SourceGone ==
    ASSUME DInv, NEW s \in Sessions, LoopStops(s) \/ LoopPanics(s) \/ SourceShutsDown(s)
    PROVE  DInv'
PROOF
<1>0. ControlTypes /\ DemandTypes BY TypesOf DEF DInv
<1>1. /\ UNCHANGED <<call, gate, demands, clean, pending, answer, ocrUsable, stopSent, slot, lock,
                     readiness, observed, client, calls, tangled>>
      /\ DropSource(s)
      /\ \E v \in {"ended", "panicked", "exiting"} : session' = [session EXCEPT ![s] = v]
      /\ faults' = faults \/ (faults < MaxFaults /\ faults' = faults + 1)
  BY DEF LoopStops, LoopPanics, SourceShutsDown, controlVars, countVars, Fault
<1>2. ControlTypes'
  <2>1. faults' \in 0..MaxFaults /\ calls' \in 0..MaxCalls BY <1>0, <1>1, CaptureAssumption DEF ControlTypes
  <2> QED BY <1>0, <1>1, <2>1 DEF ControlTypes
<1>3. channel' = [channel EXCEPT ![s] = <<>>] /\ queue' = [queue EXCEPT ![s] = <<>>]
      /\ frame' = [frame EXCEPT ![s] = NoFrame]
  BY <1>1 DEF DropSource
<1>4. /\ channel'[s] = <<>> /\ queue'[s] = <<>> /\ frame'[s] = NoFrame
      /\ \A r \in Sessions : r # s =>
            /\ channel'[r] = channel[r] /\ queue'[r] = queue[r] /\ frame'[r] = frame[r]
            /\ session'[r] = session[r]
  BY <1>0, <1>1, <1>3 DEF DemandTypes, ControlTypes
<1>5. DemandTypes'
  <2>1. ack' \in [Demands -> {"none", "ok", "denied", "dropped"}]
    BY <1>0, <1>1 DEF DropSource, DemandTypes
  <2>2. NoFrame \in Frame BY CaptureAssumption DEF NoFrame, Frame
  <2>3. Len(<<>>) <= ChanCap BY CaptureAssumption
  <2>4. \A r \in Sessions : Len(channel'[r]) <= ChanCap BY <1>0, <1>4, <2>3 DEF DemandTypes
  <2>5. channel' \in [Sessions -> Seq(Demands)] /\ queue' \in [Sessions -> Seq(Frame)]
    BY <1>0, <1>3 DEF DemandTypes
  <2>6. frame' \in [Sessions -> Frame] BY <1>0, <1>3, <2>2 DEF DemandTypes
  <2> QED BY <1>0, <1>1, <2>1, <2>4, <2>5, <2>6 DEF DemandTypes
<1>6. Held(s)' = {} /\ Asked(s)' = {} /\ Captured(s)' = {} /\ InHand(s)' = {}
  BY <1>4 DEF Held, Asked, Captured, InHand, NoFrame
<1>7. \A i, j \in 1..Len(channel'[s]) : channel'[s][i] = channel'[s][j] => i = j BY <1>4
<1>8. \A i, j \in 1..Len(queue'[s]) : queue'[s][i].demanded /\ queue'[s][j].demanded => i = j
  BY <1>4
<1>9. UNCHANGED <<answer, demands, clean>> BY <1>1
<1>10. UNCHANGED <<call, gate, demands, clean>> BY <1>1
<1> QED BY <1>1, <1>2, <1>4, <1>5, <1>6, <1>7, <1>8, <1>9, <1>10, AnswersStay, WorkMoves

\* A cycle without a demand queues a frame that answers nobody.
LEMMA CapturesKeeps == ASSUME DInv, NEW s \in Sessions, SourceCaptures(s) PROVE DInv'
PROOF
<1>0. ControlTypes /\ DemandTypes BY TypesOf DEF DInv
<1>1. /\ UNCHANGED <<call, gate, ack, demands, clean, pending, answer, ocrUsable, stopSent, slot, lock,
                     readiness, observed, session, channel, frame, client, calls, faults, tangled>>
      /\ queue[s] = <<>> /\ queue' = [queue EXCEPT ![s] = <<NoFrame>>] /\ s \in Live
  BY DEF SourceCaptures, Selecting, Live, controlVars, demandVars, countVars
<1>2. ControlTypes' /\ Live' = Live BY <1>0, <1>1 DEF ControlTypes, Live
<1>3. queue'[s] = <<NoFrame>> /\ \A r \in Sessions : r # s => queue'[r] = queue[r]
  BY <1>0, <1>1 DEF DemandTypes
<1>4. DemandTypes'
  <2>1. NoFrame \in Frame BY CaptureAssumption DEF NoFrame, Frame
  <2>2. queue' \in [Sessions -> Seq(Frame)] BY <1>0, <1>1, <2>1 DEF DemandTypes
  <2> QED BY <1>0, <1>1, <2>2 DEF DemandTypes
<1>5. /\ Captured(s)' = {} /\ Asked(s)' = Asked(s) /\ InHand(s)' = InHand(s)
      /\ Held(s)' \subseteq Held(s)
  <2>1. Captured(s)' = {} BY <1>3 DEF Captured, NoFrame
  <2>2. Asked(s)' = Asked(s) /\ InHand(s)' = InHand(s) BY <1>1 DEF Asked, InHand
  <2> QED BY <2>1, <2>2 DEF Held
<1>6. \A i, j \in 1..Len(queue'[s]) : queue'[s][i].demanded /\ queue'[s][j].demanded => i = j
  BY <1>3
<1>7. \A i, j \in 1..Len(channel'[s]) : channel'[s][i] = channel'[s][j] => i = j
  BY <1>1 DEF DInv, OnePlace
<1>8. Asked(s) \cap InHand(s) = {} /\ Held(s) \cap Used = {} BY DEF DInv, OnePlace
<1>9. Held(s)' \cap Used' = {} BY <1>1, <1>5, <1>8, AnswersStay
<1> QED BY <1>1, <1>2, <1>3, <1>4, <1>5, <1>6, <1>7, <1>8, <1>9, AnswersStay, WorkMoves

\* The oldest request leaves the channel; its cycle captures at most one frame
\* for it.
LEMMA ServesKeeps == ASSUME DInv, NEW s \in Sessions, SourceServes(s) PROVE DInv'
PROOF
<1>0. ControlTypes /\ DemandTypes BY TypesOf DEF DInv
<1>1. /\ UNCHANGED <<call, gate, demands, clean, pending, answer, ocrUsable, stopSent, slot, lock,
                     readiness, observed, session, frame, client, calls, faults, tangled>>
      /\ queue[s] = <<>> /\ channel[s] # <<>> /\ s \in Live
      /\ channel' = [channel EXCEPT ![s] = Tail(channel[s])]
  BY DEF SourceServes, Selecting, Live, controlVars, countVars
<1>2. channel[s] \in Seq(Demands) /\ channel[s] # <<>> BY <1>0, <1>1 DEF DemandTypes
<1>3. PICK d \in Demands : d = Head(channel[s]) BY <1>2
<1>4. d \in Asked(s) /\ 1 \in 1..Len(channel[s]) /\ channel[s][1] = d
  BY <1>2, <1>3 DEF Asked
<1> DEFINE own == [of |-> d, demanded |-> TRUE]
           other == [of |-> d, demanded |-> FALSE]
<1>5. PICK frames \in {<<own>>, <<other, own>>, <<own, other>>, <<other>>, <<>>} :
         /\ queue' = [queue EXCEPT ![s] = frames]
         /\ \E v \in {"ok", "denied"} : ack' = [ack EXCEPT ![d] = v]
  <2>1. CASE ack' = [ack EXCEPT ![d] = "denied"] /\ queue' = queue
    <3>1. queue' = [queue EXCEPT ![s] = <<>>] BY <1>0, <1>1, <2>1 DEF DemandTypes
    <3> QED BY <2>1, <3>1
  <2>2. CASE \E frames \in CycleFor(d) :
                /\ queue' = [queue EXCEPT ![s] = frames]
                /\ ack' = [ack EXCEPT ![d] = IF \E i \in 1..Len(frames) : frames[i].demanded
                                              THEN "ok" ELSE "denied"]
    BY <2>2 DEF CycleFor
  <2> QED BY <1>3, <2>1, <2>2 DEF SourceServes
<1>6. /\ queue'[s] = frames /\ \A r \in Sessions : r # s => queue'[r] = queue[r]
      /\ channel'[s] = Tail(channel[s]) /\ \A r \in Sessions : r # s => channel'[r] = channel[r]
  BY <1>0, <1>1, <1>5 DEF DemandTypes
<1>7. /\ \A i \in 1..Len(frames) : frames[i].of = d
      /\ \A i, j \in 1..Len(frames) : frames[i].demanded /\ frames[j].demanded => i = j
      /\ frames \in Seq(Frame)
  <2>1. own \in Frame /\ other \in Frame BY DEF Frame, Demands
  <2>2. CASE frames = <<own>> BY <2>1, <2>2
  <2>3. CASE frames = <<other, own>> BY <2>1, <2>3
  <2>4. CASE frames = <<own, other>> BY <2>1, <2>4
  <2>5. CASE frames = <<other>> BY <2>1, <2>5
  <2>6. CASE frames = <<>> BY <2>6
  <2> QED BY <1>5, <2>2, <2>3, <2>4, <2>5, <2>6
<1>8. /\ Tail(channel[s]) \in Seq(Demands) /\ Len(channel[s]) \in Nat \ {0}
      /\ Len(Tail(channel[s])) = Len(channel[s]) - 1
      /\ \A i \in 1..Len(channel[s]) - 1 : Tail(channel[s])[i] = channel[s][i + 1]
  BY <1>2
<1>9. ControlTypes' /\ Live' = Live BY <1>0, <1>1 DEF ControlTypes, Live
<1>10. DemandTypes'
  <2>1. queue' \in [Sessions -> Seq(Frame)] BY <1>0, <1>5, <1>7 DEF DemandTypes
  <2>2. channel' \in [Sessions -> Seq(Demands)] BY <1>0, <1>1, <1>8 DEF DemandTypes
  <2>3. ack' \in [Demands -> {"none", "ok", "denied", "dropped"}] BY <1>0, <1>5 DEF DemandTypes
  <2>4. \A r \in Sessions : Len(channel'[r]) <= ChanCap
    <3>1. Len(channel'[s]) <= ChanCap BY <1>0, <1>6, <1>8, CaptureAssumption DEF DemandTypes
    <3> QED BY <1>0, <1>6, <3>1 DEF DemandTypes
  <2> QED BY <1>0, <1>1, <2>1, <2>2, <2>3, <2>4 DEF DemandTypes
<1>11. \A i, j \in 1..Len(channel[s]) : channel[s][i] = channel[s][j] => i = j
  BY DEF DInv, OnePlace
<1>12. \A i, j \in 1..Len(channel'[s]) : channel'[s][i] = channel'[s][j] => i = j
  <2> DEFINE n == Len(channel[s])
  <2>1. \A i \in 1..n - 1 : channel'[s][i] = channel[s][i + 1] /\ i + 1 \in 1..n BY <1>6, <1>8
  <2>2. Len(channel'[s]) = n - 1 BY <1>6, <1>8
  <2>3. \A i, j \in 1..n - 1 : i + 1 = j + 1 => i = j OBVIOUS
  <2>4. \A i, j \in 1..n : channel[s][i] = channel[s][j] => i = j BY <1>11
  <2> HIDE DEF n
  <2> QED BY <2>1, <2>2, <2>3, <2>4
<1>13. Asked(s)' \subseteq Asked(s) \ {d}
  <2>1. \A i \in 1..Len(channel'[s]) : \E j \in 1..Len(channel[s]) : j # 1 /\ channel'[s][i] = channel[s][j]
    <3> SUFFICES ASSUME NEW i \in 1..Len(channel'[s])
                 PROVE  \E j \in 1..Len(channel[s]) : j # 1 /\ channel'[s][i] = channel[s][j]
      OBVIOUS
    <3>1. i \in 1..Len(channel[s]) - 1 BY <1>6, <1>8
    <3>2. i + 1 \in 1..Len(channel[s]) /\ i + 1 # 1 BY <1>8, <3>1
    <3>3. channel'[s][i] = channel[s][i + 1] BY <1>6, <1>8, <3>1
    <3> QED BY <3>2, <3>3
  <2>2. \A j \in 1..Len(channel[s]) : j # 1 => channel[s][j] # d BY <1>4, <1>11
  <2> QED BY <2>1, <2>2 DEF Asked
<1>14. Captured(s)' \subseteq {d} BY <1>6, <1>7 DEF Captured
<1>15. InHand(s)' = InHand(s) BY <1>1 DEF InHand
<1>16. /\ Asked(s) \cap InHand(s) = {} /\ Held(s) \cap Used = {}
  BY DEF DInv, OnePlace
<1>17. Held(s)' \subseteq Held(s) BY <1>4, <1>13, <1>14, <1>15 DEF Held
<1>18. /\ Asked(s)' \cap Captured(s)' = {} /\ Asked(s)' \cap InHand(s)' = {}
       /\ Captured(s)' \cap InHand(s)' = {} /\ Held(s)' \cap Used' = {}
  <2>1. Used' = Used BY <1>1, AnswersStay
  <2> QED BY <1>4, <1>13, <1>14, <1>15, <1>16, <1>17, <2>1
<1>19. \A i, j \in 1..Len(queue'[s]) : queue'[s][i].demanded /\ queue'[s][j].demanded => i = j
  BY <1>6, <1>7
<1> QED BY ZenonT(40), <1>1, <1>6, <1>9, <1>10, <1>12, <1>17, <1>18, <1>19, AnswersStay, WorkMoves

\* The oldest frame goes from the queue to the loop.
LEMMA TakesKeeps == ASSUME DInv, NEW s \in Sessions, LoopTakes(s) PROVE DInv'
PROOF
<1>0. ControlTypes /\ DemandTypes BY TypesOf DEF DInv
<1>1. /\ UNCHANGED <<call, gate, ack, demands, clean, pending, answer, ocrUsable, stopSent, slot, lock,
                     readiness, observed, channel, calls, faults, tangled>>
      /\ queue[s] # <<>> /\ session[s] = "waiting" /\ client' \in {client, TRUE}
      /\ queue' = [queue EXCEPT ![s] = Tail(queue[s])]
      /\ frame' = [frame EXCEPT ![s] = Head(queue[s])]
      /\ session' = [session EXCEPT ![s] = "processing"]
  BY DEF LoopTakes, Selecting, controlVars, demandVars, countVars
<1>2. queue[s] \in Seq(Frame) /\ queue[s] # <<>> BY <1>0, <1>1 DEF DemandTypes
<1>3. /\ Tail(queue[s]) \in Seq(Frame) /\ Head(queue[s]) \in Frame /\ Head(queue[s]) = queue[s][1]
      /\ Len(queue[s]) \in Nat \ {0} /\ Len(Tail(queue[s])) = Len(queue[s]) - 1
      /\ \A i \in 1..Len(queue[s]) - 1 : Tail(queue[s])[i] = queue[s][i + 1]
  BY <1>2
<1>4. /\ queue'[s] = Tail(queue[s]) /\ frame'[s] = queue[s][1] /\ session'[s] = "processing"
      /\ \A r \in Sessions : r # s => queue'[r] = queue[r] /\ frame'[r] = frame[r]
                                        /\ session'[r] = session[r]
  BY <1>0, <1>1, <1>3 DEF DemandTypes, ControlTypes
<1>5. ControlTypes' BY <1>0, <1>1 DEF ControlTypes
<1>6. DemandTypes' BY <1>0, <1>1, <1>3 DEF DemandTypes
<1>7. s \in Live' BY <1>4 DEF Live
<1>8. \A i, j \in 1..Len(queue[s]) : queue[s][i].demanded /\ queue[s][j].demanded => i = j
  BY DEF DInv, OnePlace
<1>9. \A i \in 1..Len(queue'[s]) :
         queue'[s][i] = queue[s][i + 1] /\ i + 1 \in 1..Len(queue[s]) /\ i + 1 # 1
  <2> SUFFICES ASSUME NEW i \in 1..Len(queue'[s])
               PROVE  queue'[s][i] = queue[s][i + 1] /\ i + 1 \in 1..Len(queue[s]) /\ i + 1 # 1
    OBVIOUS
  <2>1. i \in 1..Len(queue[s]) - 1 BY <1>3, <1>4
  <2> QED BY <1>3, <1>4, <2>1
<1>10. \A i, j \in 1..Len(queue'[s]) : queue'[s][i].demanded /\ queue'[s][j].demanded => i = j
  <2> SUFFICES ASSUME NEW i \in 1..Len(queue'[s]), NEW j \in 1..Len(queue'[s]),
                      queue'[s][i].demanded, queue'[s][j].demanded
               PROVE  i = j
    OBVIOUS
  <2>1. i + 1 = j + 1 BY <1>8, <1>9
  <2>2. i \in Nat /\ j \in Nat BY <1>3, <1>4
  <2> QED BY <2>1, <2>2
<1>11. 1 \in 1..Len(queue[s]) BY <1>3
<1>12. Captured(s)' \subseteq Captured(s) BY <1>9 DEF Captured
<1>13. InHand(s)' \subseteq Captured(s) BY <1>4, <1>11 DEF InHand, Captured
<1>14. Captured(s)' = {} \/ InHand(s)' = {}
  <2>1. CASE ~queue[s][1].demanded BY <1>4, <2>1 DEF InHand
  <2>2. CASE queue[s][1].demanded
    <3>1. \A i \in 1..Len(queue'[s]) : ~queue'[s][i].demanded BY <1>8, <1>9, <1>11, <2>2
    <3> QED BY <3>1 DEF Captured
  <2> QED BY <2>1, <2>2
<1>15. Asked(s)' = Asked(s) BY <1>1 DEF Asked
<1>16. Held(s)' \subseteq Held(s) BY <1>12, <1>13, <1>15 DEF Held
<1>17. Asked(s) \cap Captured(s) = {} /\ Held(s) \cap Used = {} BY DEF DInv, OnePlace
<1>18. UNCHANGED <<answer, demands, clean>> BY <1>1
<1>19. /\ Asked(s)' \cap Captured(s)' = {} /\ Asked(s)' \cap InHand(s)' = {}
       /\ Captured(s)' \cap InHand(s)' = {} /\ Held(s)' \cap Used' = {}
  <2>1. Used' = Used BY <1>18, AnswersStay
  <2> QED BY <1>12, <1>13, <1>14, <1>15, <1>16, <1>17, <2>1
<1>20. \A i, j \in 1..Len(channel'[s]) : channel'[s][i] = channel'[s][j] => i = j
  BY <1>1 DEF DInv, OnePlace
<1>21. UNCHANGED <<call, gate, demands, clean>> /\ pending' \in {pending, 0} BY <1>1
<1>22. \A r \in Sessions : r # s =>
          /\ channel'[r] = channel[r] /\ queue'[r] = queue[r] /\ frame'[r] = frame[r]
          /\ session'[r] = session[r]
  BY <1>1, <1>4
<1> QED
  BY <1>5, <1>6, <1>7, <1>10, <1>16, <1>18, <1>19, <1>20, <1>21, <1>22, AnswersStay, WorkMoves

\* The frame in hand is stored and answers the demand registered, or is lost.
LEMMA FrameDone == ASSUME DInv, NEW s \in Sessions, FrameStored(s) \/ FrameDropped(s) PROVE DInv'
PROOF
<1>0. ControlTypes /\ DemandTypes BY TypesOf DEF DInv
<1>1. /\ UNCHANGED <<call, gate, ack, demands, clean, ocrUsable, stopSent, slot, lock, readiness,
                     queue, channel, client, calls, tangled>>
      /\ session[s] = "processing" /\ session' = [session EXCEPT ![s] = "waiting"]
      /\ frame' = [frame EXCEPT ![s] = NoFrame]
      /\ observed' \in {observed, "WorkerError"}
      /\ faults' = faults \/ (faults < MaxFaults /\ faults' = faults + 1)
  BY DEF FrameStored, FrameDropped, Fault, demandVars
<1>2. \/ frame[s].demanded /\ pending # 0 /\ pending' = 0
         /\ answer' = [answer EXCEPT ![pending] = frame[s]]
      \/ UNCHANGED <<answer, pending>>
  BY DEF FrameStored, FrameDropped, demandVars
<1>3. /\ session'[s] = "waiting" /\ frame'[s] = NoFrame
      /\ \A r \in Sessions : r # s => frame'[r] = frame[r] /\ session'[r] = session[r]
  BY <1>0, <1>1 DEF DemandTypes, ControlTypes
<1>4. ControlTypes'
  <2>1. faults' \in 0..MaxFaults BY <1>0, <1>1, CaptureAssumption DEF ControlTypes
  <2> QED BY <1>0, <1>1, <2>1 DEF ControlTypes
<1>5. pending # 0 => pending \in Demands BY <1>0 DEF DemandTypes, Demands
<1>6. DemandTypes'
  <2>1. NoFrame \in Frame BY CaptureAssumption DEF NoFrame, Frame
  <2>2. frame' \in [Sessions -> Frame] BY <1>0, <1>1, <2>1 DEF DemandTypes
  <2>3. answer' \in [Demands -> Frame] BY <1>0, <1>2 DEF DemandTypes
  <2>4. pending' \in 0..MaxDemands BY <1>0, <1>2, CaptureAssumption DEF DemandTypes
  <2> QED BY <1>0, <1>1, <2>2, <2>3, <2>4 DEF DemandTypes
<1>7. s \in Live' BY <1>3 DEF Live
<1>8. InHand(s)' = {} BY <1>3 DEF InHand, NoFrame
<1>9. Asked(s)' = Asked(s) /\ Captured(s)' = Captured(s) BY <1>1 DEF Asked, Captured
<1>10. Held(s)' = Asked(s) \cup Captured(s) BY <1>8, <1>9 DEF Held
<1>11. /\ Asked(s) \cap Captured(s) = {} /\ Asked(s) \cap InHand(s) = {}
       /\ Captured(s) \cap InHand(s) = {} /\ Held(s) \cap Used = {}
  BY DEF DInv, OnePlace
<1>12. /\ \A i, j \in 1..Len(channel'[s]) : channel'[s][i] = channel'[s][j] => i = j
       /\ \A i, j \in 1..Len(queue'[s]) : queue'[s][i].demanded /\ queue'[s][j].demanded => i = j
  BY <1>1 DEF DInv, OnePlace
<1>13. Used' \subseteq Used \cup InHand(s)
  <2>1. \A d \in Demands : answer'[d] = answer[d] \/ (answer'[d] = frame[s] /\ frame[s].demanded)
    BY <1>0, <1>2 DEF DemandTypes
  <2> QED BY <2>1 DEF Used, InHand
<1>14. Held(s)' \subseteq Held(s) /\ Used' \subseteq Used \cup Held(s)
  BY <1>10, <1>13 DEF Held
<1>15. Held(s)' \cap Used' = {} BY <1>10, <1>11, <1>13 DEF Held
<1>16. CASE UNCHANGED <<answer, pending>>
  <2>1. UNCHANGED <<answer, demands, clean>> BY <1>1, <1>16
  <2> QED
    BY <1>1, <1>3, <1>4, <1>6, <1>7, <1>8, <1>9, <1>11, <1>12, <1>14, <1>15, <1>16, <2>1,
       AnswersStay, WorkMoves
<1>17. CASE frame[s].demanded /\ pending # 0 /\ pending' = 0
            /\ answer' = [answer EXCEPT ![pending] = frame[s]]
  <2>1. /\ pending \in Demands /\ answer'[pending] = frame[s]
        /\ \A d \in Demands : d # pending => answer'[d] = answer[d]
    BY <1>0, <1>5, <1>17 DEF DemandTypes
  <2>2. frame[s].of \in InHand(s) /\ InHand(s) \subseteq Held(s) BY <1>17 DEF InHand, Held
  <2>3. \A d \in Demands : answer[d] # NoFrame => answer[d].of \in Used BY DEF Used
  <2>4. frame[s].of \notin Used BY <1>11, <2>2
  <2>5. OneFrameOneMark'
    <3> SUFFICES ASSUME NEW d \in Demands, NEW e \in Demands, answer'[d] # NoFrame,
                        answer'[d] = answer'[e]
                 PROVE  d = e
      BY DEF OneFrameOneMark
    <3>1. CASE d # pending /\ e # pending BY <2>1, <3>1 DEF DInv, OneFrameOneMark
    <3>2. CASE d = pending /\ e # pending
      <4>1. answer[e] = frame[s] /\ answer[e] # NoFrame BY <2>1, <3>2
      <4> QED BY <2>3, <2>4, <4>1
    <3>3. CASE d # pending /\ e = pending
      <4>1. answer[d] = frame[s] /\ answer[d] # NoFrame BY <2>1, <3>3
      <4> QED BY <2>3, <2>4, <4>1
    <3> QED BY <3>1, <3>2, <3>3
  <2>6. frame[s].demanded /\ pending <= demands
    <3>1. pending <= demands BY <1>0, CaptureAssumption DEF DInv, GateIsHeld, DemandTypes
    <3> QED BY <1>17, <3>1
  <2>7. \A d \in Demands : answer'[d] # NoFrame => answer'[d].demanded /\ d <= demands
    BY <2>1, <2>6 DEF DInv, WorkIsKnown
  <2>8. \A d \in clean : answer'[d] # NoFrame => answer'[d].of = d
    <3> SUFFICES ASSUME NEW d \in clean, answer'[d] # NoFrame PROVE answer'[d].of = d
      OBVIOUS
    <3>1. d \in Demands BY <1>0 DEF DemandTypes
    <3>2. CASE d # pending BY <2>1, <3>1, <3>2 DEF DInv, CleanIsAlone
    <3>3. CASE d = pending
      <4>1. Held(s) \subseteq {pending} BY <3>3 DEF DInv, CleanIsAlone
      <4> QED BY <2>1, <2>2, <3>3, <4>1
    <3> QED BY <3>2, <3>3
  <2> QED
    BY <1>1, <1>3, <1>4, <1>6, <1>7, <1>8, <1>9, <1>11, <1>12, <1>14, <1>15, <1>17, <2>5, <2>7, <2>8,
       WorkMoves
<1> QED BY <1>2, <1>16, <1>17

\* A source that reports an error, and a task that ends, hold what they held.
LEMMA NothingMoves == ASSUME DInv, NEW s \in Sessions, SourceFails(s) \/ ExitSession(s) PROVE DInv'
PROOF
<1>0. ControlTypes /\ DemandTypes BY TypesOf DEF DInv
<1>1. /\ UNCHANGED <<call, gate, ack, demands, clean, pending, answer, queue, channel, frame, ocrUsable,
                     stopSent, lock, calls, tangled>>
      /\ session' = session \/ (session[s] = "exiting" /\ session' = [session EXCEPT ![s] = "ended"])
      /\ slot' \in {slot, None} /\ observed' \in {observed, "WorkerError"}
      /\ readiness' \in {readiness, "Error"} /\ client' \in {client, FALSE}
      /\ faults' = faults \/ (faults < MaxFaults /\ faults' = faults + 1)
  BY DEF SourceFails, ExitSession, SessionEnded, Fault, demandVars, loopVars, countVars
<1>2. ControlTypes'
  <2>1. faults' \in 0..MaxFaults BY <1>0, <1>1, CaptureAssumption DEF ControlTypes
  <2> QED BY ZenonT(40), <1>0, <1>1, <2>1 DEF ControlTypes
<1>3. DemandTypes' BY <1>0, <1>1 DEF DemandTypes
<1>4. Live \subseteq Live' BY <1>0, <1>1 DEF Live, ControlTypes
<1>5. DeadHoldNothing' /\ WorkIsKnown' /\ OnePlace' /\ OneFrameOneMark' /\ CleanIsAlone'
  BY <1>1, <1>4, PlacesStay
<1>6. TypeOK'
  <2>1. call' \in [Callers -> CallRange] BY <1>1, TypesOf DEF DInv
  <2> QED BY <1>2, <1>3, <2>1, TypesAfter
<1>7. DemandsFit' BY <1>1 DEF DInv, DemandsFit, Marking, Unregistered
<1>8. GateIsHeld' /\ SessionIsKnown' BY <1>1 DEF DInv, GateIsHeld, SessionIsKnown
<1>9. SentIsFresh'
  <2>1. Used' = Used /\ \A r \in Sessions : Held(r)' = Held(r)
    BY <1>1 DEF Used, Held, Asked, Captured, InHand
  <2> QED BY <1>1, <2>1 DEF DInv, SentIsFresh
<1> QED BY <1>5, <1>6, <1>7, <1>8, <1>9 DEF DInv

\* Init establishes DInv and every step keeps it.
LEMMA DemandInvariant == Spec => []DInv
PROOF
<1>1. Init => DInv
  <2> SUFFICES ASSUME Init PROVE DInv OBVIOUS
  <2>1. NoFrame \in Frame /\ 0 \in 0..MaxSessions /\ 0 \in 0..MaxDemands /\ 0 \in 0..MaxCalls
        /\ 0 \in 0..MaxFaults
    BY CaptureAssumption DEF NoFrame, Frame
  <2>2. Idle \in CallRange /\ Idle.pc = "idle" /\ Idle.op = "idle" BY <2>1 DEF Idle, CallRange, Ops, Pcs
  <2>3. call \in [Callers -> CallRange] /\ \A c \in Callers : call[c] = Idle BY <2>2 DEF Init
  <2>4. ControlTypes BY <2>1 DEF Init, ControlTypes
  <2>5. DemandTypes
    <3>1. \A s \in Sessions : Len(channel[s]) <= ChanCap BY CaptureAssumption DEF Init
    <3> QED BY <2>1, <3>1 DEF Init, DemandTypes
  <2>6. TypeOK BY <2>3, <2>4, <2>5, TypesOf
  <2>7. DemandsFit
    <3>1. Marking = {} /\ Unregistered = {} BY <2>2, <2>3 DEF Marking, Unregistered
    <3> QED BY <3>1, FS_EmptySet, CaptureAssumption DEF DemandsFit, Init
  <2>8. GateIsHeld /\ SessionIsKnown /\ SentIsFresh
    BY <2>2, <2>3 DEF Init, GateIsHeld, Gated, Registered, SessionIsKnown, SentIsFresh
  <2>9. DeadHoldNothing BY DEF Init, DeadHoldNothing
  <2>10. /\ \A s \in Sessions : Held(s) = {} /\ Asked(s) = {} /\ Captured(s) = {} /\ InHand(s) = {}
         /\ Used = {}
    BY DEF Init, Held, Asked, Captured, InHand, Used, NoFrame
  <2>11. WorkIsKnown BY <2>10 DEF Init, WorkIsKnown
  <2>12. OnePlace BY <2>10 DEF Init, OnePlace
  <2>13. OneFrameOneMark /\ CleanIsAlone BY DEF Init, OneFrameOneMark, CleanIsAlone
  <2> QED BY <2>6, <2>7, <2>8, <2>9, <2>11, <2>12, <2>13 DEF DInv
<1>2. DInv /\ [Next]_vars => DInv'
  <2> SUFFICES ASSUME DInv, [Next]_vars PROVE DInv' OBVIOUS
  <2>1. ASSUME NEW c \in Callers, CallerStep(c) PROVE DInv'
    <3>1. CASE DemandRegister(c)
      <4>1. CASE slot = None BY <3>1, <4>1, MarkKeeps
      <4>2. CASE slot # None BY <3>1, <4>2, RegisterKeeps
      <4> QED BY <4>1, <4>2
    <3>2. CASE DemandSend(c)
      <4>1. CASE Closed(call[c].on) BY <3>2, <4>1, MarkKeeps
      <4>2. CASE ~Closed(call[c].on) BY <3>2, <4>2, SendKeeps
      <4> QED BY <4>1, <4>2
    <3> QED BY <2>1, <3>1, <3>2, ControlKeeps, MarkKeeps DEF CallerStep
  <2>2. ASSUME NEW c \in Callers, NEW op \in {"start", "stop", "reload", "mark"}, Call(c, op)
        PROVE  DInv'
    BY <2>2, CallEnters
  <2>3. ASSUME NEW s \in Sessions, \/ LoopStep(s) \/ SourceCaptures(s) \/ LoopPanics(s)
                                   \/ SourceFails(s) \/ SourceShutsDown(s)
        PROVE  DInv'
    BY <2>3, SourceGone, CapturesKeeps, ServesKeeps, TakesKeeps, FrameDone, NothingMoves DEF LoopStep
  <2>4. CASE UNCHANGED vars
    <3>1. UNCHANGED <<slot, lock, readiness, observed, ocrUsable, session, queue, frame, stopSent,
                      channel, pending, gate, ack, answer, demands, clean, call, client, calls,
                      faults, tangled>>
      BY <2>4 DEF vars, controlVars, loopVars, demandVars, countVars
    <3>2. /\ Used' = Used
          /\ \A s \in Sessions : /\ Asked(s)' = Asked(s) /\ Captured(s)' = Captured(s)
                                 /\ InHand(s)' = InHand(s) /\ Held(s)' = Held(s)
      BY <3>1 DEF Used, Held, Asked, Captured, InHand
    <3>3. TypeOK' BY <3>1 DEF DInv, TypeOK
    <3>4. DemandsFit' BY <3>1 DEF DInv, DemandsFit, Marking, Unregistered
    <3>5. GateIsHeld' /\ SessionIsKnown' BY <3>1 DEF DInv, GateIsHeld, SessionIsKnown
    <3>6. DeadHoldNothing' BY <3>1 DEF DInv, DeadHoldNothing, Live
    <3>7. WorkIsKnown' /\ OneFrameOneMark' BY <3>1, <3>2 DEF DInv, WorkIsKnown, OneFrameOneMark
    <3>8. OnePlace' BY <3>1, <3>2 DEF DInv, OnePlace
    <3>9. SentIsFresh' /\ CleanIsAlone' BY <3>1, <3>2 DEF DInv, SentIsFresh, CleanIsAlone
    <3> QED BY <3>3, <3>4, <3>5, <3>6, <3>7, <3>8, <3>9 DEF DInv
  <2> QED BY <2>1, <2>2, <2>3, <2>4 DEF Next
<1> QED BY <1>1, <1>2, PTL DEF Spec

\* Every variable of the controller, the loop and the demands keeps to its
\* type, the channel to its capacity (lib.rs, capture_loop.rs).
THEOREM CaptureTypesOK == Spec => []TypeOK
PROOF BY DemandInvariant, PTL DEF DInv

\* No frame id answers two demands: a demand is served once and its frame is
\* handed over once (pending_demand of capture_now and process_frame).
THEOREM OneFrameForOneMark == Spec => []OneFrameOneMark
PROOF BY DemandInvariant, PTL DEF DInv

\* A demand made while nothing of an earlier one is left behind is answered
\* with the frame captured for it (capture_now, lib.rs; process_frame takes the
\* sender that is registered, whatever frame it is for).
THEOREM CleanDemandGetsItsFrame == Spec => []DemandGetsItsFrame
PROOF
<1>1. DInv => DemandGetsItsFrame
  <2> SUFFICES ASSUME DInv, NEW c \in Callers, call[c].demand \in clean,
                      answer[call[c].demand] # NoFrame
               PROVE  answer[call[c].demand] = [of |-> call[c].demand, demanded |-> TRUE]
    BY DEF DemandGetsItsFrame
  <2> DEFINE d == call[c].demand
  <2>1. d \in Demands /\ answer[d] \in Frame BY TypesOf DEF DInv, DemandTypes
  <2>2. answer[d].of = d BY DEF DInv, CleanIsAlone
  <2>3. answer[d].demanded = TRUE
    <3>1. answer[d].demanded BY <2>1 DEF DInv, WorkIsKnown
    <3> QED BY <2>1, <3>1 DEF Frame
  <2> QED BY <2>1, <2>2, <2>3 DEF Frame
<1> QED BY <1>1, DemandInvariant, PTL
=============================================================================
