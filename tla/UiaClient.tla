----------------------------- MODULE UiaClient -----------------------------
(***************************************************************************)
(* The accessibility side of text recognition: the composite provider of   *)
(* src-tauri/src/lib.rs (UiaWithOcrFallback), the client it spawns         *)
(* (crates/uia/src/lib.rs), the thread that walks the tree (worker.rs) and *)
(* the circuit breaker (breaker.rs), for the frames of one native app.     *)
(*                                                                         *)
(* A client is one uia-mta thread.  It is                                  *)
(*   unborn   not spawned                                                  *)
(*   live     serving requests                                             *)
(*   closing  told to shut down; the thread ends with its last Arc         *)
(*   gone     the thread has returned and released COM                     *)
(*   dead     the thread panicked, its provider is still referenced        *)
(* The tree walk itself is external: it ends well, in an error, over its   *)
(* budget, or not before the caller's hard timeout.                        *)
(***************************************************************************)
EXTENDS Naturals, Sequences, FiniteSets

CONSTANTS
    Recognizers,   \* concurrent recognize calls (a session and the one it replaces)
    Threshold,     \* BREAKER_CONSECUTIVE_BAD (3)
    Cooldown,      \* BREAKER_COOLDOWN_MS, in ticks
    MaxClients,    \* bound: clients spawned
    MaxSaves,      \* bound: settings saved
    MaxWalks,      \* bound: walks begun
    MaxTicks,      \* bound: the clock
    MaxPanics      \* bound: walks that kill their thread

ASSUME UiaAssumption ==
    /\ Threshold \in Nat \ {0} /\ Cooldown \in Nat \ {0}
    /\ MaxClients \in Nat /\ MaxSaves \in Nat /\ MaxWalks \in Nat /\ MaxTicks \in Nat /\ MaxPanics \in Nat
    /\ IsFiniteSet(Recognizers) /\ Recognizers # {}
    /\ "none" \notin Recognizers /\ "free" \notin Recognizers

VARIABLES
    config,       \* the live UIA settings: enabled, and a version of the rest
    uiaSlot,      \* the connected client, or 0
    uiaClient,    \* Clients -> its thread, the settings it was spawned with, its request
    respawnGate,  \* the recognize holding respawn_gate, or "free"
    spawnFailed,  \* spawn_failed
    recognize,    \* Recognizers -> the call in progress
    breaker,      \* PerApp of the app
    clock,        \* ticks
    walks,        \* recognize calls that wanted a walk
    panics,       \* walks that killed their thread
    raced,        \* history: a save came between a call's snapshot and its spawn
    badAt         \* history: when the bad walks since the last good one began

uiaVars == <<config, uiaSlot, uiaClient, respawnGate, spawnFailed, recognize, breaker,
             clock, walks, panics, raced, badAt>>

Clients == 1..MaxClients
Unborn == [state |-> "unborn", version |-> 0, queued |-> "none", running |-> "none",
           inFlight |-> FALSE]
Resting == [pc |-> "idle", client |-> 0, at |-> 0, version |-> 0]

\* The recognize calls that hold an Arc of client k.
Holders(k) == {r \in Recognizers : recognize[r].client = k}

IsOpen == clock < breaker.openUntil

-----------------------------------------------------------------------------
(* recognize *)

\* The settings are snapshotted; a closed breaker lets the frame through.
Begin(r) ==
    /\ recognize[r] = Resting
    /\ walks < MaxWalks
    /\ config.enabled
    /\ ~IsOpen
    /\ recognize' = [recognize EXCEPT ![r] = [Resting EXCEPT !.pc = "slot", !.at = clock,
                                                             !.version = config.version]]
    /\ walks' = walks + 1
    /\ UNCHANGED <<config, uiaSlot, uiaClient, respawnGate, spawnFailed, breaker, clock,
                   panics, raced, badAt>>

\* get_or_spawn_uia reads the slot: a client is there, a spawn has failed
\* before, or the call queues at the gate.
ReadSlot(r) ==
    /\ recognize[r].pc = "slot"
    /\ recognize' = [recognize EXCEPT ![r] =
            IF uiaSlot # 0 THEN [@ EXCEPT !.pc = "ask", !.client = uiaSlot]
            ELSE IF spawnFailed THEN Resting
            ELSE [@ EXCEPT !.pc = "gate"]]
    /\ UNCHANGED <<config, uiaSlot, uiaClient, respawnGate, spawnFailed, breaker, clock,
                   walks, panics, raced, badAt>>

\* Mutant of EnterGate: the slot is not read again under the gate.
EnterGateUnchecked(r) ==
    /\ recognize[r].pc = "gate"
    /\ respawnGate = "free"
    /\ respawnGate' = r
    /\ recognize' = [recognize EXCEPT ![r].pc = "spawn", ![r].version = config.version]
    /\ UNCHANGED <<config, uiaSlot, uiaClient, spawnFailed, breaker, clock, walks, panics,
                   raced, badAt>>

\* Mutant of EnterGate: the client is spawned with the settings recognize
\* snapshotted when it began.
EnterGateSnapshot(r) ==
    /\ recognize[r].pc = "gate"
    /\ respawnGate = "free"
    /\ IF uiaSlot = 0 /\ ~spawnFailed
         THEN /\ respawnGate' = r
              /\ recognize' = [recognize EXCEPT ![r].pc = "spawn"]
         ELSE /\ recognize' = [recognize EXCEPT ![r] =
                      IF uiaSlot # 0 THEN [@ EXCEPT !.pc = "ask", !.client = uiaSlot] ELSE Resting]
              /\ UNCHANGED respawnGate
    /\ UNCHANGED <<config, uiaSlot, uiaClient, spawnFailed, breaker, clock, walks, panics,
                   raced, badAt>>

\* Under the gate both are read again, and the settings the client will have.
EnterGate(r) ==
    /\ recognize[r].pc = "gate"
    /\ respawnGate = "free"
    /\ IF uiaSlot = 0 /\ ~spawnFailed
         THEN /\ respawnGate' = r
              /\ recognize' = [recognize EXCEPT ![r].pc = "spawn", ![r].version = config.version]
         ELSE /\ recognize' = [recognize EXCEPT ![r] =
                      IF uiaSlot # 0 THEN [@ EXCEPT !.pc = "ask", !.client = uiaSlot] ELSE Resting]
              /\ UNCHANGED respawnGate
    /\ UNCHANGED <<config, uiaSlot, uiaClient, spawnFailed, breaker, clock, walks, panics,
                   raced, badAt>>

\* The spawn comes back with a client.
Spawned(r) ==
    /\ recognize[r].pc = "spawn"
    /\ \E k \in Clients :
         /\ uiaClient[k] = Unborn /\ \A j \in Clients : j < k => uiaClient[j] # Unborn
         /\ uiaClient' = [uiaClient EXCEPT ![k].state = "live", ![k].version = recognize[r].version]
         /\ uiaSlot' = k
         /\ recognize' = [recognize EXCEPT ![r].pc = "ask", ![r].client = k]
    /\ respawnGate' = "free"
    /\ UNCHANGED <<config, spawnFailed, breaker, clock, walks, panics, raced, badAt>>

\* Or fails: latched, unless only the spawning task died.
SpawnFails(r) ==
    /\ recognize[r].pc = "spawn"
    /\ spawnFailed' \in {TRUE, spawnFailed}
    /\ recognize' = [recognize EXCEPT ![r] = Resting]
    /\ respawnGate' = "free"
    /\ UNCHANGED <<config, uiaSlot, uiaClient, breaker, clock, walks, panics, raced, badAt>>

\* Mutant of Recorded: an over-budget walk that produced text is a good one.
RecordedGenerous(signal, now) == [breaker EXCEPT !.bad = 0]

\* AppBreaker::record, with the time recognize read when it began.
Recorded(signal, now) ==
    LET lapsed == breaker.openUntil # 0 /\ now >= breaker.openUntil
        base == IF lapsed THEN [bad |-> 0, openUntil |-> 0] ELSE breaker
    IN CASE signal = "neutral" -> base
         [] signal = "good" -> [base EXCEPT !.bad = 0]
         [] signal = "bad" -> IF base.bad + 1 >= Threshold
                              THEN [bad |-> 0, openUntil |-> now + Cooldown]
                              ELSE [base EXCEPT !.bad = @ + 1]

\* recognize learns how its walk ended, tells the breaker and lets go of the
\* client.
Heard(r, signal) ==
    /\ breaker' = Recorded(signal, recognize[r].at)
    /\ badAt' = CASE signal = "neutral" -> badAt
                  [] signal = "good" -> <<>>
                  [] signal = "bad" -> Append(badAt, recognize[r].at)
    /\ recognize' = [recognize EXCEPT ![r] = Resting]
    /\ UNCHANGED <<config, uiaSlot, respawnGate, spawnFailed, clock, walks, raced>>

\* recognize_detailed: busy while a walk is in flight, while a request is
\* queued, or with the thread gone (the frame goes to OCR); otherwise try_send.
Ask(r) ==
    LET k == recognize[r].client
        busy == uiaClient[k].inFlight \/ uiaClient[k].queued # "none" \/ uiaClient[k].state = "dead"
    IN /\ recognize[r].pc = "ask"
       /\ \/ /\ busy
             /\ Heard(r, "neutral")
             /\ UNCHANGED uiaClient
          \/ /\ ~busy
             /\ uiaClient' = [uiaClient EXCEPT ![k].queued = r]
             /\ recognize' = [recognize EXCEPT ![r].pc = "reply"]
             /\ UNCHANGED <<config, uiaSlot, respawnGate, spawnFailed, breaker, clock, walks,
                            raced, badAt>>
       /\ UNCHANGED panics

\* The hard timeout fires: the caller goes on, its reply will find nobody.
HardTimeout(r) ==
    /\ recognize[r].pc = "reply"
    /\ Heard(r, "bad")
    /\ UNCHANGED <<uiaClient, panics>>

-----------------------------------------------------------------------------
(* worker_main of client k *)

\* The caller of request r still waits for it.
Waiting(k, r) == recognize[r].pc = "reply" /\ recognize[r].client = k /\ uiaClient[k].queued # r

\* The request in hand is answered; nobody is told when its caller has gone.
Reply(k, signal) ==
    LET r == uiaClient[k].running
    IN /\ uiaClient' = [uiaClient EXCEPT ![k].running = "none", ![k].inFlight = FALSE]
       /\ \/ Waiting(k, r) /\ Heard(r, signal)
          \/ /\ ~Waiting(k, r)
             /\ UNCHANGED <<config, uiaSlot, respawnGate, spawnFailed, recognize, breaker, clock,
                            walks, raced, badAt>>

\* The thread takes the request.
WorkerTakes(k) ==
    /\ uiaClient[k].state \in {"live", "closing"}
    /\ uiaClient[k].queued # "none" /\ uiaClient[k].running = "none"
    /\ uiaClient' = [uiaClient EXCEPT ![k].running = uiaClient[k].queued, ![k].queued = "none"]
    /\ UNCHANGED <<config, uiaSlot, respawnGate, spawnFailed, recognize, breaker, clock,
                   walks, panics, raced, badAt>>

\* It is in flight, or refused without touching the app when the client was
\* told to shut down.
WalkStarts(k) ==
    /\ uiaClient[k].running # "none" /\ ~uiaClient[k].inFlight
    /\ \/ /\ uiaClient[k].state = "closing"
          /\ Reply(k, "neutral")
       \/ /\ uiaClient[k].state = "live"
          /\ uiaClient' = [uiaClient EXCEPT ![k].inFlight = TRUE]
          /\ UNCHANGED <<config, uiaSlot, respawnGate, spawnFailed, recognize, breaker, clock,
                         walks, raced, badAt>>
    /\ UNCHANGED panics

\* The walk ends: with text in budget (good), over budget (bad), or in a quick
\* error (neutral).
WalkEnds(k, signal) ==
    /\ uiaClient[k].inFlight
    /\ Reply(k, signal)
    /\ UNCHANGED panics

\* The walk panics: the thread is gone, its callers hear that the reply was
\* dropped.
WalkPanics(k) ==
    LET heard == {r \in Recognizers : recognize[r].pc = "reply" /\ recognize[r].client = k}
        lapsed == {r \in heard : Recorded("neutral", recognize[r].at) # breaker}
    IN /\ uiaClient[k].inFlight
       /\ panics < MaxPanics /\ panics' = panics + 1
       /\ uiaClient' = [uiaClient EXCEPT ![k].running = "none", ![k].inFlight = FALSE, ![k].queued = "none",
                            ![k].state = IF @ = "live" THEN "dead" ELSE "gone"]
       /\ recognize' = [r \in Recognizers |-> IF r \in heard THEN Resting ELSE recognize[r]]
       /\ breaker' = IF lapsed = {} THEN breaker
                     ELSE Recorded("neutral", recognize[CHOOSE r \in lapsed : TRUE].at)
       /\ UNCHANGED <<config, uiaSlot, respawnGate, spawnFailed, clock, walks, raced, badAt>>

\* The last Arc is dropped: the channel closes and the thread returns.
WorkerExits(k) ==
    /\ uiaClient[k].state = "closing" /\ Holders(k) = {}
    /\ uiaClient[k].queued = "none" /\ uiaClient[k].running = "none"
    /\ uiaClient' = [uiaClient EXCEPT ![k].state = "gone"]
    /\ UNCHANGED <<config, uiaSlot, respawnGate, spawnFailed, recognize, breaker, clock,
                   walks, panics, raced, badAt>>

-----------------------------------------------------------------------------
(* teardown *)

\* The slot is emptied, the client told to stop, and our Arc dropped.
Teardown ==
    /\ uiaSlot' = 0
    /\ uiaClient' = [k \in Clients |->
            IF k # uiaSlot THEN uiaClient[k]
            ELSE [uiaClient[k] EXCEPT !.state = IF @ = "dead" THEN "gone" ELSE "closing"]]

\* A call that will yet put a client into the slot: with the settings it has
\* read, or though UIA is off by then (only the budget is read again).
Spawning == \E r \in Recognizers : recognize[r].pc = "spawn"
Spawns == \E r \in Recognizers : recognize[r].pc \in {"slot", "gate", "spawn"}

\* apply_settings: changed settings replace the old ones, lift the failure
\* latch and tear the client down.
ApplySettings ==
    /\ config.version < MaxSaves
    /\ \E on \in BOOLEAN : config' = [enabled |-> on, version |-> config.version + 1]
    /\ spawnFailed' = FALSE
    /\ Teardown
    /\ raced' = (Spawning \/ (~config'.enabled /\ Spawns))
    /\ UNCHANGED <<respawnGate, recognize, breaker, clock, walks, panics, badAt>>

\* on_capture_stopped
CaptureStopped ==
    /\ Teardown
    /\ raced' = (raced /\ Spawns)
    /\ UNCHANGED <<config, respawnGate, spawnFailed, recognize, breaker, clock, walks, panics,
                   badAt>>

UiaTick ==
    /\ clock < MaxTicks
    /\ clock' = clock + 1
    /\ UNCHANGED <<config, uiaSlot, uiaClient, respawnGate, spawnFailed, recognize, breaker,
                   walks, panics, raced, badAt>>

-----------------------------------------------------------------------------
UiaInit ==
    /\ config = [enabled |-> TRUE, version |-> 0]
    /\ uiaSlot = 0
    /\ uiaClient = [k \in Clients |-> Unborn]
    /\ respawnGate = "free" /\ spawnFailed = FALSE
    /\ recognize = [r \in Recognizers |-> Resting]
    /\ breaker = [bad |-> 0, openUntil |-> 0]
    /\ clock = 0 /\ walks = 0 /\ panics = 0 /\ raced = FALSE /\ badAt = <<>>

UiaNext ==
    \/ \E r \in Recognizers : \/ Begin(r) \/ ReadSlot(r) \/ EnterGate(r) \/ Spawned(r)
                              \/ SpawnFails(r) \/ Ask(r) \/ HardTimeout(r)
    \/ \E k \in Clients : \/ WorkerTakes(k) \/ WalkStarts(k) \/ WalkPanics(k) \/ WorkerExits(k)
                          \/ \E signal \in {"good", "bad", "neutral"} : WalkEnds(k, signal)
    \/ ApplySettings \/ CaptureStopped \/ UiaTick

UiaSpec == UiaInit /\ [][UiaNext]_uiaVars

-----------------------------------------------------------------------------
(* Properties *)

UiaTypeOK ==
    /\ config \in [enabled : BOOLEAN, version : 0..MaxSaves]
    /\ uiaSlot \in 0..MaxClients
    /\ uiaClient \in [Clients -> [state : {"unborn", "live", "closing", "gone", "dead"},
                                  version : 0..MaxSaves, queued : Recognizers \cup {"none"},
                                  running : Recognizers \cup {"none"}, inFlight : BOOLEAN]]
    /\ respawnGate \in Recognizers \cup {"free"} /\ spawnFailed \in BOOLEAN
    /\ recognize \in [Recognizers -> [pc : {"idle", "slot", "gate", "spawn", "ask", "reply"},
                          client : 0..MaxClients, at : 0..MaxTicks, version : 0..MaxSaves]]
    /\ breaker \in [bad : 0..Threshold, openUntil : 0..(MaxTicks + Cooldown)]
    /\ clock \in 0..MaxTicks /\ walks \in 0..MaxWalks /\ panics \in 0..MaxPanics
    /\ raced \in BOOLEAN /\ badAt \in Seq(0..MaxTicks)

\* At most one accessibility client is connected and not told to leave, and it
\* is the one teardown can reach: a burst of frames after a teardown spawns
\* exactly one (src-tauri/src/lib.rs:2584).
OneClient == \A k \in Clients : uiaClient[k].state = "live" => uiaSlot = k

\* Every UIA setting hot-applies: the connected client was spawned with the
\* settings in force, and none is connected when they turn UIA off, unless the
\* save fell into the spawn itself or turned UIA off under a recognize that had
\* passed its own check of it (src-tauri/src/lib.rs:2602, 2695); such a client
\* stays until the next save or stop.
ClientHasLiveSettings ==
    uiaSlot # 0 /\ ~raced => config = [enabled |-> TRUE, version |-> uiaClient[uiaSlot].version]

\* An app that answers slowly is walked at most Threshold times in a Cooldown, and
\* once more for every other call that was under way when the breaker opened and
\* for those that were when it opened the time before (fewer than Threshold of
\* these, or it opens again): whatever calls overlap and however late they are
\* heard, the breaker's opening is not lost or shortened.
SlowAppIsLeftAlone ==
    LET calls == Cardinality(Recognizers)
        burst == Threshold + calls + (IF calls < Threshold THEN calls ELSE Threshold) - 1
    IN \A i \in 1..Len(badAt) : i + burst - 1 <= Len(badAt) =>
           \E j, m \in i..(i + burst - 1) : badAt[m] >= badAt[j] + Cooldown
=============================================================================
